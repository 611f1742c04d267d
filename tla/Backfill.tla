------------------------------ MODULE Backfill ------------------------------
(***************************************************************************)
(* The backfill command (ingester/backfill.py): scan a fixed range of      *)
(* blocks chunk by chunk into a database that may already hold what an     *)
(* earlier run of the service ingested, surviving failures by resuming.    *)
(* It runs alone on the database, without a resolver; the operator may     *)
(* kill it and run it again.                                               *)
(***************************************************************************)
EXTENDS BlockRange

CONSTANTS
    First, Last,   \* start and head: the range asked for
    ChunkSize,     \* --chunk-size
    Priors         \* the block ranges <<o, c>> an earlier run may have covered

ASSUME BackfillAssumption ==
    /\ First \in Block /\ Last \in Block
    /\ ChunkSize \in Nat \ {0}
    /\ Priors \subseteq Block \X Block
    /\ UseResolver = FALSE

VARIABLE cur   \* the next block to scan

backfillVars == <<raw, act, cursor, pc, n, end, todo, receipt, rawBatch, actBatch,
                  known, busy, retained, faults, cur>>

(* "down": not running; "scan": at the top of a loop; "done": finished.    *)
BackfillPC == {"down", "scan", "done"}

BackfillTypeOK ==
    /\ StorageTypeOK
    /\ RangeTypeOK
    /\ pc \in BackfillPC \cup RangePC
    /\ cur \in 0 .. MaxBlock + 1

(* The rows an undisturbed scan of block b stores. *)
ScannedRaw(b) == [t \in {u \in Tx : BlockOf[u] \in b} |-> Status[t]]
ScannedAct(b) ==
    [k \in {m \in ActKey : BlockOf[m[1]] \in b} |->
        [kami |-> Action(k).kami, amount |-> MusuAmount(Action(k), k[1]),
         status |-> Status[k[1]]]]

(* A database without a cursor, or one an earlier run left at block c      *)
(* having begun at block o.                                                *)
BackfillInit ==
    /\ \/ StorageInit
       \/ \E p \in Priors :
            /\ raw = ScannedRaw(p[1] .. p[2])
            /\ act = ScannedAct(p[1] .. p[2])
            /\ cursor = p[2]
    /\ RangeInit
    /\ pc = "down"
    /\ cur = 0

-----------------------------------------------------------------------------
Begin ==
    /\ pc = "down"
    /\ cur' = First
    /\ pc' = "scan"
    /\ UNCHANGED <<n, end, todo, receipt, rawBatch, actBatch, known, busy, envVars, dbVars>>

(* MUTANTS: the chunk is not clamped to the range; the next chunk begins   *)
(* at the last block of this one; a chunk that raised is skipped.          *)
LastOfChunkUnclamped == cur + ChunkSize - 1

ChunkReturnedAtEnd ==
    /\ pc = "returned"
    /\ cur' = end
    /\ pc' = "scan"
    /\ UNCHANGED <<n, end, todo, receipt, rawBatch, actBatch, known, busy, envVars, dbVars>>

ResumeBehindChunk == end + 1

LastOfChunk == IF cur + ChunkSize - 1 < Last THEN cur + ChunkSize - 1 ELSE Last

ScanChunk ==
    /\ pc = "scan"
    /\ cur <= Last
    /\ StartRange(cur, LastOfChunk)
    /\ UNCHANGED <<envVars, dbVars, cur>>

ChunkReturned ==
    /\ pc = "returned"
    /\ cur' = end + 1
    /\ pc' = "scan"
    /\ UNCHANGED <<n, end, todo, receipt, rawBatch, actBatch, known, busy, envVars, dbVars>>

(* After an exception: where the database's cursor is past cur, go on      *)
(* behind it.                                                              *)
ResumeAt == IF cursor # None /\ cursor + 1 > cur THEN cursor + 1 ELSE cur

ChunkRaised ==
    /\ pc = "raised"
    /\ cur' = ResumeAt
    /\ pc' = "scan"
    /\ UNCHANGED <<n, end, todo, receipt, rawBatch, actBatch, known, busy, envVars, dbVars>>

Finish ==
    /\ pc = "scan"
    /\ cur > Last
    /\ pc' = "done"
    /\ UNCHANGED <<n, end, todo, receipt, rawBatch, actBatch, known, busy, envVars,
                   dbVars, cur>>

(* Killed, from outside or by an exception in the handler itself.          *)
Kill ==
    /\ pc \notin {"down", "done"}
    /\ Fault
    /\ pc' = "down"
    /\ DropLocals
    /\ n' = 0 /\ end' = 0 /\ cur' = 0
    /\ UNCHANGED <<known, retained, dbVars>>

(* The RPC node prunes a block while the backfill runs. *)
NodeForgets ==
    /\ retained < Last
    /\ retained' = retained + 1
    /\ UNCHANGED <<rangeVars, faults, dbVars, cur>>

BackfillStep ==
    \/ ScanChunk
    \/ RangeStep /\ UNCHANGED cur
    \/ ChunkReturned
    \/ ChunkRaised
    \/ Finish

BackfillNext ==
    \/ Begin
    \/ BackfillStep
    \/ RangeFault /\ UNCHANGED cur
    \/ Kill
    \/ NodeForgets

BackfillSpec == BackfillInit /\ [][BackfillNext]_backfillVars
FairBackfill == BackfillSpec /\ WF_backfillVars(BackfillStep)

-----------------------------------------------------------------------------
(* The backfill skips nothing: whatever failed on the way, every block of  *)
(* the range before the one it scans next is completely stored.            *)
SkipsNothing ==
    pc # "down" => \A b \in First .. cur - 1 : b <= Last => Stored(b)

(* A run that is not killed ends, after any finite number of exceptions,   *)
(* unless the node prunes the block it stands at.                          *)
Finishes ==
    pc = "scan" ~> (pc \in {"done", "down"} \/ cur < retained)
=============================================================================

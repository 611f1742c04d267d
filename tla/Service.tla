------------------------------ MODULE Service ------------------------------
(***************************************************************************)
(* The deployed service (ingester/serve.py): the poller thread, which      *)
(* drives process_block_range along the chain, the prune thread beside it, *)
(* and the life of the process around them.  The process may end between   *)
(* any two steps -- a crash, a kill, or a shutdown whose 30 s join of the  *)
(* poller ran out -- and systemd starts it again.                          *)
(***************************************************************************)
EXTENDS BlockRange, FiniteSets

CONSTANT MaxCatchup   \* MAX_CATCHUP: blocks of one range at most

ASSUME CatchupAssumption == MaxCatchup \in Nat \ {0}

VARIABLES
    next,      \* next_block of the poller thread
    head,      \* the last block of the chain so far
    expired,   \* the first block inside the retention window, by the clock
    origin     \* history: the first block a cursor was set for, 0 before

vars == <<raw, act, cursor, pc, n, end, todo, receipt, rawBatch, actBatch,
          known, busy, retained, faults, next, head, expired, origin>>

(* "down": no process; "start": the poller thread is about to read its     *)
(* cursor; "loop": at the top of its loop; "dead": the thread has ended    *)
(* while the process serves on.                                            *)
ServicePC == {"down", "start", "loop", "dead"}

TypeOK ==
    /\ StorageTypeOK
    /\ RangeTypeOK
    /\ pc \in ServicePC \cup RangePC
    /\ next \in 0 .. MaxBlock + 1
    /\ head \in Block
    /\ expired \in 1 .. head
    /\ origin \in 0 .. MaxBlock

Init ==
    /\ StorageInit
    /\ RangeInit
    /\ pc = "down"
    /\ next = 0
    /\ head = 1
    /\ expired = 1
    /\ origin = 0

-----------------------------------------------------------------------------
(* The process starts: bootstrap_from_db learns the kamis of all stored    *)
(* rows, then the threads are started.                                     *)
StoredKamis == {act[k].kami : k \in DOMAIN act} \ {None}

Boot ==
    /\ pc = "down"
    /\ known' = IF UseResolver THEN StoredKamis ELSE {}
    /\ pc' = "start"
    /\ UNCHANGED <<n, end, todo, receipt, rawBatch, actBatch, busy, envVars,
                   dbVars, next, head, expired, origin>>

(* MUTANT: the poller begins at the head whatever the cursor says.         *)
ReadCursorAtHead ==
    /\ pc = "start"
    /\ next' = head
    /\ pc' = "loop"
    /\ UNCHANGED <<n, end, todo, receipt, rawBatch, actBatch, known, busy, envVars,
                   dbVars, head, expired, origin>>

(* The poller thread begins after its cursor or, without one, at the head. *)
ReadCursor ==
    /\ pc = "start"
    /\ next' = IF cursor = None THEN head ELSE cursor + 1
    /\ pc' = "loop"
    /\ UNCHANGED <<n, end, todo, receipt, rawBatch, actBatch, known, busy, envVars,
                   dbVars, head, expired, origin>>

(* Both reads stand outside the loop's try blocks: if one raises, the      *)
(* thread ends.                                                            *)
DieAtStart ==
    /\ pc = "start"
    /\ Fault
    /\ pc' = "dead"
    /\ UNCHANGED <<n, end, todo, receipt, rawBatch, actBatch, known, busy,
                   retained, dbVars, next, head, expired, origin>>

(* MUTANTS: the range is not clamped to the head; the head itself is never *)
(* reached (>= for >); a range that raised is skipped.                     *)
LastOfRangeUnclamped == next + MaxCatchup - 1

PollBelowHead ==
    /\ pc = "loop"
    /\ next < head
    /\ StartRange(next, IF next + MaxCatchup - 1 < head THEN next + MaxCatchup - 1 ELSE head)
    /\ UNCHANGED <<envVars, dbVars, next, head, expired, origin>>

RangeRaisedSkips ==
    /\ pc = "raised"
    /\ next' = end + 1
    /\ pc' = "loop"
    /\ UNCHANGED <<n, end, todo, receipt, rawBatch, actBatch, known, busy, envVars,
                   dbVars, head, expired, origin>>

(* One pass of the loop that finds blocks to scan.  A pass that finds none *)
(* or whose block_number raised only waits.                                *)
LastOfRange == IF next + MaxCatchup - 1 < head THEN next + MaxCatchup - 1 ELSE head

Poll ==
    /\ pc = "loop"
    /\ next <= head
    /\ StartRange(next, LastOfRange)
    /\ UNCHANGED <<envVars, dbVars, next, head, expired, origin>>

(* process_block_range came back, or raised: then the same range again.    *)
RangeReturned ==
    /\ pc = "returned"
    /\ next' = end + 1
    /\ pc' = "loop"
    /\ UNCHANGED <<n, end, todo, receipt, rawBatch, actBatch, known, busy, envVars,
                   dbVars, head, expired, origin>>

RangeRaised ==
    /\ pc = "raised"
    /\ pc' = "loop"
    /\ UNCHANGED <<n, end, todo, receipt, rawBatch, actBatch, known, busy, envVars,
                   dbVars, next, head, expired, origin>>

(* A step inside process_block_range; origin records the first commit.     *)
InRange(A) ==
    /\ A
    /\ origin' = IF cursor = None /\ cursor' # None THEN cursor' ELSE origin
    /\ UNCHANGED <<next, head, expired>>

(* The process ends; memory is gone, what was committed stays.             *)
Crash ==
    /\ pc # "down"
    /\ Fault
    /\ pc' = "down"
    /\ DropLocals
    /\ known' = {}
    /\ n' = 0 /\ end' = 0 /\ next' = 0
    /\ UNCHANGED <<retained, dbVars, head, expired, origin>>

-----------------------------------------------------------------------------
(* The prune thread's sweep, or the prune command while the service is     *)
(* down.  It waits for Storage.lock.  A sweep that fails rolls back.       *)
Prune ==
    /\ ~busy
    /\ PruneOlderThan(expired)
    /\ UNCHANGED <<rangeVars, envVars, next, head, expired, origin>>

(* The chain grows, and time passes: a block leaves the window.  The head  *)
(* itself is recent.                                                       *)
NewBlock ==
    /\ head < MaxBlock
    /\ head' = head + 1
    /\ UNCHANGED <<rangeVars, envVars, dbVars, next, expired, origin>>

TimePasses ==
    /\ expired < head
    /\ expired' = expired + 1
    /\ UNCHANGED <<rangeVars, envVars, dbVars, next, head, origin>>

(* The RPC node prunes a block. *)
NodePrunes ==
    /\ retained < head
    /\ retained' = retained + 1
    /\ UNCHANGED <<rangeVars, faults, dbVars, next, head, expired, origin>>

(* What the process does by itself. *)
PollerStep ==
    \/ Boot
    \/ ReadCursor
    \/ Poll
    \/ InRange(RangeStep)
    \/ RangeReturned
    \/ RangeRaised

Next ==
    \/ PollerStep
    \/ InRange(RangeFault)
    \/ DieAtStart
    \/ Crash
    \/ Prune
    \/ NewBlock
    \/ TimePasses
    \/ NodePrunes

Spec == Init /\ [][Next]_vars

(* Threads run, the prune interval elapses, systemd restarts the process.  *)
FairSpec == Spec /\ WF_vars(PollerStep) /\ WF_vars(Prune)

-----------------------------------------------------------------------------
(* The rows of raw_tx and kami_action as rows of the ledger: <<t, 0>> is   *)
(* the raw_tx row of t, <<t, j>> its j-th action row.                      *)
RowsOf(t)  == {<<t, 0>>} \cup Keys(t)
AllRows    == UNION {RowsOf(t) : t \in Tx}
StoredRows == {<<t, 0>> : t \in DOMAIN raw} \cup DOMAIN act

L == INSTANCE Ledger WITH
        Row        <- AllRows,
        BlockOfRow <- [r \in AllRows |-> BlockOf[r[1]]],
        LastBlock  <- MaxBlock,
        Unset      <- None,
        stored     <- StoredRows,
        mark       <- cursor,
        origin     <- origin,
        cutoff     <- expired

(* Every row of block b that is inside the window is stored. *)
BlockStored(b) ==
    b >= expired => Stored(b)

(* No data loss: "inclusive; next scan starts at +1" is safe, because the  *)
(* cursor, wherever retries, crashes and restarts have moved it, stands    *)
(* after complete blocks only, back to the first block ever committed.     *)
CursorCovers ==
    cursor # None => \A b \in origin .. cursor : BlockStored(b)

(* Where the poller stands against the cursor: it never stands more than   *)
(* one block beyond it, nor before the first block ever committed.         *)
NoJump ==
    /\ pc \in Scanning => next <= n /\ n <= end
    /\ pc = "returned" => next <= end /\ cursor = end
    /\ pc \in {"loop"} \cup RangePC => next >= 1
    /\ cursor = None => origin = 0 /\ (pc \in Scanning => n = next)
    /\ cursor # None =>
         /\ 1 <= origin /\ origin <= cursor
         /\ pc \in {"loop"} \cup RangePC => origin <= next
         /\ pc \in {"loop", "raised"} => next <= cursor + 1
         /\ pc \in Scanning => n <= cursor + 1

(* The progress of a range, whatever interrupts it: the poller resumes     *)
(* where the cursor lets it, and every row of the block in flight is in    *)
(* one of the batches or stored, a prune sweep between two upserts         *)
(* included.                                                               *)
NothingInFlightLost ==
    NoJump /\ Emptied /\ InFlight(expired) /\ RawGoesFirst(expired)

(* kami_action.tx_hash refers to raw_tx: an action row may lose its raw_tx *)
(* row (upsert_raw_txs, a prune sweep, upsert_actions) only once both are  *)
(* outside the retention window.                                           *)
OrphansAreExpired ==
    \A k \in DOMAIN act : k[1] \notin DOMAIN raw => BlockOf[k[1]] < expired

(* The same reference as the schema states it: every action row has its    *)
(* raw_tx row, always.                                                     *)
ActionHasRawTx == \A k \in DOMAIN act : k[1] \in DOMAIN raw

(* Ingestion never changes a row it has stored, however often a block is   *)
(* scanned again and whatever its receipts say then; and no row disappears *)
(* while it is inside the window.                                          *)
StoredRowsStable ==
    [][/\ \A t \in DOMAIN raw :
            IF t \in DOMAIN raw' THEN raw'[t] = raw[t] ELSE BlockOf[t] < expired
       /\ \A k \in DOMAIN act :
            IF k \in DOMAIN act' THEN act'[k] = act[k] ELSE BlockOf[k[1]] < expired]_vars

(* A stop or collect row is left without kami_id only if no row stored     *)
(* from its own or an earlier block of the window names the kami: neither  *)
(* the order of a block's rows, nor a retry, a restart or a prune sweep    *)
(* before it loses the mapping.  (A block that expired, was pruned and is  *)
(* scanned again may be stitched by what was learned since.)               *)
Unresolved(k) ==
    /\ act[k].kami = None
    /\ Action(k).type \in {"harvest_stop", "harvest_collect"}
    /\ Action(k).harvest # None

UnresolvedMeansUnseen ==
    \A k, m \in DOMAIN act :
        Unresolved(k) /\ act[m].kami = Action(k).harvest /\ BlockOf[m[1]] >= expired
            => BlockOf[m[1]] > BlockOf[k[1]]

(* The amount of a payout row was read from the receipt of its own         *)
(* transaction.                                                            *)
AmountFromOwnReceipt ==
    \A k \in DOMAIN act : act[k].amount \in {None, k[1]}

(* The poller is about to scan a block the node no longer has: it retries  *)
(* that range for as long as the process lives.                            *)
Stuck == pc \notin {"down", "start", "dead"} /\ next < retained

(* The poller reaches every block of the chain, after any finite number of *)
(* faults, unless its thread died before the loop or its next block has    *)
(* left the node's retention.                                              *)
CatchesUp ==
    \A b \in Block :
        head >= b ~> (pc = "dead" \/ Stuck \/ (cursor # None /\ cursor >= b))

(* What has left the window is eventually deleted, orphans included.       *)
ExpiredGone ==
    \A t \in Tx :
        BlockOf[t] < expired ~> RowsOf(t) \cap StoredRows = {}

(* The service implements the ledger. *)
ImplementsLedger == L!Spec
=============================================================================

------------------------------ MODULE Harvests ------------------------------
(***************************************************************************)
(* What the database says about harvests: the rows of harvest_start, stop, *)
(* collect and liquidate, written by the ingester block by block, repaired *)
(* by migration 002 and the scripts in scripts/, pruned, and read through  *)
(* the view kami_current_location (migrations/013).  Receipts that fail    *)
(* and crashes inside of a block are in BlockRange.                        *)
(***************************************************************************)
EXTENDS Decode

CONSTANTS
    Calls,      \* the calls accounts make
    MaxTx       \* bound: transactions

(* A call names a kami or a list of kamis, as its first argument is one    *)
(* value or an array, and the node or the killer after it.                 *)
WellTyped(call) ==
    /\ call.to \in System
    /\ call.vals[1] \in Kami \/ call.vals[1] \in Seq(Kami)
    /\ call.to = "start" => call.vals[2] \in Node
    /\ call.to = "liquidate" => call.vals[2] \in Kami
    /\ call.fn \in Functions(call.to) => (Inputs(call)[1].array <=> call.vals[1] \notin Kami)

ASSUME HarvestsAssumption ==
    /\ MaxTx \in Nat
    /\ None \notin Kami \cup Node \cup {1} /\ Text \notin Kami \cup {None}
    /\ \A call \in Calls : WellTyped(call)

VARIABLES
    chain,    \* the transactions of the chain, in order
    scanned,  \* the last block scanned
    rows,     \* kami_action: <<transaction, sub_index>> -> row
    known,    \* the resolver's map
    up,       \* the service runs
    version,  \* schema_version: 1 as the first release left it, or 2 and later
    stage,    \* the statement of migration 002 that comes next, see Stages
    cutoff    \* the first block that was not pruned

vars == <<chain, scanned, rows, known, up, version, stage, cutoff>>

Stages == {"idle", "stops", "starts", "pass1", "pass2", "done"}

Init ==
    /\ chain = << >> /\ scanned = 0
    /\ rows = [k \in {} |-> None]
    /\ known = {}
    /\ up = TRUE /\ version \in {1, 2} /\ stage = "idle"
    /\ cutoff = 1

-----------------------------------------------------------------------------
(* The game *)

Place == IF chain = << >> THEN [k \in Kami |-> None] ELSE chain[Len(chain)].place

(* The kamis whose harvests a call is for; the second value of a liquidate *)
(* is the killer.                                                          *)
Subjects(call) ==
    LET v == call.vals[1]
    IN IF v \in Kami THEN {v} ELSE {v[i] : i \in DOMAIN v}

Repeats(call) ==
    call.vals[1] \notin Kami /\ Cardinality(Subjects(call)) < Len(call.vals[1])

Tolerant(call) == call.fn.name \in {"executeBatchedAllowFailure", "executeAllowFailure"}

Legal(call, place) ==
    CASE call.to = "start"     -> \A k \in Subjects(call) : place[k] = None
      [] call.to = "liquidate" -> LET killer == call.vals[2] IN
             \A k \in Subjects(call) : k # killer /\ place[k] # None /\ place[k] = place[killer]
      [] OTHER -> Tolerant(call) \/ \A k \in Subjects(call) : place[k] # None

(* The subjects whose harvests the call finds active. *)
Active(call, place) ==
    IF call.to = "start" THEN {} ELSE {k \in Subjects(call) : place[k] # None}

PlaceAfter(call, place) ==
    [k \in Kami |-> IF k \notin Subjects(call) \/ call.to = "collect" THEN place[k]
                    ELSE IF call.to = "start" THEN call.vals[2] ELSE None]

(* The values written to the harvests: those that are drained are written  *)
(* and zeroed; a stop or collect of one that is not active only writes it, *)
(* and so does a liquidation to the killer's.                              *)
WritesOf(call, place, bounty) ==
    [k \in Kami |->
        IF call.to = "start" THEN {}
        ELSE IF k \in Active(call, place) THEN {bounty, 0}
        ELSE IF k \in Subjects(call) THEN {1}
        ELSE IF call.to = "liquidate" /\ k = call.vals[2] THEN {bounty} ELSE {}]

(* A transaction in the block that will be scanned next; a legal call may  *)
(* be reverted all the same.  Blocks further ahead change nothing for the  *)
(* database, nor does what happens while nobody scans, so the chain grows  *)
(* one block ahead of a service that is up.                                *)
Transact(call) ==
    /\ Len(chain) < MaxTx /\ up
    /\ \E bounty \in {0, 1}, ok \in BOOLEAN :
        /\ ok => Legal(call, Place)
        /\ chain' = Append(chain,
             [call |-> call, block |-> scanned + 1, ok |-> ok,
              place  |-> IF ok THEN PlaceAfter(call, Place) ELSE Place,
              active |-> IF ok THEN Active(call, Place) ELSE {},
              gave   |-> IF ok /\ bounty > 0 THEN Active(call, Place) ELSE {},
              writes |-> IF ok THEN WritesOf(call, Place, bounty) ELSE [k \in Kami |-> {}]])
    /\ UNCHANGED <<scanned, rows, known, up, version, stage, cutoff>>

-----------------------------------------------------------------------------
(* Ingestion *)

InBlock(b) == {i \in DOMAIN chain : chain[i].block = b}

(* The rows of a block before they are stitched. *)
Batch(b) ==
    [key \in UNION {{<<i, j>> : j \in DOMAIN DecodeTx(chain[i].call)} : i \in InBlock(b)} |->
        Paired(DecodeTx(chain[key[1]].call)[key[2]], chain[key[1]].writes)]

(* What the first release wrote: harvest ids in metadata_json, no amounts, *)
(* and no kami ids behind harvests.                                        *)
Legacy(batch) ==
    [key \in DOMAIN batch |->
        [batch[key] EXCEPT !.meta = IF batch[key].type = "start" THEN None ELSE batch[key].harvest,
                           !.harvest = None, !.amount = None]]

Stitchable(row) == row.type \in {"stop", "collect"} /\ row.kami = None

(* HarvestResolver.stitch, with the kamis of map. *)
Stitched(batch, map) ==
    [key \in DOMAIN batch |->
        IF Stitchable(batch[key]) /\ batch[key].harvest \in map
        THEN [batch[key] EXCEPT !.kami = batch[key].harvest] ELSE batch[key]]

KamisOf(table) == {table[key].kami : key \in DOMAIN table} \cap Kami

With(table, more) ==
    [key \in DOMAIN table \cup DOMAIN more |-> IF key \in DOMAIN table THEN table[key] ELSE more[key]]

(* process_block_range for one block. *)
Ingest ==
    LET b     == scanned + 1
        batch == Batch(b)
    IN /\ up /\ InBlock(b) # {}
       /\ scanned' = b
       /\ IF version = 1
          THEN rows' = With(rows, Legacy(batch)) /\ UNCHANGED known
          ELSE /\ known' = known \cup KamisOf(batch)
               /\ rows' = With(rows, Stitched(batch, known'))
       /\ UNCHANGED <<chain, up, version, stage, cutoff>>

BlockOf(key) == chain[key[1]].block

(* prune_older_than *)
Prune(c) ==
    /\ up /\ c \in cutoff + 1 .. scanned
    /\ cutoff' = c
    /\ rows' = [key \in {k \in DOMAIN rows : BlockOf(k) >= c} |-> rows[key]]
    /\ UNCHANGED <<chain, scanned, known, up, version, stage>>

(* The service ends, or whatever runs now is killed. *)
Down ==
    /\ up' = FALSE /\ known' = {} /\ stage' = "idle"
    /\ UNCHANGED <<chain, scanned, rows, version, cutoff>>

AtRest == ~up /\ stage \in {"idle", "done"}

(* The service starts; bootstrap_from_db fills the resolver's map. *)
Boot ==
    /\ AtRest
    /\ up' = TRUE /\ stage' = "idle"
    /\ known' = IF version = 1 THEN {} ELSE KamisOf(rows)
    /\ UNCHANGED <<chain, scanned, rows, version, cutoff>>

-----------------------------------------------------------------------------
(* Migration 002, statement by statement, as bootstrap runs it on an old   *)
(* database, and the operator on any, with scripts/backfill_kami_id.py.    *)

Updated(P(_), F(_)) ==
    [key \in DOMAIN rows |-> IF P(rows[key]) THEN F(rows[key]) ELSE rows[key]]

Statement(from, to, table) ==
    /\ stage = from /\ stage' = to
    /\ rows' = table
    /\ UNCHANGED <<chain, scanned, known, up, cutoff>>

Migrate ==
    /\ AtRest
    /\ stage' = "stops"
    /\ UNCHANGED <<chain, scanned, rows, known, up, version, cutoff>>

(* _backfill_stop_collect_from_metadata *)
FillStops ==
    /\ Statement("stops", "starts",
         Updated(LAMBDA r : r.type \in {"stop", "collect"} /\ r.harvest = None /\ r.meta # None,
                 LAMBDA r : [r EXCEPT !.harvest = r.meta]))
    /\ UNCHANGED version

(* _backfill_start_from_kami_id *)
FillStarts ==
    /\ Statement("starts", "pass1",
         Updated(LAMBDA r : r.type = "start" /\ r.harvest = None /\ r.kami \in Kami,
                 LAMBDA r : [r EXCEPT !.harvest = r.kami]))
    /\ UNCHANGED version

(* MUTANT: whatever row has the harvest id, a killer's too. *)
AnySources(harvest) ==
    {rows[key].kami : key \in {k \in DOMAIN rows : rows[k].harvest = harvest}} \ {None}

(* _stitch_kami_id_via_harvest_id, first pass: the starts of a harvest.    *)
Sources(harvest) ==
    {rows[key].kami :
        key \in {k \in DOMAIN rows : rows[k].type = "start" /\ rows[k].harvest = harvest}} \ {None}

StitchFromStarts ==
    /\ Statement("pass1", "pass2",
         Updated(LAMBDA r : Stitchable(r) /\ r.harvest # None /\ Sources(r.harvest) # {},
                 LAMBDA r : [r EXCEPT !.kami = CHOOSE k \in Sources(r.harvest) : TRUE]))
    /\ UNCHANGED version

(* MUTANT: only the kamis that were seen to start. *)
Starters == KamisOf([key \in {k \in DOMAIN rows : rows[k].type = "start"} |-> rows[key]])

(* Second pass: every kami there is a row of. *)
Universe == KamisOf(rows)

StitchFromUniverse ==
    /\ Statement("pass2", "done",
         Updated(LAMBDA r : Stitchable(r) /\ r.harvest \in Universe,
                 LAMBDA r : [r EXCEPT !.kami = r.harvest]))
    /\ version' = 2

-----------------------------------------------------------------------------
(* The scripts, each of whose updates is one statement. *)

Target(row) == IF row.harvest # None THEN row.harvest ELSE row.meta

(* backfill_musu_amount: the transactions S whose receipts came and whose  *)
(* batch was committed before the script ended.                            *)
RepairAmounts(S) ==
    /\ AtRest
    /\ rows' = [key \in DOMAIN rows |->
                  LET r == rows[key] IN
                  IF key[1] \in S /\ r.type \in Payout /\ r.amount = None
                  THEN [r EXCEPT !.amount = MusuAmount(chain[key[1]].writes, Target(r))] ELSE r]
    /\ UNCHANGED <<chain, scanned, known, up, version, stage, cutoff>>

(* backfill_liquidate_harvest_id *)
RepairLiquidations ==
    /\ AtRest
    /\ rows' = Updated(LAMBDA r : r.type = "liquidate" /\ r.harvest = None /\ r.meta # None,
                       LAMBDA r : [r EXCEPT !.harvest = r.meta])
    /\ UNCHANGED <<chain, scanned, known, up, version, stage, cutoff>>

Migration == Migrate \/ FillStops \/ FillStarts \/ StitchFromStarts \/ StitchFromUniverse
Repair    == RepairLiquidations \/ \E S \in SUBSET DOMAIN chain : RepairAmounts(S)

Next ==
    \/ \E call \in Calls : Transact(call)
    \/ Ingest
    \/ \E c \in 2 .. MaxTx : Prune(c)
    \/ Down \/ Boot \/ Migration \/ Repair

Spec == Init /\ [][Next]_vars
-----------------------------------------------------------------------------
(* The view kami_current_location; 0 stands for a NULL timestamp.          *)

Times(keys) == {BlockOf(key) : key \in keys}
Latest(keys) == IF keys = {} THEN 0 ELSE CHOOSE t \in Times(keys) : \A u \in Times(keys) : u <= t

Starts(k) == {key \in DOMAIN rows : rows[key].type = "start" /\ rows[key].kami = k}
ActiveEvents(k) ==
    {key \in DOMAIN rows : rows[key].type \in {"start", "collect"} /\ rows[key].kami = k}

(* MUTANT: the victim of a liquidation is sought in its kami_id.           *)
EndEventsOfActor(k) ==
    {key \in DOMAIN rows : rows[key].type \in {"stop", "liquidate"} /\ rows[key].kami = k}

(* Stops, and liquidations of a kami with a start of this harvest.         *)
EndEvents(k) ==
    {key \in DOMAIN rows :
        \/ rows[key].type = "stop" /\ rows[key].kami = k
        \/ /\ rows[key].type = "liquidate"
           /\ \E s \in Starts(k) : rows[s].harvest # None /\ rows[s].harvest = rows[key].harvest}

CurrentlyHarvesting(k) == Latest(ActiveEvents(k)) > Latest(EndEvents(k))

(* The nodes current_node_id may be; empty for NULL. *)
CurrentNodes(k) ==
    IF CurrentlyHarvesting(k)
    THEN {rows[key].node : key \in {s \in Starts(k) : BlockOf(s) = Latest(Starts(k))}}
    ELSE {}

-----------------------------------------------------------------------------
RowType ==
    [type : System, kami : Kami \cup {None, Text}, node : Node \cup {None},
     harvest : Kami \cup {None, Text}, amount : {None, 1}, meta : Kami \cup {None, Text}]

TypeOK ==
    /\ \A i \in DOMAIN chain : chain[i].call \in Calls /\ chain[i].place \in [Kami -> Node \cup {None}]
    /\ scanned \in 0 .. MaxTx + 1 /\ cutoff \in 1 .. MaxTx + 1
    /\ \A key \in DOMAIN rows :
        key[1] \in DOMAIN chain /\ BlockOf(key) \in cutoff .. scanned /\ rows[key] \in RowType
    /\ known \subseteq Kami /\ up \in BOOLEAN /\ version \in {1, 2} /\ stage \in Stages

(* What the current decoder makes of a row, with every kami known.         *)
Fresh(key) ==
    LET call == chain[key[1]].call
        row  == Paired(DecodeTx(call)[key[2]], chain[key[1]].writes)
    IN IF row.type \in {"stop", "collect"} /\ row.harvest \in Kami
       THEN [row EXCEPT !.kami = row.harvest] ELSE row

(* "the live decoder and the backfill share one source of truth"           *)
(* (backfill_musu_amount.py:5-6): whatever the release, the statements of  *)
(* migration 002 and the scripts did, in any order, cut short and repeated,*)
(* a column says what the decoder of today says, or is NULL.               *)
RowsAgreeWithDecoder ==
    \A key \in DOMAIN rows : \A column \in {"kami", "node", "harvest", "amount"} :
        rows[key][column] \in {None, Fresh(key)[column]}

(* When migration 002 has come to its end, every stop and collect whose    *)
(* harvest id is known has its kami, if any row names that kami: a second  *)
(* run has nothing to do (backfill_kami_id.py:18).                         *)
MigrationLeavesNothing ==
    stage = "done" =>
        \A key \in DOMAIN rows : rows[key].type \in {"stop", "collect"} =>
            /\ rows[key].meta # None => rows[key].harvest # None
            /\ rows[key].harvest \in KamisOf(rows) => rows[key].kami # None

(* Rows of transaction i that were given the MUSU of harvest k. *)
Credited(i, k) ==
    {key \in DOMAIN rows : key[1] = i /\ rows[key].amount # None /\ Target(rows[key]) = k}

Opaque(call) == call.fn.name = "executeAllowFailure"

(* Every drained harvest is credited to one row, and to it alone, whatever *)
(* else was written in the transaction: the sum of the amounts is the MUSU *)
(* that was drained.  Not so for a call that names a harvest twice (both   *)
(* its rows take the one drain) or hides its harvest in bytes (no row      *)
(* does), and not before the amounts of old rows are repaired.             *)
DrainsCreditedOnce ==
    \A i \in DOMAIN chain : \A k \in Kami :
        LET call == chain[i].call
            mine == {key \in DOMAIN rows : key[1] = i}
        IN ~Repeats(call) =>
             /\ Cardinality(Credited(i, k)) <= 1
             /\ Credited(i, k) # {} => k \in chain[i].gave
             /\ k \in chain[i].gave /\ ~Opaque(call)
                /\ mine # {} /\ (\A key \in mine : rows[key].meta = None)
                  => Credited(i, k) # {}

(* The transactions about k that were scanned. *)
About(k) == {i \in DOMAIN chain : chain[i].block <= scanned /\ k \in Subjects(chain[i].call)}

Truth(k) ==
    LET past == {i \in DOMAIN chain : chain[i].block <= scanned}
    IN IF past = {} THEN None ELSE chain[CHOOSE i \in past : \A j \in past : j <= i].place[k]

(* A transaction that did what its rows say: it was decoded, it was not    *)
(* reverted, and its stop or collect found an active harvest.              *)
TookEffect(i, k) ==
    /\ chain[i].ok /\ ~Opaque(chain[i].call) /\ DecodeTx(chain[i].call) # << >>
    /\ chain[i].call.to # "start" => k \in chain[i].active

Resolved(k) ==
    \A key \in DOMAIN rows :
        (rows[key].kami = k /\ rows[key].type = "start") \/ Target(rows[key]) = k =>
            /\ rows[key].harvest # None
            /\ rows[key].type \in {"stop", "collect"} => rows[key].kami # None

(* The view has no column to tell effects from attempts, orders events by  *)
(* timestamp alone, and needs the ids repaired.                            *)
Telling(k) ==
    /\ Resolved(k)
    /\ \A i \in About(k) : TookEffect(i, k)
    /\ \A i, j \in About(k) : i # j => chain[i].block # chain[j].block

(* "A kami is on a node iff currently harvesting" (migrations/013:5-6).    *)
(* For a kami whose rows tell: the node shown is the node it is on, even   *)
(* if older rows were pruned; and it is shown as harvesting if and only if *)
(* it is, as long as none was.                                             *)
LocationIsRight ==
    \A k \in Kami : Telling(k) =>
        /\ CurrentNodes(k) \subseteq {Truth(k)}
        /\ cutoff = 1 => (CurrentlyHarvesting(k) <=> Truth(k) # None)
=============================================================================

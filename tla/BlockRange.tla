----------------------------- MODULE BlockRange -----------------------------
(***************************************************************************)
(* process_block_range of ingester/ingest.py: fetch each block of a range, *)
(* fetch the receipts of its transactions, decode them, pair MUSU drains   *)
(* with the rows, resolve kami ids, upsert, and move the cursor.  It is a  *)
(* sub-machine: a caller starts it with StartRange, and it ends with       *)
(* pc = "returned" or, when an exception escapes it, pc = "raised".        *)
(*                                                                         *)
(* faults counts what the environment has done to the process (a remote    *)
(* call that failed for good, a statement that raised, a kill).  The public*)
(* RPC node prunes old blocks (ingester/backfill.py:64).                   *)
(***************************************************************************)
EXTENDS Storage

CONSTANTS
    UseResolver,   \* whether the caller passes a HarvestResolver
    MaxFaults      \* bound: the faults of a behaviour

ASSUME RangeAssumption == UseResolver \in BOOLEAN /\ MaxFaults \in Nat

VARIABLES
    pc,         \* where the caller, or the call of process_block_range, is
    n,          \* the block being processed
    end,        \* the last block of the range
    todo,       \* the transactions of block n not looked at yet
    receipt,    \* whose receipt the local variable holds; None: unbound
    rawBatch,   \* raw_batch, then what upsert_raw_txs has still to insert
    actBatch,   \* action_batch, then what upsert_actions has still to insert
    known,      \* the resolver's map, as the set of kamis it knows
    busy,       \* whether an executemany holds Storage.lock
    retained,   \* the first block the RPC node still serves
    faults

rangeVars == <<pc, n, end, todo, receipt, rawBatch, actBatch, known, busy>>
envVars == <<retained, faults>>

Scanning == {"block", "tx", "raw", "acts", "cursor"}
RangePC  == Scanning \cup {"returned", "raised"}

(* A RawTx and a DecodedAction, reduced to what is stored of them. *)
RawTxRec   == [tx : Tx, status : {0, 1}]
ActionRec  == [tx : Tx, sub : Nat \ {0}, kami : Kami \cup {None},
               amount : Tx \cup {None}, status : {0, 1}]
Key(a)     == <<a.tx, a.sub>>

RangeTypeOK ==
    /\ n \in 0 .. MaxBlock
    /\ end \in 0 .. MaxBlock
    /\ todo \in Seq(Tx)
    /\ receipt \in Tx \cup {None}
    /\ rawBatch \in Seq(RawTxRec)
    /\ actBatch \in Seq(ActionRec)
    /\ \A i \in DOMAIN actBatch : Key(actBatch[i]) \in ActKey
    /\ known \subseteq Kami
    /\ busy \in BOOLEAN
    /\ retained \in Block
    /\ faults \in 0 .. MaxFaults

(* The locals of a call that has ended, or not begun. *)
NoLocals ==
    /\ todo = <<>>
    /\ receipt = None
    /\ rawBatch = <<>>
    /\ actBatch = <<>>
    /\ busy = FALSE

RangeInit ==
    /\ n = 0 /\ end = 0
    /\ NoLocals
    /\ known = {}
    /\ retained = 1
    /\ faults = 0

DropLocals ==
    /\ todo' = <<>>
    /\ receipt' = None
    /\ rawBatch' = <<>>
    /\ actBatch' = <<>>
    /\ busy' = FALSE

Fault == faults < MaxFaults /\ faults' = faults + 1

-----------------------------------------------------------------------------
(* MUSU: the payout rows of a transaction take their amount from the       *)
(* drains of the receipt r the local variable holds.                       *)
Payout == {"harvest_collect", "harvest_stop", "harvest_liquidate"}

MusuAmount(a, r) ==
    IF a.type \in Payout /\ a.harvest \in Drains[r] THEN r ELSE None

(* The action rows of t, their amounts paired with receipt r. *)
Paired(t, r, status) ==
    [j \in DOMAIN Decoded[t] |->
        [tx |-> t, sub |-> j, kami |-> Decoded[t][j].kami,
         amount |-> MusuAmount(Decoded[t][j], r), status |-> status]]

(* HarvestResolver.observe_actions: every kami_id of the batch. *)
Observed(batch) == {batch[i].kami : i \in DOMAIN batch} \ {None}

(* HarvestResolver.stitch: a stop or collect row without a kami_id takes   *)
(* it from the map.                                                        *)
NeedsStitch(a) ==
    /\ a.kami = None
    /\ Action(Key(a)).type \in {"harvest_stop", "harvest_collect"}

Stitched(batch, map) ==
    [i \in DOMAIN batch |->
        IF NeedsStitch(batch[i]) /\ Action(Key(batch[i])).harvest \in map
        THEN [batch[i] EXCEPT !.kami = Action(Key(batch[i])).harvest]
        ELSE batch[i]]

-----------------------------------------------------------------------------
(* The call, for blocks first..last. *)
StartRange(first, last) ==
    /\ pc' = "block"
    /\ n' = first
    /\ end' = last
    /\ UNCHANGED <<todo, receipt, rawBatch, actBatch, known, busy>>

(* client.get_block(n): the node has the block. *)
GetBlock ==
    /\ pc = "block"
    /\ n >= retained
    /\ todo' = Body[n]
    /\ pc' = "tx"
    /\ UNCHANGED <<n, end, receipt, rawBatch, actBatch, known, busy, envVars, dbVars>>

(* MUTANT: the rows of a reverted transaction are not stored.              *)
LookAtSkipsReverted(t, r, status) ==
    /\ IF status = 1
       THEN /\ rawBatch' = Append(rawBatch, [tx |-> t, status |-> status])
            /\ actBatch' = actBatch \o Paired(t, r, status)
       ELSE UNCHANGED <<rawBatch, actBatch>>
    /\ receipt' = r
    /\ todo' = Tail(todo)
    /\ UNCHANGED <<pc, n, end, known, busy, dbVars>>

(* The next transaction, its receipt in hand: r is what the local variable *)
(* receipt holds after the try block, status what is stored.  Without any  *)
(* receipt, reading the unbound variable raises, if there are rows to pair.*)
LookAt(t, r, status) ==
    /\ rawBatch' = Append(rawBatch, [tx |-> t, status |-> status])
    /\ actBatch' = actBatch \o Paired(t, r, status)
    /\ receipt' = r
    /\ todo' = Tail(todo)
    /\ UNCHANGED <<pc, n, end, known, busy, dbVars>>

TxWithReceipt ==
    /\ pc = "tx" /\ todo # <<>>
    /\ LookAt(Head(todo), Head(todo), Status[Head(todo)])
    /\ UNCHANGED envVars

(* get_tx_receipt raised: status 1 is assumed and receipt keeps its value. *)
TxWithoutReceipt ==
    /\ pc = "tx" /\ todo # <<>>
    /\ Decoded[Head(todo)] = <<>> \/ receipt # None
    /\ Fault
    /\ LookAt(Head(todo), receipt, 1)
    /\ UNCHANGED retained

(* MUTANT: stitch first, observe afterwards.                               *)
ResolveStitchFirst ==
    /\ pc = "tx" /\ todo = <<>>
    /\ IF UseResolver
       THEN /\ actBatch' = Stitched(actBatch, known)
            /\ known' = known \cup Observed(actBatch)
       ELSE UNCHANGED <<known, actBatch>>
    /\ pc' = "raw"
    /\ UNCHANGED <<n, end, todo, receipt, rawBatch, busy, envVars, dbVars>>

(* All transactions seen: observe, then stitch, then on to the upserts.    *)
(* known only has a use when there is a resolver.                          *)
Resolve ==
    /\ pc = "tx" /\ todo = <<>>
    /\ IF UseResolver
       THEN /\ known' = known \cup Observed(actBatch)
            /\ actBatch' = Stitched(actBatch, known')
       ELSE UNCHANGED <<known, actBatch>>
    /\ pc' = "raw"
    /\ UNCHANGED <<n, end, todo, receipt, rawBatch, busy, envVars, dbVars>>

(* upsert_raw_txs and upsert_actions.  An executemany takes Storage.lock,  *)
(* commits row by row and gives the lock back after the last row; between  *)
(* the two calls the lock is free.  Without rows no lock is taken.         *)
UpsertRawTx ==
    /\ pc = "raw" /\ rawBatch # <<>>
    /\ InsertRawTx(Head(rawBatch))
    /\ rawBatch' = Tail(rawBatch)
    /\ busy' = (Tail(rawBatch) # <<>>)
    /\ UNCHANGED <<pc, n, end, todo, receipt, actBatch, known, envVars>>

RawTxsUpserted ==
    /\ pc = "raw" /\ rawBatch = <<>>
    /\ pc' = "acts"
    /\ UNCHANGED <<n, end, todo, receipt, rawBatch, actBatch, known, busy, envVars, dbVars>>

UpsertAction ==
    /\ pc = "acts" /\ actBatch # <<>>
    /\ InsertAction(Head(actBatch))
    /\ actBatch' = Tail(actBatch)
    /\ busy' = (Tail(actBatch) # <<>>)
    /\ UNCHANGED <<pc, n, end, todo, receipt, rawBatch, known, envVars>>

ActionsUpserted ==
    /\ pc = "acts" /\ actBatch = <<>>
    /\ pc' = "cursor"
    /\ UNCHANGED <<n, end, todo, receipt, rawBatch, actBatch, known, busy, envVars, dbVars>>

(* set_cursor(n), then the next block of the range or the end of the call. *)
CommitBlock ==
    /\ pc = "cursor"
    /\ SetCursor(n)
    /\ IF n < end
       THEN n' = n + 1 /\ pc' = "block" /\ UNCHANGED receipt
       ELSE pc' = "returned" /\ receipt' = None /\ UNCHANGED n
    /\ UNCHANGED <<end, todo, rawBatch, actBatch, known, busy, envVars>>

(* An exception leaves the call: get_block gave up, a statement failed     *)
(* (disk full, interrupted), or the unbound receipt was read.  The locals  *)
(* are gone; committed rows and the resolver's map stay.                   *)
Raise ==
    /\ \/ pc \in {"block", "cursor"}
       \/ pc = "raw" /\ rawBatch # <<>>
       \/ pc = "acts" /\ actBatch # <<>>
       \/ pc = "tx" /\ todo # <<>> /\ Decoded[Head(todo)] # <<>> /\ receipt = None
    /\ Fault
    /\ pc' = "raised"
    /\ DropLocals
    /\ UNCHANGED <<n, end, known, retained, dbVars>>

(* get_block(n) of a block the node has pruned: an exception every time.   *)
RaiseNotFound ==
    /\ pc = "block"
    /\ n < retained
    /\ pc' = "raised"
    /\ DropLocals
    /\ UNCHANGED <<n, end, known, envVars, dbVars>>

(* What the code does by itself. *)
RangeStep ==
    \/ GetBlock
    \/ TxWithReceipt
    \/ Resolve
    \/ UpsertRawTx
    \/ RawTxsUpserted
    \/ UpsertAction
    \/ ActionsUpserted
    \/ CommitBlock
    \/ RaiseNotFound

RangeFault == TxWithoutReceipt \/ Raise

-----------------------------------------------------------------------------
(* Block b is completely stored. *)
Stored(b) ==
    \A t \in Tx : BlockOf[t] = b =>
        t \in DOMAIN raw /\ Keys(t) \subseteq DOMAIN act

(* The raw_tx row of t, the action row k, is still to come from the call.  *)
RawPending(t) == t \in Range(todo) \/ \E r \in Range(rawBatch) : r.tx = t
ActPending(k) == k[1] \in Range(todo) \/ \E a \in Range(actBatch) : Key(a) = k

(* Every row of the block being processed is on its way or stored, unless  *)
(* the block is below the cutoff.                                          *)
InFlight(cutoff) ==
    pc \in Scanning \ {"block"} /\ n >= cutoff =>
        \A t \in Tx : BlockOf[t] = n =>
            /\ RawPending(t) \/ t \in DOMAIN raw
            /\ \A k \in Keys(t) : ActPending(k) \/ k \in DOMAIN act

(* What an earlier phase had to empty is empty in the later ones. *)
Emptied ==
    /\ pc \in {"raw", "acts", "cursor"} => todo = <<>>
    /\ pc \in {"acts", "cursor"} => rawBatch = <<>>
    /\ pc = "cursor" => actBatch = <<>>

(* An action row on its way has its raw_tx row stored or ahead of it, or   *)
(* is below the cutoff.                                                    *)
RawGoesFirst(cutoff) ==
    \A a \in Range(actBatch) :
        \/ a.tx \in DOMAIN raw
        \/ \E r \in Range(rawBatch) : r.tx = a.tx
        \/ BlockOf[a.tx] < cutoff
=============================================================================

---------------------------- MODULE RangeProofs ----------------------------
(***************************************************************************)
(* Lemmas about process_block_range: what its batches, its tables and its  *)
(* steps keep, whoever calls it.                                           *)
(***************************************************************************)
EXTENDS BlockRange, SequenceTheorems, TLAPS

-----------------------------------------------------------------------------
(* The elements of a sequence when its head is taken off, when one is      *)
(* appended and when two are joined: the batches of process_block_range    *)
(* only change in these ways.                                              *)
LEMMA HeadAndRest ==
    ASSUME NEW S, NEW s \in Seq(S), s # <<>>
    PROVE  /\ Head(s) \in S
           /\ Tail(s) \in Seq(S)
           /\ Range(s) = {Head(s)} \cup Range(Tail(s))
<1>1. /\ Head(s) \in S /\ Tail(s) \in Seq(S)
      /\ Len(Tail(s)) = Len(s) - 1
      /\ \A i \in 1 .. Len(Tail(s)) : Tail(s)[i] = s[i + 1]
  BY HeadTailProperties
<1>2. Len(s) \in Nat \ {0} /\ DOMAIN s = 1 .. Len(s) /\ DOMAIN Tail(s) = 1 .. Len(Tail(s))
  BY <1>1, EmptySeq, LenProperties
<1>3. Head(s) = s[1]
  OBVIOUS
<1>4. Range(s) \subseteq {Head(s)} \cup Range(Tail(s))
  <2> SUFFICES ASSUME NEW i \in 1 .. Len(s), i # 1
               PROVE  s[i] \in Range(Tail(s))
    BY <1>2, <1>3 DEF Range
  <2>1. i - 1 \in 1 .. Len(Tail(s)) /\ Tail(s)[i - 1] = s[i]
    BY <1>1, <1>2
  <2> QED BY <2>1, <1>2 DEF Range
<1>5. {Head(s)} \cup Range(Tail(s)) \subseteq Range(s)
  <2> SUFFICES ASSUME NEW i \in 1 .. Len(Tail(s))
               PROVE  Tail(s)[i] \in Range(s)
    BY <1>2, <1>3 DEF Range
  <2>1. i + 1 \in 1 .. Len(s)
    BY <1>1, <1>2
  <2> QED BY <2>1, <1>1, <1>2 DEF Range
<1> QED BY <1>1, <1>4, <1>5

(* The batches grow at their end. *)
LEMMA OneMore ==
    ASSUME NEW S, NEW s \in Seq(S), NEW e \in S
    PROVE  Append(s, e) \in Seq(S) /\ Range(Append(s, e)) = Range(s) \cup {e}
<1>1. /\ Append(s, e) \in Seq(S)
      /\ Len(Append(s, e)) = Len(s) + 1
      /\ \A i \in 1 .. Len(s) : Append(s, e)[i] = s[i]
      /\ Append(s, e)[Len(s) + 1] = e
  BY AppendProperties
<1>2. Len(s) \in Nat /\ DOMAIN s = 1 .. Len(s) /\ DOMAIN Append(s, e) = 1 .. Len(s) + 1
  BY <1>1, LenProperties
<1>3. \A i \in 1 .. Len(s) + 1 : i \in 1 .. Len(s) \/ i = Len(s) + 1
  BY <1>2
<1>4. 1 .. Len(s) \subseteq 1 .. Len(s) + 1 /\ Len(s) + 1 \in 1 .. Len(s) + 1
  BY <1>2
<1> QED BY <1>1, <1>2, <1>3, <1>4 DEF Range

-----------------------------------------------------------------------------
(* A key belongs to the transaction it begins with. *)
LEMMA KeysOfTx ==
    ASSUME NEW t \in Tx
    PROVE  /\ Decoded[t] \in Seq(DecodedAction)
           /\ Keys(t) \subseteq ActKey
           /\ \A k \in Keys(t) : k = <<k[1], k[2]>> /\ k[1] = t
                                /\ k[2] \in DOMAIN Decoded[t] /\ k[2] \in Nat \ {0}
<1>1. Decoded[t] \in Seq(DecodedAction)
  BY ChainAssumption
<1>2. DOMAIN Decoded[t] = 1 .. Len(Decoded[t]) /\ Len(Decoded[t]) \in Nat
  BY <1>1, LenProperties
<1> QED BY <1>1, <1>2 DEF Keys, ActKey

(* Every key is a key of the transaction it begins with. *)
LEMMA KeyHasTx ==
    ASSUME NEW k \in ActKey
    PROVE  k[1] \in Tx /\ k \in Keys(k[1]) /\ Action(k) \in DecodedAction
<1>1. PICK t \in Tx : k \in Keys(t)
  BY DEF ActKey
<1>2. k[1] = t /\ k[2] \in DOMAIN Decoded[t] /\ Decoded[t] \in Seq(DecodedAction)
  BY <1>1, KeysOfTx
<1>3. Decoded[t][k[2]] \in DecodedAction
  BY <1>2, ElementOfSeq, LenProperties
<1> QED BY <1>1, <1>2, <1>3 DEF Action

(* INSERT ... ON CONFLICT DO NOTHING adds at most the key it is given, and *)
(* a table stays a table.                                                  *)
LEMMA InsertKeeps ==
    ASSUME NEW K, NEW R, NEW table, IsTable(table, K, R), NEW k \in K, NEW row \in R
    PROVE  /\ IsTable(InsertOrIgnore(table, k, row), K, R)
           /\ DOMAIN InsertOrIgnore(table, k, row) = DOMAIN table \cup {k}
           /\ \A x \in DOMAIN table : InsertOrIgnore(table, k, row)[x] = table[x]
BY DEF IsTable, InsertOrIgnore

(* A DELETE keeps every row it does not name as it is. *)
LEMMA RestrictKeeps ==
    ASSUME NEW K, NEW R, NEW table, IsTable(table, K, R), NEW S, S \subseteq DOMAIN table
    PROVE  /\ IsTable(Restrict(table, S), K, R)
           /\ DOMAIN Restrict(table, S) = S
           /\ \A x \in S : Restrict(table, S)[x] = table[x]
BY DEF IsTable, Restrict

(* The rows of a transaction: one per key, none of another transaction.    *)
LEMMA PairedRows ==
    ASSUME NEW t \in Tx, NEW r \in Tx \cup {None}, NEW status \in {0, 1},
           Decoded[t] = <<>> \/ r # None
    PROVE  /\ Paired(t, r, status) \in Seq(ActionRec)
           /\ \A i \in DOMAIN Paired(t, r, status) :
                  /\ Key(Paired(t, r, status)[i]) \in Keys(t)
                  /\ Paired(t, r, status)[i].tx = t
           /\ \A k \in Keys(t) : \E a \in Range(Paired(t, r, status)) : Key(a) = k
<1> DEFINE P == Paired(t, r, status)
<1>1. /\ Decoded[t] \in Seq(DecodedAction)
      /\ DOMAIN Decoded[t] = 1 .. Len(Decoded[t]) /\ Len(Decoded[t]) \in Nat
      /\ Decoded[t] = <<>> => Len(Decoded[t]) = 0
  BY KeysOfTx, LenProperties, EmptySeq
<1>2. DOMAIN P = 1 .. Len(Decoded[t])
  BY <1>1 DEF Paired
<1>3. ASSUME NEW i \in 1 .. Len(Decoded[t])
      PROVE  /\ P[i].tx = t /\ P[i].sub = i
             /\ P[i] \in ActionRec
             /\ Key(P[i]) = <<t, i>> /\ Key(P[i]) \in Keys(t)
  <2>1. Decoded[t][i] \in DecodedAction
    BY <1>1, ElementOfSeq
  <2>2. r \in Tx
    BY <1>1
  <2>3. MusuAmount(Decoded[t][i], r) \in Tx \cup {None}
    BY <2>2 DEF MusuAmount
  <2>4. P[i] = [tx |-> t, sub |-> i, kami |-> Decoded[t][i].kami,
                amount |-> MusuAmount(Decoded[t][i], r), status |-> status]
    BY <1>1 DEF Paired
  <2>5. Decoded[t][i].kami \in Kami \cup {None}
    BY <2>1 DEF DecodedAction
  <2> QED BY <1>1, <2>3, <2>4, <2>5 DEF ActionRec, Key, Keys
<1>4. P \in Seq(ActionRec)
  <2>1. P \in [1 .. Len(Decoded[t]) -> ActionRec]
    BY <1>1, <1>3 DEF Paired
  <2> QED BY <2>1, <1>1, SeqDef
<1>5. ASSUME NEW k \in Keys(t)
      PROVE  \E a \in Range(P) : Key(a) = k
  <2>1. k = <<t, k[2]>> /\ k[2] \in 1 .. Len(Decoded[t])
    BY <1>1, KeysOfTx
  <2>2. P[k[2]] \in Range(P)
    BY <1>2, <2>1 DEF Range
  <2> QED BY <2>1, <2>2, <1>3
<1> QED BY <1>2, <1>3, <1>4, <1>5

(* stitch only ever fills in a missing kami_id, with a kami of the map.    *)
LEMMA StitchedRows ==
    ASSUME NEW batch \in Seq(ActionRec), NEW map, map \subseteq Kami
    PROVE  /\ Stitched(batch, map) \in Seq(ActionRec)
           /\ DOMAIN Stitched(batch, map) = DOMAIN batch
           /\ \A i \in DOMAIN batch :
                  /\ Stitched(batch, map)[i].tx = batch[i].tx
                  /\ Stitched(batch, map)[i].sub = batch[i].sub
<1>1. DOMAIN batch = 1 .. Len(batch) /\ Len(batch) \in Nat
  BY LenProperties
<1>2. ASSUME NEW i \in DOMAIN batch
      PROVE  /\ Stitched(batch, map)[i] \in ActionRec
             /\ Stitched(batch, map)[i].tx = batch[i].tx
             /\ Stitched(batch, map)[i].sub = batch[i].sub
  <2>1. batch[i] \in ActionRec
    BY <1>1, ElementOfSeq
  <2>2. CASE NeedsStitch(batch[i]) /\ Action(Key(batch[i])).harvest \in map
    <3>1. Stitched(batch, map)[i]
            = [batch[i] EXCEPT !.kami = Action(Key(batch[i])).harvest]
      BY <2>2 DEF Stitched
    <3> QED BY <2>1, <2>2, <3>1 DEF ActionRec
  <2>3. CASE ~(NeedsStitch(batch[i]) /\ Action(Key(batch[i])).harvest \in map)
    BY <2>1, <2>3 DEF Stitched
  <2> QED BY <2>2, <2>3
<1>3. Stitched(batch, map) \in [1 .. Len(batch) -> ActionRec]
  BY <1>1, <1>2 DEF Stitched
<1> QED BY <1>1, <1>2, <1>3, SeqDef DEF Stitched

-----------------------------------------------------------------------------
(* The states a step of the call starts from. *)
RangeOK ==
    /\ StorageTypeOK
    /\ RangeTypeOK
    /\ pc \in Scanning => n \in Block /\ n <= end

(* Every step of the call keeps the types, and ends in a pc of the call.   *)
LEMMA RangeKeepsTypes ==
    ASSUME RangeOK, RangeStep \/ RangeFault
    PROVE  StorageTypeOK' /\ RangeTypeOK' /\ pc' \in RangePC
<1> USE DEF RangeOK, RangeTypeOK, StorageTypeOK, Scanning, RangePC
<1>1. CASE GetBlock
  <2>1. Body[n] \in Seq(Tx)
    BY <1>1, ChainAssumption DEF GetBlock
  <2> QED BY <1>1, <2>1 DEF GetBlock, dbVars, envVars
<1>2. ASSUME NEW r \in Tx \cup {None}, NEW status \in {0, 1},
             pc = "tx", todo # <<>>, Decoded[Head(todo)] = <<>> \/ r # None,
             LookAt(Head(todo), r, status), retained' = retained, faults' \in 0 .. MaxFaults
      PROVE  StorageTypeOK' /\ RangeTypeOK' /\ pc' \in RangePC
  <2> DEFINE t == Head(todo)
             P == Paired(t, r, status)
  <2>1. t \in Tx /\ Tail(todo) \in Seq(Tx)
    BY <1>2, HeadAndRest
  <2>2. /\ P \in Seq(ActionRec)
        /\ \A i \in DOMAIN P : Key(P[i]) \in ActKey
    BY <1>2, <2>1, PairedRows, KeysOfTx
  <2>3. rawBatch' \in Seq(RawTxRec)
    <3>1. [tx |-> t, status |-> status] \in RawTxRec
      BY <2>1 DEF RawTxRec
    <3> QED BY <1>2, <3>1, OneMore DEF LookAt
  <2>4. actBatch' \in Seq(ActionRec)
    BY <1>2, <2>2, ConcatProperties DEF LookAt
  <2>5. \A i \in DOMAIN actBatch' : Key(actBatch'[i]) \in ActKey
    <3>1. Range(actBatch') = Range(actBatch) \cup Range(P)
      BY <1>2, <2>2, RangeConcatenation DEF LookAt
    <3> QED BY <2>2, <3>1 DEF Range
  <2> QED BY <1>2, <2>1, <2>3, <2>4, <2>5 DEF LookAt, dbVars
<1>3. CASE TxWithReceipt
  <2>1. Head(todo) \in Tx
    BY <1>3, HeadAndRest DEF TxWithReceipt
  <2>2. Status[Head(todo)] \in {0, 1} /\ Head(todo) # None
    BY <2>1, ChainAssumption
  <2> QED BY <1>2, <1>3, <2>1, <2>2 DEF TxWithReceipt, envVars
<1>4. CASE TxWithoutReceipt
  BY <1>2, <1>4, RangeAssumption DEF TxWithoutReceipt, Fault
<1>5. CASE Resolve
  <2>1. CASE UseResolver
    <3>1. Observed(actBatch) \subseteq Kami
      <4>1. \A i \in DOMAIN actBatch : actBatch[i] \in ActionRec
        BY ElementOfSeq, LenProperties
      <4> QED BY <4>1 DEF Observed, ActionRec
    <3>2. known' \subseteq Kami /\ actBatch' = Stitched(actBatch, known')
      BY <1>5, <2>1, <3>1 DEF Resolve
    <3>3. /\ actBatch' \in Seq(ActionRec)
          /\ \A i \in DOMAIN actBatch' : Key(actBatch'[i]) \in ActKey
      <4>1. /\ actBatch' \in Seq(ActionRec)
            /\ DOMAIN actBatch' = DOMAIN actBatch
            /\ \A i \in DOMAIN actBatch : actBatch'[i].tx = actBatch[i].tx
                                         /\ actBatch'[i].sub = actBatch[i].sub
        BY <3>2, StitchedRows
      <4>2. \A i \in DOMAIN actBatch : Key(actBatch'[i]) = Key(actBatch[i])
        BY <4>1 DEF Key
      <4> QED BY <4>1, <4>2
    <3> QED BY <1>5, <3>2, <3>3 DEF Resolve, envVars, dbVars
  <2>2. CASE ~UseResolver
    BY <1>5, <2>2 DEF Resolve, envVars, dbVars
  <2> QED BY <2>1, <2>2
<1>6. CASE UpsertRawTx
  <2>1. Head(rawBatch) \in RawTxRec /\ Tail(rawBatch) \in Seq(RawTxRec)
    BY <1>6, HeadAndRest DEF UpsertRawTx
  <2>2. IsTable(raw', Tx, RawRow)
    BY <1>6, <2>1, InsertKeeps DEF UpsertRawTx, InsertRawTx, RawTxRec, RawRow
  <2> QED BY <1>6, <2>1, <2>2 DEF UpsertRawTx, InsertRawTx, envVars
<1>7. CASE RawTxsUpserted
  BY <1>7 DEF RawTxsUpserted, envVars, dbVars
<1>8. CASE UpsertAction
  <2> DEFINE a == Head(actBatch)
  <2>1. a \in ActionRec /\ Tail(actBatch) \in Seq(ActionRec)
        /\ Range(actBatch) = {a} \cup Range(Tail(actBatch))
    BY <1>8, HeadAndRest DEF UpsertAction
  <2>2. Key(a) \in ActKey /\ \A i \in DOMAIN Tail(actBatch) : Key(Tail(actBatch)[i]) \in ActKey
    BY <2>1 DEF Range
  <2>3. IsTable(act', ActKey, ActRow)
    <3>1. [kami |-> a.kami, amount |-> a.amount, status |-> a.status] \in ActRow
      BY <2>1 DEF ActionRec, ActRow
    <3> QED BY <1>8, <2>2, <3>1, InsertKeeps DEF UpsertAction, InsertAction, Key
  <2>4. /\ actBatch' = Tail(actBatch) /\ busy' \in BOOLEAN /\ pc' = pc
        /\ UNCHANGED <<n, end, todo, receipt, rawBatch, known, envVars, raw, cursor>>
    BY <1>8 DEF UpsertAction, InsertAction
  <2>5. actBatch' \in Seq(ActionRec) /\ \A i \in DOMAIN actBatch' : Key(actBatch'[i]) \in ActKey
    <3> HIDE DEF a
    <3> QED BY <2>1, <2>2, <2>4
  <2>6. RangeTypeOK'
    BY <2>4, <2>5 DEF envVars
  <2>7. StorageTypeOK'
    BY <2>3, <2>4
  <2> QED BY <1>8, <2>4, <2>6, <2>7 DEF UpsertAction
<1>9. CASE ActionsUpserted
  BY <1>9 DEF ActionsUpserted, envVars, dbVars
<1>10. CASE CommitBlock
  <2>1. n \in Block /\ n' \in 0 .. MaxBlock
    <3>1. n \in Block /\ n <= end /\ end \in 0 .. MaxBlock
      BY <1>10 DEF CommitBlock
    <3>2. n' = n \/ (n < end /\ n' = n + 1)
      BY <1>10, <3>1, ChainAssumption DEF CommitBlock, Block
    <3> HIDE DEF RangeOK, RangeTypeOK, StorageTypeOK
    <3> QED BY <3>1, <3>2, ChainAssumption DEF Block
  <2> QED BY <1>10, <2>1 DEF CommitBlock, SetCursor, envVars
<1>11. CASE Raise \/ RaiseNotFound
  <2>1. /\ todo' = <<>> /\ receipt' = None /\ rawBatch' = <<>> /\ actBatch' = <<>>
        /\ busy' = FALSE /\ pc' = "raised"
        /\ UNCHANGED <<n, end, known, retained, raw, act, cursor>>
    BY <1>11 DEF Raise, RaiseNotFound, DropLocals, envVars, dbVars
  <2>2. faults' \in 0 .. MaxFaults
    BY <1>11, RangeAssumption DEF Raise, RaiseNotFound, Fault, envVars
  <2>3. todo' \in Seq(Tx) /\ rawBatch' \in Seq(RawTxRec) /\ actBatch' \in Seq(ActionRec)
    BY <2>1, EmptySeq
  <2>4. \A i \in DOMAIN actBatch' : Key(actBatch'[i]) \in ActKey
    BY <2>1
  <2>5. StorageTypeOK'
    BY <2>1
  <2> QED BY <2>1, <2>2, <2>3, <2>4, <2>5
<1> QED BY <1>1, <1>3, <1>4, <1>5, <1>6, <1>7, <1>8, <1>9, <1>10, <1>11 DEF RangeStep, RangeFault

(* A step of the call stays at its block and leaves the cursor alone, or   *)
(* it is the commit of the block.                                          *)
LEMMA RangeMoves ==
    ASSUME RangeStep \/ RangeFault
    PROVE  /\ pc \in Scanning
           /\ end' = end
           /\ \/ n' = n /\ cursor' = cursor /\ pc' \in Scanning \cup {"raised"}
              \/ CommitBlock
BY DEF RangeStep, RangeFault, GetBlock, TxWithReceipt, TxWithoutReceipt, LookAt, Resolve,
       UpsertRawTx, InsertRawTx, RawTxsUpserted, UpsertAction, InsertAction, ActionsUpserted,
       CommitBlock, Raise, RaiseNotFound, Scanning, dbVars

(* A step of the call removes no row and changes none. *)
LEMMA RowsStay ==
    ASSUME RangeOK, RangeStep \/ RangeFault
    PROVE  /\ \A t \in DOMAIN raw : t \in DOMAIN raw' /\ raw'[t] = raw[t]
           /\ \A k \in DOMAIN act : k \in DOMAIN act' /\ act'[k] = act[k]
<1>1. CASE UpsertRawTx
  BY <1>1 DEF UpsertRawTx, InsertRawTx, InsertOrIgnore
<1>2. CASE UpsertAction
  BY <1>2 DEF UpsertAction, InsertAction, InsertOrIgnore
<1>3. CASE ~UpsertRawTx /\ ~UpsertAction
  <2>1. raw' = raw /\ act' = act
    BY <1>3 DEF RangeStep, RangeFault, GetBlock, TxWithReceipt, TxWithoutReceipt, LookAt,
                Resolve, RawTxsUpserted, ActionsUpserted, CommitBlock, SetCursor, Raise,
                RaiseNotFound, dbVars
  <2> QED BY <2>1
<1> QED BY <1>1, <1>2, <1>3

(* The batches and the tables across a step: no transaction of the block   *)
(* and no row leaves them unnoticed, and an action row enters the batch    *)
(* together with the raw_tx row of its transaction.                        *)
LEMMA FlowOfLookAt ==
    ASSUME RangeOK, todo # <<>>,
           NEW r \in Tx \cup {None}, NEW status \in {0, 1},
           Decoded[Head(todo)] = <<>> \/ r # None,
           LookAt(Head(todo), r, status)
    PROVE  /\ \A t \in Tx : RawPending(t) => RawPending(t)'
           /\ \A k \in ActKey : ActPending(k) => ActPending(k)'
           /\ \A a \in Range(actBatch') :
                  \/ a \in Range(actBatch)
                  \/ \E x \in Range(rawBatch') : x.tx = a.tx
           /\ Range(rawBatch) \subseteq Range(rawBatch')
<1> DEFINE t == Head(todo)
           P == Paired(t, r, status)
           x == [tx |-> t, status |-> status]
<1>1. t \in Tx /\ Range(todo) = {t} \cup Range(todo')
  BY HeadAndRest DEF LookAt, RangeOK, RangeTypeOK
<1>2. Range(rawBatch') = Range(rawBatch) \cup {x}
  <2>1. x \in RawTxRec
    BY <1>1 DEF RawTxRec
  <2> QED BY <2>1, OneMore DEF LookAt, RangeOK, RangeTypeOK
<1>3. /\ P \in Seq(ActionRec)
      /\ \A i \in DOMAIN P : P[i].tx = t
      /\ \A k \in Keys(t) : \E a \in Range(P) : Key(a) = k
  BY <1>1, PairedRows
<1>4. Range(actBatch') = Range(actBatch) \cup Range(P)
  BY <1>3, RangeConcatenation DEF LookAt, RangeOK, RangeTypeOK
<1>5. \A u \in Tx : RawPending(u) => RawPending(u)'
  BY <1>1, <1>2 DEF RawPending
<1>6. ASSUME NEW k \in ActKey, ActPending(k)
      PROVE  ActPending(k)'
  <2>1. CASE k[1] = t
    <3>1. PICK a \in Range(P) : Key(a) = k
      BY <1>3, <2>1, KeyHasTx
    <3> QED BY <3>1, <1>4 DEF ActPending
  <2>2. CASE k[1] # t
    BY <1>1, <1>4, <1>6, <2>2 DEF ActPending
  <2> QED BY <2>1, <2>2
<1>7. ASSUME NEW a \in Range(actBatch'), a \notin Range(actBatch)
      PROVE  \E y \in Range(rawBatch') : y.tx = a.tx
  <2>1. a.tx = t
    BY <1>3, <1>4, <1>7 DEF Range
  <2>2. x \in Range(rawBatch') /\ x.tx = t
    BY <1>2
  <2> QED BY <2>1, <2>2
<1> QED BY <1>2, <1>5, <1>6, <1>7

(* Resolving kami ids keeps every row of the batch. *)
LEMMA FlowOfResolve ==
    ASSUME RangeOK, Resolve
    PROVE  /\ \A k \in ActKey : ActPending(k) => ActPending(k)'
           /\ \A a \in Range(actBatch') : \E b \in Range(actBatch) : b.tx = a.tx
<1>1. CASE ~UseResolver
  BY <1>1 DEF Resolve, ActPending
<1>2. CASE UseResolver
  <2>1. actBatch' = Stitched(actBatch, known') /\ todo' = todo
    BY <1>2 DEF Resolve
  <2>2. known' \subseteq Kami
    BY RangeKeepsTypes DEF RangeStep, RangeTypeOK
  <2>3. /\ DOMAIN actBatch' = DOMAIN actBatch
        /\ \A i \in DOMAIN actBatch : actBatch'[i].tx = actBatch[i].tx
                                     /\ actBatch'[i].sub = actBatch[i].sub
    BY <2>1, <2>2, StitchedRows DEF RangeOK, RangeTypeOK
  <2>4. \A i \in DOMAIN actBatch : Key(actBatch'[i]) = Key(actBatch[i])
    BY <2>3 DEF Key
  <2> QED BY <2>1, <2>3, <2>4 DEF ActPending, Range
<1> QED BY <1>1, <1>2

(* Nothing of the block being processed is lost between two steps.         *)
LEMMA FlowKept ==
    ASSUME RangeOK, Emptied, NEW c, InFlight(c), RawGoesFirst(c),
           RangeStep \/ RangeFault
    PROVE  Emptied' /\ InFlight(c)' /\ RawGoesFirst(c)'
<1> USE DEF RangeOK, RangeTypeOK, Scanning
<1> DEFINE Kept == /\ \A t \in Tx : RawPending(t) \/ t \in DOMAIN raw
                                  => RawPending(t)' \/ t \in DOMAIN raw'
                   /\ \A k \in ActKey : ActPending(k) \/ k \in DOMAIN act
                                      => ActPending(k)' \/ k \in DOMAIN act'
<1>1. ASSUME Kept, n' = n, pc \in Scanning \ {"block"}
      PROVE  InFlight(c)'
  BY <1>1, KeysOfTx DEF InFlight
<1>2. CASE GetBlock
  <2>1. n \in Block /\ todo' = Body[n] /\ pc' = "tx"
    BY <1>2 DEF GetBlock
  <2>2. \A t \in Tx : BlockOf[t] = n => t \in Range(todo')
    BY <2>1, ChainAssumption DEF Range
  <2>3. InFlight(c)'
    BY <1>2, <2>2, KeysOfTx DEF InFlight, RawPending, ActPending, GetBlock
  <2> QED BY <1>2, <2>1, <2>3 DEF GetBlock, Emptied, RawGoesFirst, dbVars
<1>3. ASSUME NEW r \in Tx \cup {None}, NEW status \in {0, 1},
             pc = "tx", todo # <<>>, Decoded[Head(todo)] = <<>> \/ r # None,
             LookAt(Head(todo), r, status)
      PROVE  Emptied' /\ InFlight(c)' /\ RawGoesFirst(c)'
  <2>1. Kept
    BY <1>3, FlowOfLookAt DEF LookAt, dbVars
  <2>2. RawGoesFirst(c)'
    <3> SUFFICES ASSUME NEW a \in Range(actBatch')
                 PROVE  \/ a.tx \in DOMAIN raw'
                        \/ \E x \in Range(rawBatch') : x.tx = a.tx
                        \/ BlockOf[a.tx] < c
      BY DEF RawGoesFirst
    <3>1. CASE a \in Range(actBatch)
      BY <1>3, <3>1, FlowOfLookAt DEF RawGoesFirst, LookAt, dbVars
    <3>2. CASE a \notin Range(actBatch)
      BY <1>3, <3>2, FlowOfLookAt
    <3> QED BY <3>1, <3>2
  <2> QED BY <1>1, <1>3, <2>1, <2>2 DEF LookAt, Emptied
<1>4. CASE TxWithReceipt
  <2>1. Head(todo) \in Tx
    BY <1>4, HeadAndRest DEF TxWithReceipt
  <2>2. Status[Head(todo)] \in {0, 1} /\ Head(todo) # None
    BY <2>1, ChainAssumption
  <2> QED BY <1>3, <1>4, <2>1, <2>2 DEF TxWithReceipt
<1>5. CASE TxWithoutReceipt
  BY <1>3, <1>5 DEF TxWithoutReceipt
<1>6. CASE Resolve
  <2>1. Kept
    BY <1>6, FlowOfResolve DEF Resolve, RawPending, dbVars
  <2>2. RawGoesFirst(c)'
    BY <1>6, FlowOfResolve DEF Resolve, RawGoesFirst, dbVars
  <2> QED BY <1>1, <1>6, <2>1, <2>2 DEF Resolve, Emptied
<1>7. CASE UpsertRawTx
  <2> DEFINE x == Head(rawBatch)
  <2>1. x \in RawTxRec /\ Range(rawBatch) = {x} \cup Range(rawBatch')
    BY <1>7, HeadAndRest DEF UpsertRawTx
  <2>2. DOMAIN raw' = DOMAIN raw \cup {x.tx}
    BY <1>7 DEF UpsertRawTx, InsertRawTx, InsertOrIgnore
  <2>3. Kept
    BY <1>7, <2>1, <2>2 DEF UpsertRawTx, InsertRawTx, RawPending, ActPending
  <2>4. RawGoesFirst(c)'
    BY <1>7, <2>1, <2>2 DEF UpsertRawTx, RawGoesFirst
  <2> QED BY <1>1, <1>7, <2>3, <2>4 DEF UpsertRawTx, Emptied
<1>8. CASE RawTxsUpserted
  <2>1. Kept
    BY <1>8 DEF RawTxsUpserted, RawPending, ActPending, dbVars
  <2> QED BY <1>1, <1>8, <2>1 DEF RawTxsUpserted, Emptied, RawGoesFirst, dbVars
<1>9. CASE UpsertAction
  <2> DEFINE a == Head(actBatch)
  <2>1. a \in ActionRec /\ Range(actBatch) = {a} \cup Range(actBatch')
    BY <1>9, HeadAndRest DEF UpsertAction
  <2>2. DOMAIN act' = DOMAIN act \cup {Key(a)}
    BY <1>9 DEF UpsertAction, InsertAction, InsertOrIgnore, Key
  <2>3. Kept
    BY <1>9, <2>1, <2>2 DEF UpsertAction, InsertAction, RawPending, ActPending
  <2>4. RawGoesFirst(c)'
    BY <1>9, <2>1 DEF UpsertAction, InsertAction, RawGoesFirst
  <2> QED BY <1>1, <1>9, <2>3, <2>4 DEF UpsertAction, Emptied
<1>10. CASE ActionsUpserted
  <2>1. Kept
    BY <1>10 DEF ActionsUpserted, RawPending, ActPending, dbVars
  <2> QED BY <1>1, <1>10, <2>1 DEF ActionsUpserted, Emptied, RawGoesFirst, dbVars
<1>11. CASE CommitBlock
  <2>1. pc' \in {"block", "returned"}
    BY <1>11 DEF CommitBlock
  <2> QED BY <1>11, <2>1 DEF CommitBlock, SetCursor, Emptied, InFlight, RawGoesFirst
<1>12. CASE Raise \/ RaiseNotFound
  <2>1. pc' = "raised" /\ actBatch' = <<>>
    BY <1>12 DEF Raise, RaiseNotFound, DropLocals
  <2> QED BY <2>1 DEF Emptied, InFlight, RawGoesFirst, Range
<1> QED BY <1>2, <1>4, <1>5, <1>6, <1>7, <1>8, <1>9, <1>10, <1>11, <1>12
        DEF RangeStep, RangeFault

(* When the cursor is about to be set, the block is completely stored. *)
LEMMA CommitsWholeBlock ==
    ASSUME RangeOK, Emptied, NEW c, InFlight(c), n >= c, CommitBlock
    PROVE  Stored(n)
<1>1. todo = <<>> /\ rawBatch = <<>> /\ actBatch = <<>> /\ pc = "cursor"
  BY DEF CommitBlock, Emptied
<1>2. Range(todo) = {} /\ Range(rawBatch) = {} /\ Range(actBatch) = {}
  BY <1>1 DEF Range
<1> QED BY <1>1, <1>2 DEF InFlight, RawPending, ActPending, Stored, Scanning

(* The action rows a step adds have their raw_tx row stored, or belong to  *)
(* a block below the cutoff.                                               *)
LEMMA AddsUnderRaw ==
    ASSUME RangeOK, Emptied, NEW c, RawGoesFirst(c), RangeStep \/ RangeFault
    PROVE  \A k \in DOMAIN act' \ DOMAIN act :
               k[1] \in DOMAIN raw \/ BlockOf[k[1]] < c
<1>1. CASE UpsertAction
  <2> DEFINE a == Head(actBatch)
  <2>1. a \in Range(actBatch) /\ rawBatch = <<>>
    BY <1>1, HeadAndRest DEF UpsertAction, RangeOK, RangeTypeOK, Emptied
  <2>2. DOMAIN act' = DOMAIN act \cup {<<a.tx, a.sub>>}
    BY <1>1 DEF UpsertAction, InsertAction, InsertOrIgnore
  <2>3. a.tx \in DOMAIN raw \/ BlockOf[a.tx] < c
    BY <2>1 DEF RawGoesFirst, Range
  <2> QED BY <2>2, <2>3
<1>2. CASE ~UpsertAction
  <2>1. act' = act
    BY <1>2 DEF RangeStep, RangeFault, GetBlock, TxWithReceipt, TxWithoutReceipt, LookAt,
                Resolve, UpsertRawTx, InsertRawTx, RawTxsUpserted, ActionsUpserted,
                CommitBlock, SetCursor, Raise, RaiseNotFound, dbVars
  <2> QED BY <2>1
<1> QED BY <1>1, <1>2
=============================================================================

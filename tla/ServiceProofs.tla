--------------------------- MODULE ServiceProofs ---------------------------
(***************************************************************************)
(* What the deployed service keeps, for every chain, every bound and every *)
(* number of faults: its state is well typed, the cursor vouches for whole *)
(* blocks only, and an action row without its raw_tx row has expired; that *)
(* it implements the ledger; and what its resolver stitches.               *)
(***************************************************************************)
EXTENDS Service, RangeProofs

(* The inductive invariant. *)
IInv ==
    /\ TypeOK
    /\ CursorCovers
    /\ NothingInFlightLost
    /\ OrphansAreExpired

(* The invariant holds of an empty database and a process not yet started. *)
LEMMA StartsSafe == Init => IInv
<1> SUFFICES ASSUME Init PROVE IInv
  OBVIOUS
<1> USE DEF Init, StorageInit, RangeInit, NoLocals
<1>1. MaxBlock \in Nat \ {0} /\ 1 \in Block /\ MaxFaults \in Nat
  BY ChainAssumption, RangeAssumption DEF Block
<1>2. StorageTypeOK
  BY DEF StorageTypeOK, IsTable, EmptyTable
<1>3. RangeTypeOK
  <2>1. todo \in Seq(Tx) /\ rawBatch \in Seq(RawTxRec) /\ actBatch \in Seq(ActionRec)
    BY EmptySeq
  <2>2. \A i \in DOMAIN actBatch : Key(actBatch[i]) \in ActKey
    OBVIOUS
  <2>3. busy \in BOOLEAN
    OBVIOUS
  <2>4. /\ n \in 0 .. MaxBlock /\ end \in 0 .. MaxBlock /\ retained \in Block
        /\ faults \in 0 .. MaxFaults
    BY <1>1
  <2>5. known \subseteq Kami /\ receipt \in Tx \cup {None}
    OBVIOUS
  <2> QED BY <2>1, <2>2, <2>3, <2>4, <2>5 DEF RangeTypeOK
<1>4. TypeOK
  BY <1>1, <1>2, <1>3 DEF TypeOK, ServicePC
<1>5. NothingInFlightLost
  BY <1>1 DEF NothingInFlightLost, NoJump, Emptied, InFlight, RawGoesFirst, Scanning, RangePC, Range
<1>6. CursorCovers /\ OrphansAreExpired
  BY DEF CursorCovers, OrphansAreExpired, EmptyTable
<1> QED BY <1>4, <1>5, <1>6 DEF IInv

(* The invariant gives process_block_range the state its lemmas ask for. *)
LEMMA InvIsRangeOK ==
    ASSUME IInv
    PROVE  RangeOK
BY ChainAssumption
   DEF IInv, TypeOK, NothingInFlightLost, NoJump, RangeOK, RangeTypeOK, Block, RangePC

-----------------------------------------------------------------------------
(* A step inside process_block_range keeps the invariant. *)
LEMMA RangeKeepsInv ==
    ASSUME IInv, InRange(RangeStep) \/ InRange(RangeFault)
    PROVE  IInv'
<1>1. /\ RangeStep \/ RangeFault
      /\ origin' = IF cursor = None /\ cursor' # None THEN cursor' ELSE origin
      /\ UNCHANGED <<next, head, expired>>
  BY DEF InRange
<1>2. RangeOK /\ Emptied /\ InFlight(expired) /\ RawGoesFirst(expired) /\ NoJump
  BY InvIsRangeOK DEF IInv, NothingInFlightLost
<1>3. /\ MaxBlock \in Nat \ {0} /\ None \notin Nat
      /\ n \in Nat /\ end \in 0 .. MaxBlock /\ next \in Nat /\ origin \in Nat
      /\ cursor \in Block \cup {None} /\ head \in Block /\ expired \in 1 .. head
  BY ChainAssumption DEF IInv, TypeOK, RangeTypeOK, StorageTypeOK
<1>4. StorageTypeOK' /\ RangeTypeOK' /\ pc' \in RangePC
  BY <1>1, <1>2, RangeKeepsTypes
<1>5. /\ pc \in Scanning /\ end' = end
      /\ \/ n' = n /\ cursor' = cursor /\ pc' \in Scanning \cup {"raised"}
         \/ CommitBlock
  BY <1>1, RangeMoves
<1>6. TypeOK'
  BY <1>1, <1>3, <1>4 DEF IInv, TypeOK, StorageTypeOK, Block
<1>7. NoJump'
  <2>1. CASE n' = n /\ cursor' = cursor /\ pc' \in Scanning \cup {"raised"}
    BY <1>1, <1>2, <1>3, <1>5, <2>1 DEF NoJump, Block, Scanning, RangePC
  <2>2. CASE CommitBlock
    <3>1. cursor' = n /\ cursor' # None
      BY <1>3, <2>2 DEF CommitBlock, SetCursor
    <3>2. \/ n' = n + 1 /\ pc' = "block" /\ n < end
          \/ n' = n /\ pc' = "returned" /\ ~(n < end)
      BY <2>2 DEF CommitBlock
    <3> QED BY <1>1, <1>2, <1>3, <1>5, <3>1, <3>2 DEF NoJump, Block, Scanning, RangePC
  <2> QED BY <1>5, <2>1, <2>2
<1>8. NothingInFlightLost'
  <2>1. Emptied' /\ InFlight(expired)' /\ RawGoesFirst(expired)'
    BY <1>1, <1>2, FlowKept DEF InFlight, RawGoesFirst
  <2> QED BY <1>7, <2>1 DEF NothingInFlightLost
<1>9. CursorCovers'
  <2>1. \A b : Stored(b) => Stored(b)'
    BY <1>1, <1>2, RowsStay DEF Stored
  <2>2. CASE n' = n /\ cursor' = cursor
    BY <1>1, <2>1, <2>2 DEF IInv, CursorCovers, BlockStored
  <2>3. CASE CommitBlock
    <3>1. cursor' = n /\ cursor' # None
      BY <1>3, <2>3 DEF CommitBlock, SetCursor
    <3>2. n >= expired => Stored(n)
      BY <1>2, <2>3, CommitsWholeBlock
    <3>3. CASE cursor = None
      BY <1>1, <1>3, <2>1, <3>1, <3>2, <3>3 DEF CursorCovers, BlockStored
    <3>4. CASE cursor # None
      <4>1. \A b \in origin .. n : b = n \/ b \in origin .. cursor
        BY <1>2, <1>3, <1>5, <3>4 DEF NoJump, Block
      <4> QED BY <1>1, <2>1, <3>1, <3>2, <3>4, <4>1 DEF IInv, CursorCovers, BlockStored
    <3> QED BY <3>3, <3>4
  <2> QED BY <1>5, <2>2, <2>3
<1>10. OrphansAreExpired'
  <2> SUFFICES ASSUME NEW k \in DOMAIN act', k[1] \notin DOMAIN raw'
               PROVE  BlockOf[k[1]] < expired
    BY <1>1 DEF OrphansAreExpired
  <2>1. k[1] \notin DOMAIN raw
    BY <1>1, <1>2, RowsStay
  <2>2. CASE k \in DOMAIN act
    BY <2>1, <2>2 DEF IInv, OrphansAreExpired
  <2>3. CASE k \notin DOMAIN act
    BY <1>1, <1>2, <2>1, <2>3, AddsUnderRaw
  <2> QED BY <2>2, <2>3
<1> QED BY <1>6, <1>8, <1>9, <1>10 DEF IInv

-----------------------------------------------------------------------------
(* The steps around the range: they leave the database as it is and have   *)
(* no block in flight.                                                     *)
AroundRange ==
    \/ Boot \/ ReadCursor \/ Poll \/ RangeReturned \/ RangeRaised \/ DieAtStart \/ Crash

(* They keep what is said of rows, batches and the cursor. *)
LEMMA AroundKeepsRows ==
    ASSUME IInv, AroundRange
    PROVE  /\ CursorCovers' /\ OrphansAreExpired'
           /\ Emptied' /\ InFlight(expired)' /\ RawGoesFirst(expired)'
<1>1. /\ UNCHANGED <<raw, act, cursor, expired, origin>>
      /\ pc' \in {"down", "start", "loop", "dead", "block"}
      /\ UNCHANGED <<rawBatch, actBatch>> \/ actBatch' = <<>>
  BY DEF AroundRange, Boot, ReadCursor, Poll, StartRange, RangeReturned, RangeRaised,
         DieAtStart, Crash, DropLocals, dbVars
<1>2. CursorCovers' /\ OrphansAreExpired'
  BY <1>1 DEF IInv, CursorCovers, BlockStored, Stored, OrphansAreExpired
<1>3. Emptied' /\ InFlight(expired)'
  BY <1>1 DEF Emptied, InFlight, Scanning
<1>4. RawGoesFirst(expired)'
  BY <1>1 DEF IInv, NothingInFlightLost, RawGoesFirst, Range
<1> QED BY <1>2, <1>3, <1>4

(* They keep the invariant: each leaves next, n and end where NoJump wants. *)
LEMMA AroundKeepsInv ==
    ASSUME IInv, AroundRange
    PROVE  IInv'
<1>1. /\ MaxBlock \in Nat \ {0} /\ None \notin Nat /\ MaxFaults \in Nat
      /\ MaxCatchup \in Nat \ {0}
      /\ n \in Nat /\ end \in 0 .. MaxBlock /\ next \in 0 .. MaxBlock + 1
      /\ origin \in 0 .. MaxBlock /\ faults \in 0 .. MaxFaults
      /\ cursor \in Block \cup {None} /\ head \in Block /\ expired \in 1 .. head
  BY ChainAssumption, RangeAssumption, CatchupAssumption
     DEF IInv, TypeOK, RangeTypeOK, StorageTypeOK
<1>2. TypeOK /\ RangeTypeOK /\ StorageTypeOK /\ NoJump
  BY DEF IInv, TypeOK, NothingInFlightLost
<1>3. CASE Boot
  <2>1. known' \subseteq Kami
    <3>1. \A k \in DOMAIN act : act[k].kami \in Kami \cup {None}
      BY <1>2 DEF StorageTypeOK, IsTable, ActRow
    <3> QED BY <1>3, <3>1 DEF Boot, StoredKamis
  <2>2. TypeOK'
    BY <1>2, <1>3, <2>1
       DEF Boot, TypeOK, RangeTypeOK, StorageTypeOK, dbVars, envVars, ServicePC
  <2>3. NoJump'
    BY <1>2, <1>3 DEF Boot, NoJump, dbVars, Scanning, RangePC
  <2> QED BY <2>2, <2>3, AroundKeepsRows DEF IInv, NothingInFlightLost
<1>4. CASE ReadCursor
  <2>1. next' \in 1 .. MaxBlock + 1 /\ (cursor # None => next' = cursor + 1)
    BY <1>1, <1>4 DEF ReadCursor, Block
  <2>2. TypeOK'
    BY <1>2, <1>4, <2>1
       DEF ReadCursor, TypeOK, RangeTypeOK, StorageTypeOK, dbVars, envVars, ServicePC
  <2>3. NoJump'
    BY <1>1, <1>2, <1>4, <2>1 DEF ReadCursor, NoJump, dbVars, Scanning, RangePC, Block
  <2> QED BY <2>2, <2>3, AroundKeepsRows DEF IInv, NothingInFlightLost
<1>5. CASE DieAtStart
  <2>1. faults' \in 0 .. MaxFaults
    BY <1>1, <1>5 DEF DieAtStart, Fault
  <2>2. TypeOK'
    BY <1>2, <1>5, <2>1
       DEF DieAtStart, TypeOK, RangeTypeOK, StorageTypeOK, dbVars, ServicePC
  <2>3. NoJump'
    BY <1>2, <1>5 DEF DieAtStart, NoJump, dbVars, Scanning, RangePC
  <2> QED BY <2>2, <2>3, AroundKeepsRows DEF IInv, NothingInFlightLost
<1>6. CASE Poll
  <2>1. n' = next /\ end' \in next .. head /\ end' = LastOfRange
    BY <1>1, <1>6 DEF Poll, StartRange, LastOfRange, Block
  <2>2. n' \in 0 .. MaxBlock /\ end' \in 0 .. MaxBlock
    BY <1>1, <1>6, <2>1 DEF Poll, Block
  <2>3. TypeOK'
    BY <1>2, <1>6, <2>2
       DEF Poll, StartRange, TypeOK, RangeTypeOK, StorageTypeOK, dbVars, envVars,
           RangePC, Scanning
  <2>4. NoJump'
    BY <1>1, <1>2, <1>6, <2>1
       DEF Poll, StartRange, NoJump, dbVars, Scanning, RangePC, Block
  <2> QED BY <2>3, <2>4, AroundKeepsRows DEF IInv, NothingInFlightLost
<1>7. CASE RangeReturned
  <2>1. next' = end + 1 /\ next' \in 1 .. MaxBlock + 1
    BY <1>1, <1>7 DEF RangeReturned
  <2>2. TypeOK'
    BY <1>2, <1>7, <2>1
       DEF RangeReturned, TypeOK, RangeTypeOK, StorageTypeOK, dbVars, envVars, ServicePC
  <2>3. NoJump'
    BY <1>1, <1>2, <1>7, <2>1 DEF RangeReturned, NoJump, dbVars, Scanning, RangePC, Block
  <2> QED BY <2>2, <2>3, AroundKeepsRows DEF IInv, NothingInFlightLost
<1>8. CASE RangeRaised
  <2>1. TypeOK'
    BY <1>2, <1>8
       DEF RangeRaised, TypeOK, RangeTypeOK, StorageTypeOK, dbVars, envVars, ServicePC
  <2>2. NoJump'
    BY <1>2, <1>8 DEF RangeRaised, NoJump, dbVars, Scanning, RangePC
  <2> QED BY <2>1, <2>2, AroundKeepsRows DEF IInv, NothingInFlightLost
<1>9. CASE Crash
  <2>1. faults' \in 0 .. MaxFaults
    BY <1>1, <1>9 DEF Crash, Fault
  <2>2. /\ todo' \in Seq(Tx) /\ rawBatch' \in Seq(RawTxRec) /\ actBatch' \in Seq(ActionRec)
        /\ \A i \in DOMAIN actBatch' : Key(actBatch'[i]) \in ActKey
    BY <1>9, EmptySeq DEF Crash, DropLocals
  <2>3. busy' \in BOOLEAN
    BY <1>9 DEF Crash, DropLocals
  <2>4. StorageTypeOK'
    BY <1>2, <1>9 DEF Crash, StorageTypeOK, dbVars
  <2>5. RangeTypeOK'
    BY <1>1, <1>2, <1>9, <2>1, <2>2, <2>3 DEF Crash, DropLocals, RangeTypeOK
  <2>6. TypeOK'
    BY <1>1, <1>2, <1>9, <2>4, <2>5 DEF Crash, TypeOK, ServicePC
  <2>7. NoJump'
    BY <1>2, <1>9 DEF Crash, NoJump, dbVars, Scanning, RangePC
  <2> QED BY <2>6, <2>7, AroundKeepsRows DEF IInv, NothingInFlightLost
<1> QED BY <1>3, <1>4, <1>5, <1>6, <1>7, <1>8, <1>9 DEF AroundRange

-----------------------------------------------------------------------------
(* The steps of the prune thread, of the clock and of the chain.           *)
AsideRange == Prune \/ NewBlock \/ TimePasses \/ NodePrunes

(* They keep the invariant: what a sweep deletes is asked of no longer.    *)
LEMMA AsideKeepsInv ==
    ASSUME IInv, AsideRange
    PROVE  IInv'
<1>1. TypeOK /\ RangeTypeOK /\ StorageTypeOK /\ NoJump /\ Emptied /\ CursorCovers
      /\ InFlight(expired) /\ RawGoesFirst(expired) /\ OrphansAreExpired
  BY DEF IInv, TypeOK, NothingInFlightLost
<1>2. /\ MaxBlock \in Nat \ {0} /\ BlockOf \in [Tx -> Block]
      /\ head \in Block /\ expired \in 1 .. head /\ retained \in Block
      /\ n \in Nat
  BY <1>1, ChainAssumption DEF TypeOK, RangeTypeOK
<1>3. NoJump' /\ Emptied'
  BY <1>1 DEF AsideRange, Prune, PruneOlderThan, NewBlock, TimePasses, NodePrunes,
              NoJump, Emptied, rangeVars, dbVars
<1>4. CASE Prune
  <2> DEFINE A == {k \in DOMAIN act : BlockOf[k[1]] >= expired}
             R == {t \in DOMAIN raw : BlockOf[t] >= expired}
  <2>1. UNCHANGED <<rangeVars, envVars, next, head, expired, origin, cursor>>
    BY <1>4 DEF Prune, PruneOlderThan
  <2>2. act' = Restrict(act, A) /\ raw' = Restrict(raw, R)
    BY <1>4 DEF Prune, PruneOlderThan, ActionsSince, RawTxsSince
  <2>3. /\ DOMAIN act' = A /\ DOMAIN raw' = R
        /\ IsTable(act', ActKey, ActRow) /\ IsTable(raw', Tx, RawRow)
    BY <1>1, <2>2, RestrictKeeps DEF StorageTypeOK
  <2>4. TypeOK'
    BY <1>1, <2>1, <2>3
       DEF TypeOK, RangeTypeOK, StorageTypeOK, rangeVars, envVars, RangePC, ServicePC
  <2>5. \A k \in ActKey : k[1] \in Tx /\ k \in Keys(k[1])
    BY KeyHasTx
  <2>6. \A b : b >= expired /\ Stored(b) => Stored(b)'
    BY <2>3, KeysOfTx DEF Stored
  <2>7. CursorCovers'
    BY <1>1, <2>1, <2>6 DEF CursorCovers, BlockStored
  <2>8. InFlight(expired)'
    <3>1. \A t \in Tx : /\ RawPending(t)' <=> RawPending(t)
                        /\ \A k \in Keys(t) : ActPending(k)' <=> ActPending(k)
      BY <2>1 DEF RawPending, ActPending, rangeVars
    <3> QED BY <1>1, <2>1, <2>3, <3>1, KeysOfTx DEF InFlight, rangeVars
  <2>9. RawGoesFirst(expired)'
    <3>1. \A t \in DOMAIN raw : t \in R \/ BlockOf[t] < expired
      <4>1. \A t \in DOMAIN raw : BlockOf[t] \in Nat
        BY <1>1, <1>2 DEF StorageTypeOK, IsTable, Block
      <4> QED BY <1>2, <4>1
    <3> QED BY <1>1, <2>1, <2>3, <3>1 DEF RawGoesFirst, rangeVars
  <2>10. OrphansAreExpired'
    <3>1. \A k \in DOMAIN act : k[1] \in Tx
      BY <1>1, KeyHasTx DEF StorageTypeOK, IsTable
    <3> QED BY <1>1, <2>1, <2>3, <3>1 DEF OrphansAreExpired
  <2> QED BY <1>3, <2>4, <2>7, <2>8, <2>9, <2>10 DEF IInv, NothingInFlightLost
<1>5. CASE TimePasses
  <2>1. UNCHANGED <<rangeVars, envVars, dbVars, next, head, origin>>
        /\ expired' = expired + 1 /\ expired' \in 1 .. head
    BY <1>2, <1>5 DEF TimePasses, Block
  <2>2. TypeOK'
    BY <1>1, <2>1
       DEF TypeOK, RangeTypeOK, StorageTypeOK, rangeVars, envVars, dbVars, RangePC, ServicePC
  <2>3. \A b \in Int : b >= expired + 1 => b >= expired
    BY <1>2
  <2>4. \A b \in Int : b < expired => b < expired + 1
    BY <1>2
  <2>5. CursorCovers'
    <3>1. \A b : Stored(b)' <=> Stored(b)
      BY <2>1 DEF Stored, dbVars
    <3>2. cursor # None => \A b \in origin .. cursor : b \in Int
      OBVIOUS
    <3> QED BY <1>1, <2>1, <2>3, <3>1, <3>2 DEF CursorCovers, BlockStored, dbVars
  <2>6. InFlight(expired)'
    <3>1. \A t \in Tx : /\ RawPending(t)' <=> RawPending(t)
                        /\ \A k \in Keys(t) : ActPending(k)' <=> ActPending(k)
      BY <2>1 DEF RawPending, ActPending, rangeVars
    <3> QED BY <1>1, <1>2, <2>1, <2>3, <3>1 DEF InFlight, rangeVars, dbVars
  <2>7. RawGoesFirst(expired)'
    <3>1. \A a \in Range(actBatch) : BlockOf[a.tx] \in Int
      <4>1. Range(actBatch) \subseteq ActionRec
        BY <1>1, RangeOfSeq DEF RangeTypeOK
      <4> QED BY <1>2, <4>1 DEF ActionRec, Block
    <3> QED BY <1>1, <2>1, <2>4, <3>1 DEF RawGoesFirst, rangeVars, dbVars
  <2>8. OrphansAreExpired'
    <3>1. \A k \in DOMAIN act : BlockOf[k[1]] \in Int
      <4>1. \A k \in DOMAIN act : k[1] \in Tx
        BY <1>1, KeyHasTx DEF StorageTypeOK, IsTable
      <4> QED BY <1>2, <4>1 DEF Block
    <3> QED BY <1>1, <2>1, <2>4, <3>1 DEF OrphansAreExpired, dbVars
  <2> QED BY <1>3, <2>2, <2>5, <2>6, <2>7, <2>8 DEF IInv, NothingInFlightLost
<1>6. CASE NewBlock \/ NodePrunes
  <2>1. UNCHANGED <<rangeVars, faults, dbVars, next, expired, origin>>
    BY <1>6 DEF NewBlock, NodePrunes, envVars
  <2>2. head' \in Block /\ expired' \in 1 .. head' /\ retained' \in Block
    BY <1>2, <1>6 DEF NewBlock, NodePrunes, envVars, Block
  <2>3. TypeOK'
    BY <1>1, <2>1, <2>2
       DEF TypeOK, RangeTypeOK, StorageTypeOK, rangeVars, dbVars, RangePC, ServicePC
  <2>4. CursorCovers' /\ OrphansAreExpired'
    BY <1>1, <2>1 DEF CursorCovers, BlockStored, Stored, OrphansAreExpired, dbVars
  <2>5. InFlight(expired)' /\ RawGoesFirst(expired)'
    BY <1>1, <2>1 DEF InFlight, RawPending, ActPending, RawGoesFirst, rangeVars, dbVars
  <2> QED BY <1>3, <2>3, <2>4, <2>5 DEF IInv, NothingInFlightLost
<1> QED BY <1>4, <1>5, <1>6 DEF AsideRange

-----------------------------------------------------------------------------
(* The invariant is inductive. *)
LEMMA StepKeepsInv ==
    ASSUME IInv, [Next]_vars
    PROVE  IInv'
<1>1. CASE Next
  BY <1>1, RangeKeepsInv, AroundKeepsInv, AsideKeepsInv
     DEF Next, PollerStep, AroundRange, AsideRange
<1>2. CASE UNCHANGED vars
  BY <1>2
     DEF vars, IInv, TypeOK, StorageTypeOK, RangeTypeOK, CursorCovers, BlockStored, Stored,
         NothingInFlightLost, NoJump, Emptied, InFlight, RawPending, ActPending,
         RawGoesFirst, OrphansAreExpired
<1> QED BY <1>1, <1>2

(* So it holds in every reachable state. *)
THEOREM InvHolds == Spec => []IInv
<1>1. Init => IInv
  BY StartsSafe
<1>2. IInv /\ [Next]_vars => IInv'
  BY StepKeepsInv
<1> QED BY <1>1, <1>2, PTL DEF Spec

(* The variables keep their types: whatever the chain, the bounds and the  *)
(* faults, no range reaches past the chain and no batch holds a row that   *)
(* the decoder did not make.                                               *)
THEOREM TypeCorrect == Spec => []TypeOK
<1>1. IInv => TypeOK
  BY DEF IInv
<1> QED BY <1>1, InvHolds, PTL

(* No data loss: the cursor process_block_range sets vouches for complete  *)
(* blocks only, back to the first block ever committed, through retries of *)
(* a range, crashes between two statements, restarts and prune sweeps.     *)
THEOREM CursorIsHonest == Spec => []CursorCovers
<1>1. IInv => CursorCovers
  BY DEF IInv
<1> QED BY <1>1, InvHolds, PTL

(* Between two steps of process_block_range every row of the block in      *)
(* flight is in a batch or stored, and the poller resumes at a block the   *)
(* cursor lets it resume at.                                               *)
THEOREM NoRowLost == Spec => []NothingInFlightLost
<1>1. IInv => NothingInFlightLost
  BY DEF IInv
<1> QED BY <1>1, InvHolds, PTL

(* A prune sweep between upsert_raw_txs and upsert_actions can part an     *)
(* action row from its raw_tx row only when both are out of the window.    *)
THEOREM OrphansExpired == Spec => []OrphansAreExpired
<1>1. IInv => OrphansAreExpired
  BY DEF IInv
<1> QED BY <1>1, InvHolds, PTL

-----------------------------------------------------------------------------
(* ON CONFLICT DO NOTHING, at every step: a stored row is never changed,   *)
(* and only rows outside the window go.                                    *)
THEOREM RowsAreStable == Spec => StoredRowsStable
<1> DEFINE Stable ==
      /\ \A t \in DOMAIN raw :
            IF t \in DOMAIN raw' THEN raw'[t] = raw[t] ELSE BlockOf[t] < expired
      /\ \A k \in DOMAIN act :
            IF k \in DOMAIN act' THEN act'[k] = act[k] ELSE BlockOf[k[1]] < expired
<1>1. ASSUME IInv, [Next]_vars
      PROVE  Stable
  <2>1. CASE RangeStep \/ RangeFault
    BY <1>1, <2>1, InvIsRangeOK, RowsStay
  <2>2. CASE Prune
    <3>1. /\ act' = Restrict(act, {k \in DOMAIN act : BlockOf[k[1]] >= expired})
          /\ raw' = Restrict(raw, {t \in DOMAIN raw : BlockOf[t] >= expired})
      BY <2>2 DEF Prune, PruneOlderThan, ActionsSince, RawTxsSince
    <3>2. /\ expired \in Nat /\ BlockOf \in [Tx -> Block]
          /\ DOMAIN raw \subseteq Tx /\ \A k \in DOMAIN act : k[1] \in Tx
      BY <1>1, ChainAssumption, KeyHasTx DEF IInv, TypeOK, StorageTypeOK, IsTable, Block
    <3>3. /\ \A t \in DOMAIN raw : BlockOf[t] >= expired \/ BlockOf[t] < expired
          /\ \A k \in DOMAIN act : BlockOf[k[1]] >= expired \/ BlockOf[k[1]] < expired
      BY <3>2 DEF Block
    <3> QED BY <3>1, <3>3 DEF Restrict
  <2>3. CASE UNCHANGED <<raw, act>>
    BY <2>3
  <2>4. \/ RangeStep \/ RangeFault \/ Prune
        \/ UNCHANGED <<raw, act>>
    BY <1>1
       DEF Next, PollerStep, InRange, Boot, ReadCursor, Poll, RangeReturned, RangeRaised,
           DieAtStart, Crash, NewBlock, TimePasses, NodePrunes, dbVars, vars
  <2> QED BY <2>1, <2>2, <2>3, <2>4
<1>2. IInv /\ [Next]_vars => [Stable]_vars
  BY <1>1
<1> QED BY <1>2, InvHolds, PTL DEF Spec, StoredRowsStable

-----------------------------------------------------------------------------
(***************************************************************************)
(* The service implements the ledger: every step of its threads, of the    *)
(* chain and of the faults is a step of the abstract specification or      *)
(* leaves the ledger as it is.                                             *)
(***************************************************************************)

(* A row of the ledger is a row of the transaction it begins with. *)
LEMMA RowHasTx ==
    ASSUME NEW r \in AllRows
    PROVE  r[1] \in Tx /\ r \in RowsOf(r[1])
<1>1. PICK t \in Tx : r \in RowsOf(t)
  BY DEF AllRows
<1>2. r[1] = t
  BY <1>1, KeysOfTx DEF RowsOf
<1> QED BY <1>1, <1>2

(* Blocks that are stored are covered in the ledger. *)
LEMMA StoredIsCovered ==
    ASSUME NEW first, NEW last, \A b \in first .. last : BlockStored(b)
    PROVE  L!Covered(first, last)
<1> SUFFICES ASSUME NEW r \in AllRows,
                    BlockOf[r[1]] \in first .. last, BlockOf[r[1]] >= expired
             PROVE  r \in StoredRows
  BY DEF L!Covered
<1>1. r[1] \in Tx /\ r \in RowsOf(r[1]) /\ Stored(BlockOf[r[1]])
  BY RowHasTx DEF BlockStored
<1>2. r[1] \in DOMAIN raw /\ Keys(r[1]) \subseteq DOMAIN act
  BY <1>1 DEF Stored
<1> QED BY <1>1, <1>2 DEF RowsOf, StoredRows

(* An empty database is an empty ledger. *)
LEMMA LedgerStarts == Init => L!Init
BY DEF Init, StorageInit, EmptyTable, StoredRows, L!Init

(* A step inside process_block_range records a row, marks its block, or    *)
(* does nothing to the ledger.                                             *)
LEMMA LedgerInRange ==
    ASSUME IInv, InRange(RangeStep) \/ InRange(RangeFault)
    PROVE  [L!Next]_(L!ledgerVars)
<1>1. /\ RangeStep \/ RangeFault
      /\ origin' = IF cursor = None /\ cursor' # None THEN cursor' ELSE origin
      /\ UNCHANGED <<next, head, expired>>
  BY DEF InRange
<1>2. RangeOK /\ Emptied /\ InFlight(expired) /\ NoJump
  BY InvIsRangeOK DEF IInv, NothingInFlightLost
<1>3. /\ MaxBlock \in Nat \ {0} /\ None \notin Nat
      /\ cursor \in Block \cup {None} /\ origin \in Nat /\ next \in Nat
  BY ChainAssumption DEF IInv, TypeOK, StorageTypeOK
<1>4. CASE UpsertRawTx
  <2> DEFINE r == <<Head(rawBatch).tx, 0>>
  <2>1. Head(rawBatch).tx \in Tx
    <3>1. Head(rawBatch) \in RawTxRec
      BY <1>2, <1>4, HeadAndRest DEF UpsertRawTx, RangeOK, RangeTypeOK
    <3> QED BY <3>1 DEF RawTxRec
  <2>2. r \in AllRows
    BY <2>1 DEF AllRows, RowsOf
  <2>3. StoredRows' = StoredRows \cup {r} /\ UNCHANGED <<cursor, origin>>
    BY <1>1, <1>4 DEF UpsertRawTx, InsertRawTx, InsertOrIgnore, StoredRows
  <2>4. CASE r \in StoredRows
    BY <1>1, <2>3, <2>4 DEF L!ledgerVars
  <2>5. CASE r \notin StoredRows
    BY <1>1, <2>2, <2>3, <2>5 DEF L!Next, L!Record
  <2> QED BY <2>4, <2>5
<1>5. CASE UpsertAction
  <2> DEFINE k == Key(Head(actBatch))
  <2>1. k \in ActKey
    <3>1. Head(actBatch) \in Range(actBatch)
      BY <1>2, <1>5, HeadAndRest DEF UpsertAction, RangeOK, RangeTypeOK
    <3> QED BY <1>2, <3>1 DEF RangeOK, RangeTypeOK, Range
  <2>2. k \in AllRows
    BY <2>1, KeyHasTx DEF AllRows, RowsOf
  <2>3. StoredRows' = StoredRows \cup {k} /\ UNCHANGED <<cursor, origin>>
    BY <1>1, <1>5 DEF UpsertAction, InsertAction, InsertOrIgnore, StoredRows, Key
  <2>4. CASE k \in StoredRows
    BY <1>1, <2>3, <2>4 DEF L!ledgerVars
  <2>5. CASE k \notin StoredRows
    BY <1>1, <2>2, <2>3, <2>5 DEF L!Next, L!Record
  <2> QED BY <2>4, <2>5
<1>6. CASE CommitBlock
  <2>1. cursor' = n /\ n \in Block /\ cursor' # None /\ StoredRows' = StoredRows
    BY <1>2, <1>3, <1>6
       DEF CommitBlock, SetCursor, RangeOK, Scanning, Block, StoredRows
  <2>2. BlockStored(n)
    BY <1>2, <1>6, CommitsWholeBlock DEF BlockStored
  <2>3. CASE cursor = None
    <3>1. L!Covered(n, n)
      <4>1. \A b \in n .. n : b = n
        BY <2>1 DEF Block
      <4> QED BY <2>2, <4>1, StoredIsCovered
    <3> QED BY <1>1, <2>1, <2>3, <3>1 DEF L!Next, L!Open, Block
  <2>4. CASE cursor # None
    <3>1. origin <= n /\ n <= cursor + 1
      BY <1>2, <1>3, <1>6, <2>1, <2>4 DEF NoJump, CommitBlock, Scanning, RangePC, Block
    <3>2. \A b \in origin .. n : b = n \/ b \in origin .. cursor
      BY <1>3, <2>1, <2>4, <3>1 DEF Block
    <3>3. L!Covered(origin, n)
      BY <2>2, <2>4, <3>2, StoredIsCovered DEF IInv, CursorCovers
    <3>4. n \in origin .. cursor + 1
      BY <1>3, <2>1, <2>4, <3>1 DEF Block
    <3>5. origin' = origin
      BY <1>1, <2>4
    <3> QED BY <1>1, <2>1, <2>4, <3>3, <3>4, <3>5 DEF L!Next, L!Mark, Block
  <2> QED BY <2>3, <2>4
<1>7. CASE ~UpsertRawTx /\ ~UpsertAction /\ ~CommitBlock
  <2>1. UNCHANGED <<raw, act, cursor>>
    BY <1>1, <1>7
       DEF RangeStep, RangeFault, GetBlock, TxWithReceipt, TxWithoutReceipt, LookAt,
           Resolve, RawTxsUpserted, ActionsUpserted, Raise, RaiseNotFound, dbVars
  <2> QED BY <1>1, <2>1 DEF L!ledgerVars, StoredRows
<1> QED BY <1>4, <1>5, <1>6, <1>7

(* A sweep of the prune thread drops what has expired, all at once.        *)
LEMMA LedgerPrune ==
    ASSUME IInv, Prune
    PROVE  L!Drop
<1>1. /\ act' = Restrict(act, {k \in DOMAIN act : BlockOf[k[1]] >= expired})
      /\ raw' = Restrict(raw, {t \in DOMAIN raw : BlockOf[t] >= expired})
      /\ UNCHANGED <<cursor, origin, expired>>
  BY DEF Prune, PruneOlderThan, ActionsSince, RawTxsSince
<1>2. /\ DOMAIN act' = {k \in DOMAIN act : BlockOf[k[1]] >= expired}
      /\ DOMAIN raw' = {t \in DOMAIN raw : BlockOf[t] >= expired}
  BY <1>1 DEF Restrict
<1>3. StoredRows \subseteq AllRows
  <2>1. DOMAIN raw \subseteq Tx /\ DOMAIN act \subseteq ActKey
    BY DEF IInv, TypeOK, StorageTypeOK, IsTable
  <2> QED BY <2>1, KeyHasTx DEF StoredRows, AllRows, RowsOf
<1>4. \A r \in StoredRows : [x \in AllRows |-> BlockOf[x[1]]][r] = BlockOf[r[1]]
  BY <1>3
<1>5. StoredRows' = {r \in StoredRows : BlockOf[r[1]] >= expired}
  BY <1>2 DEF StoredRows
<1>6. StoredRows'
        = {r \in StoredRows : [x \in AllRows |-> BlockOf[x[1]]][r] >= expired}
  BY <1>4, <1>5
<1> QED BY <1>1, <1>6 DEF L!Drop

(* Every step of the service is a step of the ledger, or leaves it alone. *)
LEMMA LedgerSteps ==
    ASSUME IInv, [Next]_vars
    PROVE  [L!Next]_(L!ledgerVars)
<1>1. CASE InRange(RangeStep) \/ InRange(RangeFault)
  BY <1>1, LedgerInRange
<1>2. CASE Prune
  BY <1>2, LedgerPrune DEF L!Next
<1>3. CASE TimePasses
  BY <1>3 DEF TimePasses, dbVars, StoredRows, L!Next, L!Expire
<1>4. CASE AroundRange \/ NewBlock \/ NodePrunes \/ UNCHANGED vars
  <2>1. UNCHANGED <<raw, act, cursor, origin, expired>>
    BY <1>4
       DEF AroundRange, Boot, ReadCursor, Poll, RangeReturned, RangeRaised, DieAtStart,
           Crash, NewBlock, NodePrunes, vars, dbVars
  <2> QED BY <2>1 DEF StoredRows, L!ledgerVars
<1> QED BY <1>1, <1>2, <1>3, <1>4 DEF Next, PollerStep, AroundRange

(* The deployed service, with its retries, crashes, restarts and prune     *)
(* sweeps, implements the ledger: the mark never jumps over a block whose  *)
(* rows are not all recorded, and rows only leave it when they expire.     *)
THEOREM ServiceImplementsLedger == Spec => ImplementsLedger
<1>1. Init => L!Init
  BY LedgerStarts
<1>2. IInv /\ [Next]_vars => [L!Next]_(L!ledgerVars)
  BY LedgerSteps
<1> QED BY <1>1, <1>2, InvHolds, PTL DEF Spec, ImplementsLedger, L!Spec

-----------------------------------------------------------------------------
(***************************************************************************)
(* The harvest resolver of the deployed service: a stop or collect row     *)
(* without a kami_id has no row before it that could have named its kami.  *)
(* The difficulty is that blocks are scanned again with more knowledge     *)
(* than the first time, and that rows which taught the resolver a kami may *)
(* be gone by then.                                                        *)
(***************************************************************************)

(* The kamis that rows of block x name by themselves. *)
NamedIn(x) == {Action(k).kami : k \in {m \in ActKey : BlockOf[m[1]] = x}} \ {None}

(* No block below this one will be scanned again. *)
Floor ==
    IF pc \in {"loop"} \cup RangePC THEN next
    ELSE IF cursor = None THEN head ELSE cursor + 1

(* What the resolver knows: the kamis of the stored rows, of the batch it  *)
(* has seen, and of the blocks of the range that are done.                 *)
Knows ==
    /\ pc # "down" => StoredKamis \subseteq known
    /\ pc \in {"raw", "acts"} =>
         /\ Observed(actBatch) \subseteq known
         /\ \A a \in Range(actBatch) : NeedsStitch(a) => Action(Key(a)).harvest \notin known
    /\ pc \in Scanning => \A x \in next .. n - 1 : NamedIn(x) \subseteq known
    /\ pc \in {"raw", "acts", "cursor"} => NamedIn(n) \subseteq known

(* The batch is of the block being processed, and whole when it is seen.   *)
BatchOfBlock ==
    /\ pc \notin Scanning \ {"block"} => Range(todo) = {} /\ Range(actBatch) = {}
    /\ \A t \in Range(todo) : BlockOf[t] = n
    /\ \A a \in Range(actBatch) : BlockOf[a.tx] = n
    /\ pc = "tx" =>
         /\ \A a \in Range(actBatch) : a.kami = Action(Key(a)).kami
         /\ \A t \in Tx : BlockOf[t] = n =>
              \/ t \in Range(todo)
              \/ \A k \in Keys(t) : \E a \in Range(actBatch) : Key(a) = k

(* An unresolved row is not named from Floor up to its block, and if its   *)
(* kami has become known since, those blocks are complete.                 *)
Late ==
    \A k \in DOMAIN act : Unresolved(k) =>
        \A x \in Floor .. BlockOf[k[1]] :
            /\ Action(k).harvest \notin NamedIn(x)
            /\ Action(k).harvest \in known \cup StoredKamis => BlockStored(x)

RInv ==
    /\ pc \in {"loop"} \cup RangePC /\ cursor = None => next <= head
    /\ Knows
    /\ BatchOfBlock
    /\ Late
    /\ UnresolvedMeansUnseen

(* What the arithmetic of the proofs below needs to know. *)
LEMMA ResolverNumbers ==
    ASSUME IInv
    PROVE  /\ MaxBlock \in Nat \ {0} /\ None \notin Nat /\ None \notin Kami
           /\ Block \subseteq Nat \ {0} /\ BlockOf \in [Tx -> Block]
           /\ n \in Nat /\ end \in Nat /\ next \in Nat /\ origin \in Nat
           /\ head \in Nat /\ expired \in Nat /\ Floor \in Nat
           /\ cursor \in Block \cup {None}
           /\ \A k \in DOMAIN act : k \in ActKey /\ k[1] \in Tx /\ BlockOf[k[1]] \in Nat
<1>1. TypeOK /\ StorageTypeOK /\ RangeTypeOK
  BY DEF IInv, TypeOK
<1>2. /\ MaxBlock \in Nat \ {0} /\ None \notin Nat /\ None \notin Kami
      /\ Block \subseteq Nat \ {0} /\ BlockOf \in [Tx -> Block]
  BY ChainAssumption DEF Block
<1>3. /\ n \in Nat /\ end \in Nat /\ next \in Nat /\ origin \in Nat
      /\ head \in Nat /\ expired \in Nat /\ cursor \in Block \cup {None}
  BY <1>1, <1>2 DEF TypeOK, RangeTypeOK, StorageTypeOK
<1>4. Floor \in Nat
  BY <1>2, <1>3 DEF Floor
<1>5. \A k \in DOMAIN act : k \in ActKey /\ k[1] \in Tx /\ BlockOf[k[1]] \in Nat
  BY <1>1, <1>2, KeyHasTx DEF StorageTypeOK, IsTable
<1> QED BY <1>2, <1>3, <1>4, <1>5

(* Nothing is stored, known or in a batch at the start. *)
LEMMA ResolverStarts == Init => RInv
BY DEF Init, StorageInit, RangeInit, NoLocals, EmptyTable, RInv, Knows, BatchOfBlock, Late,
       UnresolvedMeansUnseen, StoredKamis, Scanning, RangePC, Range

(* Steps that add no row and teach the resolver nothing new.               *)
LEMMA LateKept ==
    ASSUME IInv, Late, UnresolvedMeansUnseen,
           \A k \in DOMAIN act' : k \in DOMAIN act /\ act'[k] = act[k],
           known' \cup StoredKamis' \subseteq known \cup StoredKamis,
           Floor' \in Nat, Floor <= Floor',
           expired' \in Nat, expired <= expired',
           \A x \in Int : BlockStored(x) => BlockStored(x)'
    PROVE  Late' /\ UnresolvedMeansUnseen'
<1>1. Late'
  <2> SUFFICES ASSUME NEW k \in DOMAIN act', Unresolved(k)',
                      NEW x \in Floor' .. BlockOf[k[1]]
               PROVE  /\ Action(k).harvest \notin NamedIn(x)
                      /\ Action(k).harvest \in known' \cup StoredKamis' => BlockStored(x)'
    BY DEF Late
  <2>1. k \in DOMAIN act /\ Unresolved(k)
    BY DEF Unresolved
  <2>2. x \in Floor .. BlockOf[k[1]]
    BY <2>1, ResolverNumbers
  <2> QED BY <2>1, <2>2 DEF Late
<1>2. UnresolvedMeansUnseen'
  <2> SUFFICES ASSUME NEW k \in DOMAIN act', NEW m \in DOMAIN act', Unresolved(k)',
                      act'[m].kami = Action(k).harvest, BlockOf[m[1]] >= expired'
               PROVE  BlockOf[m[1]] > BlockOf[k[1]]
    BY DEF UnresolvedMeansUnseen
  <2>1. k \in DOMAIN act /\ Unresolved(k) /\ m \in DOMAIN act /\ act[m].kami = Action(k).harvest
    BY DEF Unresolved
  <2>2. BlockOf[m[1]] >= expired
    BY <2>1, ResolverNumbers
  <2> QED BY <2>1, <2>2 DEF UnresolvedMeansUnseen
<1> QED BY <1>1, <1>2

-----------------------------------------------------------------------------
(* observe_actions reads the kamis off the rows of the batch. *)
LEMMA ObservedInRange ==
    ASSUME NEW batch
    PROVE  Observed(batch) = {a.kami : a \in Range(batch)} \ {None}
BY DEF Observed, Range

(* Until the stitch, a row carries the kami_id it was decoded with. *)
LEMMA PairedKamis ==
    ASSUME NEW t \in Tx, NEW r, NEW status
    PROVE  \A a \in Range(Paired(t, r, status)) :
               a.tx = t /\ a.kami = Action(Key(a)).kami
<1> SUFFICES ASSUME NEW j \in DOMAIN Decoded[t]
             PROVE  /\ Paired(t, r, status)[j].tx = t
                    /\ Paired(t, r, status)[j].kami = Action(Key(Paired(t, r, status)[j])).kami
  BY DEF Paired, Range
<1>1. Paired(t, r, status)[j]
        = [tx |-> t, sub |-> j, kami |-> Decoded[t][j].kami,
           amount |-> MusuAmount(Decoded[t][j], r), status |-> status]
  BY DEF Paired
<1>2. Key(Paired(t, r, status)[j]) = <<t, j>>
  BY <1>1 DEF Key
<1> QED BY <1>1, <1>2 DEF Action

(* What a step inside process_block_range does to the batch of a block. *)
LEMMA BatchKept ==
    ASSUME IInv, BatchOfBlock, RangeStep \/ RangeFault
    PROVE  BatchOfBlock'
<1>1. RangeOK /\ Emptied /\ todo \in Seq(Tx) /\ actBatch \in Seq(ActionRec)
  BY InvIsRangeOK DEF IInv, NothingInFlightLost, RangeOK, RangeTypeOK
<1>2. CASE GetBlock
  <2>1. n \in Block /\ todo' = Body[n] /\ pc' = "tx" /\ pc = "block" /\ UNCHANGED <<n, actBatch>>
    BY <1>1, <1>2 DEF GetBlock, RangeOK, Scanning
  <2>2. Range(todo') = {t \in Tx : BlockOf[t] = n}
    BY <2>1, ChainAssumption DEF Range
  <2>3. Range(actBatch') = {}
    BY <2>1 DEF BatchOfBlock
  <2> QED BY <2>1, <2>2, <2>3 DEF BatchOfBlock, Scanning
<1>3. ASSUME NEW r \in Tx \cup {None}, NEW status \in {0, 1},
             pc = "tx", todo # <<>>, Decoded[Head(todo)] = <<>> \/ r # None,
             LookAt(Head(todo), r, status)
      PROVE  BatchOfBlock'
  <2> DEFINE t == Head(todo)
             P == Paired(t, r, status)
  <2>1. t \in Tx /\ Range(todo) = {t} \cup Range(todo') /\ pc' = "tx" /\ n' = n
    BY <1>1, <1>3, HeadAndRest DEF LookAt
  <2>2. /\ P \in Seq(ActionRec)
        /\ \A k \in Keys(t) : \E a \in Range(P) : Key(a) = k
    BY <1>3, <2>1, PairedRows
  <2>3. Range(actBatch') = Range(actBatch) \cup Range(P)
    BY <1>1, <1>3, <2>2, RangeConcatenation DEF LookAt
  <2>4. BlockOf[t] = n
    BY <2>1 DEF BatchOfBlock
  <2>5. \A a \in Range(P) : BlockOf[a.tx] = n /\ a.kami = Action(Key(a)).kami
    BY <2>1, <2>4, PairedKamis
  <2>6. ASSUME NEW u \in Tx, BlockOf[u] = n, u \notin Range(todo')
        PROVE  \A k \in Keys(u) : \E a \in Range(actBatch') : Key(a) = k
    <3>1. CASE u = t
      BY <2>2, <2>3, <3>1
    <3>2. CASE u # t
      BY <1>3, <2>1, <2>3, <2>6, <3>2 DEF BatchOfBlock
    <3> QED BY <3>1, <3>2
  <2> QED BY <1>3, <2>1, <2>3, <2>5, <2>6 DEF BatchOfBlock, Scanning
<1>4. CASE TxWithReceipt
  <2>1. Head(todo) \in Tx
    BY <1>1, <1>4, HeadAndRest DEF TxWithReceipt
  <2>2. Status[Head(todo)] \in {0, 1} /\ Head(todo) # None
    BY <2>1, ChainAssumption
  <2> QED BY <1>3, <1>4, <2>1, <2>2 DEF TxWithReceipt
<1>5. CASE TxWithoutReceipt
  BY <1>1, <1>3, <1>5 DEF TxWithoutReceipt, RangeOK, RangeTypeOK
<1>6. CASE Resolve
  <2>1. \A a \in Range(actBatch') : \E b \in Range(actBatch) : b.tx = a.tx
    BY <1>1, <1>6, FlowOfResolve
  <2> QED BY <1>6, <2>1 DEF Resolve, BatchOfBlock, Scanning
<1>7. CASE UpsertAction
  <2>1. Range(actBatch') \subseteq Range(actBatch)
    BY <1>1, <1>7, HeadAndRest DEF UpsertAction
  <2> QED BY <1>7, <2>1 DEF UpsertAction, BatchOfBlock, Scanning
<1>8. CASE UpsertRawTx \/ RawTxsUpserted \/ ActionsUpserted
  BY <1>8 DEF UpsertRawTx, RawTxsUpserted, ActionsUpserted, BatchOfBlock, Scanning
<1>9. CASE CommitBlock
  <2>1. todo' = <<>> /\ actBatch' = <<>> /\ pc' # "tx"
    BY <1>1, <1>9 DEF CommitBlock, Emptied
  <2> QED BY <2>1 DEF BatchOfBlock, Range
<1>10. CASE Raise \/ RaiseNotFound
  <2>1. todo' = <<>> /\ actBatch' = <<>> /\ pc' # "tx"
    BY <1>10 DEF Raise, RaiseNotFound, DropLocals
  <2> QED BY <2>1 DEF BatchOfBlock, Range
<1> QED BY <1>2, <1>4, <1>5, <1>6, <1>7, <1>8, <1>9, <1>10 DEF RangeStep, RangeFault

-----------------------------------------------------------------------------
(* A step inside process_block_range, with a resolver. *)
LEMMA RangeKeepsRInv ==
    ASSUME UseResolver = TRUE, IInv, RInv, InRange(RangeStep) \/ InRange(RangeFault)
    PROVE  RInv'
<1>1. /\ RangeStep \/ RangeFault
      /\ UNCHANGED <<next, head, expired>>
  BY DEF InRange
<1>2. RangeOK /\ Emptied /\ NoJump /\ actBatch \in Seq(ActionRec) /\ CursorCovers
      /\ Knows /\ BatchOfBlock /\ Late /\ UnresolvedMeansUnseen
  BY InvIsRangeOK DEF IInv, RInv, NothingInFlightLost, RangeOK, RangeTypeOK
<1>3. /\ pc \in Scanning /\ end' = end /\ pc' \in RangePC
      /\ \/ n' = n /\ cursor' = cursor /\ pc' \in Scanning \cup {"raised"}
         \/ CommitBlock
  BY <1>1, <1>2, RangeMoves, RangeKeepsTypes
<1>4. Floor = next /\ Floor' = next /\ next <= n
  BY <1>1, <1>2, <1>3 DEF Floor, NoJump, RangePC
<1>5. \A x : BlockStored(x) => BlockStored(x)'
  BY <1>1, <1>2, RowsStay DEF BlockStored, Stored
<1>6. BatchOfBlock'
  BY <1>1, <1>2, BatchKept
<1>7. (pc' \in {"loop"} \cup RangePC /\ cursor' = None) => next' <= head'
  <2>1. cursor' = None => cursor = None
    <3>1. CommitBlock => cursor' # None
      BY ResolverNumbers DEF CommitBlock, SetCursor
    <3> QED BY <1>3, <3>1
  <2> QED BY <1>1, <1>3, <2>1 DEF RInv, RangePC
<1>8. ASSUME act' = act, known' = known
      PROVE  Late' /\ UnresolvedMeansUnseen'
  <2>1. known' \cup StoredKamis' \subseteq known \cup StoredKamis
    BY <1>8 DEF StoredKamis
  <2>2. expired' = expired /\ expired \in Nat /\ Floor \in Nat
    BY <1>1, ResolverNumbers
  <2> QED BY <1>2, <1>4, <1>5, <1>8, <2>1, <2>2, LateKept
<1>9. CASE GetBlock \/ TxWithReceipt \/ TxWithoutReceipt
  <2>1. UNCHANGED <<act, known, n>> /\ pc' = "tx" /\ pc \in {"block", "tx"}
    BY <1>9 DEF GetBlock, TxWithReceipt, TxWithoutReceipt, LookAt, dbVars
  <2>2. Knows'
    BY <1>1, <1>2, <2>1 DEF Knows, StoredKamis, Scanning
  <2> QED BY <1>6, <1>7, <1>8, <2>1, <2>2 DEF RInv
<1>10. CASE UpsertRawTx \/ RawTxsUpserted \/ ActionsUpserted
  <2>1. /\ UNCHANGED <<act, known, n, actBatch>>
        /\ \/ pc = "raw" /\ pc' \in {"raw", "acts"}
           \/ pc = "acts" /\ pc' = "cursor"
    BY <1>10 DEF UpsertRawTx, InsertRawTx, RawTxsUpserted, ActionsUpserted, dbVars
  <2>2. Knows'
    BY <1>1, <1>2, <2>1 DEF Knows, StoredKamis, Scanning
  <2> QED BY <1>6, <1>7, <1>8, <2>1, <2>2 DEF RInv
<1>11. CASE CommitBlock
  <2>1. /\ UNCHANGED <<act, known>> /\ pc = "cursor"
        /\ \/ n' = n + 1 /\ pc' = "block"
           \/ n' = n /\ pc' = "returned"
    BY <1>11 DEF CommitBlock, SetCursor
  <2>2. ASSUME pc' = "block", n' = n + 1
        PROVE  \A x \in next' .. n' - 1 : NamedIn(x) \subseteq known'
    <3>1. \A x \in next .. n : x = n \/ x \in next .. n - 1
      BY ResolverNumbers
    <3>2. n' - 1 = n
      BY <2>2, ResolverNumbers
    <3> QED BY <1>1, <1>2, <2>1, <3>1, <3>2 DEF Knows, Scanning
  <2>3. Knows'
    BY <1>2, <2>1, <2>2 DEF Knows, StoredKamis, Scanning
  <2> QED BY <1>6, <1>7, <1>8, <2>1, <2>3 DEF RInv
<1>12. CASE Raise \/ RaiseNotFound
  <2>1. UNCHANGED <<act, known>> /\ pc' = "raised"
    BY <1>12 DEF Raise, RaiseNotFound, dbVars
  <2>2. Knows'
    BY <1>2, <1>3, <2>1 DEF Knows, StoredKamis, Scanning
  <2> QED BY <1>6, <1>7, <1>8, <2>1, <2>2 DEF RInv
<1>13. CASE Resolve
  <2>1. /\ pc = "tx" /\ pc' = "raw" /\ todo = <<>> /\ Range(todo) = {}
        /\ known' = known \cup Observed(actBatch) /\ actBatch' = Stitched(actBatch, known')
        /\ UNCHANGED <<n, raw, act, cursor>>
    BY <1>13 DEF Resolve, dbVars, Range
  <2>2. known' \subseteq Kami
    BY <1>2, <1>13, RangeKeepsTypes DEF RangeStep, RangeTypeOK
  <2>3. ASSUME NEW a \in Range(actBatch')
        PROVE  /\ a.kami # None => a.kami \in known'
               /\ NeedsStitch(a) => Action(Key(a)).harvest \notin known'
    <3>1. DOMAIN actBatch' = DOMAIN actBatch
      BY <1>2, <2>1, <2>2, StitchedRows
    <3>2. PICK i \in DOMAIN actBatch : a = actBatch'[i]
      BY <3>1 DEF Range
    <3>3. actBatch[i] \in Range(actBatch) /\ actBatch[i] \in ActionRec
      BY <1>2, RangeOfSeq DEF Range
    <3>4. CASE NeedsStitch(actBatch[i]) /\ Action(Key(actBatch[i])).harvest \in known'
      <4>1. a = [actBatch[i] EXCEPT !.kami = Action(Key(actBatch[i])).harvest]
        BY <2>1, <3>2, <3>4 DEF Stitched
      <4>2. a.kami = Action(Key(actBatch[i])).harvest
        BY <3>3, <4>1 DEF ActionRec
      <4>3. a.kami # None
        BY <2>2, <3>4, <4>2, ResolverNumbers
      <4> QED BY <3>4, <4>2, <4>3 DEF NeedsStitch
    <3>5. CASE ~(NeedsStitch(actBatch[i]) /\ Action(Key(actBatch[i])).harvest \in known')
      <4>1. a = actBatch[i]
        BY <2>1, <3>2, <3>5 DEF Stitched
      <4> QED BY <2>1, <3>3, <3>5, <4>1, ObservedInRange
    <3> QED BY <3>4, <3>5
  <2>4. NamedIn(n) \subseteq known'
    <3> SUFFICES ASSUME NEW k \in ActKey, BlockOf[k[1]] = n, Action(k).kami # None
                 PROVE  Action(k).kami \in known'
      BY DEF NamedIn
    <3>1. k[1] \in Tx /\ k \in Keys(k[1])
      BY KeyHasTx
    <3>2. PICK a \in Range(actBatch) : Key(a) = k
      BY <1>2, <2>1, <3>1 DEF BatchOfBlock
    <3>3. a.kami = Action(k).kami
      BY <1>2, <2>1, <3>2 DEF BatchOfBlock
    <3> QED BY <2>1, <3>2, <3>3, ObservedInRange
  <2>5. Knows'
    <3>1. Observed(actBatch') \subseteq known'
      BY <2>3, ObservedInRange
    <3>2. StoredKamis' \subseteq known'
      BY <1>2, <2>1 DEF Knows, StoredKamis
    <3>3. \A x \in next' .. n' - 1 : NamedIn(x) \subseteq known'
      BY <1>1, <1>2, <2>1 DEF Knows, Scanning
    <3>4. NamedIn(n)' \subseteq known'
      BY <2>1, <2>4 DEF NamedIn
    <3> QED BY <2>1, <2>3, <3>1, <3>2, <3>3, <3>4 DEF Knows, NamedIn
  <2>6. \A h \in Observed(actBatch) : h \in NamedIn(n)
    <3> SUFFICES ASSUME NEW a \in Range(actBatch), a.kami # None
                 PROVE  a.kami \in NamedIn(n)
      BY ObservedInRange
    <3>1. Key(a) \in ActKey
      BY <1>2 DEF RangeOK, RangeTypeOK, Range
    <3>2. BlockOf[Key(a)[1]] = n /\ a.kami = Action(Key(a)).kami
      BY <1>2, <2>1 DEF BatchOfBlock, Key
    <3> QED BY <3>1, <3>2 DEF NamedIn
  <2>7. \A x \in next .. n - 1 : BlockStored(x)
    <3>1. cursor = None => n = next
      BY <1>2, <1>3 DEF NoJump
    <3>2. cursor # None => origin <= next /\ n <= cursor + 1
      BY <1>2, <1>3 DEF NoJump, RangePC
    <3>3. cursor # None => \A b \in origin .. cursor : BlockStored(b)
      BY <1>2 DEF CursorCovers
    <3>4. /\ n \in Nat /\ next \in Nat /\ origin \in Nat
          /\ cursor \in Nat \cup {None}
      BY ResolverNumbers
    <3> QED BY <3>1, <3>2, <3>3, <3>4
  <2>8. Late'
    <3> SUFFICES ASSUME NEW k \in DOMAIN act, Unresolved(k),
                        NEW x \in next .. BlockOf[k[1]]
                 PROVE  /\ Action(k).harvest \notin NamedIn(x)
                        /\ Action(k).harvest \in known' \cup StoredKamis => BlockStored(x)'
      BY <1>4, <2>1 DEF Late, Unresolved, StoredKamis
    <3>1. /\ Action(k).harvest \notin NamedIn(x)
          /\ Action(k).harvest \in known \cup StoredKamis => BlockStored(x)
      BY <1>2, <1>4 DEF Late
    <3>2. ASSUME Action(k).harvest \in Observed(actBatch)
          PROVE  BlockStored(x)
      <4>1. Action(k).harvest \in NamedIn(n)
        BY <2>6, <3>2
      <4>2. ~(n \in next .. BlockOf[k[1]])
        BY <1>2, <1>4, <4>1 DEF Late
      <4>3. x \in next .. n - 1
        BY <1>4, <4>2, ResolverNumbers
      <4> QED BY <2>7, <4>3
    <3> QED BY <1>5, <2>1, <3>1, <3>2
  <2>9. UnresolvedMeansUnseen'
    BY <1>1, <1>2, <2>1 DEF UnresolvedMeansUnseen, Unresolved
  <2> QED BY <1>6, <1>7, <2>5, <2>8, <2>9 DEF RInv
<1>14. CASE UpsertAction
  <2> DEFINE a == Head(actBatch)
             ka == Key(a)
  <2>1. /\ pc = "acts" /\ pc' = "acts" /\ actBatch # <<>>
        /\ act' = InsertOrIgnore(act, ka,
                      [kami |-> a.kami, amount |-> a.amount, status |-> a.status])
        /\ UNCHANGED <<n, known, raw, cursor>>
    BY <1>14 DEF UpsertAction, InsertAction, Key
  <2>2. /\ a \in Range(actBatch) /\ a \in ActionRec
        /\ Range(actBatch') \subseteq Range(actBatch)
    BY <1>2, <1>14, HeadAndRest DEF UpsertAction
  <2>3. ka \in ActKey /\ ka[1] = a.tx /\ BlockOf[ka[1]] = n
    BY <1>2, <2>1, <2>2 DEF RangeOK, RangeTypeOK, Range, Key, BatchOfBlock
  <2>4. /\ DOMAIN act' = DOMAIN act \cup {ka}
        /\ \A k \in DOMAIN act : act'[k] = act[k]
        /\ ka \notin DOMAIN act => act'[ka].kami = a.kami
    BY <2>1 DEF InsertOrIgnore
  <2>5. a.kami # None => a.kami \in known
    BY <1>2, <2>1, <2>2, ObservedInRange DEF Knows
  <2>6. StoredKamis \subseteq known /\ StoredKamis' \subseteq known
    <3>1. StoredKamis \subseteq known
      BY <1>2, <2>1 DEF Knows
    <3> QED BY <2>4, <2>5, <3>1 DEF StoredKamis
  <2>7. Knows'
    <3>1. Observed(actBatch') \subseteq Observed(actBatch)
      BY <2>2, ObservedInRange
    <3> QED BY <1>1, <1>2, <2>1, <2>2, <2>6, <3>1 DEF Knows, Scanning
  <2>8. ASSUME NEW k \in DOMAIN act', k \notin DOMAIN act, Unresolved(k)'
        PROVE  k = ka /\ Action(k).harvest \notin known
    <3>1. k = ka /\ a.kami = None
      BY <2>4, <2>8 DEF Unresolved
    <3>2. Action(k).type \in {"harvest_stop", "harvest_collect"}
      BY <2>8 DEF Unresolved
    <3>3. NeedsStitch(a)
      BY <3>1, <3>2 DEF NeedsStitch
    <3> QED BY <1>2, <2>1, <2>2, <3>1, <3>3 DEF Knows
  <2>9. Late'
    <3> SUFFICES ASSUME NEW k \in DOMAIN act', Unresolved(k)',
                        NEW x \in next .. BlockOf[k[1]]
                 PROVE  /\ Action(k).harvest \notin NamedIn(x)
                        /\ Action(k).harvest \in known => BlockStored(x)'
      BY <1>4, <2>1, <2>6 DEF Late
    <3>1. CASE k \in DOMAIN act
      <4>1. Unresolved(k)
        BY <2>4, <3>1 DEF Unresolved
      <4> QED BY <1>2, <1>4, <1>5, <3>1, <4>1 DEF Late
    <3>2. CASE k \notin DOMAIN act
      <4>1. k = ka /\ Action(k).harvest \notin known
        BY <2>4, <2>8, <3>2
      <4>2. x = n \/ x \in next .. n - 1
        BY <2>3, <4>1, ResolverNumbers
      <4>3. NamedIn(x) \subseteq known
        BY <1>2, <2>1, <4>2 DEF Knows, Scanning
      <4> QED BY <4>1, <4>3
    <3> QED BY <3>1, <3>2
  <2>10. UnresolvedMeansUnseen'
    <3> SUFFICES ASSUME NEW k \in DOMAIN act', NEW m \in DOMAIN act', Unresolved(k)',
                        act'[m].kami = Action(k).harvest, BlockOf[m[1]] >= expired
                 PROVE  BlockOf[m[1]] > BlockOf[k[1]]
      BY <1>1 DEF UnresolvedMeansUnseen
    <3>1. Action(k).harvest \in known
      BY <2>6 DEF Unresolved, StoredKamis
    <3>2. k \in DOMAIN act /\ Unresolved(k)
      BY <2>4, <2>8, <3>1 DEF Unresolved
    <3>3. CASE m \in DOMAIN act
      BY <1>2, <2>4, <3>2, <3>3 DEF UnresolvedMeansUnseen
    <3>4. CASE m \notin DOMAIN act
      <4>1. m = ka /\ BlockOf[m[1]] = n
        BY <2>3, <2>4, <3>4
      <4> SUFFICES ASSUME ~(n > BlockOf[k[1]]) PROVE FALSE
        BY <4>1
      <4>2. n \in next .. BlockOf[k[1]]
        BY <1>4, <3>2, ResolverNumbers
      <4>3. Stored(n)
        BY <1>2, <1>4, <3>1, <3>2, <4>1, <4>2 DEF Late, BlockStored
      <4>4. m \in ActKey /\ m[1] \in Tx /\ m \in Keys(m[1])
        BY <2>3, <4>1, KeyHasTx
      <4> QED BY <3>4, <4>1, <4>3, <4>4 DEF Stored
    <3> QED BY <3>3, <3>4
  <2> QED BY <1>6, <1>7, <2>7, <2>9, <2>10 DEF RInv
<1> QED BY <1>1, <1>9, <1>10, <1>11, <1>12, <1>13, <1>14 DEF RangeStep, RangeFault
-----------------------------------------------------------------------------
(* A step around the range scans no block below Floor again: a retry, a    *)
(* restart and the next range begin where the last one stopped committing. *)
LEMMA AroundKeepsFloor ==
    ASSUME IInv, RInv, AroundRange
    PROVE  /\ Floor' \in Nat /\ Floor <= Floor'
           /\ pc' \in {"loop"} \cup RangePC /\ cursor' = None => next' <= head'
<1>1. Floor' \in Nat
  <2>1. TypeOK'
    BY AroundKeepsInv DEF IInv
  <2>2. next' \in Nat /\ head' \in Nat /\ cursor' \in Nat \cup {None}
    BY <2>1, ChainAssumption DEF TypeOK, StorageTypeOK, Block
  <2>3. \/ Floor' = next'
        \/ cursor' = None /\ Floor' = head'
        \/ cursor' # None /\ Floor' = cursor' + 1
    BY DEF Floor
  <2> QED BY <2>2, <2>3
<1>2. /\ n \in Nat /\ end \in Nat /\ next \in Nat /\ head \in Nat /\ None \notin Nat
      /\ cursor \in Nat \cup {None}
  BY ResolverNumbers
<1>3. NoJump /\ (pc \in {"loop"} \cup RangePC /\ cursor = None => next <= head)
  BY DEF IInv, NothingInFlightLost, RInv
<1>4. CASE Boot \/ DieAtStart
  BY <1>1, <1>2, <1>4 DEF Boot, DieAtStart, Floor, dbVars, RangePC, Scanning
<1>5. CASE ReadCursor
  BY <1>1, <1>2, <1>5 DEF ReadCursor, Floor, dbVars, RangePC, Scanning
<1>6. CASE Poll
  BY <1>1, <1>2, <1>6 DEF Poll, Floor, StartRange, dbVars, RangePC, Scanning
<1>7. CASE RangeReturned
  BY <1>1, <1>2, <1>3, <1>7 DEF RangeReturned, Floor, NoJump, dbVars, RangePC, Scanning
<1>8. CASE RangeRaised
  BY <1>1, <1>2, <1>3, <1>8 DEF RangeRaised, Floor, dbVars, RangePC, Scanning
<1>9. CASE Crash
  <2>1. /\ pc' = "down" /\ head' = head /\ cursor' = cursor
        /\ Floor' = IF cursor = None THEN head ELSE cursor + 1
    BY <1>9 DEF Crash, Floor, dbVars, RangePC, Scanning
  <2>2. pc \in Scanning \/ pc \in {"returned", "loop", "raised"}
          \/ pc \notin {"loop"} \cup RangePC
    BY DEF RangePC
  <2>3. Floor <= Floor'
    BY <1>2, <1>3, <2>1, <2>2 DEF Floor, NoJump, RangePC
  <2> QED BY <1>1, <2>1, <2>3 DEF RangePC, Scanning
<1> QED BY <1>4, <1>5, <1>6, <1>7, <1>8, <1>9 DEF AroundRange

(* A step around the range: the map is learned anew at boot, lost in a     *)
(* crash, and otherwise carried over.                                      *)
LEMMA AroundKeepsRInv ==
    ASSUME UseResolver = TRUE, IInv, RInv, AroundRange
    PROVE  RInv'
<1>1. /\ Floor' \in Nat /\ Floor <= Floor'
      /\ pc' \in {"loop"} \cup RangePC /\ cursor' = None => next' <= head'
  BY AroundKeepsFloor
<1>2. /\ Knows /\ BatchOfBlock /\ Late /\ UnresolvedMeansUnseen
      /\ expired \in Nat /\ next \in Nat
  BY ResolverNumbers DEF RInv
<1>3. UNCHANGED <<raw, act, cursor, expired>>
  BY DEF AroundRange, Boot, ReadCursor, Poll, RangeReturned, RangeRaised, DieAtStart,
         Crash, dbVars
<1>4. known' = known \/ (Boot /\ known' = StoredKamis) \/ (Crash /\ known' = {})
  BY DEF AroundRange, Boot, ReadCursor, Poll, StartRange, RangeReturned, RangeRaised,
         DieAtStart, Crash
<1>5. StoredKamis' = StoredKamis
  BY <1>3 DEF StoredKamis
<1>6. \A x \in Int : BlockStored(x) => BlockStored(x)'
  BY <1>3 DEF BlockStored, Stored
<1>7. Late' /\ UnresolvedMeansUnseen'
  <2>1. known' \cup StoredKamis' \subseteq known \cup StoredKamis
    BY <1>4, <1>5
  <2> QED BY <1>1, <1>2, <1>3, <1>6, <2>1, LateKept
<1>8. Range(todo') = {} /\ Range(actBatch') = {}
  <2>1. CASE Crash
    BY <2>1 DEF Crash, DropLocals, Range
  <2>2. CASE UNCHANGED <<todo, actBatch>> /\ pc \notin Scanning
    BY <1>2, <2>2 DEF BatchOfBlock
  <2>3. Crash \/ (UNCHANGED <<todo, actBatch>> /\ pc \notin Scanning)
    BY DEF AroundRange, Boot, ReadCursor, Poll, StartRange, RangeReturned, RangeRaised,
           DieAtStart, Scanning
  <2> QED BY <2>1, <2>2, <2>3
<1>9. /\ pc' \in {"down", "start", "loop", "dead", "block"}
      /\ pc' = "block" => n' = next'
  BY DEF AroundRange, Boot, ReadCursor, Poll, StartRange, RangeReturned, RangeRaised,
         DieAtStart, Crash
<1>10. BatchOfBlock'
  BY <1>8, <1>9 DEF BatchOfBlock
<1>11. Knows'
  <2>1. pc' # "down" => StoredKamis' \subseteq known'
    <3>1. pc' # "down" => ~Crash
      BY DEF Crash
    <3>2. ~Boot /\ ~Crash => pc # "down"
      BY DEF AroundRange, ReadCursor, Poll, RangeReturned, RangeRaised, DieAtStart
    <3>3. Boot => known' = StoredKamis
      BY DEF Boot
    <3> QED BY <1>2, <1>4, <1>5, <3>1, <3>2, <3>3 DEF Knows
  <2>2. pc' \in Scanning => \A x \in next' .. n' - 1 : NamedIn(x) \subseteq known'
    <3>1. pc' \in Scanning => n' = next' /\ next' = next
      BY <1>9 DEF AroundRange, Boot, ReadCursor, Poll, StartRange, RangeReturned,
                  RangeRaised, DieAtStart, Crash, Scanning
    <3>2. \A x \in next .. next - 1 : FALSE
      BY <1>2
    <3> QED BY <3>1, <3>2
  <2> QED BY <1>9, <2>1, <2>2 DEF Knows
<1> QED BY <1>1, <1>7, <1>10, <1>11 DEF RInv

(* A prune sweep, the clock and the chain: rows go, none comes, and what   *)
(* has left the window is asked of no longer.                              *)
LEMMA AsideKeepsBlocks ==
    ASSUME IInv, AsideRange
    PROVE  /\ \A k \in DOMAIN act' : k \in DOMAIN act /\ act'[k] = act[k]
           /\ \A x \in Int : BlockStored(x) => BlockStored(x)'
           /\ expired' \in Nat /\ expired <= expired'
           /\ head' \in Nat /\ head <= head'
<1>1. /\ expired \in Nat /\ head \in Nat /\ StorageTypeOK
  BY ResolverNumbers DEF IInv, TypeOK
<1>2. CASE Prune
  <2> DEFINE A == {k \in DOMAIN act : BlockOf[k[1]] >= expired}
             R == {t \in DOMAIN raw : BlockOf[t] >= expired}
  <2>1. /\ act' = Restrict(act, A) /\ raw' = Restrict(raw, R)
        /\ expired' = expired /\ head' = head
    BY <1>2 DEF Prune, PruneOlderThan, ActionsSince, RawTxsSince
  <2>2. DOMAIN act' = A /\ DOMAIN raw' = R
    BY <1>1, <2>1, RestrictKeeps DEF StorageTypeOK
  <2>3. \A k \in DOMAIN act' : k \in DOMAIN act /\ act'[k] = act[k]
    BY <2>1 DEF Restrict
  <2>4. \A b : b >= expired /\ Stored(b) => Stored(b)'
    BY <2>2, KeysOfTx DEF Stored
  <2> QED BY <1>1, <2>1, <2>3, <2>4 DEF BlockStored
<1>3. CASE NewBlock \/ TimePasses \/ NodePrunes
  <2>1. /\ UNCHANGED <<raw, act>>
        /\ expired' \in Nat /\ expired <= expired'
        /\ head' \in Nat /\ head <= head'
    BY <1>1, <1>3 DEF NewBlock, TimePasses, NodePrunes, dbVars
  <2>2. \A x \in Int : BlockStored(x) => BlockStored(x)'
    BY <1>1, <2>1 DEF BlockStored, Stored
  <2> QED BY <2>1, <2>2
<1> QED BY <1>2, <1>3 DEF AsideRange

(* A step beside the range takes nothing from the resolver that it needs.  *)
LEMMA AsideKeepsRInv ==
    ASSUME IInv, RInv, AsideRange
    PROVE  RInv'
<1>1. /\ \A k \in DOMAIN act' : k \in DOMAIN act /\ act'[k] = act[k]
      /\ \A x \in Int : BlockStored(x) => BlockStored(x)'
      /\ expired' \in Nat /\ expired <= expired'
      /\ head' \in Nat /\ head <= head'
  BY AsideKeepsBlocks
<1>2. /\ Knows /\ BatchOfBlock /\ Late /\ UnresolvedMeansUnseen
      /\ Floor \in Nat /\ next \in Nat /\ head \in Nat
  BY ResolverNumbers DEF RInv
<1>3. UNCHANGED <<pc, n, todo, actBatch, known, next, cursor>>
  BY DEF AsideRange, Prune, PruneOlderThan, NewBlock, TimePasses, NodePrunes,
         rangeVars, dbVars
<1>4. StoredKamis' \subseteq StoredKamis
  BY <1>1 DEF StoredKamis
<1>5. Floor' \in Nat /\ Floor <= Floor'
  BY <1>1, <1>2, <1>3 DEF Floor
<1>6. Late' /\ UnresolvedMeansUnseen'
  <2>1. known' \cup StoredKamis' \subseteq known \cup StoredKamis
    BY <1>3, <1>4
  <2> QED BY <1>1, <1>2, <1>5, <2>1, LateKept
<1>7. Knows'
  BY <1>2, <1>3, <1>4 DEF Knows
<1>8. BatchOfBlock'
  BY <1>2, <1>3 DEF BatchOfBlock
<1>9. pc' \in {"loop"} \cup RangePC /\ cursor' = None => next' <= head'
  BY <1>1, <1>2, <1>3 DEF RInv
<1> QED BY <1>6, <1>7, <1>8, <1>9 DEF RInv

-----------------------------------------------------------------------------
(* The strengthened resolver invariant is inductive relative to IInv.      *)
LEMMA StepKeepsRInv ==
    ASSUME UseResolver = TRUE, IInv, RInv, [Next]_vars
    PROVE  RInv'
<1>1. CASE Next
  BY <1>1, RangeKeepsRInv, AroundKeepsRInv, AsideKeepsRInv
     DEF Next, PollerStep, AroundRange, AsideRange
<1>2. CASE UNCHANGED vars
  BY <1>2
     DEF vars, RInv, Knows, BatchOfBlock, Late, UnresolvedMeansUnseen, Unresolved,
         StoredKamis, BlockStored, Stored, Floor
<1> QED BY <1>1, <1>2

(* The resolver misses nothing: with a resolver passed, a stop or collect  *)
(* row without a kami_id has no row of the window at or before its block   *)
(* that names the kami, whatever was scanned again, crashed or pruned.     *)
THEOREM ResolverComplete ==
    ASSUME UseResolver = TRUE
    PROVE  Spec => []UnresolvedMeansUnseen
<1>1. Init => RInv
  BY ResolverStarts
<1>2. IInv /\ RInv /\ [Next]_vars => RInv'
  BY StepKeepsRInv
<1>3. RInv => UnresolvedMeansUnseen
  BY DEF RInv
<1> QED BY <1>1, <1>2, <1>3, InvHolds, PTL DEF Spec
=============================================================================

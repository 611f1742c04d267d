--------------------------- MODULE BackfillProofs ---------------------------
(***************************************************************************)
(* The backfill command skips no block, for every range, chunk size, chain *)
(* and number of faults -- provided an earlier run of the service cannot   *)
(* have left its cursor past a block of the range that it did not scan.    *)
(***************************************************************************)
EXTENDS Backfill, RangeProofs

(* The databases the command is safe on: the earlier run ended below the   *)
(* range, or began at or below its first block.                            *)
PriorsBehind == \A p \in Priors : p[2] < First \/ p[1] <= First

(* The blocks of the range up to b are stored. *)
UpTo(b) == \A x \in First .. b : x <= Last => Stored(x)

(* The inductive invariant: the cursor vouches for the range below it, and *)
(* so does every place the command can stand at for the range below that.  *)
BInv ==
    /\ BackfillTypeOK
    /\ Emptied /\ InFlight(1) /\ RawGoesFirst(1)
    /\ cursor # None => UpTo(cursor)
    /\ pc # "down" => First <= cur /\ UpTo(cur - 1)
    /\ pc \in Scanning => cur <= n /\ n <= end /\ end <= Last /\ UpTo(n - 1)
    /\ pc = "returned" => cur <= end /\ UpTo(end)

(* What the arithmetic of the proofs below needs to know. *)
LEMMA BackfillNumbers ==
    ASSUME BInv
    PROVE  /\ MaxBlock \in Nat \ {0} /\ None \notin Nat
           /\ First \in Block /\ Last \in Block /\ Block \subseteq Nat \ {0}
           /\ ChunkSize \in Nat \ {0} /\ MaxFaults \in Nat
           /\ n \in 0 .. MaxBlock /\ end \in 0 .. MaxBlock /\ cur \in 0 .. MaxBlock + 1
           /\ cursor \in Block \cup {None}
           /\ faults \in 0 .. MaxFaults /\ retained \in Block
           /\ BlockOf \in [Tx -> Block]
BY ChainAssumption, BackfillAssumption, RangeAssumption
   DEF BInv, BackfillTypeOK, RangeTypeOK, StorageTypeOK, Block

(* The invariant gives process_block_range the state its lemmas ask for. *)
LEMMA BInvIsRangeOK ==
    ASSUME BInv
    PROVE  RangeOK
<1>1. pc \in Scanning => n \in Block /\ n <= end
  BY BackfillNumbers DEF BInv, Block, Scanning
<1> QED BY <1>1 DEF BInv, BackfillTypeOK, RangeOK

(* The command may start on an empty database or on one of those.       *)
LEMMA BackfillStarts ==
    ASSUME PriorsBehind, BackfillInit
    PROVE  BInv
<1> USE DEF RangeInit, NoLocals
<1>1. MaxBlock \in Nat \ {0} /\ MaxFaults \in Nat /\ 1 \in Block /\ First \in Block
  BY ChainAssumption, RangeAssumption, BackfillAssumption DEF Block
<1>2. RangeTypeOK
  <2>1. todo \in Seq(Tx) /\ rawBatch \in Seq(RawTxRec) /\ actBatch \in Seq(ActionRec)
    BY EmptySeq DEF BackfillInit
  <2>2. \A i \in DOMAIN actBatch : Key(actBatch[i]) \in ActKey
    BY DEF BackfillInit
  <2>3. busy \in BOOLEAN
    BY DEF BackfillInit
  <2>4. /\ n \in 0 .. MaxBlock /\ end \in 0 .. MaxBlock /\ retained \in Block
        /\ faults \in 0 .. MaxFaults
    BY <1>1 DEF BackfillInit
  <2>5. known \subseteq Kami /\ receipt \in Tx \cup {None}
    BY DEF BackfillInit
  <2> QED BY <2>1, <2>2, <2>3, <2>4, <2>5 DEF RangeTypeOK
<1>3. StorageTypeOK /\ (cursor # None => UpTo(cursor))
  <2>1. CASE StorageInit
    BY <2>1 DEF StorageInit, StorageTypeOK, IsTable, EmptyTable
  <2>2. ASSUME NEW p \in Priors,
               raw = ScannedRaw(p[1] .. p[2]), act = ScannedAct(p[1] .. p[2]), cursor = p[2]
        PROVE  StorageTypeOK /\ UpTo(cursor)
    <3>1. p \in Block \X Block /\ p[1] \in Block /\ p[2] \in Block
      BY BackfillAssumption
    <3>2. IsTable(raw, Tx, RawRow)
      BY <2>2, ChainAssumption DEF ScannedRaw, IsTable, RawRow
    <3>3. ASSUME NEW k \in DOMAIN act
          PROVE  k \in ActKey /\ act[k] \in ActRow
      <4>1. k \in ActKey /\ k[1] \in Tx /\ Action(k) \in DecodedAction
        BY <2>2, KeyHasTx DEF ScannedAct
      <4>2. act[k] = [kami |-> Action(k).kami, amount |-> MusuAmount(Action(k), k[1]),
                      status |-> Status[k[1]]]
        BY <2>2 DEF ScannedAct
      <4>3. Status[k[1]] \in {0, 1} /\ MusuAmount(Action(k), k[1]) \in Tx \cup {None}
        BY <4>1, ChainAssumption DEF MusuAmount
      <4>4. Action(k).kami \in Kami \cup {None}
        BY <4>1 DEF DecodedAction
      <4> QED BY <4>1, <4>2, <4>3, <4>4 DEF ActRow
    <3>4. StorageTypeOK
      BY <2>2, <3>1, <3>2, <3>3 DEF StorageTypeOK, IsTable
    <3>5. ASSUME NEW x \in First .. p[2]
          PROVE  Stored(x)
      <4>1. x \in p[1] .. p[2]
        BY <1>1, <3>1, <3>5 DEF PriorsBehind, Block
      <4>2. /\ DOMAIN raw = {t \in Tx : BlockOf[t] \in p[1] .. p[2]}
            /\ DOMAIN act = {k \in ActKey : BlockOf[k[1]] \in p[1] .. p[2]}
        BY <2>2 DEF ScannedRaw, ScannedAct
      <4> QED BY <4>1, <4>2, KeysOfTx DEF Stored
    <3> QED BY <2>2, <3>4, <3>5 DEF UpTo
  <2> QED BY <2>1, <2>2 DEF BackfillInit, StorageInit
<1>4. BackfillTypeOK
  BY <1>1, <1>2, <1>3 DEF BackfillInit, BackfillTypeOK, BackfillPC
<1>5. Emptied /\ InFlight(1) /\ RawGoesFirst(1)
  BY DEF BackfillInit, Emptied, InFlight, RawGoesFirst, Scanning, Range
<1> QED BY <1>3, <1>4, <1>5 DEF BackfillInit, BInv, Scanning

-----------------------------------------------------------------------------
(* A step inside process_block_range keeps the invariant. *)
LEMMA RangeKeepsBInv ==
    ASSUME BInv, RangeStep \/ RangeFault, UNCHANGED cur
    PROVE  BInv'
<1>1. RangeOK /\ Emptied /\ InFlight(1) /\ RawGoesFirst(1)
  BY BInvIsRangeOK DEF BInv
<1>2. StorageTypeOK' /\ RangeTypeOK' /\ pc' \in RangePC
  BY <1>1, RangeKeepsTypes
<1>3. /\ pc \in Scanning /\ end' = end
      /\ \/ n' = n /\ cursor' = cursor /\ pc' \in Scanning \cup {"raised"}
         \/ CommitBlock
  BY RangeMoves
<1>4. BackfillTypeOK'
  BY <1>2 DEF BInv, BackfillTypeOK
<1>5. Emptied' /\ InFlight(1)' /\ RawGoesFirst(1)'
  BY <1>1, FlowKept
<1>6. \A b : UpTo(b) => UpTo(b)'
  BY <1>1, RowsStay DEF UpTo, Stored
<1>7. /\ First <= cur /\ cur <= n /\ n <= end /\ end <= Last
      /\ UpTo(cur - 1) /\ UpTo(n - 1)
  BY <1>3 DEF BInv, Scanning
<1>8. CASE n' = n /\ cursor' = cursor /\ pc' \in Scanning \cup {"raised"}
  BY <1>3, <1>4, <1>5, <1>6, <1>7, <1>8 DEF BInv, Scanning, UpTo
<1>9. CASE CommitBlock
  <2>1. /\ cursor' = n
        /\ \/ n' = n + 1 /\ pc' = "block" /\ n < end
           \/ n' = n /\ pc' = "returned" /\ ~(n < end)
    BY <1>9 DEF CommitBlock, SetCursor
  <2>2. Stored(n)
    <3>1. n >= 1
      BY <1>7, BackfillNumbers
    <3> QED BY <1>1, <1>9, <3>1, CommitsWholeBlock
  <2>3. UpTo(n)
    <3>1. \A x \in First .. n : x = n \/ x \in First .. n - 1
      BY BackfillNumbers
    <3> QED BY <1>7, <2>2, <3>1 DEF UpTo
  <2>4. /\ \A x \in First .. n : x <= Last => Stored(x)'
        /\ UpTo(cur - 1)'
    <3>1. \A x : Stored(x) => Stored(x)'
      BY <1>1, RowsStay DEF Stored
    <3> QED BY <1>7, <2>3, <3>1 DEF UpTo
  <2>5. CASE n < end
    <3>1. n' = n + 1 /\ pc' = "block" /\ n' - 1 = n /\ n' <= end
      BY <2>1, <2>5, BackfillNumbers
    <3> QED BY <1>3, <1>4, <1>5, <1>7, <2>1, <2>4, <3>1, BackfillNumbers DEF BInv, UpTo
  <2>6. CASE ~(n < end)
    <3>1. n' = n /\ pc' = "returned" /\ end = n
      BY <1>7, <2>1, <2>6, BackfillNumbers
    <3> QED BY <1>3, <1>4, <1>5, <1>7, <2>1, <2>4, <3>1, BackfillNumbers
            DEF BInv, UpTo, Scanning
  <2> QED BY <2>5, <2>6
<1> QED BY <1>3, <1>8, <1>9

-----------------------------------------------------------------------------
(* The steps of the command around its calls keep it. *)
AroundCall ==
    \/ Begin \/ ScanChunk \/ ChunkReturned \/ ChunkRaised \/ Finish \/ Kill \/ NodeForgets

(* A step of the command around the call keeps the invariant. *)
LEMMA AroundKeepsBInv ==
    ASSUME BInv, AroundCall
    PROVE  BInv'
<1>1. BackfillTypeOK /\ StorageTypeOK /\ RangeTypeOK /\ Emptied /\ InFlight(1) /\ RawGoesFirst(1)
  BY DEF BInv, BackfillTypeOK
<1>2. UNCHANGED <<raw, act, cursor>>
  BY DEF AroundCall, Begin, ScanChunk, ChunkReturned, ChunkRaised, Finish, Kill,
         NodeForgets, dbVars
<1>3. \A b : UpTo(b)' <=> UpTo(b)
  BY <1>2 DEF UpTo, Stored
<1>4. StorageTypeOK' /\ (cursor' # None => UpTo(cursor)')
  BY <1>1, <1>2, <1>3 DEF StorageTypeOK, BInv, UpTo
<1>5. CASE Begin
  <2>1. cur' = First /\ cur' \in 0 .. MaxBlock + 1 /\ pc' = "scan"
    BY <1>5, BackfillNumbers DEF Begin, Block
  <2>2. BackfillTypeOK'
    BY <1>1, <1>4, <1>5, <2>1 DEF Begin, BackfillTypeOK, RangeTypeOK, BackfillPC, envVars
  <2>3. UpTo(cur - 1)' /\ First <= cur'
    BY <2>1, BackfillNumbers DEF UpTo
  <2> QED BY <1>1, <1>4, <1>5, <2>1, <2>2, <2>3
          DEF Begin, BInv, Emptied, InFlight, RawGoesFirst, Scanning, dbVars
<1>6. CASE ScanChunk
  <2>1. /\ n' = cur /\ cur' = cur /\ pc' = "block" /\ end' = LastOfChunk
        /\ cur <= end' /\ end' <= Last /\ end' \in 0 .. MaxBlock /\ n' \in 0 .. MaxBlock
    BY <1>6, BackfillNumbers DEF ScanChunk, StartRange, LastOfChunk, Block
  <2>2. BackfillTypeOK'
    BY <1>1, <1>4, <1>6, <2>1
       DEF ScanChunk, StartRange, BackfillTypeOK, RangeTypeOK, RangePC, Scanning, envVars
  <2>3. First <= cur' /\ UpTo(cur - 1)' /\ UpTo(n - 1)'
    BY <1>3, <1>6, <2>1 DEF ScanChunk, BInv, UpTo
  <2>4. Emptied' /\ InFlight(1)' /\ RawGoesFirst(1)'
    BY <1>1, <1>2, <1>6, <2>1
       DEF ScanChunk, StartRange, Emptied, InFlight, RawGoesFirst, Scanning
  <2> QED BY <1>4, <2>1, <2>2, <2>3, <2>4 DEF BInv, Scanning
<1>7. CASE ChunkReturned
  <2>1. cur' = end + 1 /\ pc' = "scan" /\ cur' \in 0 .. MaxBlock + 1 /\ cur' - 1 = end
    BY <1>7, BackfillNumbers DEF ChunkReturned
  <2>2. BackfillTypeOK'
    BY <1>1, <1>4, <1>7, <2>1
       DEF ChunkReturned, BackfillTypeOK, RangeTypeOK, BackfillPC, envVars
  <2>3. First <= cur' /\ UpTo(cur - 1)'
    <3>1. First <= cur /\ cur <= end /\ UpTo(end)
      BY <1>7 DEF ChunkReturned, BInv
    <3>2. First <= cur'
      BY <2>1, <3>1, BackfillNumbers
    <3> QED BY <1>2, <2>1, <3>1, <3>2 DEF UpTo, Stored
  <2> QED BY <1>1, <1>4, <1>7, <2>1, <2>2, <2>3
          DEF ChunkReturned, BInv, Emptied, InFlight, RawGoesFirst, Scanning, dbVars
<1>8. CASE ChunkRaised
  <2>1. /\ pc' = "scan" /\ First <= cur /\ UpTo(cur - 1)
        /\ \/ cur' = cur
           \/ cursor # None /\ cur' = cursor + 1 /\ cur' > cur /\ UpTo(cursor)
    BY <1>8 DEF ChunkRaised, ResumeAt, BInv
  <2>2. First <= cur' /\ cur' \in 0 .. MaxBlock + 1
    BY <2>1, BackfillNumbers DEF Block
  <2>3. UpTo(cur - 1)'
    <3>1. CASE cur' = cur
      BY <1>3, <2>1, <3>1 DEF UpTo
    <3>2. CASE cursor # None /\ cur' = cursor + 1 /\ UpTo(cursor)
      <4>1. cur' - 1 = cursor
        BY <3>2, BackfillNumbers
      <4> QED BY <1>2, <3>2, <4>1 DEF UpTo, Stored
    <3> QED BY <2>1, <3>1, <3>2
  <2>4. BackfillTypeOK'
    BY <1>1, <1>4, <1>8, <2>2
       DEF ChunkRaised, BackfillTypeOK, RangeTypeOK, BackfillPC, envVars
  <2> QED BY <1>1, <1>4, <1>8, <2>1, <2>2, <2>3, <2>4
          DEF ChunkRaised, BInv, Emptied, InFlight, RawGoesFirst, Scanning, dbVars
<1>9. CASE Finish
  <2>1. BackfillTypeOK'
    BY <1>1, <1>4, <1>9 DEF Finish, BackfillTypeOK, RangeTypeOK, BackfillPC, envVars
  <2> QED BY <1>1, <1>3, <1>4, <1>9, <2>1
          DEF Finish, BInv, Emptied, InFlight, RawGoesFirst, Scanning, dbVars, UpTo
<1>10. CASE Kill
  <2>1. faults' \in 0 .. MaxFaults
    BY <1>10, BackfillNumbers DEF Kill, Fault
  <2>2. /\ todo' \in Seq(Tx) /\ rawBatch' \in Seq(RawTxRec) /\ actBatch' \in Seq(ActionRec)
        /\ \A i \in DOMAIN actBatch' : Key(actBatch'[i]) \in ActKey
    BY <1>10, EmptySeq DEF Kill, DropLocals
  <2>3. busy' \in BOOLEAN
    BY <1>10 DEF Kill, DropLocals
  <2>4. RangeTypeOK'
    BY <1>1, <1>10, <2>1, <2>2, <2>3, BackfillNumbers DEF Kill, DropLocals, RangeTypeOK
  <2>5. BackfillTypeOK'
    BY <1>4, <1>10, <2>4, BackfillNumbers DEF Kill, BackfillTypeOK, BackfillPC
  <2> QED BY <1>4, <1>10, <2>5
          DEF Kill, DropLocals, BInv, Emptied, InFlight, RawGoesFirst, Scanning, Range
<1>11. CASE NodeForgets
  <2>1. UNCHANGED <<rangeVars, faults, dbVars, cur>>
    BY <1>11 DEF NodeForgets
  <2>2. retained' \in Block
    BY <1>11, BackfillNumbers DEF NodeForgets, Block
  <2>3. BackfillTypeOK'
    BY <1>1, <1>4, <2>1, <2>2
       DEF BackfillTypeOK, RangeTypeOK, BackfillPC, RangePC, rangeVars
  <2>4. Emptied' /\ InFlight(1)' /\ RawGoesFirst(1)'
    BY <1>1, <2>1 DEF Emptied, InFlight, RawPending, ActPending, RawGoesFirst, rangeVars, dbVars
  <2> QED BY <1>3, <1>4, <2>1, <2>3, <2>4 DEF BInv, UpTo, rangeVars
<1> QED BY <1>5, <1>6, <1>7, <1>8, <1>9, <1>10, <1>11 DEF AroundCall

-----------------------------------------------------------------------------
(* The invariant is inductive. *)
LEMMA BackfillStepKeepsInv ==
    ASSUME BInv, [BackfillNext]_backfillVars
    PROVE  BInv'
<1>1. CASE BackfillNext
  BY <1>1, RangeKeepsBInv, AroundKeepsBInv DEF BackfillNext, BackfillStep, AroundCall
<1>2. CASE UNCHANGED backfillVars
  BY <1>2
     DEF backfillVars, BInv, BackfillTypeOK, StorageTypeOK, RangeTypeOK, Emptied, InFlight,
         RawPending, ActPending, RawGoesFirst, UpTo, Stored
<1> QED BY <1>1, <1>2

(* The backfill command skips nothing: on a database whose cursor vouches  *)
(* for the part of the range below it, every block before the one it scans *)
(* next is completely stored, whatever exceptions and kills came before.   *)
THEOREM BackfillSkipsNothing ==
    ASSUME PriorsBehind
    PROVE  BackfillSpec => []SkipsNothing
<1>1. BackfillInit => BInv
  BY BackfillStarts
<1>2. BInv /\ [BackfillNext]_backfillVars => BInv'
  BY BackfillStepKeepsInv
<1>3. BInv => SkipsNothing
  BY DEF BInv, SkipsNothing, UpTo
<1> QED BY <1>1, <1>2, <1>3, PTL DEF BackfillSpec

(* The variables of the command keep their types. *)
THEOREM BackfillTypeCorrect ==
    ASSUME PriorsBehind
    PROVE  BackfillSpec => []BackfillTypeOK
<1>1. BackfillInit => BInv
  BY BackfillStarts
<1>2. BInv /\ [BackfillNext]_backfillVars => BInv'
  BY BackfillStepKeepsInv
<1>3. BInv => BackfillTypeOK
  BY DEF BInv
<1> QED BY <1>1, <1>2, <1>3, PTL DEF BackfillSpec
=============================================================================

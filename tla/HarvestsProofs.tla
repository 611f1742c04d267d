--------------------------- MODULE HarvestsProofs ---------------------------
(***************************************************************************)
(* What the database says about harvests, for any calls, kamis and number  *)
(* of transactions.  IInv says that each stored row agrees with what the   *)
(* decoder makes of its transaction now, column by column; Progress adds   *)
(* what the statements of the migration have left behind them, and Link    *)
(* how the place of a kami follows from the transactions.                  *)
(***************************************************************************)
EXTENDS Harvests, FiniteSetTheorems, WellFoundedInduction, TLAPS

-----------------------------------------------------------------------------
(* The decoder *)

(* The inputs of the functions a harvest system answers to. *)
LEMMA KnownInputs ==
    ASSUME NEW call \in Calls, call.fn \in Functions(call.to)
    PROVE  /\ call.to = "start" =>
                Inputs(call) \in {<<Scalar("kamiID"), Scalar("nodeID")>>,
                                  <<Scalar("kamiID"), Scalar("nodeIndex")>>,
                                  <<Array("kamiIDs"), Scalar("nodeIndex")>>}
           /\ call.to \in {"stop", "collect"} =>
                /\ Inputs(call) \in {<<Scalar("id")>>, <<Array("ids")>>, <<Scalar("arguments")>>}
                /\ Inputs(call) = <<Scalar("arguments")>> <=> Opaque(call)
           /\ call.to = "liquidate" =>
                Inputs(call) = <<Scalar("victimHarvID"), Scalar("killerID")>>
<1>1. CASE call.fn = Execute
  <2>1. Inputs(call) = TypedFn(call.to).inputs /\ ~Opaque(call)
    BY <1>1 DEF Inputs, Opaque, Execute, Fn
  <2>2. call.to = "start" => Inputs(call) = <<Scalar("kamiID"), Scalar("nodeID")>>
    BY <2>1 DEF TypedFn, Fn
  <2>3. call.to = "liquidate" => Inputs(call) = <<Scalar("victimHarvID"), Scalar("killerID")>>
    BY <2>1 DEF TypedFn, Fn
  <2>4. call.to \in {"stop", "collect"} => Inputs(call) = <<Scalar("id")>>
    BY <2>1 DEF TypedFn, Fn
  <2>5. <<Scalar("id")>> # <<Scalar("arguments")>>
    BY DEF Scalar
  <2> QED BY <2>1, <2>2, <2>3, <2>4, <2>5
<1>2. CASE call.fn # Execute
  <2>1. Inputs(call) = call.fn.inputs
    BY <1>2 DEF Inputs
  <2>2. call.fn \in {TypedFn(call.to)} \cup Overlay(call.to)
    BY <1>2 DEF Functions
  <2>3. CASE call.to = "start"
    BY <2>1, <2>2, <2>3 DEF TypedFn, Overlay, Fn
  <2>4. CASE call.to = "liquidate"
    BY <2>1, <2>2, <2>4 DEF TypedFn, Overlay, Fn
  <2>5. CASE call.to \in {"stop", "collect"}
    <3>1. call.fn \in {Fn("executeTyped", <<Scalar("id")>>),
                       Fn("executeBatched", <<Array("ids")>>),
                       Fn("executeBatchedAllowFailure", <<Array("ids")>>),
                       Fn("executeAllowFailure", <<Scalar("arguments")>>)}
      BY <2>2, <2>5 DEF TypedFn, Overlay
    <3>2. <<Scalar("id")>> # <<Scalar("arguments")>> /\ <<Array("ids")>> # <<Scalar("arguments")>>
      BY DEF Scalar, Array
    <3> QED BY <2>1, <2>5, <3>1, <3>2 DEF Fn, Opaque
  <2> QED BY <2>3, <2>4, <2>5
<1> QED BY <1>1, <1>2

(* The row of a call for the value x in place of its first argument. *)
RowFor(call, x) ==
    [type    |-> call.to,
     kami    |-> IF call.to = "start" THEN x
                 ELSE IF call.to = "liquidate" THEN call.vals[2] ELSE None,
     node    |-> IF call.to = "start" THEN call.vals[2] ELSE None,
     harvest |-> IF call.to = "start" THEN (IF x \in Kami THEN x ELSE None)
                 ELSE IF Opaque(call) /\ call.to # "liquidate" THEN None ELSE x,
     amount  |-> None,
     meta    |-> None]

LEMMA FieldIs ==
    ASSUME NEW s, NEW args, NEW i \in DOMAIN args, NEW column,
           \A m \in DOMAIN args : Column(s, args[m].name) = column <=> m = i
    PROVE  Field(s, args, column) = Decimal(args[i])
<1>1. {m \in DOMAIN args : Column(s, args[m].name) = column} = {i}
  OBVIOUS
<1>2. (CHOOSE m \in {i} : TRUE) = i
  OBVIOUS
<1> QED BY <1>1, <1>2 DEF Field

LEMMA FieldIsNot ==
    ASSUME NEW s, NEW args, NEW column,
           \A m \in DOMAIN args : Column(s, args[m].name) # column
    PROVE  Field(s, args, column) = None
<1>1. {m \in DOMAIN args : Column(s, args[m].name) = column} = {}
  OBVIOUS
<1> QED BY <1>1 DEF Field

LEMMA OneRowIs ==
    ASSUME NEW call \in Calls, call.fn \in Functions(call.to), NEW args,
           DOMAIN args = DOMAIN Inputs(call),
           \A m \in DOMAIN args : args[m].name = Inputs(call)[m].name,
           2 \in DOMAIN args => ~args[2].array /\ args[2].val = call.vals[2]
    PROVE  OneRow(call.to, args) = RowFor(call, Decimal(args[1]))
<1>0. call.to \in System
  BY HarvestsAssumption DEF WellTyped
<1>c. \A s : /\ \A name \in {"kamiID", "kamiIDs", "killerID"} : Column(s, name) = "kami"
             /\ \A name \in {"nodeID", "nodeIndex"} : Column(s, name) = "node"
             /\ \A name \in {"id", "ids", "victimHarvID"} : Column(s, name) = "harvest"
             /\ Column(s, "arguments") = "metadata"
  BY DEF Column
<1>1. CASE call.to = "start"
  <2>1. /\ DOMAIN args = {1, 2}
        /\ args[1].name \in {"kamiID", "kamiIDs"} /\ args[2].name \in {"nodeID", "nodeIndex"}
    BY <1>1, KnownInputs DEF Scalar, Array
  <2>2. Column("start", args[1].name) = "kami" /\ Column("start", args[2].name) = "node"
    BY <1>c, <2>1
  <2>3. Field("start", args, "kami") = Decimal(args[1])
    BY <2>1, <2>2, FieldIs
  <2>4. Field("start", args, "node") = Decimal(args[2])
    BY <2>1, <2>2, FieldIs
  <2>5. Decimal(args[2]) = call.vals[2]
    BY <2>1 DEF Decimal
  <2> QED BY <1>1, <2>3, <2>4, <2>5 DEF OneRow, RowFor
<1>2. CASE call.to = "liquidate"
  <2>1. /\ DOMAIN args = {1, 2} /\ args[1].name = "victimHarvID" /\ args[2].name = "killerID"
    BY <1>2, KnownInputs DEF Scalar
  <2>2. Column("liquidate", args[1].name) = "harvest" /\ Column("liquidate", args[2].name) = "kami"
    BY <1>c, <2>1
  <2>3. Field("liquidate", args, "harvest") = Decimal(args[1])
    BY <2>1, <2>2, FieldIs
  <2>4. Field("liquidate", args, "kami") = Decimal(args[2])
    BY <2>1, <2>2, FieldIs
  <2>5. Field("liquidate", args, "node") = None
    BY <2>1, <2>2, FieldIsNot
  <2>6. Decimal(args[2]) = call.vals[2]
    BY <2>1 DEF Decimal
  <2> QED BY <1>2, <2>3, <2>4, <2>5, <2>6 DEF OneRow, RowFor
<1>3. CASE call.to \in {"stop", "collect"}
  <2>1. /\ DOMAIN args = {1}
        /\ ~Opaque(call) => args[1].name \in {"id", "ids"}
        /\ Opaque(call) => args[1].name = "arguments"
    BY <1>3, KnownInputs DEF Scalar, Array
  <2>2. Column(call.to, args[1].name) = IF Opaque(call) THEN "metadata" ELSE "harvest"
    BY <1>c, <2>1
  <2>3. Field(call.to, args, "harvest") = IF Opaque(call) THEN None ELSE Decimal(args[1])
    <3>1. CASE Opaque(call)
      BY <2>1, <2>2, <3>1, FieldIsNot
    <3>2. CASE ~Opaque(call)
      BY <2>1, <2>2, <3>2, FieldIs
    <3> QED BY <3>1, <3>2
  <2>4. Field(call.to, args, "kami") = None /\ Field(call.to, args, "node") = None
    BY <2>1, <2>2, FieldIsNot
  <2> QED BY <1>3, <2>3, <2>4 DEF OneRow, RowFor
<1> QED BY <1>0, <1>1, <1>2, <1>3 DEF System

(* A list of arguments is decoded to a row for each value of its array, or *)
(* to one row.                                                             *)
LEMMA DecodeShape ==
    ASSUME NEW call \in Calls
    PROVE  \/ DecodeTx(call) = << >>
           \/ call.vals[1] \in Kami /\ DecodeTx(call) = <<RowFor(call, call.vals[1])>>
           \/ /\ call.vals[1] \notin Kami /\ call.vals[1] = << >>
              /\ DecodeTx(call) = <<RowFor(call, Text)>>
           \/ /\ call.vals[1] \in Seq(Kami) \ Kami /\ call.vals[1] # << >>
              /\ DecodeTx(call) = [j \in 1 .. Len(call.vals[1]) |-> RowFor(call, call.vals[1][j])]
<1> DEFINE args == Args(call)
           v == call.vals[1]
<1> SUFFICES ASSUME call.fn \in Functions(call.to), Decodable(call)
             PROVE  \/ v \in Kami /\ DecodeTx(call) = <<RowFor(call, v)>>
                    \/ v \notin Kami /\ v = << >> /\ DecodeTx(call) = <<RowFor(call, Text)>>
                    \/ /\ v \in Seq(Kami) \ Kami /\ v # << >>
                       /\ DecodeTx(call) = [j \in 1 .. Len(v) |-> RowFor(call, v[j])]
  BY DEF DecodeTx
<1>1. /\ v \in Kami \/ v \in Seq(Kami)
      /\ Inputs(call)[1].array <=> v \notin Kami
      /\ call.to \in System
  BY HarvestsAssumption DEF WellTyped
<1>2. DecodeTx(call) = [j \in DOMAIN FannedOut(args) |-> OneRow(call.to, FannedOut(args)[j])]
  BY DEF DecodeTx
<1>3. /\ DOMAIN Inputs(call) \in {{1}, {1, 2}}
      /\ 2 \in DOMAIN Inputs(call) => ~Inputs(call)[2].array
      /\ 1 \in DOMAIN Inputs(call)
  <2>1. ASSUME NEW in, NEW a, NEW b, in = <<a, Scalar(b)>>
        PROVE  DOMAIN in = {1, 2} /\ ~in[2].array
    BY <2>1 DEF Scalar
  <2>2. ASSUME NEW in, NEW a, in = <<a>>
        PROVE  DOMAIN in = {1}
    BY <2>2
  <2>3. (\E a, b : Inputs(call) = <<a, Scalar(b)>>) \/ (\E a : Inputs(call) = <<a>>)
    BY <1>1, KnownInputs DEF System
  <2> QED BY <2>1, <2>2, <2>3
<1>4. /\ DOMAIN args = DOMAIN Inputs(call)
      /\ \A m \in DOMAIN args : args[m] = [name |-> Inputs(call)[m].name,
                                          array |-> Inputs(call)[m].array, val |-> call.vals[m]]
  BY DEF Args
<1> HIDE DEF args
<1>5. OneRow(call.to, args) = RowFor(call, Decimal(args[1]))
  BY <1>3, <1>4, OneRowIs
<1> DEFINE arrays  == {m \in DOMAIN args : args[m].array}
           lengths == {Len(args[m].val) : m \in arrays}
           item(j) == [m \in DOMAIN args |->
                         IF m \in arrays THEN [args[m] EXCEPT !.array = FALSE, !.val = @[j]]
                         ELSE args[m]]
<1>6. FannedOut(args) = IF Cardinality(lengths) = 1 /\ lengths # {0}
                        THEN [j \in 1 .. CHOOSE l \in lengths : TRUE |-> item(j)]
                        ELSE <<args>>
  BY DEF FannedOut
<1>7. ASSUME FannedOut(args) = <<args>>
      PROVE  DecodeTx(call) = <<RowFor(call, Decimal(args[1]))>>
  BY <1>2, <1>5, <1>7
<1>8. CASE v \in Kami
  <2>1. arrays = {}
    BY <1>1, <1>3, <1>4, <1>8
  <2>2. lengths = {}
    BY <2>1
  <2>3. FannedOut(args) = <<args>>
    <3> HIDE DEF lengths
    <3>1. Cardinality(lengths) = 0
      BY <2>2, FS_EmptySet
    <3> QED BY <1>6, <3>1
  <2>4. Decimal(args[1]) = v
    BY <1>1, <1>3, <1>4, <1>8 DEF Decimal
  <2> QED BY <1>7, <1>8, <2>3, <2>4
<1>9. CASE v \notin Kami
  <2>1. arrays = {1} /\ args[1].val = v /\ args[1].array /\ v \in Seq(Kami)
    BY <1>1, <1>3, <1>4, <1>9
  <2>2. lengths = {Len(v)}
    BY <2>1
  <2>3. Cardinality(lengths) = 1
    BY <2>2, FS_Singleton
  <2>4. CASE v = << >>
    <3>1. lengths = {0}
      BY <2>2, <2>4
    <3>2. FannedOut(args) = <<args>>
      BY <1>6, <3>1
    <3>3. Decimal(args[1]) = Text
      BY <2>1 DEF Decimal
    <3> QED BY <1>7, <1>9, <2>4, <3>2, <3>3
  <2>5. CASE v # << >>
    <3>1. lengths # {0} /\ (CHOOSE l \in lengths : TRUE) = Len(v) /\ Len(v) \in Nat
      BY <2>1, <2>2, <2>5
    <3>2. FannedOut(args) = [j \in 1 .. Len(v) |-> item(j)]
      BY <1>6, <2>3, <3>1
    <3>3. ASSUME NEW j \in 1 .. Len(v)
          PROVE  OneRow(call.to, item(j)) = RowFor(call, v[j])
      <4>1. /\ DOMAIN item(j) = DOMAIN Inputs(call)
            /\ \A m \in DOMAIN item(j) : item(j)[m].name = Inputs(call)[m].name
        BY <1>4
      <4>2. 2 \in DOMAIN item(j) => ~item(j)[2].array /\ item(j)[2].val = call.vals[2]
        BY <1>3, <1>4, <2>1
      <4>3. item(j)[1] = [args[1] EXCEPT !.array = FALSE, !.val = v[j]]
        BY <1>3, <1>4, <2>1
      <4>4. args[1] = [name |-> Inputs(call)[1].name, array |-> Inputs(call)[1].array, val |-> v]
        BY <1>3, <1>4
      <4> HIDE DEF item
      <4>5. item(j)[1].val = v[j] /\ ~item(j)[1].array
        BY <4>3, <4>4
      <4>6. Decimal(item(j)[1]) = v[j]
        BY <4>5 DEF Decimal
      <4> QED BY <4>1, <4>2, <4>6, OneRowIs
    <3>4. DecodeTx(call) = [j \in 1 .. Len(v) |-> OneRow(call.to, item(j))]
      BY <1>2, <3>2
    <3> QED BY <1>9, <2>1, <2>5, <3>3, <3>4
  <2> QED BY <2>4, <2>5
<1> QED BY <1>8, <1>9
LEMMA RowForTyped ==
    ASSUME NEW call \in Calls, NEW x \in Kami \cup {Text}
    PROVE  /\ RowFor(call, x) \in RowType
           /\ RowFor(call, x).type = call.to
           /\ RowFor(call, x).amount = None /\ RowFor(call, x).meta = None
           /\ call.to = "start" => /\ RowFor(call, x).kami = x /\ RowFor(call, x).node = call.vals[2]
                                   /\ RowFor(call, x).harvest = IF x \in Kami THEN x ELSE None
           /\ call.to # "start" => RowFor(call, x).harvest \in {None, x}
           /\ call.to \in {"stop", "collect"} => RowFor(call, x).kami = None
<1>1. /\ call.to \in System
      /\ call.to = "start" => call.vals[2] \in Node
      /\ call.to = "liquidate" => call.vals[2] \in Kami
  BY HarvestsAssumption DEF WellTyped
<1>2. RowFor(call, x).harvest \in Kami \cup {None, Text}
  BY DEF RowFor
<1>3. RowFor(call, x).kami \in Kami \cup {None, Text} /\ RowFor(call, x).node \in Node \cup {None}
  <2>1. CASE call.to = "start"
    BY <1>1, <2>1 DEF RowFor
  <2>2. CASE call.to = "liquidate"
    BY <1>1, <2>2 DEF RowFor
  <2>3. CASE call.to \notin {"start", "liquidate"}
    BY <2>3 DEF RowFor
  <2> QED BY <2>1, <2>2, <2>3
<1>4. RowFor(call, x) \in RowType
  <2> DEFINE row == RowFor(call, x)
  <2>1. row = [type |-> call.to, kami |-> row.kami, node |-> row.node, harvest |-> row.harvest,
               amount |-> None, meta |-> None]
    BY DEF RowFor
  <2>2. /\ row.kami \in Kami \cup {None, Text} /\ row.node \in Node \cup {None}
        /\ row.harvest \in Kami \cup {None, Text}
    BY <1>2, <1>3
  <2> HIDE DEF row
  <2>3. row \in RowType
    BY <1>1, <2>1, <2>2 DEF RowType
  <2> QED BY <2>3 DEF row
<1> QED BY <1>4 DEF RowFor

(* Each row is that of a kami the call is for, or of none.                 *)
LEMMA DecodedRow ==
    ASSUME NEW call \in Calls, NEW j \in DOMAIN DecodeTx(call)
    PROVE  \E x \in Kami \cup {Text} : /\ DecodeTx(call)[j] = RowFor(call, x)
                                       /\ x \in Kami => x \in Subjects(call)
<1> DEFINE v == call.vals[1]
<1>1. CASE v \in Kami /\ DecodeTx(call) = <<RowFor(call, v)>>
  <2>1. j = 1 /\ DecodeTx(call)[j] = RowFor(call, v)
    BY <1>1
  <2>2. v \in Subjects(call)
    BY <1>1 DEF Subjects
  <2> QED BY <1>1, <2>1, <2>2
<1>2. CASE v = << >> /\ DecodeTx(call) = <<RowFor(call, Text)>>
  BY <1>2, HarvestsAssumption
<1>3. CASE /\ v \in Seq(Kami) \ Kami
           /\ DecodeTx(call) = [i \in 1 .. Len(v) |-> RowFor(call, v[i])]
  <2>1. j \in 1 .. Len(v) /\ DecodeTx(call)[j] = RowFor(call, v[j]) /\ v[j] \in Kami
    BY <1>3
  <2>2. v[j] \in Subjects(call)
    BY <1>3, <2>1 DEF Subjects
  <2> QED BY <2>1, <2>2
<1>4. DecodeTx(call) # << >>
  OBVIOUS
<1> QED BY <1>1, <1>2, <1>3, <1>4, DecodeShape

(* Unless its bytes hide them, each of them has a row.                     *)
LEMMA SubjectsHaveRows ==
    ASSUME NEW call \in Calls, DecodeTx(call) # << >>, NEW k \in Subjects(call) \cap Kami
    PROVE  \E j \in DOMAIN DecodeTx(call) : DecodeTx(call)[j] = RowFor(call, k)
<1> DEFINE v == call.vals[1]
<1>1. CASE v \in Kami /\ DecodeTx(call) = <<RowFor(call, v)>>
  <2>1. k = v
    BY <1>1 DEF Subjects
  <2> QED BY <1>1, <2>1
<1>2. CASE v = << >> /\ v \notin Kami
  BY <1>2 DEF Subjects
<1>3. CASE /\ v \in Seq(Kami) \ Kami
           /\ DecodeTx(call) = [i \in 1 .. Len(v) |-> RowFor(call, v[i])]
  <2>1. PICK j \in 1 .. Len(v) : k = v[j]
    BY <1>3 DEF Subjects
  <2> QED BY <1>3, <2>1
<1> QED BY <1>1, <1>2, <1>3, DecodeShape

(* A call that does not repeat itself has one row for each.                *)
LEMMA OneRowEach ==
    ASSUME NEW call \in Calls, ~Repeats(call), NEW k \in Kami,
           NEW i \in DOMAIN DecodeTx(call), NEW j \in DOMAIN DecodeTx(call),
           DecodeTx(call)[i].harvest = k, DecodeTx(call)[j].harvest = k
    PROVE  i = j
<1> DEFINE v == call.vals[1]
<1>1. CASE \E row : DecodeTx(call) = <<row>>
  BY <1>1
<1>2. CASE /\ v \in Seq(Kami) \ Kami
           /\ DecodeTx(call) = [m \in 1 .. Len(v) |-> RowFor(call, v[m])]
  <2>1. /\ i \in 1 .. Len(v) /\ j \in 1 .. Len(v) /\ v[i] \in Kami /\ v[j] \in Kami
        /\ Len(v) \in Nat /\ DOMAIN v = 1 .. Len(v)
        /\ RowFor(call, v[i]).harvest = k /\ RowFor(call, v[j]).harvest = k
    BY <1>2
  <2>2. v[i] = k /\ v[j] = k
    BY <2>1, RowForTyped, HarvestsAssumption
  <2>3. Subjects(call) = {v[m] : m \in DOMAIN v}
    BY <1>2 DEF Subjects
  <2>4. v \in Surjection(DOMAIN v, Subjects(call))
    BY <1>2, <2>3 DEF Surjection
  <2>5. IsFiniteSet(DOMAIN v) /\ Cardinality(DOMAIN v) = Len(v)
    BY <2>1, FS_Interval
  <2>6. Cardinality(Subjects(call)) <= Len(v) /\ Cardinality(Subjects(call)) \in Nat
    BY <2>4, <2>5, FS_Surjection, FS_CardinalityType
  <2>7. Cardinality(Subjects(call)) = Len(v)
    BY <1>2, <2>1, <2>6 DEF Repeats
  <2>8. v \in Injection(DOMAIN v, Subjects(call))
    BY <2>4, <2>5, <2>7, FS_Surjection
  <2> QED BY <2>1, <2>2, <2>8 DEF Injection, IsInjective
<1> QED BY <1>1, <1>2, DecodeShape
-----------------------------------------------------------------------------
(* The chain                                                               *)

Entry ==
    [call : Calls, block : Nat, ok : BOOLEAN, place : [Kami -> Node \cup {None}],
     active : SUBSET Kami, gave : SUBSET Kami, writes : [Kami -> SUBSET {0, 1}]]

(* Blocks come one after the other, and each has a transaction. *)
Blocks ==
    /\ chain \in Seq(Entry) /\ Len(chain) <= MaxTx
    /\ scanned \in Nat /\ scanned <= Len(chain) /\ cutoff \in 1 .. scanned + 1
    /\ \A i \in DOMAIN chain : chain[i].block \in 1 .. scanned + 1 /\ chain[i].block <= i
    /\ \A i, j \in DOMAIN chain : i <= j => chain[i].block <= chain[j].block

(* The receipt shows what was drained. *)
Receipts ==
    \A i \in DOMAIN chain : \A k \in Kami :
        /\ Drained(chain[i].writes[k]) <=> k \in chain[i].gave
        /\ k \in chain[i].gave => k \in Subjects(chain[i].call) /\ chain[i].call.to # "start"

LEMMA SubjectsAreKamis ==
    ASSUME NEW call \in Calls
    PROVE  Subjects(call) \subseteq Kami
BY HarvestsAssumption DEF WellTyped, Subjects

LEMMA DrainedMeans ==
    ASSUME NEW call \in Calls, NEW place, NEW bounty \in {0, 1}, NEW k \in Kami
    PROVE  /\ Drained(WritesOf(call, place, bounty)[k]) <=> bounty > 0 /\ k \in Active(call, place)
           /\ ~Drained({})
           /\ k \in Active(call, place) => k \in Subjects(call) /\ call.to # "start"
<1> DEFINE w == WritesOf(call, place, bounty)
<1>1. w[k] = IF call.to = "start" THEN {}
             ELSE IF k \in Active(call, place) THEN {bounty, 0}
             ELSE IF k \in Subjects(call) THEN {1}
             ELSE IF call.to = "liquidate" /\ k = call.vals[2] THEN {bounty} ELSE {}
  BY DEF WritesOf
<1>2. k \in Active(call, place) => k \in Subjects(call) /\ call.to # "start"
  BY DEF Active
<1>3. /\ ~Drained({}) /\ ~Drained({1}) /\ ~Drained({bounty})
      /\ Drained({bounty, 0}) <=> bounty > 0
  BY DEF Drained
<1>4. Drained(w[k]) <=> bounty > 0 /\ k \in Active(call, place)
  <2> HIDE DEF w
  <2> QED BY <1>1, <1>2, <1>3
<1> QED BY <1>2, <1>3, <1>4

LEMMA AppendedEntry ==
    ASSUME NEW S, NEW s \in Seq(S), NEW e \in S
    PROVE  /\ Append(s, e) \in Seq(S) /\ Len(Append(s, e)) = Len(s) + 1
           /\ DOMAIN s = 1 .. Len(s) /\ DOMAIN Append(s, e) = DOMAIN s \cup {Len(s) + 1}
           /\ Append(s, e)[Len(s) + 1] = e /\ Len(s) \in Nat
           /\ \A i \in DOMAIN s : Append(s, e)[i] = s[i] /\ s[i] \in S /\ i \in 1 .. Len(s)
OBVIOUS

(* What a transaction adds to the chain. *)
LEMMA Transaction ==
    ASSUME Blocks, NEW call \in Calls, Transact(call)
    PROVE  \E e \in Entry :
             /\ chain' = Append(chain, e)
             /\ e.call = call /\ e.block = scanned + 1
             /\ e.place = IF e.ok THEN PlaceAfter(call, Place) ELSE Place
             /\ e.active = IF e.ok THEN Active(call, Place) ELSE {}
             /\ \A k \in Kami : /\ Drained(e.writes[k]) <=> k \in e.gave
                                /\ k \in e.gave => k \in Subjects(call) /\ call.to # "start"
<1>1. PICK bounty \in {0, 1}, ok \in BOOLEAN :
        chain' = Append(chain,
          [call |-> call, block |-> scanned + 1, ok |-> ok,
           place  |-> IF ok THEN PlaceAfter(call, Place) ELSE Place,
           active |-> IF ok THEN Active(call, Place) ELSE {},
           gave   |-> IF ok /\ bounty > 0 THEN Active(call, Place) ELSE {},
           writes |-> IF ok THEN WritesOf(call, Place, bounty) ELSE [k \in Kami |-> {}]])
  BY DEF Transact
<1> DEFINE place  == IF ok THEN PlaceAfter(call, Place) ELSE Place
           active == IF ok THEN Active(call, Place) ELSE {}
           gave   == IF ok /\ bounty > 0 THEN Active(call, Place) ELSE {}
           writes == IF ok THEN WritesOf(call, Place, bounty) ELSE [k \in Kami |-> {}]
           e == [call |-> call, block |-> scanned + 1, ok |-> ok, place |-> place,
                 active |-> active, gave |-> gave, writes |-> writes]
<1>2. Place \in [Kami -> Node \cup {None}]
  <2>1. CASE chain = << >>
    BY <2>1 DEF Place
  <2>2. CASE chain # << >>
    <3>1. chain[Len(chain)] \in Entry
      BY <2>2 DEF Blocks
    <3> QED BY <2>2, <3>1 DEF Place, Entry
  <2> QED BY <2>1, <2>2
<1>3. place \in [Kami -> Node \cup {None}]
  BY <1>2, HarvestsAssumption DEF PlaceAfter, WellTyped, System
<1>4. Active(call, Place) \subseteq Kami
  BY SubjectsAreKamis DEF Active
<1>5. \A k \in Kami : /\ Drained(writes[k]) <=> k \in gave
                      /\ k \in gave => k \in Subjects(call) /\ call.to # "start"
  BY <1>4, DrainedMeans
<1>6. writes \in [Kami -> SUBSET {0, 1}]
  BY DEF WritesOf
<1> HIDE DEF place, active, gave, writes
<1>7. e \in Entry
  <2>1. active \subseteq Kami /\ gave \subseteq Kami /\ scanned + 1 \in Nat
    BY <1>4 DEF active, gave, Blocks
  <2> QED BY <1>3, <1>6, <2>1 DEF Entry
<1>8. chain' = Append(chain, e)
  BY <1>1 DEF place, active, gave, writes
<1> QED BY <1>5, <1>7, <1>8 DEF place, active

LEMMA BlocksKept ==
    ASSUME Blocks, Receipts, [Next]_vars
    PROVE  Blocks' /\ Receipts'
<1>0. MaxTx \in Nat /\ chain \in Seq(Entry) /\ Len(chain) \in Nat /\ scanned \in Nat /\ cutoff \in Nat
  BY HarvestsAssumption DEF Blocks
<1>1. CASE UNCHANGED <<chain, scanned, cutoff>>
  BY <1>1 DEF Blocks, Receipts
<1>2. ASSUME NEW call \in Calls, Transact(call)
      PROVE  Blocks' /\ Receipts'
  <2>1. PICK e \in Entry :
          /\ chain' = Append(chain, e)
          /\ e.call = call /\ e.block = scanned + 1
          /\ \A k \in Kami : /\ Drained(e.writes[k]) <=> k \in e.gave
                             /\ k \in e.gave => k \in Subjects(call) /\ call.to # "start"
    BY <1>2, Transaction
  <2>2. /\ Len(chain) < MaxTx /\ UNCHANGED <<scanned, cutoff>>
    BY <1>2 DEF Transact
  <2>3. /\ chain' \in Seq(Entry) /\ Len(chain') = Len(chain) + 1
        /\ DOMAIN chain = 1 .. Len(chain) /\ DOMAIN chain' = DOMAIN chain \cup {Len(chain) + 1}
        /\ chain'[Len(chain) + 1] = e
        /\ \A i \in DOMAIN chain : chain'[i] = chain[i]
    BY <1>0, <2>1, AppendedEntry
  <2>4. Blocks'
    BY <1>0, <2>1, <2>2, <2>3 DEF Blocks
  <2>5. Receipts'
    BY <2>1, <2>3 DEF Receipts
  <2> QED BY <2>4, <2>5
<1>3. CASE Ingest
  <2>1. UNCHANGED <<chain, cutoff>> /\ scanned' = scanned + 1 /\ InBlock(scanned + 1) # {}
    BY <1>3 DEF Ingest
  <2>2. PICK i \in DOMAIN chain : chain[i].block = scanned + 1
    BY <2>1 DEF InBlock
  <2>3. scanned + 1 <= i /\ i <= Len(chain) /\ i \in Nat
    BY <1>0, <2>2 DEF Blocks
  <2>4. \A m \in DOMAIN chain : chain[m].block \in 1 .. scanned + 1 + 1
    BY <1>0 DEF Blocks
  <2> QED BY <1>0, <2>1, <2>3, <2>4 DEF Blocks, Receipts
<1>4. ASSUME NEW c \in 2 .. MaxTx, Prune(c)
      PROVE  Blocks' /\ Receipts'
  BY <1>0, <1>4 DEF Prune, Blocks, Receipts
<1> QED BY <1>1, <1>2, <1>3, <1>4
       DEF Next, vars, Down, Boot, Migration, Migrate, FillStops, FillStarts, StitchFromStarts,
           StitchFromUniverse, Statement, Repair, RepairAmounts, RepairLiquidations
-----------------------------------------------------------------------------
(* The rows                                                                *)

(* The keys of the rows a database would hold that was never pruned. *)
Keys(c) == UNION {{<<i, j>> : j \in DOMAIN DecodeTx(c[i].call)} : i \in DOMAIN c}
AllKeys == Keys(chain)

(* Those it holds. *)
Kept == {key \in AllKeys : BlockOf(key) \in cutoff .. scanned}

(* A row the decoder of today makes, and what its receipt adds to it.      *)
WellFormed(f, writes) ==
    /\ f \in RowType /\ f.meta = None
    /\ f.type = "start" => /\ f.kami # None /\ f.amount = None
                           /\ f.harvest = IF f.kami \in Kami THEN f.kami ELSE None
    /\ f.type \in {"stop", "collect"} => f.kami = IF f.harvest \in Kami THEN f.harvest ELSE None
    /\ f.type # "start" => f.amount = MusuAmount(writes, f.harvest)

(* A row as some release or script left it.  Only what the first release   *)
(* wrote has its harvest id elsewhere, and lacks columns.                  *)
Agrees(row, f) ==
    /\ row \in RowType
    /\ row.type = f.type /\ row.node = f.node
    /\ row.kami \in {None, f.kami}
    /\ row.type = "start" => row.kami = f.kami
    /\ row.harvest \in {None, f.harvest} /\ row.meta \in {None, f.harvest}
    /\ row.amount \in {None, f.amount}
    /\ row.type # "start" /\ row.meta = None => row.harvest = f.harvest /\ row.amount = f.amount

RowsAgree == DOMAIN rows = Kept /\ \A key \in Kept : Agrees(rows[key], Fresh(key))

Base(key) == Paired(DecodeTx(chain[key[1]].call)[key[2]], chain[key[1]].writes)

LEMMA AmountIs ==
    ASSUME NEW writes \in [Kami -> SUBSET {0, 1}], NEW harvest
    PROVE  /\ MusuAmount(writes, harvest) \in {None, 1}
           /\ MusuAmount(writes, None) = None
           /\ harvest \in Kami /\ Drained(writes[harvest]) => MusuAmount(writes, harvest) = 1
           /\ harvest \notin Kami \/ ~Drained(writes[harvest]) => MusuAmount(writes, harvest) = None
<1>1. ASSUME harvest \in Kami, Drained(writes[harvest])
      PROVE  Bounty(writes[harvest]) = 1
  <2>1. writes[harvest] = {0, 1}
    BY <1>1 DEF Drained
  <2>2. \E v \in {0, 1} : \A w \in {0, 1} : w <= v
    OBVIOUS
  <2> QED BY <2>1, <2>2 DEF Bounty
<1> QED BY <1>1, HarvestsAssumption DEF MusuAmount

LEMMA KeysAre ==
    ASSUME NEW c, NEW key
    PROVE  key \in Keys(c) <=> \E i \in DOMAIN c : \E j \in DOMAIN DecodeTx(c[i].call) : key = <<i, j>>
<1>1. ASSUME key \in Keys(c)
      PROVE  \E i \in DOMAIN c : \E j \in DOMAIN DecodeTx(c[i].call) : key = <<i, j>>
  <2>1. PICK i \in DOMAIN c : key \in {<<i, j>> : j \in DOMAIN DecodeTx(c[i].call)}
    BY <1>1 DEF Keys
  <2> QED BY <2>1
<1>2. ASSUME NEW i \in DOMAIN c, NEW j \in DOMAIN DecodeTx(c[i].call)
      PROVE  <<i, j>> \in Keys(c)
  <2>1. <<i, j>> \in {<<i, m>> : m \in DOMAIN DecodeTx(c[i].call)}
    OBVIOUS
  <2> QED BY <2>1, Zenon DEF Keys
<1> QED BY <1>1, <1>2

LEMMA KeyOf ==
    ASSUME NEW key \in AllKeys
    PROVE  /\ key = <<key[1], key[2]>> /\ key[1] \in DOMAIN chain
           /\ key[2] \in DOMAIN DecodeTx(chain[key[1]].call)
<1>1. PICK i \in DOMAIN chain : \E j \in DOMAIN DecodeTx(chain[i].call) : key = <<i, j>>
  BY KeysAre DEF AllKeys
<1> QED BY <1>1

LEMMA IsKey ==
    ASSUME NEW i \in DOMAIN chain, NEW j \in DOMAIN DecodeTx(chain[i].call)
    PROVE  <<i, j>> \in AllKeys
BY KeysAre DEF AllKeys

LEMMA FreshIs ==
    ASSUME Blocks, NEW key \in AllKeys
    PROVE  LET f    == Fresh(key)
               call == chain[key[1]].call
           IN /\ call \in Calls /\ chain[key[1]].writes \in [Kami -> SUBSET {0, 1}]
              /\ WellFormed(f, chain[key[1]].writes)
              /\ f.type = call.to
              /\ call.to = "start" => f.node = call.vals[2]
              /\ f.harvest = DecodeTx(call)[key[2]].harvest
              /\ f.harvest \in Kami => f.harvest \in Subjects(call)
              /\ Base(key) = IF f.type \in {"stop", "collect"} THEN [f EXCEPT !.kami = None] ELSE f
<1> DEFINE call == chain[key[1]].call
           writes == chain[key[1]].writes
           row == DecodeTx(call)[key[2]]
           f == Fresh(key)
<1>1. key[1] \in DOMAIN chain /\ key[2] \in DOMAIN DecodeTx(call)
  BY KeyOf
<1>2. call \in Calls /\ writes \in [Kami -> SUBSET {0, 1}]
  <2>1. chain[key[1]] \in Entry
    BY <1>1 DEF Blocks
  <2> QED BY <2>1 DEF Entry
<1>3. PICK x \in Kami \cup {Text} : row = RowFor(call, x) /\ (x \in Kami => x \in Subjects(call))
  BY <1>1, <1>2, DecodedRow
<1>4. /\ row \in RowType /\ row.type = call.to /\ row.amount = None /\ row.meta = None
      /\ call.to = "start" => /\ row.kami = x /\ row.node = call.vals[2]
                              /\ row.harvest = IF x \in Kami THEN x ELSE None
      /\ call.to # "start" => row.harvest \in {None, x}
      /\ call.to \in {"stop", "collect"} => row.kami = None
  BY <1>2, <1>3, RowForTyped
<1> DEFINE amount == IF row.type \in Payout THEN MusuAmount(writes, row.harvest) ELSE None
           base   == Paired(row, writes)
           kami   == IF row.type \in {"stop", "collect"} /\ row.harvest \in Kami
                     THEN row.harvest ELSE row.kami
<1>5. amount \in {None, 1}
  BY <1>2, AmountIs
<1>6. /\ row = [type |-> row.type, kami |-> row.kami, node |-> row.node, harvest |-> row.harvest,
                amount |-> None, meta |-> row.meta]
      /\ row.type \in System /\ row.kami \in Kami \cup {None, Text}
      /\ row.node \in Node \cup {None} /\ row.harvest \in Kami \cup {None, Text}
      /\ row.meta \in Kami \cup {None, Text}
  BY <1>4 DEF RowType
<1>7. base = [type |-> row.type, kami |-> row.kami, node |-> row.node, harvest |-> row.harvest,
              amount |-> amount, meta |-> row.meta]
  <2> HIDE DEF row, writes
  <2> QED BY <1>6 DEF Paired
<1>8. f = [type |-> row.type, kami |-> kami, node |-> row.node, harvest |-> row.harvest,
           amount |-> amount, meta |-> row.meta]
  <2>1. f = IF base.type \in {"stop", "collect"} /\ base.harvest \in Kami
            THEN [base EXCEPT !.kami = base.harvest] ELSE base
    BY Zenon DEF Fresh
  <2> HIDE DEF row, writes, base, f, amount
  <2> QED BY <1>7, <2>1
<1>9. kami \in Kami \cup {None, Text}
  BY <1>6
<1>10. /\ row.type \in {"stop", "collect"} => row.kami = None
       /\ row.type # "start" => row.type \in Payout
       /\ row.type = "start" => row.type \notin Payout
  BY <1>4, <1>6 DEF System, Payout
<1>11. /\ f.type = row.type /\ f.kami = kami /\ f.node = row.node /\ f.harvest = row.harvest
       /\ f.amount = amount /\ f.meta = row.meta
       /\ base = IF f.type \in {"stop", "collect"} THEN [f EXCEPT !.kami = None] ELSE f
  <2> HIDE DEF row, writes, base, f, amount
  <2> QED BY <1>7, <1>8, <1>10
<1>12. f \in RowType
  <2> HIDE DEF row, writes, base, f, amount, kami
  <2> QED BY <1>5, <1>6, <1>8, <1>9 DEF RowType
<1>13. WellFormed(f, writes)
  <2>1. f.type = "start" => /\ f.kami # None /\ f.amount = None
                            /\ f.harvest = IF f.kami \in Kami THEN f.kami ELSE None
    BY <1>4, <1>10, <1>11, HarvestsAssumption
  <2>2. f.type \in {"stop", "collect"} => f.kami = IF f.harvest \in Kami THEN f.harvest ELSE None
    BY <1>10, <1>11
  <2>3. f.type # "start" => f.amount = MusuAmount(writes, f.harvest)
    BY <1>10, <1>11
  <2>4. f.meta = None
    BY <1>4, <1>11
  <2> HIDE DEF row, writes, f
  <2> QED BY <1>12, <2>1, <2>2, <2>3, <2>4 DEF WellFormed
<1>14. f.harvest \in Kami => f.harvest \in Subjects(call)
  BY <1>3, <1>4, <1>11, HarvestsAssumption
<1> HIDE DEF f
<1>15. Base(key) = base
  BY DEF Base
<1> QED BY <1>2, <1>4, <1>11, <1>13, <1>14, <1>15 DEF f
-----------------------------------------------------------------------------
(* What may be done to a row                                               *)

LEMMA AgreeingRow ==
    ASSUME NEW row, NEW f, Agrees(row, f)
    PROVE  /\ row = [type |-> row.type, kami |-> row.kami, node |-> row.node,
                     harvest |-> row.harvest, amount |-> row.amount, meta |-> row.meta]
           /\ row.type \in System /\ row.kami \in Kami \cup {None, Text}
           /\ row.node \in Node \cup {None} /\ row.harvest \in Kami \cup {None, Text}
           /\ row.amount \in {None, 1} /\ row.meta \in Kami \cup {None, Text}
BY DEF Agrees, RowType

(* A harvest id is taken from metadata_json. *)
LEMMA FilledAgrees ==
    ASSUME NEW row, NEW f, Agrees(row, f), row.meta # None
    PROVE  Agrees([row EXCEPT !.harvest = row.meta], f)
<1> DEFINE new == [row EXCEPT !.harvest = row.meta]
<1>1. new = [type |-> row.type, kami |-> row.kami, node |-> row.node,
             harvest |-> row.meta, amount |-> row.amount, meta |-> row.meta]
  BY AgreeingRow
<1> HIDE DEF new
<1>2. new \in RowType
  BY <1>1, AgreeingRow DEF RowType
<1> QED BY <1>1, <1>2 DEF Agrees, new

(* A start's is its kami's. *)
LEMMA DerivedAgrees ==
    ASSUME NEW row, NEW f, NEW writes, Agrees(row, f), WellFormed(f, writes),
           row.type = "start", row.kami \in Kami
    PROVE  Agrees([row EXCEPT !.harvest = row.kami], f)
<1> DEFINE new == [row EXCEPT !.harvest = row.kami]
<1>1. new = [type |-> row.type, kami |-> row.kami, node |-> row.node,
             harvest |-> row.kami, amount |-> row.amount, meta |-> row.meta]
  BY AgreeingRow
<1>2. f.harvest = row.kami
  BY DEF Agrees, WellFormed
<1> HIDE DEF new
<1>3. new \in RowType
  BY <1>1, AgreeingRow DEF RowType
<1> QED BY <1>1, <1>2, <1>3 DEF Agrees, new

(* The kami of a stop or a collect is its harvest. *)
LEMMA NamedAgrees ==
    ASSUME NEW row, NEW f, NEW writes, Agrees(row, f), WellFormed(f, writes),
           row.type \in {"stop", "collect"}, row.harvest \in Kami
    PROVE  Agrees([row EXCEPT !.kami = row.harvest], f)
<1> DEFINE new == [row EXCEPT !.kami = row.harvest]
<1>1. new = [type |-> row.type, kami |-> row.harvest, node |-> row.node,
             harvest |-> row.harvest, amount |-> row.amount, meta |-> row.meta]
  BY AgreeingRow
<1>2. f.kami = row.harvest
  BY HarvestsAssumption DEF Agrees, WellFormed
<1> HIDE DEF new
<1>3. new \in RowType
  BY <1>1, AgreeingRow DEF RowType
<1> QED BY <1>1, <1>2, <1>3 DEF Agrees, new

(* An amount that is missing is read from the receipt. *)
LEMMA RepairedAgrees ==
    ASSUME NEW row, NEW f, NEW writes \in [Kami -> SUBSET {0, 1}],
           Agrees(row, f), WellFormed(f, writes), row.type # "start"
    PROVE  Agrees([row EXCEPT !.amount = MusuAmount(writes, Target(row))], f)
<1> DEFINE amount == MusuAmount(writes, Target(row))
           new    == [row EXCEPT !.amount = amount]
<1>1. new = [type |-> row.type, kami |-> row.kami, node |-> row.node,
             harvest |-> row.harvest, amount |-> amount, meta |-> row.meta]
  BY AgreeingRow
<1>2. f.amount = MusuAmount(writes, f.harvest) /\ f.type # "start"
  BY DEF Agrees, WellFormed
<1>3. Target(row) \in {None, f.harvest} /\ (row.meta = None => Target(row) = f.harvest)
  BY DEF Agrees, Target
<1>4. amount \in {None, f.amount} /\ (row.meta = None => amount = f.amount)
  BY <1>2, <1>3, AmountIs
<1>5. amount \in {None, 1}
  BY AmountIs
<1> HIDE DEF new, amount
<1>6. new \in RowType
  BY <1>1, <1>5, AgreeingRow DEF RowType
<1> QED BY <1>1, <1>4, <1>6 DEF Agrees, new, amount

(* What the ingester makes of it, now and in the first release. *)
LEMMA IngestedAgrees ==
    ASSUME Blocks, NEW key \in AllKeys, NEW map \in SUBSET Kami
    PROVE  LET base == Base(key) IN
           /\ Agrees(IF Stitchable(base) /\ base.harvest \in map
                     THEN [base EXCEPT !.kami = base.harvest] ELSE base, Fresh(key))
           /\ Agrees([base EXCEPT !.meta = IF base.type = "start" THEN None ELSE base.harvest,
                                  !.harvest = None, !.amount = None], Fresh(key))
<1> DEFINE f      == Fresh(key)
           base   == Base(key)
           writes == chain[key[1]].writes
           new    == [base EXCEPT !.kami = base.harvest]
           old    == [base EXCEPT !.meta = IF base.type = "start" THEN None ELSE base.harvest,
                                  !.harvest = None, !.amount = None]
<1>1. /\ WellFormed(f, writes) /\ writes \in [Kami -> SUBSET {0, 1}]
      /\ base = IF f.type \in {"stop", "collect"} THEN [f EXCEPT !.kami = None] ELSE f
  BY FreshIs
<1> DEFINE kami == IF f.type \in {"stop", "collect"} THEN None ELSE f.kami
<1> HIDE DEF f, base, writes
<1>2. /\ f = [type |-> f.type, kami |-> f.kami, node |-> f.node,
              harvest |-> f.harvest, amount |-> f.amount, meta |-> f.meta]
      /\ f.type \in System /\ f.kami \in Kami \cup {None, Text}
      /\ f.node \in Node \cup {None} /\ f.harvest \in Kami \cup {None, Text}
      /\ f.amount \in {None, 1} /\ f.meta \in Kami \cup {None, Text}
  BY <1>1 DEF WellFormed, RowType
<1>3. base = [type |-> f.type, kami |-> kami, node |-> f.node,
              harvest |-> f.harvest, amount |-> f.amount, meta |-> f.meta]
  BY <1>1, <1>2
<1>4. f.meta = None /\ f.harvest \in {None, f.harvest} /\ f.amount \in {None, f.amount}
      /\ (f.type \in {"stop", "collect"} => f.kami = IF f.harvest \in Kami THEN f.harvest ELSE None)
      /\ (f.type = "start" => f.kami # None /\ f.amount = None)
  BY <1>1 DEF WellFormed
<1>5. kami \in {None, f.kami} /\ (f.type = "start" => kami = f.kami)
  OBVIOUS
<1> HIDE DEF kami
<1>6. Agrees(base, f)
  <2>1. base \in RowType
    BY <1>2, <1>3, <1>5 DEF RowType
  <2> QED BY <1>2, <1>3, <1>4, <1>5, <2>1 DEF Agrees
<1>7. ASSUME Stitchable(base), base.harvest \in map
      PROVE  Agrees(new, f)
  BY <1>1, <1>6, <1>7, NamedAgrees DEF Stitchable
<1>8. Agrees(old, f)
  <2> DEFINE meta == IF f.type = "start" THEN None ELSE f.harvest
  <2>1. old = [type |-> f.type, kami |-> kami, node |-> f.node,
               harvest |-> None, amount |-> None, meta |-> meta]
    <3>1. base.type = f.type /\ base.harvest = f.harvest
      BY <1>3
    <3>2. old = [base EXCEPT !.meta = meta, !.harvest = None, !.amount = None]
      BY <3>1
    <3> HIDE DEF old, meta
    <3> QED BY <1>3, <3>2
  <2>2. meta \in Kami \cup {None, Text} /\ meta \in {None, f.harvest}
    BY <1>2
  <2>3. f.type # "start" /\ meta = None => f.harvest = None /\ f.amount = None
    BY <1>1, AmountIs DEF WellFormed
  <2> HIDE DEF old, meta
  <2>4. old \in RowType
    BY <1>2, <1>5, <2>1, <2>2 DEF RowType
  <2> QED BY <1>2, <1>5, <2>1, <2>2, <2>3, <2>4 DEF Agrees
<1> QED BY <1>6, <1>7, <1>8 DEF f, base
-----------------------------------------------------------------------------
(* The steps that change rows                                              *)

LEMMA RowsAgreeAfter ==
    ASSUME RowsAgree, UNCHANGED <<chain, scanned, cutoff>>, DOMAIN rows' = DOMAIN rows,
           \A key \in Kept : Agrees(rows'[key], Fresh(key))
    PROVE  RowsAgree'
<1>1. Kept' = Kept /\ \A key \in Kept : Fresh(key)' = Fresh(key)
  BY DEF Kept, AllKeys, Keys, BlockOf, Fresh
<1> QED BY <1>1 DEF RowsAgree

LEMMA KeptRow ==
    ASSUME Blocks, RowsAgree, NEW key \in Kept
    PROVE  /\ key \in AllKeys /\ key \in DOMAIN rows /\ key[1] \in DOMAIN chain
           /\ Agrees(rows[key], Fresh(key))
           /\ WellFormed(Fresh(key), chain[key[1]].writes)
           /\ chain[key[1]].writes \in [Kami -> SUBSET {0, 1}]
<1>1. key \in AllKeys
  BY DEF Kept
<1> QED BY <1>1, FreshIs, KeyOf DEF RowsAgree

(* The starts of a harvest are of the kami it is the harvest of. *)
LEMMA SourceIs ==
    ASSUME Blocks, RowsAgree, NEW harvest, harvest # None, NEW k \in Sources(harvest)
    PROVE  k = harvest /\ k \in Kami
<1>1. PICK key \in DOMAIN rows : rows[key].type = "start" /\ rows[key].harvest = harvest
                                 /\ k = rows[key].kami
  BY DEF Sources
<1>2. Agrees(rows[key], Fresh(key)) /\ WellFormed(Fresh(key), chain[key[1]].writes)
  BY <1>1, KeptRow DEF RowsAgree
<1> HIDE DEF Fresh
<1> QED BY <1>1, <1>2 DEF Agrees, WellFormed

LEMMA TransactAgrees ==
    ASSUME Blocks, RowsAgree, NEW call \in Calls, Transact(call)
    PROVE  RowsAgree'
<1>1. PICK e \in Entry : chain' = Append(chain, e) /\ e.block = scanned + 1
  BY Transaction
<1>2. /\ chain \in Seq(Entry) /\ scanned \in Nat /\ UNCHANGED <<scanned, cutoff, rows>>
  BY DEF Blocks, Transact
<1>3. /\ DOMAIN chain = 1 .. Len(chain) /\ DOMAIN chain' = DOMAIN chain \cup {Len(chain) + 1}
      /\ chain'[Len(chain) + 1] = e /\ Len(chain) \in Nat
      /\ \A i \in DOMAIN chain : chain'[i] = chain[i]
  BY <1>1, <1>2, AppendedEntry
<1>4. \A key \in AllKeys : key \in AllKeys' /\ BlockOf(key)' = BlockOf(key) /\ Fresh(key)' = Fresh(key)
  <2> SUFFICES ASSUME NEW key \in AllKeys
               PROVE  key \in AllKeys' /\ BlockOf(key)' = BlockOf(key) /\ Fresh(key)' = Fresh(key)
    OBVIOUS
  <2>1. PICK i \in DOMAIN chain : \E j \in DOMAIN DecodeTx(chain[i].call) : key = <<i, j>>
    BY KeysAre DEF AllKeys
  <2>2. chain'[i] = chain[i] /\ i \in DOMAIN chain' /\ key[1] = i
    BY <1>3, <2>1
  <2>3. key \in AllKeys'
    BY <2>1, <2>2, KeysAre DEF AllKeys
  <2> QED BY <2>2, <2>3 DEF BlockOf, Fresh
<1>5. \A key \in AllKeys' : key \in AllKeys \/ BlockOf(key)' = scanned + 1
  <2> SUFFICES ASSUME NEW key \in AllKeys'
               PROVE  key \in AllKeys \/ BlockOf(key)' = scanned + 1
    OBVIOUS
  <2>1. PICK i \in DOMAIN chain' : \E j \in DOMAIN DecodeTx(chain'[i].call) : key = <<i, j>>
    BY KeysAre DEF AllKeys
  <2>2. CASE i \in DOMAIN chain
    <3>1. chain'[i] = chain[i]
      BY <1>3, <2>2
    <3> QED BY <2>1, <2>2, <3>1, KeysAre DEF AllKeys
  <2>3. CASE i = Len(chain) + 1
    BY <1>1, <1>3, <2>1, <2>3 DEF BlockOf
  <2> QED BY <1>3, <2>1, <2>2, <2>3
<1>6. Kept' = Kept
  <2> HIDE DEF AllKeys, BlockOf
  <2>1. cutoff \in Nat
    BY DEF Blocks
  <2> QED BY <1>2, <1>4, <1>5, <2>1 DEF Kept
<1>7. \A key \in Kept : Fresh(key)' = Fresh(key)
  BY <1>4 DEF Kept
<1> QED BY <1>2, <1>6, <1>7 DEF RowsAgree

LEMMA BatchIs ==
    ASSUME Blocks, NEW b
    PROVE  /\ DOMAIN Batch(b) = {key \in AllKeys : BlockOf(key) = b}
           /\ \A key \in DOMAIN Batch(b) : Batch(b)[key] = Base(key)
<1> DEFINE keys == UNION {{<<i, j>> : j \in DOMAIN DecodeTx(chain[i].call)} : i \in InBlock(b)}
<1>1. Batch(b) = [key \in keys |-> Base(key)]
  BY DEF Batch, Base
<1>2. ASSUME NEW key \in keys
      PROVE  key \in AllKeys /\ BlockOf(key) = b
  <2>1. PICK i \in InBlock(b) : key \in {<<i, j>> : j \in DOMAIN DecodeTx(chain[i].call)}
    BY <1>2
  <2>2. i \in DOMAIN chain /\ chain[i].block = b
    BY DEF InBlock
  <2> QED BY <2>1, <2>2, IsKey DEF BlockOf
<1>3. ASSUME NEW key \in AllKeys, BlockOf(key) = b
      PROVE  key \in keys
  <2>1. PICK i \in DOMAIN chain : \E j \in DOMAIN DecodeTx(chain[i].call) : key = <<i, j>>
    BY KeysAre DEF AllKeys
  <2>2. i \in InBlock(b)
    BY <1>3, <2>1 DEF InBlock, BlockOf
  <2>3. key \in {<<i, m>> : m \in DOMAIN DecodeTx(chain[i].call)}
    BY <2>1
  <2> QED BY <2>2, <2>3, Zenon
<1> HIDE DEF keys
<1>4. DOMAIN Batch(b) = keys
  BY <1>1
<1>5. keys = {key \in AllKeys : BlockOf(key) = b}
  BY <1>2, <1>3
<1> QED BY <1>1, <1>4, <1>5

LEMMA IngestAgrees ==
    ASSUME Blocks, RowsAgree, known \subseteq Kami, Ingest
    PROVE  RowsAgree' /\ known' \subseteq Kami
<1> DEFINE b     == scanned + 1
           batch == Batch(b)
           new   == DOMAIN batch
<1>1. UNCHANGED <<chain, cutoff>> /\ scanned' = b
  BY DEF Ingest
<1>2. known' \subseteq Kami
  BY DEF Ingest, KamisOf
<1>3. \/ rows' = With(rows, Legacy(batch))
      \/ rows' = With(rows, Stitched(batch, known'))
  BY DEF Ingest
<1>4. new = {key \in AllKeys : BlockOf(key) = b} /\ \A key \in new : batch[key] = Base(key)
  BY BatchIs
<1> HIDE DEF batch
<1>5. DOMAIN rows' = Kept \cup new
  BY <1>3 DEF With, Legacy, Stitched, RowsAgree
<1>6. \A key \in Kept : rows'[key] = rows[key]
  BY <1>3 DEF With, RowsAgree
<1>7. \A key \in new : key \notin Kept
  BY <1>4 DEF Kept, Blocks
<1>8. ASSUME NEW key \in new
      PROVE  Agrees(rows'[key], Fresh(key))
  <2> DEFINE base == Base(key)
  <2>1. key \in AllKeys /\ batch[key] = base /\ key \notin DOMAIN rows
    BY <1>4, <1>7 DEF RowsAgree
  <2>2. /\ Agrees(IF Stitchable(base) /\ base.harvest \in known'
                  THEN [base EXCEPT !.kami = base.harvest] ELSE base, Fresh(key))
        /\ Agrees([base EXCEPT !.meta = IF base.type = "start" THEN None ELSE base.harvest,
                               !.harvest = None, !.amount = None], Fresh(key))
    BY <1>2, <2>1, IngestedAgrees
  <2> HIDE DEF base
  <2>3. CASE rows' = With(rows, Legacy(batch))
    <3>1. rows'[key] = Legacy(batch)[key]
      BY <2>1, <2>3 DEF With, Legacy
    <3>2. Legacy(batch)[key] =
            [base EXCEPT !.meta = IF base.type = "start" THEN None ELSE base.harvest,
                         !.harvest = None, !.amount = None]
      BY <2>1 DEF Legacy
    <3> QED BY <2>2, <3>1, <3>2
  <2>4. CASE rows' = With(rows, Stitched(batch, known'))
    <3>1. rows'[key] = Stitched(batch, known')[key]
      BY <2>1, <2>4 DEF With, Stitched
    <3>2. Stitched(batch, known')[key] =
            IF Stitchable(base) /\ base.harvest \in known'
            THEN [base EXCEPT !.kami = base.harvest] ELSE base
      BY <2>1 DEF Stitched
    <3> QED BY <2>2, <3>1, <3>2
  <2> QED BY <1>3, <2>3, <2>4
<1>9. /\ AllKeys' = AllKeys /\ \A key \in AllKeys : Fresh(key)' = Fresh(key)
      /\ \A key \in AllKeys : BlockOf(key)' = BlockOf(key)
  BY <1>1 DEF AllKeys, Keys, BlockOf, Fresh
<1>10. \A key \in AllKeys : BlockOf(key) \in Nat
  <2> SUFFICES ASSUME NEW key \in AllKeys
               PROVE  BlockOf(key) \in Nat
    OBVIOUS
  <2>1. key[1] \in DOMAIN chain
    BY KeyOf
  <2> QED BY <2>1 DEF Blocks, BlockOf
<1>11. Kept' = Kept \cup new
  <2>1. scanned \in Nat /\ cutoff \in 1 .. scanned + 1
    BY DEF Blocks
  <2> HIDE DEF AllKeys, BlockOf
  <2>2. Kept' = {key \in AllKeys : BlockOf(key) \in cutoff .. b}
    BY <1>1, <1>9 DEF Kept
  <2>3. ASSUME NEW key \in AllKeys
        PROVE  BlockOf(key) \in cutoff .. b <=> BlockOf(key) \in cutoff .. scanned \/ BlockOf(key) = b
    BY <1>10, <2>1
  <2> QED BY <1>4, <2>2, <2>3 DEF Kept
<1>12. \A key \in Kept : Agrees(rows'[key], Fresh(key))
  BY <1>6 DEF RowsAgree
<1>13. \A key \in Kept \cup new : Fresh(key)' = Fresh(key)
  BY <1>4, <1>9 DEF Kept
<1> QED BY <1>2, <1>5, <1>8, <1>11, <1>12, <1>13 DEF RowsAgree

LEMMA PruneAgrees ==
    ASSUME Blocks, RowsAgree, NEW c, Prune(c)
    PROVE  RowsAgree'
<1>1. /\ UNCHANGED <<chain, scanned>> /\ cutoff' = c /\ c \in cutoff + 1 .. scanned
      /\ rows' = [key \in {k \in DOMAIN rows : BlockOf(k) >= c} |-> rows[key]]
  BY DEF Prune
<1>2. /\ AllKeys' = AllKeys /\ \A key \in AllKeys : Fresh(key)' = Fresh(key)
      /\ \A key \in AllKeys : BlockOf(key)' = BlockOf(key)
  BY <1>1 DEF AllKeys, Keys, BlockOf, Fresh
<1> HIDE DEF BlockOf
<1>3. Kept' = {key \in Kept : BlockOf(key) >= c}
  <2>1. scanned \in Nat /\ cutoff \in 1 .. scanned + 1
    BY DEF Blocks
  <2>2. Kept' = {key \in AllKeys : BlockOf(key) \in c .. scanned}
    BY <1>1, <1>2 DEF Kept
  <2> QED BY <1>1, <2>1, <2>2 DEF Kept
<1>4. DOMAIN rows' = Kept' /\ \A key \in Kept' : rows'[key] = rows[key] /\ key \in Kept
  BY <1>1, <1>3 DEF RowsAgree
<1>5. \A key \in Kept : Fresh(key)' = Fresh(key)
  BY <1>2 DEF Kept
<1> QED BY <1>4, <1>5 DEF RowsAgree

LEMMA MigrationAgrees ==
    ASSUME Blocks, RowsAgree, Migration
    PROVE  RowsAgree'
<1>1. UNCHANGED <<chain, scanned, cutoff>>
  BY DEF Migration, Migrate, FillStops, FillStarts, StitchFromStarts, StitchFromUniverse, Statement
<1>2. CASE Migrate
  BY <1>2, RowsAgreeAfter, KeptRow DEF Migrate
<1>3. CASE FillStops
  <2>1. rows' = [key \in DOMAIN rows |->
                   IF rows[key].type \in {"stop", "collect"} /\ rows[key].harvest = None
                      /\ rows[key].meta # None
                   THEN [rows[key] EXCEPT !.harvest = rows[key].meta] ELSE rows[key]]
    BY <1>3 DEF FillStops, Statement, Updated
  <2>2. ASSUME NEW key \in Kept
        PROVE  Agrees(rows'[key], Fresh(key))
    BY <2>1, KeptRow, FilledAgrees
  <2> QED BY <1>1, <2>1, <2>2, RowsAgreeAfter
<1>4. CASE FillStarts
  <2>1. rows' = [key \in DOMAIN rows |->
                   IF rows[key].type = "start" /\ rows[key].harvest = None /\ rows[key].kami \in Kami
                   THEN [rows[key] EXCEPT !.harvest = rows[key].kami] ELSE rows[key]]
    BY <1>4 DEF FillStarts, Statement, Updated
  <2>2. ASSUME NEW key \in Kept
        PROVE  Agrees(rows'[key], Fresh(key))
    BY <2>1, KeptRow, DerivedAgrees
  <2> QED BY <1>1, <2>1, <2>2, RowsAgreeAfter
<1>5. CASE StitchFromStarts
  <2>1. rows' = [key \in DOMAIN rows |->
                   IF Stitchable(rows[key]) /\ rows[key].harvest # None
                      /\ Sources(rows[key].harvest) # {}
                   THEN [rows[key] EXCEPT !.kami = CHOOSE k \in Sources(rows[key].harvest) : TRUE]
                   ELSE rows[key]]
    BY <1>5 DEF StitchFromStarts, Statement, Updated
  <2>2. ASSUME NEW key \in Kept, Stitchable(rows[key]), rows[key].harvest # None,
               Sources(rows[key].harvest) # {}
        PROVE  rows[key].harvest \in Kami
               /\ (CHOOSE k \in Sources(rows[key].harvest) : TRUE) = rows[key].harvest
    BY <2>2, SourceIs
  <2>3. ASSUME NEW key \in Kept
        PROVE  Agrees(rows'[key], Fresh(key))
    BY <2>1, <2>2, KeptRow, NamedAgrees DEF Stitchable
  <2> QED BY <1>1, <2>1, <2>3, RowsAgreeAfter
<1>6. CASE StitchFromUniverse
  <2>1. rows' = [key \in DOMAIN rows |->
                   IF Stitchable(rows[key]) /\ rows[key].harvest \in Universe
                   THEN [rows[key] EXCEPT !.kami = rows[key].harvest] ELSE rows[key]]
    BY <1>6 DEF StitchFromUniverse, Statement, Updated
  <2>2. ASSUME NEW key \in Kept
        PROVE  Agrees(rows'[key], Fresh(key))
    BY <2>1, KeptRow, NamedAgrees DEF Stitchable, Universe, KamisOf
  <2> QED BY <1>1, <2>1, <2>2, RowsAgreeAfter
<1> QED BY <1>2, <1>3, <1>4, <1>5, <1>6 DEF Migration

LEMMA RepairAgrees ==
    ASSUME Blocks, RowsAgree, Repair
    PROVE  RowsAgree'
<1>1. CASE RepairLiquidations
  <2>1. rows' = [key \in DOMAIN rows |->
                   IF rows[key].type = "liquidate" /\ rows[key].harvest = None /\ rows[key].meta # None
                   THEN [rows[key] EXCEPT !.harvest = rows[key].meta] ELSE rows[key]]
        /\ UNCHANGED <<chain, scanned, cutoff>>
    BY <1>1 DEF RepairLiquidations, Updated
  <2>2. ASSUME NEW key \in Kept
        PROVE  Agrees(rows'[key], Fresh(key))
    BY <2>1, KeptRow, FilledAgrees
  <2> QED BY <2>1, <2>2, RowsAgreeAfter
<1>2. ASSUME NEW S \in SUBSET DOMAIN chain, RepairAmounts(S)
      PROVE  RowsAgree'
  <2>1. rows' = [key \in DOMAIN rows |->
                   IF key[1] \in S /\ rows[key].type \in Payout /\ rows[key].amount = None
                   THEN [rows[key] EXCEPT !.amount =
                           MusuAmount(chain[key[1]].writes, Target(rows[key]))]
                   ELSE rows[key]]
        /\ UNCHANGED <<chain, scanned, cutoff>>
    BY <1>2 DEF RepairAmounts
  <2>2. ASSUME NEW key \in Kept
        PROVE  Agrees(rows'[key], Fresh(key))
    <3>1. rows[key].type \in Payout => rows[key].type # "start"
      BY DEF Payout
    <3>2. /\ Agrees(rows[key], Fresh(key)) /\ key \in DOMAIN rows
          /\ rows[key].type # "start" =>
               Agrees([rows[key] EXCEPT !.amount =
                         MusuAmount(chain[key[1]].writes, Target(rows[key]))], Fresh(key))
      BY KeptRow, RepairedAgrees
    <3> QED BY <2>1, <3>1, <3>2
  <2> QED BY <2>1, <2>2, RowsAgreeAfter
<1> QED BY <1>1, <1>2 DEF Repair

-----------------------------------------------------------------------------
(* The inductive invariant                                                 *)

Typed ==
    /\ known \subseteq Kami /\ up \in BOOLEAN /\ version \in {1, 2} /\ stage \in Stages

IInv == Blocks /\ Receipts /\ RowsAgree /\ Typed

LEMMA TypedKept ==
    ASSUME IInv, [Next]_vars
    PROVE  Typed'
<1>1. CASE Ingest
  <2>1. known' \subseteq Kami
    BY <1>1, IngestAgrees DEF IInv, Typed
  <2> QED BY <1>1, <2>1 DEF IInv, Typed, Ingest
<1>2. ASSUME Next, ~Ingest
      PROVE  Typed'
  <2>1. known' \subseteq Kami
    BY <1>2 DEF IInv, Typed, Next, Transact, Prune, Down, Boot, KamisOf, Migration, Migrate,
                FillStops, FillStarts, StitchFromStarts, StitchFromUniverse, Statement, Repair,
                RepairAmounts, RepairLiquidations
  <2>2. up' \in BOOLEAN
    BY <1>2 DEF IInv, Typed, Next, Transact, Prune, Down, Boot, Migration, Migrate,
                FillStops, FillStarts, StitchFromStarts, StitchFromUniverse, Statement, Repair,
                RepairAmounts, RepairLiquidations
  <2>3. version' \in {1, 2} /\ stage' \in Stages
    BY <1>2 DEF IInv, Typed, Next, Transact, Prune, Down, Boot, Migration, Migrate, Stages,
                FillStops, FillStarts, StitchFromStarts, StitchFromUniverse, Statement, Repair,
                RepairAmounts, RepairLiquidations
  <2> QED BY <2>1, <2>2, <2>3 DEF Typed
<1>3. CASE UNCHANGED vars
  BY <1>3 DEF IInv, Typed, vars
<1> QED BY <1>1, <1>2, <1>3

LEMMA Initially == Init => IInv
<1> SUFFICES ASSUME Init PROVE IInv
  OBVIOUS
<1>1. chain = << >> /\ scanned = 0 /\ cutoff = 1 /\ MaxTx \in Nat /\ DOMAIN rows = {}
  BY HarvestsAssumption DEF Init
<1>2. Blocks /\ Receipts
  BY <1>1 DEF Blocks, Receipts
<1>3. RowsAgree
  <2>1. AllKeys = {}
    BY <1>1, KeysAre DEF AllKeys
  <2> QED BY <1>1, <2>1 DEF RowsAgree, Kept
<1>4. Typed
  BY DEF Init, Typed, Stages
<1> QED BY <1>2, <1>3, <1>4 DEF IInv

LEMMA Inductive == IInv /\ [Next]_vars => IInv'
<1> SUFFICES ASSUME IInv, [Next]_vars
             PROVE  IInv'
  OBVIOUS
<1>1. Blocks' /\ Receipts'
  BY BlocksKept DEF IInv
<1>2. RowsAgree'
  <2>1. ASSUME UNCHANGED <<chain, scanned, rows, cutoff>>
        PROVE  RowsAgree'
    BY <2>1, RowsAgreeAfter, KeptRow DEF IInv
  <2>2. CASE UNCHANGED vars \/ Down \/ Boot
    BY <2>1, <2>2 DEF vars, Down, Boot
  <2> QED BY <2>2, TransactAgrees, IngestAgrees, PruneAgrees, MigrationAgrees, RepairAgrees
         DEF IInv, Typed, Next
<1> QED BY <1>1, <1>2, TypedKept DEF IInv

LEMMA IInvHolds == Spec => []IInv
BY Initially, Inductive, PTL DEF Spec

-----------------------------------------------------------------------------
(* The blocks, the rows and what the service knows of them are what they   *)
(* should be: a row is of a transaction of a block that was scanned and    *)
(* not pruned.                                                             *)
THEOREM TypeCorrect == Spec => []TypeOK
<1>1. ASSUME IInv
      PROVE  TypeOK
  <2>1. \A i \in DOMAIN chain : chain[i].call \in Calls /\ chain[i].place \in [Kami -> Node \cup {None}]
    <3>1. \A i \in DOMAIN chain : chain[i] \in Entry
      BY <1>1 DEF IInv, Blocks
    <3> QED BY <3>1 DEF Entry
  <2>2. scanned \in 0 .. MaxTx + 1 /\ cutoff \in 1 .. MaxTx + 1
    BY <1>1, HarvestsAssumption DEF IInv, Blocks
  <2>3. ASSUME NEW key \in DOMAIN rows
        PROVE  key[1] \in DOMAIN chain /\ BlockOf(key) \in cutoff .. scanned /\ rows[key] \in RowType
    <3>1. key \in Kept /\ BlockOf(key) \in cutoff .. scanned
      BY <1>1 DEF IInv, RowsAgree, Kept
    <3>2. key[1] \in DOMAIN chain /\ Agrees(rows[key], Fresh(key))
      BY <1>1, <3>1, KeptRow DEF IInv
    <3> QED BY <3>1, <3>2 DEF Agrees
  <2> QED BY <1>1, <2>1, <2>2, <2>3 DEF TypeOK, IInv, Typed
<1> QED BY <1>1, IInvHolds, PTL

(* Whatever release, migration statement or script wrote or repaired a     *)
(* row, in whatever order, its columns are those the decoder of today      *)
(* gives its call, or NULL.                                                *)
THEOREM AgreesWithDecoder == Spec => []RowsAgreeWithDecoder
<1>1. ASSUME IInv
      PROVE  RowsAgreeWithDecoder
  <2> SUFFICES ASSUME NEW key \in DOMAIN rows
               PROVE  \A column \in {"kami", "node", "harvest", "amount"} :
                        rows[key][column] \in {None, Fresh(key)[column]}
    BY DEF RowsAgreeWithDecoder
  <2>1. Agrees(rows[key], Fresh(key))
    BY <1>1 DEF IInv, RowsAgree
  <2> HIDE DEF Fresh
  <2> QED BY <2>1 DEF Agrees
<1> QED BY <1>1, IInvHolds, PTL

-----------------------------------------------------------------------------
(* The migration                                                           *)

HasHarvest(table) ==
    \A key \in DOMAIN table :
        table[key].type \in {"stop", "collect"} /\ table[key].meta # None => table[key].harvest # None

HasKami(table) ==
    \A key \in DOMAIN table :
        table[key].type \in {"stop", "collect"} /\ table[key].harvest \in KamisOf(table)
            => table[key].kami # None

(* What the statements that were run have done, while the service is down. *)
Progress ==
    /\ stage # "idle" => ~up
    /\ stage \in {"starts", "pass1", "pass2", "done"} => HasHarvest(rows)
    /\ stage = "done" => HasKami(rows)

LEMMA ProgressKept ==
    ASSUME IInv, Progress, [Next]_vars
    PROVE  Progress'
<1>1. CASE UNCHANGED <<rows, stage, up>>
  BY <1>1 DEF Progress, HasHarvest, HasKami, KamisOf
<1>2. CASE up /\ UNCHANGED <<stage, up>>
  BY <1>2 DEF Progress
<1>3. CASE Down \/ Boot \/ Migrate
  BY <1>3 DEF Progress, Down, Boot, Migrate, AtRest
<1>4. CASE FillStops
  <2>1. /\ rows' = [key \in DOMAIN rows |->
                      IF rows[key].type \in {"stop", "collect"} /\ rows[key].harvest = None
                         /\ rows[key].meta # None
                      THEN [rows[key] EXCEPT !.harvest = rows[key].meta] ELSE rows[key]]
        /\ stage = "stops" /\ stage' = "starts" /\ up' = up
    BY <1>4 DEF FillStops, Statement, Updated
  <2>2. ASSUME NEW key \in DOMAIN rows', rows'[key].type \in {"stop", "collect"}, rows'[key].meta # None
        PROVE  rows'[key].harvest # None
    <3>1. key \in DOMAIN rows /\ Agrees(rows[key], Fresh(key))
      BY <2>1 DEF IInv, RowsAgree
    <3> DEFINE r == rows[key]
    <3>2. rows'[key] = IF r.type \in {"stop", "collect"} /\ r.harvest = None /\ r.meta # None
                       THEN [r EXCEPT !.harvest = r.meta] ELSE r
      BY <2>1, <3>1
    <3>3. r = [type |-> r.type, kami |-> r.kami, node |-> r.node, harvest |-> r.harvest,
               amount |-> r.amount, meta |-> r.meta]
      BY <3>1, AgreeingRow
    <3> HIDE DEF r
    <3> QED BY <2>2, <3>2, <3>3
  <2>3. HasHarvest(rows')
    BY <2>2 DEF HasHarvest
  <2> QED BY <2>1, <2>3 DEF Progress
<1>5. CASE FillStarts
  <2>1. /\ rows' = [key \in DOMAIN rows |->
                      IF rows[key].type = "start" /\ rows[key].harvest = None /\ rows[key].kami \in Kami
                      THEN [rows[key] EXCEPT !.harvest = rows[key].kami] ELSE rows[key]]
        /\ stage = "starts" /\ stage' = "pass1" /\ up' = up
    BY <1>5 DEF FillStarts, Statement, Updated
  <2>2. HasHarvest(rows)
    BY <2>1 DEF Progress
  <2>3. ASSUME NEW key \in DOMAIN rows', rows'[key].type \in {"stop", "collect"}
        PROVE  rows'[key] = rows[key]
    <3>1. key \in DOMAIN rows /\ Agrees(rows[key], Fresh(key))
      BY <2>1 DEF IInv, RowsAgree
    <3> DEFINE r == rows[key]
    <3>2. rows'[key] = IF r.type = "start" /\ r.harvest = None /\ r.kami \in Kami
                       THEN [r EXCEPT !.harvest = r.kami] ELSE r
      BY <2>1, <3>1
    <3>3. r = [type |-> r.type, kami |-> r.kami, node |-> r.node, harvest |-> r.harvest,
               amount |-> r.amount, meta |-> r.meta]
      BY <3>1, AgreeingRow
    <3> HIDE DEF r
    <3>4. rows'[key] = r
      BY <2>3, <3>2, <3>3
    <3> QED BY <3>4 DEF r
  <2>4. HasHarvest(rows')
    BY <2>1, <2>2, <2>3 DEF HasHarvest
  <2> QED BY <2>1, <2>4 DEF Progress
<1>6. CASE StitchFromStarts
  <2>1. /\ rows' = [key \in DOMAIN rows |->
                      IF Stitchable(rows[key]) /\ rows[key].harvest # None
                         /\ Sources(rows[key].harvest) # {}
                      THEN [rows[key] EXCEPT !.kami = CHOOSE k \in Sources(rows[key].harvest) : TRUE]
                      ELSE rows[key]]
        /\ stage = "pass1" /\ stage' = "pass2" /\ up' = up
    BY <1>6 DEF StitchFromStarts, Statement, Updated
  <2>2. \A key \in DOMAIN rows : /\ rows'[key].type = rows[key].type
                                 /\ rows'[key].meta = rows[key].meta
                                 /\ rows'[key].harvest = rows[key].harvest
    BY <2>1
  <2>3. HasHarvest(rows')
    BY <2>1, <2>2 DEF HasHarvest, Progress
  <2> QED BY <2>1, <2>3 DEF Progress
<1>7. CASE StitchFromUniverse
  <2>1. /\ rows' = [key \in DOMAIN rows |->
                      IF Stitchable(rows[key]) /\ rows[key].harvest \in Universe
                      THEN [rows[key] EXCEPT !.kami = rows[key].harvest] ELSE rows[key]]
        /\ stage = "pass2" /\ stage' = "done" /\ up' = up
    BY <1>7 DEF StitchFromUniverse, Statement, Updated
  <2>2. ASSUME NEW key \in DOMAIN rows
        PROVE  /\ rows'[key].type = rows[key].type /\ rows'[key].meta = rows[key].meta
               /\ rows'[key].harvest = rows[key].harvest
               /\ rows'[key].kami = IF Stitchable(rows[key]) /\ rows[key].harvest \in Universe
                                    THEN rows[key].harvest ELSE rows[key].kami
    <3>1. Agrees(rows[key], Fresh(key))
      BY DEF IInv, RowsAgree
    <3> DEFINE r == rows[key]
    <3>2. rows'[key] = IF Stitchable(r) /\ r.harvest \in Universe
                       THEN [r EXCEPT !.kami = r.harvest] ELSE r
      BY <2>1
    <3>3. r = [type |-> r.type, kami |-> r.kami, node |-> r.node, harvest |-> r.harvest,
               amount |-> r.amount, meta |-> r.meta]
      BY <3>1, AgreeingRow
    <3> HIDE DEF r
    <3>4. /\ rows'[key].type = r.type /\ rows'[key].meta = r.meta /\ rows'[key].harvest = r.harvest
          /\ rows'[key].kami = IF Stitchable(r) /\ r.harvest \in Universe THEN r.harvest ELSE r.kami
      BY <3>2, <3>3
    <3> QED BY <3>4 DEF r
  <2>3. HasHarvest(rows')
    BY <2>1, <2>2 DEF HasHarvest, Progress
  <2>4. KamisOf(rows') \subseteq Universe
    BY <2>1, <2>2 DEF KamisOf, Universe
  <2>5. Universe \subseteq Kami
    BY DEF Universe, KamisOf
  <2>6. HasKami(rows')
    BY <2>1, <2>2, <2>4, <2>5, HarvestsAssumption DEF HasKami, Stitchable
  <2> QED BY <2>1, <2>3, <2>6 DEF Progress
<1>8. ASSUME UNCHANGED <<stage, up>>, DOMAIN rows' = DOMAIN rows,
             \A key \in DOMAIN rows :
                /\ rows'[key].type = rows[key].type /\ rows'[key].meta = rows[key].meta
                /\ rows'[key].kami = rows[key].kami
                /\ rows[key].type \in {"stop", "collect"} => rows'[key].harvest = rows[key].harvest
      PROVE  Progress'
  <2>1. KamisOf(rows') = KamisOf(rows)
    BY <1>8 DEF KamisOf
  <2>2. HasHarvest(rows) => HasHarvest(rows')
    BY <1>8 DEF HasHarvest
  <2>3. HasKami(rows) => HasKami(rows')
    BY <1>8, <2>1 DEF HasKami
  <2> QED BY <1>8, <2>2, <2>3 DEF Progress
<1>9. CASE Repair
  <2>1. ASSUME NEW key \in DOMAIN rows
        PROVE  rows[key] = [type |-> rows[key].type, kami |-> rows[key].kami, node |-> rows[key].node,
                            harvest |-> rows[key].harvest, amount |-> rows[key].amount,
                            meta |-> rows[key].meta]
    BY AgreeingRow DEF IInv, RowsAgree
  <2>2. CASE RepairLiquidations
    <3>1. rows' = [key \in DOMAIN rows |->
                     IF rows[key].type = "liquidate" /\ rows[key].harvest = None /\ rows[key].meta # None
                     THEN [rows[key] EXCEPT !.harvest = rows[key].meta] ELSE rows[key]]
          /\ UNCHANGED <<stage, up>>
      BY <2>2 DEF RepairLiquidations, Updated
    <3> QED BY <1>8, <2>1, <3>1
  <2>3. ASSUME NEW S \in SUBSET DOMAIN chain, RepairAmounts(S)
        PROVE  Progress'
    <3>1. rows' = [key \in DOMAIN rows |->
                     IF key[1] \in S /\ rows[key].type \in Payout /\ rows[key].amount = None
                     THEN [rows[key] EXCEPT !.amount =
                             MusuAmount(chain[key[1]].writes, Target(rows[key]))]
                     ELSE rows[key]]
          /\ UNCHANGED <<stage, up>>
      BY <2>3 DEF RepairAmounts
    <3> QED BY <1>8, <2>1, <3>1
  <2> QED BY <1>9, <2>2, <2>3 DEF Repair
<1> QED BY <1>1, <1>2, <1>3, <1>4, <1>5, <1>6, <1>7, <1>9
       DEF Next, vars, Transact, Ingest, Prune, Migration

LEMMA ProgressHolds == Spec => [](IInv /\ Progress)
<1>1. Init => Progress
  BY DEF Init, Progress
<1> QED BY <1>1, Initially, Inductive, ProgressKept, PTL DEF Spec

(* When the four statements of migration 002 have run, whether or not an   *)
(* earlier run was cut short, no stop or collect that names its harvest    *)
(* in metadata_json lacks it, and none lacks a kami some row names.        *)
THEOREM NothingLeft == Spec => []MigrationLeavesNothing
<1>1. IInv /\ Progress => MigrationLeavesNothing
  BY DEF Progress, HasHarvest, HasKami, MigrationLeavesNothing
<1> QED BY <1>1, ProgressHolds, PTL

-----------------------------------------------------------------------------
(* The amounts                                                             *)

(* A row that was given the MUSU of a harvest is of its kami, which was    *)
(* drained.                                                                *)
LEMMA CreditedMeans ==
    ASSUME IInv, NEW i \in DOMAIN chain, NEW k \in Kami, NEW key \in Credited(i, k)
    PROVE  /\ key = <<i, key[2]>> /\ key[2] \in DOMAIN DecodeTx(chain[i].call)
           /\ DecodeTx(chain[i].call)[key[2]].harvest = k
           /\ k \in chain[i].gave
<1> DEFINE f == Fresh(key)
<1>1. /\ key \in Kept /\ key[1] = i /\ rows[key].amount # None /\ Target(rows[key]) = k
      /\ chain[i].writes \in [Kami -> SUBSET {0, 1}]
  BY KeptRow DEF Credited, IInv, RowsAgree
<1>2. key \in AllKeys /\ Agrees(rows[key], f) /\ WellFormed(f, chain[i].writes)
  BY <1>1, KeptRow DEF IInv
<1>3. f.harvest = DecodeTx(chain[i].call)[key[2]].harvest
  BY <1>1, <1>2, FreshIs DEF IInv
<1> HIDE DEF f
<1>4. f.harvest = k /\ f.amount # None
  BY <1>1, <1>2, HarvestsAssumption DEF Agrees, Target
<1>5. Drained(chain[i].writes[k])
  BY <1>1, <1>2, <1>4, AmountIs DEF WellFormed
<1> QED BY <1>1, <1>2, <1>3, <1>4, <1>5, KeyOf DEF IInv, Receipts

(* In a transaction none of whose rows is still as the first release left  *)
(* it, what was drained is credited.                                       *)
LEMMA DrainIsCredited ==
    ASSUME IInv, NEW i \in DOMAIN chain, NEW k \in chain[i].gave, k \in Kami, ~Opaque(chain[i].call),
           NEW one \in DOMAIN rows, one[1] = i,
           \A key \in DOMAIN rows : key[1] = i => rows[key].meta = None
    PROVE  Credited(i, k) # {}
<1> DEFINE call == chain[i].call
<1>1. one \in AllKeys /\ BlockOf(one) \in cutoff .. scanned
  BY DEF IInv, RowsAgree, Kept
<1>2. call \in Calls /\ DecodeTx(call) # << >>
  BY <1>1, FreshIs, KeyOf DEF IInv
<1>3. k \in Subjects(call) /\ call.to # "start" /\ Drained(chain[i].writes[k])
  BY DEF IInv, Receipts
<1>4. PICK j \in DOMAIN DecodeTx(call) : DecodeTx(call)[j] = RowFor(call, k)
  BY <1>2, <1>3, SubjectsHaveRows
<1> DEFINE key == <<i, j>>
           f   == Fresh(key)
<1>5. key \in AllKeys /\ key \in Kept /\ key[1] = i /\ key[2] = j
  BY <1>1, <1>4, IsKey DEF Kept, BlockOf
<1>6. /\ key \in DOMAIN rows /\ Agrees(rows[key], f) /\ WellFormed(f, chain[i].writes)
      /\ chain[i].writes \in [Kami -> SUBSET {0, 1}] /\ rows[key].meta = None
  BY <1>5, KeptRow DEF IInv
<1>7. f.harvest = RowFor(call, k).harvest /\ f.type = call.to
  BY <1>4, <1>5, FreshIs DEF IInv
<1>8. RowFor(call, k).harvest = k
  BY <1>3 DEF RowFor
<1> HIDE DEF f
<1>9. rows[key].harvest = k /\ rows[key].amount = MusuAmount(chain[i].writes, k)
  BY <1>3, <1>6, <1>7, <1>8 DEF Agrees, WellFormed
<1>10. rows[key].amount = 1
  BY <1>3, <1>6, <1>9, AmountIs
<1>11. Target(rows[key]) = k
  BY <1>9, HarvestsAssumption DEF Target
<1> QED BY <1>5, <1>6, <1>10, <1>11, HarvestsAssumption DEF Credited

(* Every harvest that was drained is credited to one row, and to it alone. *)
THEOREM CreditedOnce == Spec => []DrainsCreditedOnce
<1>1. ASSUME IInv
      PROVE  DrainsCreditedOnce
  <2> SUFFICES ASSUME NEW i \in DOMAIN chain, NEW k \in Kami, ~Repeats(chain[i].call)
               PROVE  /\ Cardinality(Credited(i, k)) <= 1
                      /\ Credited(i, k) # {} => k \in chain[i].gave
                      /\ k \in chain[i].gave /\ ~Opaque(chain[i].call)
                         /\ {key \in DOMAIN rows : key[1] = i} # {}
                         /\ (\A key \in {c \in DOMAIN rows : c[1] = i} : rows[key].meta = None)
                           => Credited(i, k) # {}
    BY DEF DrainsCreditedOnce
  <2>1. chain[i].call \in Calls
    <3>1. chain[i] \in Entry
      BY <1>1 DEF IInv, Blocks
    <3> QED BY <3>1 DEF Entry
  <2>2. ASSUME NEW key \in Credited(i, k)
        PROVE  Credited(i, k) = {key}
    <3>1. ASSUME NEW other \in Credited(i, k)
          PROVE  other = key
      BY <1>1, <2>1, CreditedMeans, OneRowEach
    <3> QED BY <3>1
  <2>3. Cardinality(Credited(i, k)) <= 1
    <3> DEFINE C == Credited(i, k)
    <3>1. C = {} \/ \E key : C = {key}
      BY <2>2
    <3> HIDE DEF C
    <3>2. Cardinality(C) \in {0, 1}
      BY <3>1, FS_EmptySet, FS_Singleton
    <3> QED BY <3>2 DEF C
  <2>4. Credited(i, k) # {} => k \in chain[i].gave
    BY <1>1, CreditedMeans
  <2> QED BY <1>1, <2>3, <2>4, DrainIsCredited
<1> QED BY <1>1, IInvHolds, PTL

-----------------------------------------------------------------------------
(* Where a kami is                                                         *)

At(i, k) == IF i = 0 THEN None ELSE chain[i].place[k]

(* A start puts it on a node, and what else is not a collect takes it off. *)
Link ==
    \A i \in DOMAIN chain : \A k \in Kami :
        /\ chain[i].place[k] =
             IF chain[i].ok /\ k \in Subjects(chain[i].call) /\ chain[i].call.to # "collect"
             THEN IF chain[i].call.to = "start" THEN chain[i].call.vals[2] ELSE None
             ELSE At(i - 1, k)
        /\ k \in chain[i].active => At(i - 1, k) # None

LEMMA LinkKept ==
    ASSUME IInv, Link, [Next]_vars
    PROVE  Link'
<1>1. CASE UNCHANGED chain
  BY <1>1 DEF Link, At
<1>2. ASSUME NEW call \in Calls, Transact(call)
      PROVE  Link'
  <2>1. PICK e \in Entry :
          /\ chain' = Append(chain, e)
          /\ e.call = call
          /\ e.place = IF e.ok THEN PlaceAfter(call, Place) ELSE Place
          /\ e.active = IF e.ok THEN Active(call, Place) ELSE {}
    BY <1>2, Transaction DEF IInv
  <2> DEFINE n == Len(chain)
  <2>2. chain \in Seq(Entry)
    BY DEF IInv, Blocks
  <2>3. /\ DOMAIN chain = 1 .. n /\ DOMAIN chain' = DOMAIN chain \cup {n + 1}
        /\ chain'[n + 1] = e /\ n \in Nat
        /\ \A i \in DOMAIN chain : chain'[i] = chain[i]
    BY <2>1, <2>2, AppendedEntry
  <2>4. \A k \in Kami : Place[k] = At(n, k)
    BY <2>2, <2>3 DEF Place, At
  <2> HIDE DEF n
  <2>5. \A i \in 0 .. n : \A k \in Kami : At(i, k)' = At(i, k)
    BY <2>3 DEF At
  <2>6. ASSUME NEW k \in Kami
        PROVE  /\ e.place[k] = IF e.ok /\ k \in Subjects(call) /\ call.to # "collect"
                               THEN IF call.to = "start" THEN call.vals[2] ELSE None
                               ELSE At(n, k)
               /\ k \in e.active => At(n, k) # None
    BY <2>1, <2>4 DEF PlaceAfter, Active
  <2>7. ASSUME NEW i \in DOMAIN chain', NEW k \in Kami
        PROVE  /\ chain'[i].place[k] =
                    IF chain'[i].ok /\ k \in Subjects(chain'[i].call) /\ chain'[i].call.to # "collect"
                    THEN IF chain'[i].call.to = "start" THEN chain'[i].call.vals[2] ELSE None
                    ELSE At(i - 1, k)'
               /\ k \in chain'[i].active => At(i - 1, k)' # None
    <3>1. CASE i \in DOMAIN chain
      <4>1. chain'[i] = chain[i] /\ At(i - 1, k)' = At(i - 1, k)
        BY <2>3, <2>5, <3>1
      <4> QED BY <3>1, <4>1 DEF Link
    <3>2. CASE i = n + 1
      <4>1. chain'[i] = e /\ At(i - 1, k)' = At(n, k)
        BY <2>3, <2>5, <3>2
      <4> HIDE DEF At
      <4> QED BY <2>1, <2>6, <4>1
    <3> QED BY <2>3, <3>1, <3>2
  <2> QED BY <2>7 DEF Link
<1>3. UNCHANGED chain \/ \E call \in Calls : Transact(call)
  BY DEF Next, vars, Ingest, Prune, Down, Boot, Migration, Migrate, FillStops, FillStarts,
         StitchFromStarts, StitchFromUniverse, Statement, Repair, RepairAmounts, RepairLiquidations
<1> QED BY <1>1, <1>2, <1>3

LEMMA LinkHolds == Spec => [](IInv /\ Link)
<1>1. Init => Link
  BY DEF Init, Link
<1> QED BY <1>1, Initially, Inductive, LinkKept, PTL DEF Spec

(* What happens between two transactions follows by induction over the     *)
(* numbers from one to the other: what holds somewhere holds at a first.   *)
Below == {p \in Nat \X Nat : p[1] < p[2]}

LEMMA LeastElement ==
    ASSUME NEW S \in SUBSET Nat, S # {}
    PROVE  \E n \in S : \A m \in S : n <= m
<1>1. IsWellFoundedOn(Below, Nat)
  <2>1. OpToRel(<, Nat) = Below
    BY DEF OpToRel, Below
  <2> QED BY <2>1, NatLessThanWellFounded
<1>2. PICK n \in S : \A m \in S : ~(<<m, n>> \in Below)
  BY <1>1, WFMin
<1>3. ASSUME NEW m \in S PROVE n <= m
  <2>1. m \in Nat /\ n \in Nat
    OBVIOUS
  <2>2. m < n => <<m, n>> \in Below
    BY <2>1 DEF Below
  <2> QED BY <1>2, <2>1, <2>2
<1> QED BY <1>3

LEMMA GreatestElement ==
    ASSUME NEW N \in Nat, NEW S \in SUBSET (0 .. N), S # {}
    PROVE  \E n \in S : \A m \in S : m <= n
<1> DEFINE T == {N - m : m \in S}
<1>1. T \in SUBSET Nat /\ T # {}
  <2>1. \A m \in S : N - m \in Nat
    OBVIOUS
  <2> QED BY <2>1
<1>2. PICK t \in T : \A u \in T : t <= u
  BY <1>1, LeastElement
<1>3. PICK n \in S : t = N - n
  BY <1>2
<1>4. \A m \in S : N - n <= N - m
  BY <1>2, <1>3
<1> QED BY <1>4

(* Where no start puts it somewhere, a kami that is nowhere stays there;   *)
(* where nothing moves it, it stays where it is.                           *)
LEMMA Dormant ==
    ASSUME IInv, Link, NEW k \in Kami, NEW a \in Nat, NEW b \in a .. Len(chain), At(a, k) = None,
           \A i \in a + 1 .. b :
               ~(chain[i].ok /\ k \in Subjects(chain[i].call) /\ chain[i].call.to = "start")
    PROVE  At(b, k) = None
<1> DEFINE S == {i \in a .. b : At(i, k) # None}
<1>1. SUFFICES ASSUME At(b, k) # None
               PROVE  FALSE
  OBVIOUS
<1>2. S \in SUBSET Nat /\ b \in S
  BY <1>1
<1>3. PICK i \in S : \A m \in S : i <= m
  BY <1>2, LeastElement
<1>4. Len(chain) \in Nat /\ DOMAIN chain = 1 .. Len(chain)
  BY DEF IInv, Blocks
<1>5. i \in a + 1 .. b /\ i \in DOMAIN chain /\ i - 1 \in a .. b
  BY <1>3, <1>4
<1>6. At(i - 1, k) = None
  <2>1. i - 1 \notin S
    BY <1>3, <1>5
  <2> QED BY <1>5, <2>1
<1>7. At(i, k) = chain[i].place[k]
  BY <1>5 DEF At
<1> QED BY <1>3, <1>5, <1>6, <1>7 DEF Link

LEMMA Unmoved ==
    ASSUME IInv, Link, NEW k \in Kami, NEW a \in Nat, NEW b \in a .. Len(chain),
           \A i \in a + 1 .. b :
               ~(chain[i].ok /\ k \in Subjects(chain[i].call) /\ chain[i].call.to # "collect")
    PROVE  At(b, k) = At(a, k)
<1> DEFINE S == {i \in a .. b : At(i, k) # At(a, k)}
<1>1. SUFFICES ASSUME At(b, k) # At(a, k)
               PROVE  FALSE
  OBVIOUS
<1>2. S \in SUBSET Nat /\ b \in S
  BY <1>1
<1>3. PICK i \in S : \A m \in S : i <= m
  BY <1>2, LeastElement
<1>4. Len(chain) \in Nat /\ DOMAIN chain = 1 .. Len(chain)
  BY DEF IInv, Blocks
<1>5. i \in a + 1 .. b /\ i \in DOMAIN chain /\ i - 1 \in a .. b
  BY <1>3, <1>4
<1>6. At(i - 1, k) = At(a, k)
  <2>1. i - 1 \notin S
    BY <1>3, <1>5
  <2> QED BY <1>5, <2>1
<1>7. At(i, k) = chain[i].place[k]
  BY <1>5 DEF At
<1> QED BY <1>3, <1>5, <1>6, <1>7 DEF Link

LEMMA TruthIs ==
    ASSUME IInv, NEW k \in Kami
    PROVE  \E n \in 0 .. Len(chain) :
             /\ Truth(k) = At(n, k)
             /\ \A i \in DOMAIN chain : chain[i].block <= scanned <=> i <= n
<1> DEFINE past == {i \in DOMAIN chain : chain[i].block <= scanned}
<1>1. /\ Len(chain) \in Nat /\ DOMAIN chain = 1 .. Len(chain) /\ scanned \in Nat
      /\ \A i \in DOMAIN chain : chain[i].block \in Nat
      /\ \A i, j \in DOMAIN chain : i <= j => chain[i].block <= chain[j].block
  BY DEF IInv, Blocks
<1>2. CASE past = {}
  <2>1. Truth(k) = At(0, k)
    BY <1>2 DEF Truth, At
  <2> QED BY <1>1, <1>2, <2>1
<1>3. CASE past # {}
  <2>1. past \in SUBSET (0 .. Len(chain))
    BY <1>1
  <2> HIDE DEF past
  <2>2. \E n \in past : \A j \in past : j <= n
    BY <1>1, <1>3, <2>1, GreatestElement
  <2>3. PICK n : n = CHOOSE i \in past : \A j \in past : j <= i
    OBVIOUS
  <2>4. n \in past /\ \A j \in past : j <= n
    BY <2>2, <2>3
  <2>5. Truth(k) = chain[n].place[k]
    BY <1>3, <2>3 DEF Truth, past
  <2>6. n \in DOMAIN chain /\ chain[n].block <= scanned
    BY <2>4 DEF past
  <2>7. Truth(k) = At(n, k) /\ n \in 0 .. Len(chain)
    BY <1>1, <2>5, <2>6 DEF At
  <2>8. ASSUME NEW i \in DOMAIN chain
        PROVE  chain[i].block <= scanned <=> i <= n
    <3>1. i <= n => chain[i].block <= chain[n].block
      BY <1>1, <2>6
    <3>2. chain[i].block <= scanned => i \in past
      BY DEF past
    <3> QED BY <1>1, <2>4, <2>6, <3>1, <3>2
  <2> QED BY <2>7, <2>8
<1> QED BY <1>2, <1>3

-----------------------------------------------------------------------------
(* What the rows say of it                                                 *)

LEMMA LatestIs ==
    ASSUME IInv, NEW keys \in SUBSET Kept
    PROVE  /\ keys = {} => Latest(keys) = 0
           /\ keys # {} => \E key \in keys : Latest(keys) = BlockOf(key)
           /\ \A key \in keys : BlockOf(key) <= Latest(keys)
           /\ Latest(keys) \in Nat
<1>1. /\ scanned \in Nat
      /\ \A key \in keys : BlockOf(key) \in 1 .. scanned
  BY DEF IInv, Blocks, Kept
<1>2. CASE keys = {}
  BY <1>2 DEF Latest
<1>3. CASE keys # {}
  <2> DEFINE T == Times(keys)
  <2>1. T \in SUBSET (0 .. scanned) /\ T # {}
    BY <1>1, <1>3 DEF Times
  <2> HIDE DEF T
  <2>2. \E t \in T : \A u \in T : u <= t
    BY <1>1, <2>1, GreatestElement
  <2>3. PICK t : t = CHOOSE v \in T : \A u \in T : u <= v
    OBVIOUS
  <2>4. t \in T /\ \A u \in T : u <= t
    BY <2>2, <2>3
  <2>5. Latest(keys) = t
    BY <1>3, <2>3 DEF Latest, T
  <2>6. /\ \E key \in keys : t = BlockOf(key)
        /\ \A key \in keys : BlockOf(key) \in T
    BY <2>4 DEF Times, T
  <2> QED BY <1>1, <1>3, <2>1, <2>4, <2>5, <2>6
<1> QED BY <1>2, <1>3

(* The rows the view counts are of transactions about the kami.            *)
LEMMA EventIs ==
    ASSUME IInv, NEW k \in Kami
    PROVE  /\ ActiveEvents(k) \subseteq Kept /\ EndEvents(k) \subseteq Kept
           /\ Starts(k) \subseteq ActiveEvents(k)
           /\ \A key \in ActiveEvents(k) :
                /\ key[1] \in About(k) /\ rows[key].type = chain[key[1]].call.to
                /\ chain[key[1]].call.to \in {"start", "collect"}
                /\ chain[key[1]].call.to = "start" =>
                     key \in Starts(k) /\ rows[key].node = chain[key[1]].call.vals[2]
           /\ \A key \in EndEvents(k) :
                key[1] \in About(k) /\ chain[key[1]].call.to \in {"stop", "liquidate"}
<1>1. ASSUME NEW key \in Kept
      PROVE  /\ key[1] \in DOMAIN chain /\ chain[key[1]].block <= scanned
             /\ rows[key].type = chain[key[1]].call.to
             /\ rows[key].harvest = k => key[1] \in About(k)
             /\ rows[key].kami = k /\ rows[key].type # "liquidate" => key[1] \in About(k)
             /\ rows[key].type = "start" => /\ rows[key].node = chain[key[1]].call.vals[2]
                                            /\ rows[key].kami = k => rows[key].harvest \in {None, k}
  <2> DEFINE f    == Fresh(key)
             call == chain[key[1]].call
  <2>1. /\ key \in AllKeys /\ key[1] \in DOMAIN chain /\ Agrees(rows[key], f)
        /\ WellFormed(f, chain[key[1]].writes)
    BY KeptRow DEF IInv
  <2>2. /\ call \in Calls
        /\ f.type = call.to
        /\ call.to = "start" => f.node = call.vals[2]
        /\ f.harvest \in Kami => f.harvest \in Subjects(call)
    BY <2>1, FreshIs DEF IInv
  <2>3. scanned \in Nat /\ cutoff \in Nat /\ BlockOf(key) \in cutoff .. scanned
    BY DEF IInv, Blocks, Kept
  <2>4. chain[key[1]].block <= scanned
    BY <2>3 DEF BlockOf
  <2>5. call.to \in System
    BY <2>2, HarvestsAssumption DEF WellTyped
  <2> HIDE DEF f
  <2>6. /\ rows[key].type = call.to /\ rows[key].node = f.node
        /\ rows[key].harvest = k => f.harvest = k
        /\ rows[key].kami = k /\ rows[key].type # "liquidate" => f.harvest = k
        /\ rows[key].type = "start" /\ rows[key].kami = k => rows[key].harvest \in {None, k}
    BY <2>1, <2>2, <2>5, HarvestsAssumption DEF Agrees, WellFormed, System
  <2>7. f.harvest = k => key[1] \in About(k)
    BY <2>1, <2>2, <2>4 DEF About
  <2> QED BY <2>1, <2>2, <2>4, <2>6, <2>7
<1>2. DOMAIN rows = Kept
  BY DEF IInv, RowsAgree
<1>3. ActiveEvents(k) \subseteq Kept /\ EndEvents(k) \subseteq Kept /\ Starts(k) \subseteq ActiveEvents(k)
  BY <1>2 DEF ActiveEvents, EndEvents, Starts
<1>4. ASSUME NEW key \in ActiveEvents(k)
      PROVE  /\ key[1] \in About(k) /\ rows[key].type = chain[key[1]].call.to
             /\ chain[key[1]].call.to \in {"start", "collect"}
             /\ chain[key[1]].call.to = "start" =>
                  key \in Starts(k) /\ rows[key].node = chain[key[1]].call.vals[2]
  <2>1. key \in Kept /\ rows[key].type \in {"start", "collect"} /\ rows[key].kami = k
    BY <1>2 DEF ActiveEvents
  <2>2. rows[key].type = "start" => key \in Starts(k)
    BY <1>2, <2>1 DEF Starts
  <2> QED BY <1>1, <2>1, <2>2
<1>5. ASSUME NEW key \in EndEvents(k)
      PROVE  key[1] \in About(k) /\ chain[key[1]].call.to \in {"stop", "liquidate"}
  <2>1. key \in Kept /\ rows[key].type \in {"stop", "liquidate"}
    BY <1>2 DEF EndEvents
  <2>2. CASE rows[key].type = "stop" /\ rows[key].kami = k
    BY <1>1, <2>1, <2>2
  <2>3. CASE \E s \in Starts(k) : rows[s].harvest # None /\ rows[s].harvest = rows[key].harvest
    <3>1. PICK s \in Starts(k) : rows[s].harvest # None /\ rows[s].harvest = rows[key].harvest
      BY <2>3
    <3>2. s \in Kept /\ rows[s].type = "start" /\ rows[s].kami = k
      BY <1>2 DEF Starts
    <3>3. rows[s].harvest = k
      BY <1>1, <3>1, <3>2
    <3> QED BY <1>1, <2>1, <3>1, <3>3
  <2> QED BY <2>2, <2>3 DEF EndEvents
<1> QED BY <1>3, <1>4, <1>5

(* A transaction about a kami whose rows tell is in the view.              *)
LEMMA IsEvent ==
    ASSUME IInv, NEW k \in Kami, Telling(k), NEW i \in About(k), chain[i].block >= cutoff
    PROVE  \E key \in Kept :
             /\ key[1] = i
             /\ chain[i].call.to = "start" => key \in Starts(k)
             /\ chain[i].call.to \in {"start", "collect"} => key \in ActiveEvents(k)
             /\ chain[i].call.to = "stop" => key \in EndEvents(k)
             /\ chain[i].call.to = "liquidate" /\ Starts(k) # {} => key \in EndEvents(k)
<1> DEFINE call == chain[i].call
<1>1. /\ i \in DOMAIN chain /\ chain[i].block <= scanned /\ k \in Subjects(call)
      /\ ~Opaque(call) /\ DecodeTx(call) # << >> /\ call \in Calls /\ chain[i].block \in Nat
      /\ scanned \in Nat /\ cutoff \in Nat
  <2>1. i \in DOMAIN chain /\ chain[i].block <= scanned /\ k \in Subjects(call)
    BY DEF About
  <2>2. ~Opaque(call) /\ DecodeTx(call) # << >>
    BY DEF Telling, TookEffect
  <2>3. chain[i] \in Entry /\ chain[i].block \in Nat /\ scanned \in Nat /\ cutoff \in Nat
    BY <2>1 DEF IInv, Blocks
  <2> QED BY <2>1, <2>2, <2>3 DEF Entry
<1>2. PICK j \in DOMAIN DecodeTx(call) : DecodeTx(call)[j] = RowFor(call, k)
  BY <1>1, SubjectsHaveRows
<1> DEFINE key == <<i, j>>
           f   == Fresh(key)
           row == rows[key]
<1>3. key \in AllKeys /\ key \in Kept /\ key[1] = i /\ key[2] = j
  BY <1>1, <1>2, IsKey DEF Kept, BlockOf
<1>4. key \in DOMAIN rows /\ Agrees(row, f) /\ WellFormed(f, chain[i].writes)
  BY <1>3, KeptRow DEF IInv
<1>5. f.harvest = RowFor(call, k).harvest /\ f.type = call.to
  BY <1>2, <1>3, FreshIs DEF IInv
<1>6. RowFor(call, k).harvest = k
  BY <1>1 DEF RowFor
<1> HIDE DEF f
<1>7. f.harvest = k /\ (f.type \in {"start", "stop", "collect"} => f.kami = k)
  <2>1. f.harvest = k
    BY <1>5, <1>6
  <2>2. f.type = "start" => f.kami = k
    BY <1>4, <2>1, HarvestsAssumption DEF WellFormed
  <2>3. f.type \in {"stop", "collect"} => f.kami = k
    BY <1>4, <2>1 DEF WellFormed
  <2> QED BY <2>1, <2>2, <2>3
<1>8. (row.kami = k /\ row.type = "start") \/ Target(row) = k
  <2>1. CASE row.type = "start"
    BY <1>4, <1>7, <2>1 DEF Agrees
  <2>2. CASE row.type # "start" /\ row.harvest # None
    BY <1>4, <1>7, <2>2 DEF Agrees, Target
  <2>3. CASE row.type # "start" /\ row.harvest = None
    BY <1>4, <1>7, <2>3, HarvestsAssumption DEF Agrees, Target
  <2> QED BY <2>1, <2>2, <2>3
<1>9. row.harvest # None /\ (row.type \in {"stop", "collect"} => row.kami # None)
  BY <1>4, <1>8 DEF Telling, Resolved
<1>10. /\ row.harvest = k /\ row.type = call.to
       /\ row.type \in {"start", "stop", "collect"} => row.kami = k
  BY <1>4, <1>5, <1>7, <1>9 DEF Agrees
<1>11. ASSUME NEW s \in Starts(k)
       PROVE  rows[s].harvest = k
  <2>1. s \in DOMAIN rows /\ rows[s].type = "start" /\ rows[s].kami = k
    BY DEF Starts
  <2>2. rows[s].harvest # None
    BY <2>1 DEF Telling, Resolved
  <2>3. Agrees(rows[s], Fresh(s)) /\ WellFormed(Fresh(s), chain[s[1]].writes)
    BY <2>1, KeptRow DEF IInv, RowsAgree
  <2> HIDE DEF Fresh
  <2> QED BY <2>1, <2>2, <2>3 DEF Agrees, WellFormed
<1>12. call.to = "start" => key \in Starts(k)
  BY <1>4, <1>10 DEF Starts
<1>13. call.to \in {"start", "collect"} => key \in ActiveEvents(k)
  BY <1>4, <1>10 DEF ActiveEvents
<1>14. call.to = "stop" => key \in EndEvents(k)
  BY <1>4, <1>10 DEF EndEvents
<1>15. call.to = "liquidate" /\ Starts(k) # {} => key \in EndEvents(k)
  BY <1>4, <1>10, <1>11, HarvestsAssumption DEF EndEvents
<1> QED BY <1>3, <1>12, <1>13, <1>14, <1>15

(* For a kami whose rows tell: a transaction about it took effect, and no  *)
(* two are in a block.                                                     *)
LEMMA TellingMeans ==
    ASSUME IInv, Link, NEW k \in Kami, Telling(k), NEW i \in About(k)
    PROVE  /\ i \in DOMAIN chain /\ i \in Nat /\ i >= 1 /\ i <= Len(chain)
           /\ chain[i].ok /\ k \in Subjects(chain[i].call)
           /\ chain[i].call.to \in System
           /\ chain[i].call.to = "start" => At(i, k) = chain[i].call.vals[2] /\ At(i, k) # None
           /\ chain[i].call.to \in {"stop", "liquidate"} => At(i, k) = None
           /\ chain[i].call.to # "start" => At(i - 1, k) # None
           /\ \A j \in About(k) : i < j => chain[i].block < chain[j].block
<1>1. /\ i \in DOMAIN chain /\ i \in Nat /\ i >= 1 /\ i <= Len(chain)
      /\ k \in Subjects(chain[i].call) /\ chain[i] \in Entry
  BY DEF About, IInv, Blocks
<1>2. chain[i].ok /\ (chain[i].call.to # "start" => k \in chain[i].active)
  BY DEF Telling, TookEffect
<1>3. chain[i].call \in Calls
  BY <1>1 DEF Entry
<1>4. /\ chain[i].call.to \in System
      /\ chain[i].call.to = "start" => chain[i].call.vals[2] \in Node
  BY <1>3, HarvestsAssumption DEF WellTyped
<1>5. At(i, k) = chain[i].place[k]
  BY <1>1 DEF At
<1>6. ASSUME NEW j \in About(k), i < j
      PROVE  chain[i].block < chain[j].block
  <2>1. j \in DOMAIN chain /\ j \in Nat
    BY DEF About, IInv, Blocks
  <2>2. chain[i].block <= chain[j].block /\ chain[i].block \in Nat /\ chain[j].block \in Nat
    BY <1>1, <1>6, <2>1 DEF IInv, Blocks
  <2>3. chain[i].block # chain[j].block
    BY <1>6, <2>1 DEF Telling
  <2> QED BY <2>2, <2>3
<1> HIDE DEF At
<1>7. chain[i].call.to = "start" => At(i, k) = chain[i].call.vals[2] /\ At(i, k) # None
  BY <1>1, <1>2, <1>4, <1>5, HarvestsAssumption DEF Link
<1>8. chain[i].call.to \in {"stop", "liquidate"} => At(i, k) = None
  BY <1>1, <1>2, <1>5 DEF Link
<1>9. chain[i].call.to # "start" => At(i - 1, k) # None
  BY <1>1, <1>2 DEF Link
<1> QED BY <1>1, <1>2, <1>4, <1>6, <1>7, <1>8, <1>9

(* If the view shows it on the node of its last start, it is there: an end *)
(* since then would have been followed by a collect, which would have      *)
(* found no harvest.                                                       *)
LEMMA ShownIsTrue ==
    ASSUME IInv, Link, NEW k \in Kami, Telling(k), CurrentlyHarvesting(k),
           NEW s \in Starts(k), BlockOf(s) = Latest(Starts(k))
    PROVE  rows[s].node = Truth(k) /\ Truth(k) # None
<1> DEFINE i == s[1]
<1>1. PICK n \in 0 .. Len(chain) :
        Truth(k) = At(n, k) /\ \A m \in DOMAIN chain : chain[m].block <= scanned <=> m <= n
  BY TruthIs
<1>2. /\ Len(chain) \in Nat /\ DOMAIN chain = 1 .. Len(chain) /\ scanned \in Nat /\ cutoff \in Nat
      /\ \A m \in DOMAIN chain : chain[m].block \in Nat
      /\ \A m, j \in DOMAIN chain : m <= j => chain[m].block <= chain[j].block
  BY DEF IInv, Blocks
<1>3. /\ s \in ActiveEvents(k) /\ s \in Kept /\ i \in About(k) /\ chain[i].call.to = "start"
      /\ rows[s].node = chain[i].call.vals[2]
  <2>1. s \in ActiveEvents(k) /\ rows[s].type = "start"
    BY EventIs DEF Starts
  <2> QED BY <2>1, EventIs
<1>4. Starts(k) \subseteq Kept /\ ActiveEvents(k) \subseteq Kept /\ EndEvents(k) \subseteq Kept
  BY EventIs
<1>5. BlockOf(s) = chain[i].block /\ chain[i].block \in cutoff .. scanned /\ i <= n
  <2>1. BlockOf(s) = chain[i].block
    BY DEF BlockOf
  <2>2. BlockOf(s) \in cutoff .. scanned
    BY <1>3 DEF Kept
  <2> QED BY <1>1, <1>3, <2>1, <2>2, TellingMeans
<1>6. ASSUME NEW j \in About(k), i < j
      PROVE  chain[j].call.to # "start" /\ chain[j].block > chain[i].block /\ chain[j].block >= cutoff
  <2>1. chain[j].block > chain[i].block /\ chain[j].block >= cutoff
    BY <1>2, <1>3, <1>5, <1>6, TellingMeans
  <2>2. ASSUME chain[j].call.to = "start"
        PROVE  FALSE
    <3>1. PICK key \in Kept : key[1] = j /\ key \in Starts(k)
      BY <2>1, <2>2, IsEvent
    <3>2. BlockOf(key) <= Latest(Starts(k))
      BY <1>4, <3>1, LatestIs
    <3>3. BlockOf(key) = chain[j].block
      BY <3>1 DEF BlockOf
    <3> QED BY <1>2, <1>5, <2>1, <3>2, <3>3, TellingMeans
  <2> QED BY <2>1, <2>2
<1>7. ASSUME NEW j \in About(k), i < j
      PROVE  chain[j].call.to = "collect"
  <2>1. SUFFICES ASSUME chain[j].call.to \in {"stop", "liquidate"}
                 PROVE  FALSE
    BY <1>6, <1>7, TellingMeans DEF System
  <2>2. PICK e \in Kept : e[1] = j /\ e \in EndEvents(k)
    BY <1>6, <1>7, <2>1, IsEvent
  <2>3. chain[j].block <= Latest(EndEvents(k)) /\ Latest(EndEvents(k)) \in Nat
    BY <1>4, <2>2, LatestIs DEF BlockOf
  <2>4. PICK a \in ActiveEvents(k) : Latest(ActiveEvents(k)) = BlockOf(a)
    BY <1>3, <1>4, LatestIs
  <2> DEFINE c == a[1]
  <2>5. /\ c \in About(k) /\ c \in DOMAIN chain /\ chain[c].block <= scanned
        /\ chain[c].block = Latest(ActiveEvents(k))
    BY <2>4, EventIs DEF BlockOf, About
  <2>6. chain[j].block < chain[c].block
    BY <1>2, <2>3, <2>5, TellingMeans DEF CurrentlyHarvesting
  <2>7. j < c /\ i < c /\ j \in Nat /\ c \in Nat /\ i \in Nat /\ c <= n /\ j \in DOMAIN chain
    <3>1. j \in DOMAIN chain /\ i \in DOMAIN chain /\ j \in Nat /\ c \in Nat /\ i \in Nat
      BY <1>2, <1>3, <2>5, TellingMeans
    <3>2. c <= n
      BY <1>1, <2>5
    <3>3. ~(c <= j)
      BY <1>2, <2>5, <2>6, <3>1
    <3> QED BY <1>7, <3>1, <3>2, <3>3
  <2>8. At(c - 1, k) # None /\ At(j, k) = None
    BY <1>6, <2>1, <2>5, <2>7, TellingMeans
  <2>9. ASSUME NEW m \in j + 1 .. c - 1
        PROVE  ~(chain[m].ok /\ k \in Subjects(chain[m].call) /\ chain[m].call.to = "start")
    <3>1. m \in DOMAIN chain /\ chain[m].block <= scanned /\ i < m
      BY <1>1, <1>2, <1>7, <2>7
    <3> QED BY <1>6, <3>1 DEF About
  <2>10. At(c - 1, k) = None
    <3>1. c - 1 \in j .. Len(chain)
      BY <1>2, <2>5, <2>7
    <3> QED BY <2>7, <2>8, <2>9, <3>1, Dormant
  <2> QED BY <2>8, <2>10
<1>8. At(n, k) = At(i, k)
  <2>1. i \in Nat /\ n \in i .. Len(chain)
    BY <1>1, <1>3, <1>5, TellingMeans
  <2>2. ASSUME NEW m \in i + 1 .. n
        PROVE  ~(chain[m].ok /\ k \in Subjects(chain[m].call) /\ chain[m].call.to # "collect")
    <3>1. m \in DOMAIN chain /\ chain[m].block <= scanned /\ i < m
      BY <1>1, <1>2, <2>1
    <3> QED BY <1>7, <3>1 DEF About
  <2> QED BY <2>1, <2>2, Unmoved
<1> QED BY <1>1, <1>3, <1>8, TellingMeans

(* A kami that is somewhere was put there by a start, which is in the view *)
(* if nothing was pruned.                                                  *)
LEMMA WasStarted ==
    ASSUME IInv, Link, NEW k \in Kami, Telling(k), cutoff = 1, NEW b \in 0 .. Len(chain),
           \A i \in 1 .. b : chain[i].block <= scanned, At(b, k) # None
    PROVE  Starts(k) # {}
<1>1. Len(chain) \in Nat /\ DOMAIN chain = 1 .. Len(chain)
  BY DEF IInv, Blocks
<1>2. At(0, k) = None
  BY DEF At
<1>3. PICK i \in 1 .. b : chain[i].ok /\ k \in Subjects(chain[i].call) /\ chain[i].call.to = "start"
  <2>1. b \in 0 .. Len(chain) /\ 0 + 1 = 1
    OBVIOUS
  <2> QED BY <1>2, <2>1, Dormant
<1>4. i \in About(k) /\ chain[i].block >= cutoff
  <2>1. i \in DOMAIN chain
    BY <1>1
  <2>2. chain[i].block >= 1
    BY <2>1 DEF IInv, Blocks
  <2> QED BY <1>3, <2>1, <2>2 DEF About
<1> QED BY <1>3, <1>4, IsEvent

(* Of a kami whose rows tell, the view shows the node it is on; and shows  *)
(* it as harvesting if and only if it is, unless rows were pruned.         *)
THEOREM LocationShown == Spec => []LocationIsRight
<1>1. ASSUME IInv, Link
      PROVE  LocationIsRight
  <2> SUFFICES ASSUME NEW k \in Kami, Telling(k)
               PROVE  /\ CurrentNodes(k) \subseteq {Truth(k)}
                      /\ cutoff = 1 => (CurrentlyHarvesting(k) <=> Truth(k) # None)
    BY DEF LocationIsRight
  <2>1. CurrentNodes(k) \subseteq {Truth(k)}
    BY <1>1, ShownIsTrue DEF CurrentNodes
  <2>2. /\ Len(chain) \in Nat /\ DOMAIN chain = 1 .. Len(chain) /\ scanned \in Nat
        /\ \A m \in DOMAIN chain : chain[m].block \in Nat
        /\ \A m, j \in DOMAIN chain : m <= j => chain[m].block <= chain[j].block
    BY <1>1 DEF IInv, Blocks
  <2>3. Starts(k) \subseteq Kept /\ ActiveEvents(k) \subseteq Kept /\ EndEvents(k) \subseteq Kept
        /\ Starts(k) \subseteq ActiveEvents(k)
    BY <1>1, EventIs
  <2>4. ASSUME cutoff = 1, CurrentlyHarvesting(k)
        PROVE  Truth(k) # None
    <3>1. ActiveEvents(k) # {}
      BY <1>1, <2>3, <2>4, LatestIs DEF CurrentlyHarvesting
    <3>2. PICK a \in ActiveEvents(k) : TRUE
      BY <3>1
    <3> DEFINE c == a[1]
    <3>3. c \in About(k) /\ (chain[c].call.to = "start" => a \in Starts(k))
      BY <1>1, EventIs
    <3>4. CASE chain[c].call.to # "start"
      <4>1. At(c - 1, k) # None /\ c \in DOMAIN chain /\ c - 1 \in 0 .. Len(chain)
        BY <1>1, <2>2, <3>3, <3>4, TellingMeans
      <4>2. \A i \in 1 .. c - 1 : chain[i].block <= scanned
        BY <2>2, <3>3, <4>1 DEF About
      <4>3. Starts(k) # {}
        BY <1>1, <2>4, <4>1, <4>2, WasStarted
      <4> QED BY <1>1, <2>3, <2>4, <4>3, LatestIs, ShownIsTrue
    <3>5. CASE chain[c].call.to = "start"
      BY <1>1, <2>3, <2>4, <3>3, <3>5, LatestIs, ShownIsTrue
    <3> QED BY <3>4, <3>5
  <2>5. ASSUME cutoff = 1, Truth(k) # None, ~CurrentlyHarvesting(k)
        PROVE  FALSE
    <3>1. PICK n \in 0 .. Len(chain) :
            Truth(k) = At(n, k) /\ \A m \in DOMAIN chain : chain[m].block <= scanned <=> m <= n
      BY <1>1, TruthIs
    <3>2. Starts(k) # {}
      <4>1. \A i \in 1 .. n : chain[i].block <= scanned
        BY <2>2, <3>1
      <4> QED BY <1>1, <2>5, <3>1, <4>1, WasStarted
    <3>3. PICK s \in Starts(k) : TRUE
      BY <3>2
    <3>4. /\ Latest(ActiveEvents(k)) \in Nat /\ Latest(EndEvents(k)) \in Nat
          /\ BlockOf(s) <= Latest(ActiveEvents(k)) /\ BlockOf(s) \in Nat /\ BlockOf(s) >= 1
      BY <1>1, <2>3, <2>5, LatestIs DEF Kept
    <3>5. Latest(ActiveEvents(k)) <= Latest(EndEvents(k)) /\ Latest(EndEvents(k)) # 0
      BY <2>5, <3>4 DEF CurrentlyHarvesting
    <3>6. PICK e \in EndEvents(k) : BlockOf(e) = Latest(EndEvents(k))
      BY <1>1, <2>3, <3>5, LatestIs
    <3> DEFINE j == e[1]
    <3>7. /\ j \in About(k) /\ chain[j].call.to \in {"stop", "liquidate"} /\ j \in DOMAIN chain
          /\ At(j, k) = None /\ chain[j].block = Latest(EndEvents(k)) /\ chain[j].block <= scanned
      BY <1>1, <3>6, EventIs, TellingMeans DEF BlockOf, About
    <3>8. ASSUME NEW m \in j + 1 .. n
          PROVE  ~(chain[m].ok /\ k \in Subjects(chain[m].call) /\ chain[m].call.to = "start")
      <4> SUFFICES ASSUME k \in Subjects(chain[m].call), chain[m].call.to = "start"
                   PROVE  FALSE
        OBVIOUS
      <4>1. m \in DOMAIN chain /\ chain[m].block <= scanned /\ j < m
        BY <2>2, <3>1, <3>7
      <4>2. m \in About(k)
        BY <4>1 DEF About
      <4>3. chain[j].block < chain[m].block
        BY <1>1, <3>7, <4>1, <4>2, TellingMeans
      <4>4. PICK key \in Kept : key[1] = m /\ key \in ActiveEvents(k)
        <5>1. chain[m].block >= cutoff
          BY <2>2, <2>5, <3>7, <4>1, <4>3
        <5> QED BY <1>1, <4>2, <5>1, IsEvent
      <4>5. chain[m].block <= Latest(ActiveEvents(k))
        BY <1>1, <2>3, <4>4, LatestIs DEF BlockOf
      <4> QED BY <2>2, <3>4, <3>5, <3>7, <4>1, <4>3, <4>5
    <3>9. At(n, k) = None
      <4>1. j \in Nat /\ n \in j .. Len(chain)
        BY <2>2, <3>1, <3>7
      <4> QED BY <1>1, <3>7, <3>8, <4>1, Dormant
    <3> QED BY <2>5, <3>1, <3>9
  <2> QED BY <2>1, <2>4, <2>5
<1> QED BY <1>1, LinkHolds, PTL
=============================================================================

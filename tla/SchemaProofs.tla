---------------------------- MODULE SchemaProofs ----------------------------
(***************************************************************************)
(* What bootstrap, the migrations and the catalog loaders keep, for any    *)
(* number of kills, of runs by hand and of versions of the CSV files.      *)
(***************************************************************************)
EXTENDS Schema, TLAPS

(* Where a process is: statement pc[3] of migration pc[2], a statement of  *)
(* schema.sql, or a catalog.                                               *)
Placed ==
    /\ \E phase \in {"down", "schema", "migrate", "alone", "ensure", "load", "up"} :
         \E i, j \in Nat : pc = <<phase, i, j>>
    /\ At("schema") => pc[2] \in 1 .. 8
    /\ At("migrate") => pc[2] \in 2 .. 14 /\ pc[3] >= 1
    /\ At("alone") => pc[2] \in Migration /\ pc[3] >= 1
    /\ At("ensure") => pc[2] \in 1 .. 4
    /\ At("load") => pc[2] \in 1 .. 3

VersionTyped == version \in 1 .. SCHEMA_VERSION \cup {None} /\ seen \in 0 .. SCHEMA_VERSION

LEMMA SqlOfThisRelease ==
    /\ Len(SchemaSql) = 7 /\ DOMAIN SchemaSql = 1 .. 7
    /\ Len(Order) = 3 /\ DOMAIN Order = 1 .. 3
    /\ \A i \in 1 .. 3 : Order[i] \in Catalog
    /\ \A i, j \in 1 .. 3 : Order[i] = Order[j] => i = j
BY DEF SchemaSql, Order, Catalog

LEMMA PlacedStep ==
    ASSUME Placed, [Next]_vars
    PROVE  Placed'
<1> USE SqlOfThisRelease DEF Placed, At
<1>1. CASE UNCHANGED pc
  BY <1>1
<1>2. CASE GoTo("down", 0, 0)
  BY <1>2 DEF GoTo
<1>3. CASE Boot \/ ReadVersion
  BY <1>3 DEF Boot, ReadVersion, GoTo
<1>9. CASE SchemaStatement
  <2>1. pc[2] \in DOMAIN SchemaSql /\ pc[1] = "schema"
        /\ (GoTo("schema", pc[2] + 1, 0) \/ GoTo("down", 0, 0))
    BY <1>9, Zenon DEF SchemaStatement, Raise
  <2>2. pc[2] \in 1 .. 7
    BY <2>1
  <2> QED BY <1>2, <2>1, <2>2 DEF GoTo
<1>4. ASSUME NEW m, NEW i, NEW next, Statement(m, i, next)
      PROVE  next \/ GoTo(pc[1], m, i + 1) \/ GoTo("down", 0, 0)
  BY <1>4, Zenon DEF Statement, Raise
<1>5. CASE Migrate
  <2>1. GoTo("migrate", pc[2] + 1, 1) \/ GoTo("migrate", pc[2], pc[3] + 1) \/ GoTo("down", 0, 0)
    BY <1>4, <1>5 DEF Migrate
  <2> QED BY <1>2, <1>5, <2>1 DEF Migrate, GoTo, Migration
<1>6. CASE Alone
  <2>1. GoTo("alone", pc[2], pc[3] + 1) \/ GoTo("down", 0, 0)
    BY <1>4, <1>6 DEF Alone
  <2> QED BY <1>2, <1>6, <2>1 DEF Alone, GoTo
<1>7. CASE Migrated \/ EnsureLoaded \/ Loaded \/ Serve \/ LoadFails
  BY <1>7 DEF Migrated, EnsureLoaded, Loaded, Serve, LoadFails, GoTo, SCHEMA_VERSION
<1>8. CASE ByHand
  BY <1>8 DEF ByHand, RunByHand, Reload, GoTo, Migration
<1> QED BY <1>1, <1>2, <1>3, <1>5, <1>6, <1>7, <1>8, <1>9
       DEF Next, vars, Step, InsertRow, SetCursor, Revendor, Kill

(* The version only moves forward. *)
LEMMA VersionStep ==
    ASSUME Placed, VersionTyped, [Next]_vars
    PROVE  VersionTyped'
<1> USE SchemaAssumption DEF VersionTyped, SCHEMA_VERSION, Migration
<1>1. CASE UNCHANGED <<version, seen>>
  BY <1>1
<1>2. ASSUME NEW m \in Migration, Bump(m), UNCHANGED seen
      PROVE  VersionTyped'
  BY <1>2 DEF Bump
<1>3. ASSUME NEW m, NEW i, NEW next, Statement(m, i, next)
      PROVE  UNCHANGED version \/ Bump(m)
  BY <1>3, Zenon DEF Statement, dbVars
<1>4. CASE Migrate
  BY <1>1, <1>2, <1>3, <1>4 DEF Migrate, dbVars
<1>5. CASE Alone
  BY <1>1, <1>2, <1>3, <1>5 DEF Alone, Placed
<1>6. CASE ReadVersion \/ SetCursor
  BY <1>6 DEF ReadVersion, SetCursor, Recorded, dbVars
<1> QED BY <1>1, <1>4, <1>5, <1>6
       DEF Next, vars, dbVars, Step, Boot, SchemaStatement, Migrated, EnsureLoaded, InsertRow,
           Loaded, Serve, LoadFails, Revendor, Kill, ByHand, RunByHand, Reload

-----------------------------------------------------------------------------
(* The statements that migration m has behind it: those before the i-th.   *)
Done(m, i) ==
    /\ \A j \in DOMAIN Adds(m) : j < i => Adds(m)[j] \in have
    /\ m \in {12, 13} /\ i > 1 => location = m

(* What is true as long as no migration was run out of its turn: behind    *)
(* the version that is recorded, behind the place where bootstrap is, and  *)
(* for the one migration that is run by hand.                              *)
Honest == \A m \in Migration : m <= Recorded => Applied(m)

Migrating ==
    At("migrate") =>
        /\ seen <= Recorded /\ (Recorded <= seen \/ Recorded < pc[2])
        /\ \A m \in Migration : m < pc[2] => Applied(m)
        /\ seen < pc[2] /\ pc[2] \in Migration => Done(pc[2], pc[3])

RunAlone ==
    At("alone") =>
        /\ Recorded >= pc[2] - 1
        /\ pc[2] = 12 => location # 13
        /\ Done(pc[2], pc[3])

Complete ==
    At("ensure") \/ At("up") \/ (At("load") /\ pc[3] = 1) => \A m \in Migration : Applied(m)

InTurn == ~misrun => Honest /\ Migrating /\ RunAlone /\ Complete

LEMMA AddsTyped ==
    ASSUME NEW m \in Migration
    PROVE  /\ DOMAIN Adds(m) = 1 .. Len(Adds(m)) /\ Len(Adds(m)) \in Nat
           /\ m \in {12, 13} => Adds(m) = << >>
<1>1. m \in {2, 3, 4, 5, 6, 7, 8, 9, 10, 11, 12, 13}
  BY DEF Migration
<1>2. Adds(m) \in {Columns002, Columns003, Columns004, Columns005, Columns006, Tables007,
                   <<View008.view>>, Tables009, <<View010.view>>, Tables011, << >>}
  BY <1>1 DEF Adds
<1>3. DOMAIN Adds(m) = 1 .. Len(Adds(m)) /\ Len(Adds(m)) \in Nat
  BY <1>2 DEF Columns002, Columns003, Columns004, Columns005, Columns006, Tables007, Tables009,
       Tables011
<1>4. m \in {12, 13} => Adds(m) = << >>
  BY DEF Adds
<1> QED BY <1>3, <1>4

(* The statements of a migration are behind it: it is applied. *)
LEMMA DoneIsApplied ==
    ASSUME NEW m \in Migration, NEW i \in Nat, i > Last(m), Done(m, i)
    PROVE  Applied(m)
<1>1. CASE m \in {12, 13}
  BY <1>1, AddsTyped DEF Last, Applied, Done, Elements
<1>2. CASE m \notin {12, 13}
  BY <1>2, AddsTyped DEF Last, Applied, Done, Elements
<1> QED BY <1>1, <1>2

(* None is, at the first. *)
LEMMA DoneFirst == \A m \in Migration : Done(m, 1)
BY AddsTyped DEF Done

(* What is there stays there: nothing is dropped but the view that         *)
(* migrations 012 and 013 replace.                                         *)
LEMMA AppliedStays ==
    ASSUME NEW m \in Migration, Applied(m), have \subseteq have',
           location' = location \/ m \notin {12, 13} \/ location' = 13 \/ (m = 12 /\ location' = 12)
    PROVE  Applied(m)'
BY DEF Applied

(* The outcomes of a statement. *)
Finished(m, i, next) == i > Last(m) /\ next /\ Bump(m) /\ UNCHANGED <<have, location>>
Executed(m, i) == ~(i > Last(m)) /\ Create(m, i) /\ GoTo(pc[1], m, i + 1) /\ UNCHANGED version
Raised == Raise /\ UNCHANGED dbVars

LEMMA Outcomes ==
    ASSUME NEW m, NEW i, NEW next, Statement(m, i, next)
    PROVE  Finished(m, i, next) \/ Executed(m, i) \/ Raised
BY Zenon DEF Statement, Finished, Executed, Raised

LEMMA ExecutedIsDone ==
    ASSUME NEW m \in Migration, NEW i \in Nat \ {0}, Done(m, i), Executed(m, i)
    PROVE  /\ Done(m, i + 1)'
           /\ have \subseteq have'
           /\ location' = location \/ (m \in {12, 13} /\ location' = m)
<1>1. have \subseteq have' /\ \A j \in DOMAIN Adds(m) : j < i + 1 => Adds(m)[j] \in have'
  BY AddsTyped DEF Executed, Create, Done
<1>2. location' = IF m \in {12, 13} THEN m ELSE location
  BY DEF Executed, Create
<1> QED BY <1>1, <1>2 DEF Done

LEMMA RecordedTyped ==
    ASSUME VersionTyped
    PROVE  Recorded \in 0 .. 13
BY DEF VersionTyped, Recorded, SCHEMA_VERSION

LEMMA BumpRecords ==
    ASSUME VersionTyped, NEW m \in Migration, Bump(m)
    PROVE  /\ Recorded' = Recorded \/ (Recorded < m /\ Recorded' = m)
           /\ Recorded >= 1 => Recorded' >= m
BY SchemaAssumption DEF VersionTyped, Bump, Recorded, SCHEMA_VERSION, Migration

LEMMA MigrateInTurn ==
    ASSUME Placed, VersionTyped, InTurn, Migrate
    PROVE  InTurn'
<1> SUFFICES ASSUME ~misrun' PROVE Honest' /\ Migrating' /\ RunAlone' /\ Complete'
  BY DEF InTurn
<1>0. PICK m, i : m = pc[2] /\ i = pc[3]
  OBVIOUS
<1>1. /\ Honest /\ Migrating /\ At("migrate") /\ m \in Migration /\ i \in Nat \ {0}
      /\ Recorded \in 0 .. 13 /\ seen \in 0 .. 13 /\ UNCHANGED seen
  BY <1>0, RecordedTyped DEF InTurn, Migrate, countVars, Placed, VersionTyped, SCHEMA_VERSION, At
<1>2. /\ seen <= Recorded /\ (Recorded <= seen \/ Recorded < m)
      /\ \A n \in Migration : n < m => Applied(n)
      /\ seen < m => Done(m, i)
  BY <1>0, <1>1 DEF Migrating
<1>3. ASSUME pc' = <<"migrate", m + 1, 1>>, UNCHANGED <<have, location>>, Applied(m),
             Recorded' \in Nat, seen <= Recorded', Recorded' <= seen \/ Recorded' <= m, Honest'
      PROVE  Honest' /\ Migrating' /\ RunAlone' /\ Complete'
  <2>1. \A n \in Migration : n < m + 1 => Applied(n)'
    BY <1>1, <1>2, <1>3 DEF Migration, Applied
  <2>2. \A n \in Migration : Done(n, 1)'
    BY <1>3, DoneFirst DEF Done
  <2>3. Migrating'
    BY <1>1, <1>3, <2>1, <2>2 DEF Migrating, At, Migration
  <2> QED BY <1>3, <2>3 DEF RunAlone, Complete, At
<1>4. CASE ~(seen < m)
  <2>1. pc' = <<"migrate", m + 1, 1>> /\ UNCHANGED <<have, location, version>>
    BY <1>0, <1>4 DEF Migrate, GoTo, dbVars
  <2>2. Applied(m) /\ Recorded' = Recorded
    BY <1>1, <1>2, <1>4, <2>1 DEF Honest, Migration, Recorded
  <2>3. Honest'
    BY <1>1, <2>1, <2>2 DEF Honest, Applied
  <2> QED BY <1>1, <1>2, <1>3, <2>1, <2>2, <2>3 DEF Migration
<1>5. CASE seen < m
  <2>1. Statement(m, i, GoTo("migrate", m + 1, 1))
    BY <1>0, <1>5 DEF Migrate
  <2>2. Recorded < m /\ Done(m, i)
    BY <1>1, <1>2, <1>5 DEF Migration
  <2>3. CASE Finished(m, i, GoTo("migrate", m + 1, 1))
    <3>1. Applied(m)
      BY <1>1, <2>2, <2>3, DoneIsApplied DEF Finished
    <3>2. Recorded' = Recorded \/ Recorded' = m
      BY <1>1, <2>3, BumpRecords DEF Finished
    <3>3. UNCHANGED <<have, location>> /\ pc' = <<"migrate", m + 1, 1>>
      BY <2>3 DEF Finished, GoTo
    <3>4. Honest'
      BY <1>1, <1>2, <2>2, <3>1, <3>2, <3>3 DEF Honest, Applied, Migration
    <3> QED BY <1>1, <1>2, <1>3, <1>5, <2>2, <3>1, <3>2, <3>3, <3>4 DEF Migration
  <2>4. CASE Executed(m, i)
    <3>1. /\ Done(m, i + 1)' /\ have \subseteq have'
          /\ location' = location \/ (m \in {12, 13} /\ location' = m)
      BY <1>1, <2>2, <2>4, ExecutedIsDone
    <3>2. \A n \in Migration : n < m => Applied(n)'
      BY <1>1, <1>2, <3>1, AppliedStays DEF Migration
    <3>3. Recorded' = Recorded /\ pc' = <<"migrate", m, i + 1>>
      BY <1>1, <2>4 DEF Executed, Recorded, GoTo, At
    <3>4. Honest'
      BY <1>1, <2>2, <3>2, <3>3 DEF Honest, Migration
    <3>5. Migrating'
      BY <1>1, <1>2, <3>1, <3>2, <3>3 DEF Migrating
    <3> QED BY <3>3, <3>4, <3>5 DEF RunAlone, Complete, At
  <2>5. CASE Raised
    BY <1>1, <2>5 DEF Raised, Raise, GoTo, dbVars, Honest, Recorded, Applied, Migrating, RunAlone,
         Complete, At
  <2> QED BY <2>1, <2>3, <2>4, <2>5, Outcomes
<1> QED BY <1>4, <1>5

LEMMA AloneInTurn ==
    ASSUME Placed, VersionTyped, InTurn, Alone
    PROVE  InTurn'
<1> SUFFICES ASSUME ~misrun' PROVE Honest' /\ Migrating' /\ RunAlone' /\ Complete'
  BY DEF InTurn
<1>0. PICK m, i : m = pc[2] /\ i = pc[3]
  OBVIOUS
<1>1. /\ Honest /\ At("alone") /\ m \in Migration /\ i \in Nat \ {0}
      /\ Recorded \in 0 .. 13 /\ Recorded >= m - 1 /\ Done(m, i) /\ (m = 12 => location # 13)
      /\ Statement(m, i, GoTo("down", 0, 0))
  BY <1>0, RecordedTyped DEF InTurn, Alone, countVars, Placed, At, RunAlone
<1>2. ASSUME pc' = <<"down", 0, 0>> PROVE Migrating' /\ RunAlone' /\ Complete'
  BY <1>2 DEF Migrating, RunAlone, Complete, At
<1>3. CASE Finished(m, i, GoTo("down", 0, 0))
  <2>1. Applied(m)
    BY <1>1, <1>3, DoneIsApplied DEF Finished
  <2>2. Recorded' = Recorded \/ (Recorded' = m /\ Recorded = m - 1)
    BY <1>1, <1>3, BumpRecords DEF Finished, Migration
  <2>3. Honest'
    BY <1>1, <1>3, <2>1, <2>2 DEF Honest, Applied, Migration, Finished
  <2> QED BY <1>2, <1>3, <2>3 DEF Finished, GoTo
<1>4. CASE Executed(m, i)
  <2>1. /\ Done(m, i + 1)' /\ have \subseteq have'
        /\ location' = location \/ (m \in {12, 13} /\ location' = m)
    BY <1>1, <1>4, ExecutedIsDone
  <2>2. Recorded' = Recorded /\ pc' = <<"alone", m, i + 1>>
    BY <1>1, <1>4 DEF Executed, Recorded, GoTo, At
  <2>3. ASSUME NEW n \in Migration, n <= Recorded PROVE Applied(n)'
    <3>1. Applied(n)
      BY <1>1, <2>3 DEF Honest
    <3>2. n = 13 => location = 13
      BY <3>1 DEF Applied
    <3> QED BY <1>1, <2>1, <3>1, <3>2, AppliedStays
  <2>4. Honest'
    BY <2>2, <2>3 DEF Honest
  <2>5. RunAlone'
    BY <1>1, <2>1, <2>2 DEF RunAlone
  <2> QED BY <2>2, <2>4, <2>5 DEF Migrating, Complete, At
<1>5. CASE Raised
  BY <1>1, <1>2, <1>5 DEF Raised, Raise, GoTo, dbVars, Honest, Recorded, Applied
<1> QED BY <1>1, <1>3, <1>4, <1>5, Outcomes

LEMMA InTurnStep ==
    ASSUME Placed, VersionTyped, InTurn, [Next]_vars
    PROVE  InTurn'
<1>0. Recorded \in 0 .. 13
  BY RecordedTyped
<1>1. ASSUME UNCHANGED <<dbVars, seen, pc, misrun>> PROVE InTurn'
  BY <1>1 DEF dbVars, InTurn, Honest, Migrating, RunAlone, Complete, Recorded, Applied, Done, At
<1>2. ASSUME misrun' = misrun, Honest => Honest', pc'[1] \in {"down", "schema"}
      PROVE  InTurn'
  BY <1>2 DEF InTurn, Migrating, RunAlone, Complete, At
<1>3. ASSUME UNCHANGED dbVars PROVE (Honest => Honest') /\ Recorded' = Recorded
  BY <1>3 DEF dbVars, Honest, Recorded, Applied
<1>4. CASE Boot
  BY <1>2, <1>3, <1>4 DEF Boot, GoTo, countVars
<1>5. CASE SchemaStatement
  <2>1. /\ have \subseteq have' /\ UNCHANGED <<location, version, misrun>>
        /\ GoTo("schema", pc[2] + 1, 0) \/ GoTo("down", 0, 0)
    BY <1>5, Zenon DEF SchemaStatement, Raise, countVars
  <2>2. Honest => Honest'
    BY <2>1 DEF Honest, Recorded, Applied
  <2> QED BY <1>2, <2>1, <2>2 DEF GoTo
<1>6. CASE ReadVersion
  <2>1. UNCHANGED <<dbVars, misrun>> /\ seen' = Recorded /\ pc' = <<"migrate", 2, 1>>
    BY <1>6 DEF ReadVersion, GoTo, countVars
  <2>2. Done(2, 1)'
    BY DoneFirst, <2>1 DEF Migration, Done, dbVars
  <2> QED BY <1>0, <1>3, <2>1, <2>2 DEF InTurn, Migrating, RunAlone, Complete, At, Migration
<1>7. CASE Migrated
  <2>1. UNCHANGED <<dbVars, misrun>> /\ pc' = <<"ensure", 1, 0>> /\ At("migrate") /\ pc[2] > 13
    BY <1>7 DEF Migrated, GoTo, countVars, SCHEMA_VERSION
  <2>2. ~misrun => \A m \in Migration : Applied(m)'
    BY <2>1 DEF Placed, InTurn, Migrating, Migration, Applied, dbVars
  <2> QED BY <1>3, <2>1, <2>2 DEF InTurn, Migrating, RunAlone, Complete, At
<1>8. CASE EnsureLoaded \/ Loaded \/ Serve \/ LoadFails
  <2>1. /\ UNCHANGED <<dbVars, misrun>>
        /\ At("ensure") \/ At("load")
        /\ \/ pc'[1] \in {"ensure", "up"} /\ (At("load") => pc[3] = 1)
           \/ pc' = <<"load", pc[2], 1>> /\ At("ensure")
           \/ pc'[1] = "down"
    <3>1. CASE EnsureLoaded
      BY <3>1 DEF EnsureLoaded, GoTo, countVars, At
    <3>2. CASE Loaded
      BY <3>2 DEF Loaded, GoTo, countVars, At
    <3>3. CASE Serve \/ LoadFails
      BY <3>3 DEF Serve, LoadFails, GoTo, countVars, At
    <3> QED BY <1>8, <3>1, <3>2, <3>3
  <2>2. Complete => Complete'
    BY <2>1 DEF Complete, At, Applied, dbVars
  <2>3. Migrating' /\ RunAlone'
    BY <2>1 DEF Migrating, RunAlone, At
  <2> QED BY <1>3, <2>1, <2>2, <2>3 DEF InTurn
<1>9. CASE SetCursor
  <2>1. At("up") /\ version' = 13 /\ UNCHANGED <<have, location, pc, misrun>>
    BY <1>9 DEF SetCursor, countVars, SCHEMA_VERSION
  <2>2. ~misrun => \A m \in Migration : Applied(m)'
    BY <2>1 DEF InTurn, Complete, Applied
  <2> QED BY <2>1, <2>2 DEF InTurn, Honest, Migrating, RunAlone, Complete, At
<1>10. CASE Kill
  BY <1>2, <1>3, <1>10 DEF Kill, GoTo
<1>11. ASSUME NEW m \in Migration, RunByHand(m) PROVE InTurn'
  <2>1. /\ UNCHANGED dbVars /\ pc' = <<"alone", m, 1>>
        /\ misrun' = (misrun \/ Recorded < m - 1 \/ (m = 12 /\ location = 13))
    BY <1>11 DEF RunByHand, GoTo
  <2>2. Done(m, 1)' /\ location' = location
    BY DoneFirst, <2>1 DEF Done, dbVars
  <2>3. ~misrun' => ~misrun /\ Recorded' >= m - 1 /\ (m = 12 => location' # 13)
    <3>1. ~misrun' => ~misrun /\ ~(Recorded < m - 1) /\ ~(m = 12 /\ location = 13)
      BY <2>1, Zenon
    <3> QED BY <1>0, <1>3, <2>1, <2>2, <3>1 DEF Migration
  <2>4. ~misrun' => RunAlone'
    BY <2>1, <2>2, <2>3 DEF RunAlone
  <2> QED BY <1>3, <2>1, <2>3, <2>4 DEF InTurn, Migrating, Complete, At
<1>12. ASSUME NEW c \in DOMAIN Order, Reload(c) PROVE InTurn'
  BY <1>3, <1>12 DEF Reload, GoTo, InTurn, Migrating, RunAlone, Complete, At
<1>13. CASE InsertRow \/ Revendor \/ UNCHANGED vars
  BY <1>1, <1>13 DEF InsertRow, Revendor, vars, countVars
<1> QED BY <1>4, <1>5, <1>6, <1>7, <1>8, <1>9, <1>10, <1>11, <1>12, <1>13, MigrateInTurn, AloneInTurn
       DEF Next, Step, ByHand

-----------------------------------------------------------------------------
(* The catalogs: the one that is being loaded has rows of the file as it   *)
(* is.                                                                     *)
Loading == At("load") => table[Order[pc[2]]] \subseteq Csv[csv]

CatalogsTyped ==
    /\ table \in [Catalog -> SUBSET UNION Elements(Csv)] /\ csv \in DOMAIN Csv
    /\ cut \subseteq Catalog

LEMMA CatalogsTypedStep ==
    ASSUME Placed, CatalogsTyped, [Next]_vars
    PROVE  CatalogsTyped'
<1> USE DEF CatalogsTyped
<1>1. CASE UNCHANGED catVars
  BY <1>1 DEF catVars
<1>2. ASSUME NEW c \in Catalog, Truncate(c) PROVE CatalogsTyped'
  BY <1>2 DEF Truncate
<1>3. ASSUME NEW i \in DOMAIN Order, Reload(i) PROVE CatalogsTyped'
  BY <1>2, <1>3, SqlOfThisRelease DEF Reload
<1>4. CASE EnsureLoaded
  BY <1>1, <1>2, <1>4, SqlOfThisRelease DEF EnsureLoaded
<1>5. CASE InsertRow
  <2>1. PICK row \in Missing(Order[pc[2]]) :
          table' = [table EXCEPT ![Order[pc[2]]] = @ \cup {row}]
    BY <1>5 DEF InsertRow
  <2>2. row \in UNION Elements(Csv)
    BY <2>1 DEF Missing, Elements
  <2> QED BY <1>5, <2>1, <2>2 DEF InsertRow
<1>6. CASE Loaded
  BY <1>6 DEF Loaded
<1>7. CASE Revendor
  BY <1>7, SchemaAssumption DEF Revendor
<1>8. CASE Kill
  BY <1>8, SqlOfThisRelease DEF Kill, Placed
<1> QED BY <1>1, <1>3, <1>4, <1>5, <1>6, <1>7, <1>8
       DEF Next, vars, Step, Boot, SchemaStatement, ReadVersion, Migrate, Migrated, Alone, Serve,
           SetCursor, LoadFails, ByHand, RunByHand

LEMMA LoadingStep ==
    ASSUME Placed, CatalogsTyped, CatalogsOfOneFile, Loading, [Next]_vars
    PROVE  CatalogsOfOneFile' /\ Loading'
<1> USE SqlOfThisRelease DEF CatalogsTyped
<1>1. ASSUME UNCHANGED catVars, ~At("load"), ~At("load")' PROVE CatalogsOfOneFile' /\ Loading'
  BY <1>1 DEF catVars, CatalogsOfOneFile, Loading
<1>2. ASSUME UNCHANGED <<catVars, pc>> PROVE CatalogsOfOneFile' /\ Loading'
  BY <1>2 DEF catVars, CatalogsOfOneFile, Loading, At
<1>3. ASSUME NEW i \in 1 .. 3, NEW then, Truncate(Order[i]), pc' = <<"load", i, then>>,
             ~At("load")
      PROVE  CatalogsOfOneFile' /\ Loading'
  <2>1. /\ At("load")' /\ pc'[2] = i /\ table'[Order[i]] = {}
        /\ \A c \in Catalog \ {Order[i]} : table'[c] = table[c] /\ UNCHANGED <<csv, cut>>
    BY <1>3 DEF Truncate, At
  <2> QED BY <1>3, <2>1 DEF CatalogsOfOneFile, Loading
<1>4. CASE InsertRow
  <2> DEFINE c == Order[pc[2]]
  <2>1. /\ At("load") /\ c \in Catalog /\ UNCHANGED <<pc, csv, cut>>
        /\ \E row \in Missing(c) : table' = [table EXCEPT ![c] = @ \cup {row}]
    BY <1>4 DEF InsertRow, Placed
  <2>2. /\ table'[c] \subseteq Csv[csv]
        /\ \A d \in Catalog \ {c} : table'[d] = table[d]
    BY <2>1 DEF Missing, Loading
  <2> QED BY <2>1, <2>2 DEF CatalogsOfOneFile, Loading, At
<1>5. CASE Loaded
  <2> DEFINE c == Order[pc[2]]
  <2>1. /\ At("load") /\ c \in Catalog /\ UNCHANGED <<table, csv>> /\ cut' = cut \ {c}
        /\ Missing(c) = {} /\ ~At("load")'
    BY <1>5 DEF Loaded, Placed, GoTo, At
  <2>2. table[c] = Csv[csv] /\ Csv[csv] \in Elements(Csv)
    BY <2>1 DEF Missing, Loading, Elements
  <2> QED BY <2>1, <2>2 DEF CatalogsOfOneFile, Loading
<1>6. CASE Kill
  <2>1. /\ UNCHANGED <<table, csv>> /\ ~At("load")'
        /\ cut' = IF At("load") THEN cut \cup {Order[pc[2]]} ELSE cut
    BY <1>6 DEF Kill, GoTo, At
  <2> QED BY <2>1 DEF CatalogsOfOneFile, Loading
<1>7. CASE Revendor
  BY <1>7 DEF Revendor, CatalogsOfOneFile, Loading, At
<1>8. CASE EnsureLoaded
  <2>1. CASE table[Order[pc[2]]] # {}
    BY <1>1, <1>8, <2>1 DEF EnsureLoaded, GoTo, At
  <2>2. CASE table[Order[pc[2]]] = {}
    BY <1>3, <1>8, <2>2 DEF EnsureLoaded, GoTo, At
  <2> QED BY <2>1, <2>2
<1>9. ASSUME NEW i \in DOMAIN Order, Reload(i) PROVE CatalogsOfOneFile' /\ Loading'
  BY <1>3, <1>9 DEF Reload, GoTo, At
<1>10. ASSUME NEW m, RunByHand(m) PROVE CatalogsOfOneFile' /\ Loading'
  BY <1>1, <1>10 DEF RunByHand, GoTo, At
<1>11. ASSUME Migrate \/ Alone PROVE CatalogsOfOneFile' /\ Loading'
  <2>1. ASSUME NEW m, NEW i, NEW next, Statement(m, i, next)
        PROVE  next \/ GoTo(pc[1], m, i + 1) \/ GoTo("down", 0, 0)
    BY <2>1, Outcomes DEF Finished, Executed, Raised, Raise
  <2>2. pc[1] \in {"migrate", "alone"} /\ UNCHANGED catVars
    BY <1>11 DEF Migrate, Alone, At
  <2>3. \/ GoTo("migrate", pc[2] + 1, 1) \/ GoTo("down", 0, 0)
        \/ GoTo(pc[1], pc[2], pc[3] + 1)
    BY <1>11, <2>1 DEF Migrate, Alone
  <2> QED BY <1>1, <2>2, <2>3 DEF GoTo, At
<1>12. CASE SchemaStatement
  <2>1. /\ At("schema") /\ UNCHANGED catVars
        /\ GoTo("schema", pc[2] + 1, 0) \/ GoTo("down", 0, 0)
    BY <1>12, Zenon DEF SchemaStatement, Raise
  <2> QED BY <1>1, <2>1 DEF GoTo, At
<1>13. CASE Boot \/ ReadVersion \/ Migrated \/ Serve \/ LoadFails
  BY <1>1, <1>13 DEF Boot, ReadVersion, Migrated, Serve, LoadFails, GoTo, At
<1>14. CASE SetCursor \/ UNCHANGED vars
  BY <1>2, <1>14 DEF SetCursor, vars
<1> QED BY <1>4, <1>5, <1>6, <1>7, <1>8, <1>9, <1>10, <1>11, <1>12, <1>13, <1>14
       DEF Next, Step, ByHand

-----------------------------------------------------------------------------
(* The rest of the types.                                                  *)
DatabaseTyped ==
    /\ have \subseteq Elements(SchemaSql) \cup AddedBy(Migration)
    /\ location \in {0, 12, 13}

CountsTyped == misrun \in BOOLEAN /\ faults \in 0 .. MaxFaults /\ byHand \in 0 .. MaxByHand

LEMMA OfMigrations ==
    /\ AllColumns \subseteq AddedBy(Migration)
    /\ Elements(Columns002) \subseteq AddedBy(Migration)
    /\ \A m \in Migration : Elements(Adds(m)) \subseteq AddedBy(Migration)
    /\ \A v \in 1 .. 13 : AddedBy(2 .. v) \subseteq AddedBy(Migration)
<1>1. \A S, T : S \subseteq T => AddedBy(S) \subseteq AddedBy(T)
  BY Zenon DEF AddedBy
<1>2. \A m \in Migration : Elements(Adds(m)) \subseteq AddedBy(Migration)
  BY Zenon DEF AddedBy
<1>3. 2 .. 6 \subseteq Migration /\ 2 \in Migration /\ Adds(2) = Columns002
      /\ \A v \in 1 .. 13 : 2 .. v \subseteq Migration
  BY DEF Migration, Adds
<1> QED BY <1>1, <1>2, <1>3 DEF AllColumns

LEMMA SqlElements ==
    /\ BaseTables \cup {"harvest index"} \subseteq Elements(SchemaSql)
    /\ \A i \in 1 .. 7 : SchemaSql[i] \in Elements(SchemaSql)
<1>1. \A i \in 1 .. 7 : SchemaSql[i] \in Elements(SchemaSql)
  BY SqlOfThisRelease DEF Elements
<1>2. SchemaSql[1] = "kami_action" /\ SchemaSql[2] = "harvest index"
      /\ SchemaSql[3] = "kami_static" /\ SchemaSql[4] = "ingest_cursor"
  BY DEF SchemaSql
<1>3. \A i \in {1, 2, 3, 4} : SchemaSql[i] \in Elements(SchemaSql)
  BY <1>1
<1> QED BY <1>1, <1>2, <1>3 DEF BaseTables

LEMMA DatabaseTypedStep ==
    ASSUME Placed, DatabaseTyped, [Next]_vars
    PROVE  DatabaseTyped'
<1> USE DEF DatabaseTyped
<1>1. CASE UNCHANGED <<have, location>>
  BY <1>1
<1>2. CASE SchemaStatement
  <2>1. /\ have' = have \/ have' = have \cup {SchemaSql[pc[2]]} \cup ColumnsOf(SchemaSql[pc[2]])
        /\ pc[2] \in 1 .. 7 /\ location' = location
    BY <1>2, SqlOfThisRelease, Zenon DEF SchemaStatement
  <2>2. ASSUME NEW object PROVE ColumnsOf(object) \subseteq AddedBy(Migration)
    BY OfMigrations DEF ColumnsOf
  <2> QED BY <2>1, <2>2, SqlElements
<1>3. ASSUME NEW m \in Migration, NEW i \in Nat \ {0}, NEW next, Statement(m, i, next)
      PROVE  DatabaseTyped'
  <2>1. CASE Executed(m, i)
    <3>1. have' = have \/ (i \in DOMAIN Adds(m) /\ have' = have \cup {Adds(m)[i]})
      BY <2>1, AddsTyped DEF Executed, Create, Last
    <3>2. location' = location \/ location' \in {12, 13}
      BY <2>1 DEF Executed, Create
    <3>3. i \in DOMAIN Adds(m) => Adds(m)[i] \in Elements(Adds(m))
      BY DEF Elements
    <3> QED BY <3>1, <3>2, <3>3, OfMigrations
  <2> QED BY <1>1, <1>3, <2>1, Outcomes DEF Finished, Raised, dbVars
<1>4. CASE Migrate
  BY <1>1, <1>3, <1>4 DEF Migrate, Placed, dbVars
<1>5. CASE Alone
  BY <1>3, <1>5 DEF Alone, Placed
<1> QED BY <1>1, <1>2, <1>4, <1>5
       DEF Next, vars, dbVars, Step, Boot, ReadVersion, Migrated, EnsureLoaded, InsertRow,
           Loaded, Serve, SetCursor, LoadFails, Revendor, Kill, ByHand, RunByHand, Reload

LEMMA CountsTypedStep ==
    ASSUME CountsTyped, [Next]_vars
    PROVE  CountsTyped'
<1>1. misrun' \in BOOLEAN
  BY Zenon DEF CountsTyped, Next, vars, countVars, Step, Boot, SchemaStatement, ReadVersion, Migrate,
       Migrated, Alone, EnsureLoaded, InsertRow, Loaded, Serve, SetCursor, LoadFails, Revendor, Kill,
       ByHand, RunByHand, Reload
<1>2. /\ faults' = faults \/ (faults < MaxFaults /\ faults' = faults + 1)
      /\ byHand' = byHand \/ (byHand < MaxByHand /\ byHand' = byHand + 1)
  BY Zenon DEF Next, vars, countVars, Step, Boot, SchemaStatement, ReadVersion, Migrate, Migrated,
       Alone, EnsureLoaded, InsertRow, Loaded, Serve, SetCursor, LoadFails, Revendor, Kill, ByHand,
       RunByHand, Reload
<1>3. faults' \in 0 .. MaxFaults /\ byHand' \in 0 .. MaxByHand
  BY <1>2, SchemaAssumption DEF CountsTyped
<1> QED BY <1>1, <1>3 DEF CountsTyped

-----------------------------------------------------------------------------
IInv ==
    /\ Placed /\ VersionTyped /\ CatalogsTyped /\ DatabaseTyped /\ CountsTyped
    /\ InTurn /\ CatalogsOfOneFile /\ Loading

LEMMA IInvInit == Init => IInv
<1> SUFFICES ASSUME Init PROVE IInv
  OBVIOUS
<1>1. Placed /\ VersionTyped
  BY SchemaAssumption DEF Init, Placed, VersionTyped, At, SCHEMA_VERSION
<1>2. CatalogsTyped /\ CatalogsOfOneFile /\ Loading
  BY SchemaAssumption DEF Init, CatalogsTyped, CatalogsOfOneFile, Loading, At
<1>3. Honest
  <2>1. CASE version = None
    BY <2>1 DEF Honest, Recorded, Migration
  <2>2. ASSUME NEW v \in 1 .. 13, version = v, have = OfRelease(v),
               location = (IF v >= 12 THEN v ELSE 0)
        PROVE  Honest
    <3>1. Recorded = v
      BY <2>2, SchemaAssumption DEF Recorded
    <3>2. \A m \in Migration : m <= v => Elements(Adds(m)) \subseteq have
      <4>1. ASSUME NEW m \in 2 .. v PROVE Elements(Adds(m)) \subseteq AddedBy(2 .. v)
        BY Zenon DEF AddedBy
      <4>2. \A m \in Migration : m <= v => m \in 2 .. v
        BY DEF Migration
      <4> QED BY <2>2, <4>1, <4>2 DEF OfRelease
    <3> QED BY <2>2, <3>1, <3>2 DEF Honest, Applied, Migration
  <2> QED BY <2>1, <2>2 DEF Init, SCHEMA_VERSION
<1>4. InTurn
  BY <1>3 DEF Init, InTurn, Migrating, RunAlone, Complete, At
<1>5. DatabaseTyped
  <2>1. CASE have = {} /\ location = 0
    BY <2>1 DEF DatabaseTyped
  <2>2. ASSUME NEW v \in 1 .. 13, have = OfRelease(v),
               location = (IF v >= 12 THEN v ELSE 0)
        PROVE  DatabaseTyped
    <3>1. have \subseteq BaseTables \cup {"harvest index"} \cup AddedBy(2 .. v)
      BY <2>2 DEF OfRelease
    <3>2. location \in {0, 12, 13}
      BY <2>2
    <3> QED BY <3>1, <3>2, OfMigrations, SqlElements DEF DatabaseTyped
  <2> QED BY <2>1, <2>2 DEF Init, SCHEMA_VERSION
<1>6. CountsTyped
  <2>1. misrun = FALSE /\ faults = 0 /\ byHand = 0
    BY DEF Init
  <2>2. faults \in 0 .. MaxFaults /\ byHand \in 0 .. MaxByHand
    BY <2>1, SchemaAssumption
  <2> QED BY <2>1, <2>2, Zenon DEF CountsTyped
<1> QED BY <1>1, <1>2, <1>4, <1>5, <1>6 DEF IInv

LEMMA IInvStep == IInv /\ [Next]_vars => IInv'
BY PlacedStep, VersionStep, InTurnStep, CatalogsTypedStep, LoadingStep, DatabaseTypedStep,
   CountsTypedStep DEF IInv

LEMMA IInvHolds == Spec => []IInv
BY IInvInit, IInvStep, PTL DEF Spec

(* Every variable has its type. *)
THEOREM TypeCorrect == Spec => []TypeOK
<1>1. IInv => TypeOK
  BY DEF IInv, Placed, VersionTyped, CatalogsTyped, DatabaseTyped, CountsTyped, TypeOK
<1> QED BY IInvHolds, <1>1, PTL

(* The recorded version is never ahead of the database, however often      *)
(* bootstrap was killed and started again, unless a migration was run by   *)
(* hand out of its turn.                                                   *)
THEOREM RecordedIsHonest == Spec => []VersionIsHonest
<1>1. IInv => VersionIsHonest
  BY DEF IInv, InTurn, Honest, VersionIsHonest
<1> QED BY IInvHolds, <1>1, PTL

(* Whatever release the database was of, the service that serves from it   *)
(* has all that the migrations add.                                        *)
THEOREM ServedIsComplete == Spec => []ServedSchemaComplete
<1>1. IInv => ServedSchemaComplete
  BY DEF IInv, InTurn, Complete, ServedSchemaComplete
<1> QED BY IInvHolds, <1>1, PTL

(* A catalog whose load was not killed is whole or empty.                  *)
THEOREM CatalogsWhole == Spec => []CatalogsOfOneFile
<1>1. IInv => CatalogsOfOneFile
  BY DEF IInv
<1> QED BY IInvHolds, <1>1, PTL
=============================================================================

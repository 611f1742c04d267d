------------------------------- MODULE Schema -------------------------------
(***************************************************************************)
(* How a database comes to the schema of this release: schema/schema.sql,  *)
(* then the migrations 002 to 013 that the recorded version asks for, then *)
(* the catalogs (ingester/storage.py bootstrap, ingester/serve.py).  Every *)
(* statement commits by itself, and the process may be killed between any  *)
(* two.  Each migration and each catalog loader can also be run by hand    *)
(* while the service is down.  The data that migration 002 fills in is in  *)
(* Harvests; of the columns of migrations 004 and 005 three and two stand  *)
(* for ten and twelve.                                                     *)
(***************************************************************************)
EXTENDS Integers, Sequences, FiniteSets

CONSTANTS
    None,
    Csv,         \* Csv[v]: the rows of version v of a catalog's CSV file
    MaxFaults,   \* bound: kills, stops, and loads that fail
    MaxByHand    \* bound: runs of migrations and loaders by hand

ASSUME SchemaAssumption ==
    /\ None \notin Nat
    /\ Csv \in Seq(SUBSET UNION {Csv[v] : v \in DOMAIN Csv}) /\ Len(Csv) > 0
    /\ \A v \in DOMAIN Csv : Csv[v] # {}
    /\ MaxFaults \in Nat /\ MaxByHand \in Nat

VARIABLES
    have,      \* the tables, columns and indexes of the database
    location,  \* the migration whose kami_current_location is there, or 0
    version,   \* ingest_cursor.schema_version, or None: no row
    seen,      \* the version bootstrap has read
    pc,        \* where the process is: <<phase, number, number>>
    table,     \* the rows of each catalog
    csv,       \* the vendored version of the CSV files
    cut,       \* history: the catalogs whose load was killed
    misrun,    \* history: a migration was run by hand that was not the next
    faults, byHand

dbVars    == <<have, location, version>>
catVars   == <<table, csv, cut>>
countVars == <<misrun, faults, byHand>>
vars == <<dbVars, seen, pc, catVars, countVars>>

Catalog == {"items_catalog", "skills_catalog", "nodes_catalog"}
SCHEMA_VERSION == 13
Migration == 2 .. 13

-----------------------------------------------------------------------------
(* The migrations: what each adds, statement by statement. *)

Columns002 == <<"harvest_id">>
Columns003 == <<"account_index", "account_name">>
Columns004 == <<"skills_json", "equipment_json", "build_refreshed_ts">>
Columns005 == <<"modifier_first", "modifier_last">>
Columns006 == <<"body_affinity", "hand_affinity">>
Tables007  == <<"items_catalog">>
View008    == [view |-> "kami_equipment",
               needs |-> {"account_name", "equipment_json", "build_refreshed_ts", "items_catalog"}]
Tables009  == <<"skills_catalog">>
View010    == [view |-> "kami_skills",
               needs |-> {"account_name", "skills_json", "build_refreshed_ts", "skills_catalog"}]
Tables011  == <<"nodes_catalog">>
View012    == [view |-> "kami_current_location", needs |-> {"account_name", "nodes_catalog"}]
View013    == [view |-> "kami_current_location",
               needs |-> {"account_name", "harvest_id", "nodes_catalog"}]

Adds(m) ==
    CASE m = 2 -> Columns002 [] m = 3 -> Columns003 [] m = 4 -> Columns004
      [] m = 5 -> Columns005 [] m = 6 -> Columns006 [] m = 7 -> Tables007
      [] m = 9 -> Tables009  [] m = 11 -> Tables011
      [] m = 8 -> <<View008.view>> [] m = 10 -> <<View010.view>> [] OTHER -> << >>

(* CREATE VIEW binds the columns and tables it names, or raises. *)
Needs(m) ==
    CASE m = 8 -> View008.needs [] m = 10 -> View010.needs
      [] m = 12 -> View012.needs [] m = 13 -> View013.needs [] OTHER -> {}

Elements(s) == {s[i] : i \in DOMAIN s}
AddedBy(ms) == UNION {Elements(Adds(m)) : m \in ms}
AllColumns  == AddedBy(2 .. 6)

(* The statements of a migration before its last, which bumps the version. *)
Last(m) == IF m \in {12, 13} THEN 1 ELSE Len(Adds(m))

(* Migration m left what it is for. *)
Applied(m) ==
    /\ Elements(Adds(m)) \subseteq have
    /\ m = 12 => location \in {12, 13}
    /\ m = 13 => location = 13

-----------------------------------------------------------------------------
BaseTables == {"kami_action", "kami_static", "ingest_cursor"}

(* A new file, or what the service of release v had left behind, its       *)
(* cursor set or not yet.                                                  *)
OfRelease(v) ==
    BaseTables \cup AddedBy(2 .. v) \cup (IF v >= 2 THEN {"harvest index"} ELSE {})

Init ==
    /\ \/ have = {} /\ location = 0 /\ version = None
       \/ \E v \in 1 .. SCHEMA_VERSION :
            /\ have = OfRelease(v)
            /\ location = (IF v >= 12 THEN v ELSE 0)
            /\ version \in {None, v}
    /\ seen = 0 /\ pc = <<"down", 0, 0>>
    /\ table = [c \in Catalog |-> {}] /\ csv = 1 /\ cut = {}
    /\ misrun = FALSE /\ faults = 0 /\ byHand = 0

At(phase) == pc[1] = phase
GoTo(phase, i, j) == pc' = <<phase, i, j>>
Raise == GoTo("down", 0, 0)

(* systemd starts the service. *)
Boot ==
    /\ At("down")
    /\ GoTo("schema", 1, 0)
    /\ UNCHANGED <<dbVars, seen, catVars, countVars>>

-----------------------------------------------------------------------------
(* schema.sql *)

SchemaSql == <<"kami_action", "harvest index", "kami_static", "ingest_cursor",
               "items_catalog", "skills_catalog", "nodes_catalog">>

(* A table that is not there is created with all the columns of today.     *)
ColumnsOf(object) ==
    CASE object = "kami_action" -> Elements(Columns002)
      [] object = "kami_static" -> AllColumns \ Elements(Columns002)
      [] OTHER -> {}

(* MUTANT: CREATE without IF NOT EXISTS. *)
SchemaStatementPlain ==
    /\ At("schema") /\ pc[2] \in DOMAIN SchemaSql
    /\ IF SchemaSql[pc[2]] \in have \/ (pc[2] = 2 /\ "harvest_id" \notin have)
       THEN UNCHANGED have /\ Raise
       ELSE /\ have' = have \cup {SchemaSql[pc[2]]} \cup ColumnsOf(SchemaSql[pc[2]])
            /\ GoTo("schema", pc[2] + 1, 0)
    /\ UNCHANGED <<location, version, seen, catVars, countVars>>

(* An index that is not there on a column that is not there raises.        *)
SchemaStatement ==
    LET object == SchemaSql[pc[2]]
    IN /\ At("schema") /\ pc[2] \in DOMAIN SchemaSql
       /\ IF object \in have
          THEN UNCHANGED have /\ GoTo("schema", pc[2] + 1, 0)
          ELSE IF object = "harvest index" /\ "harvest_id" \notin have
               THEN UNCHANGED have /\ Raise
               ELSE /\ have' = have \cup {object} \cup ColumnsOf(object)
                    /\ GoTo("schema", pc[2] + 1, 0)
       /\ UNCHANGED <<location, version, seen, catVars, countVars>>

(* MUTANT: a database without a cursor is taken for a new one. *)
RecordedOrNew == IF version = None THEN SCHEMA_VERSION ELSE version

(* The version that _apply_migrations goes by. *)
Recorded == IF version = None THEN 0 ELSE version

ReadVersion ==
    /\ At("schema") /\ pc[2] > Len(SchemaSql)
    /\ seen' = Recorded
    /\ GoTo("migrate", 2, 1)
    /\ UNCHANGED <<dbVars, catVars, countVars>>

-----------------------------------------------------------------------------
(* One statement of migration m, and the next place if it does not raise.  *)

Create(m, i) ==
    /\ have' = IF Adds(m) = << >> THEN have ELSE have \cup {Adds(m)[i]}
    /\ location' = IF m \in {12, 13} THEN m ELSE location

(* MUTANT: the version after the target is recorded. *)
BumpPast(m) ==
    version' = IF version # None /\ version < m THEN m + 1 ELSE version

(* _bump_schema_version: an UPDATE, which finds no row before the first    *)
(* set_cursor.                                                             *)
Bump(m) ==
    version' = IF version # None /\ version < m THEN m ELSE version

(* MUTANT: the version is recorded before the statements have run.         *)
StatementBumpsFirst(m, i, next) ==
    IF i > Last(m) THEN next /\ UNCHANGED dbVars
    ELSE IF Needs(m) \subseteq have
         THEN Create(m, i) /\ Bump(m) /\ GoTo(pc[1], m, i + 1)
         ELSE Raise /\ UNCHANGED dbVars

Statement(m, i, next) ==
    IF i > Last(m) THEN next /\ Bump(m) /\ UNCHANGED <<have, location>>
    ELSE IF Needs(m) \subseteq have
         THEN Create(m, i) /\ GoTo(pc[1], m, i + 1) /\ UNCHANGED version
         ELSE Raise /\ UNCHANGED dbVars

(* _apply_migrations: those beyond the version that was read. *)
Migrate ==
    /\ At("migrate") /\ pc[2] \in Migration
    /\ IF seen < pc[2]
       THEN Statement(pc[2], pc[3], GoTo("migrate", pc[2] + 1, 1))
       ELSE GoTo("migrate", pc[2] + 1, 1) /\ UNCHANGED dbVars
    /\ UNCHANGED <<seen, catVars, countVars>>

(* python migrations/0xx.py, the service being down.  A run that is not of *)
(* the next migration is remembered, unless it can only repeat.            *)
RunByHand(m) ==
    /\ At("down") /\ have # {} /\ byHand < MaxByHand
    /\ GoTo("alone", m, 1)
    /\ byHand' = byHand + 1
    /\ misrun' = (misrun \/ Recorded < m - 1 \/ (m = 12 /\ location = 13))
    /\ UNCHANGED <<dbVars, seen, catVars, faults>>

Alone ==
    /\ At("alone")
    /\ Statement(pc[2], pc[3], GoTo("down", 0, 0))
    /\ UNCHANGED <<seen, catVars, countVars>>

-----------------------------------------------------------------------------
(* The catalogs.  pc is <<"ensure", c, then>>, or <<"load", c, then>> with *)
(* the place the process goes to then.                                     *)

Order == <<"items_catalog", "skills_catalog", "nodes_catalog">>

Migrated ==
    /\ At("migrate") /\ pc[2] > SCHEMA_VERSION
    /\ GoTo("ensure", 1, 0)
    /\ UNCHANGED <<dbVars, seen, catVars, countVars>>

(* MUTANT: without the truncation, what the CSV no longer has stays.       *)
UpsertOnly(c) == UNCHANGED <<table, csv, cut>>

(* DELETE FROM the catalog *)
Truncate(c) ==
    /\ table' = [table EXCEPT ![c] = {}]
    /\ UNCHANGED <<csv, cut>>

(* ensure_loaded: a table with rows is left alone. *)
EnsureLoaded ==
    /\ At("ensure") /\ pc[2] \in DOMAIN Order
    /\ IF table[Order[pc[2]]] # {}
       THEN GoTo("ensure", pc[2] + 1, 0) /\ UNCHANGED catVars
       ELSE GoTo("load", pc[2], 1) /\ Truncate(Order[pc[2]])
    /\ UNCHANGED <<dbVars, seen, countVars>>

(* The CSV file is missing or empty, which serve logs. *)
LoadFails ==
    /\ At("ensure") /\ pc[2] \in DOMAIN Order /\ table[Order[pc[2]]] = {}
    /\ faults < MaxFaults /\ faults' = faults + 1
    /\ GoTo("ensure", pc[2] + 1, 0)
    /\ UNCHANGED <<dbVars, seen, catVars, misrun, byHand>>

(* python -m ingester.items_catalog --reload *)
Reload(i) ==
    /\ At("down") /\ Order[i] \in have /\ byHand < MaxByHand
    /\ byHand' = byHand + 1
    /\ GoTo("load", i, 2)
    /\ Truncate(Order[i])
    /\ UNCHANGED <<dbVars, seen, misrun, faults>>

Missing(c) == Csv[csv] \ table[c]

(* One row of the executemany.  The file is not replaced meanwhile.        *)
InsertRow ==
    LET c == Order[pc[2]]
    IN /\ At("load") /\ Missing(c) # {}
       /\ \E row \in Missing(c) : table' = [table EXCEPT ![c] = @ \cup {row}]
       /\ UNCHANGED <<dbVars, seen, pc, csv, cut, countVars>>

Loaded ==
    LET c == Order[pc[2]]
    IN /\ At("load") /\ Missing(c) = {}
       /\ IF pc[3] = 1 THEN GoTo("ensure", pc[2] + 1, 0) ELSE GoTo("down", 0, 0)
       /\ cut' = cut \ {c}
       /\ UNCHANGED <<dbVars, seen, table, csv, countVars>>

(* scripts/vendor-context.sh *)
Revendor ==
    /\ csv < Len(Csv) /\ ~At("load")
    /\ csv' = csv + 1
    /\ UNCHANGED <<dbVars, seen, pc, table, cut, countVars>>

-----------------------------------------------------------------------------
(* serve.py goes on, and the poller sets its cursor. *)
Serve ==
    /\ At("ensure") /\ pc[2] > Len(Order)
    /\ GoTo("up", 0, 0)
    /\ UNCHANGED <<dbVars, seen, catVars, countVars>>

SetCursor ==
    /\ At("up") /\ version # SCHEMA_VERSION
    /\ version' = SCHEMA_VERSION
    /\ UNCHANGED <<have, location, seen, pc, catVars, countVars>>

(* Whatever runs is stopped or killed. *)
Kill ==
    /\ ~At("down") /\ faults < MaxFaults /\ faults' = faults + 1
    /\ GoTo("down", 0, 0)
    /\ cut' = IF At("load") THEN cut \cup {Order[pc[2]]} ELSE cut
    /\ UNCHANGED <<dbVars, seen, table, csv, misrun, byHand>>

ByHand == (\E m \in Migration : RunByHand(m)) \/ (\E i \in DOMAIN Order : Reload(i))

Step ==
    \/ Boot \/ SchemaStatement \/ ReadVersion \/ Migrate \/ Migrated \/ Alone
    \/ EnsureLoaded \/ InsertRow \/ Loaded \/ Serve \/ SetCursor

Next == Step \/ ByHand \/ Revendor \/ LoadFails \/ Kill

Spec == Init /\ [][Next]_vars

(* systemd starts the service again, and statements end. *)
FairSpec == Spec /\ WF_vars(Step)
-----------------------------------------------------------------------------
TypeOK ==
    /\ have \subseteq Elements(SchemaSql) \cup AddedBy(Migration)
    /\ location \in {0, 12, 13} /\ version \in 1 .. SCHEMA_VERSION \cup {None}
    /\ seen \in 0 .. SCHEMA_VERSION
    /\ pc[1] \in {"down", "schema", "migrate", "alone", "ensure", "load", "up"}
    /\ \A c \in Catalog : table[c] \subseteq UNION Elements(Csv)
    /\ csv \in DOMAIN Csv /\ cut \subseteq Catalog
    /\ misrun \in BOOLEAN /\ faults \in 0 .. MaxFaults /\ byHand \in 0 .. MaxByHand

(* "Each migration is idempotent and bumps schema_version on success"      *)
(* (storage.py:76-77): the version that is recorded is never ahead of what *)
(* the database has, wherever bootstrap was killed and whatever was run    *)
(* again, so no later bootstrap skips what is missing.  A migration run by *)
(* hand before its turn breaks it, and so does 012 after 013.              *)
VersionIsHonest ==
    ~misrun => \A m \in Migration : m <= Recorded => Applied(m)

(* A service that serves has every column, table and view of this release, *)
(* from whatever release and through whatever kills it came.               *)
ServedSchemaComplete ==
    At("up") /\ ~misrun => \A m \in Migration : Applied(m)

(* The rows of a catalog that is not being loaded are those of one version *)
(* of its file, or none; only a load that was killed leaves a part of      *)
(* them, which ensure_loaded then takes for the whole.                     *)
CatalogsOfOneFile ==
    \A c \in Catalog :
        \/ c \in cut
        \/ At("load") /\ Order[pc[2]] = c
        \/ table[c] = {} \/ table[c] \in Elements(Csv)

(* The index of schema.sql cannot be created on the database of the first  *)
(* release, whose migration would add its column.                          *)
OfFirstRelease == "kami_action" \in have /\ "harvest_id" \notin have

(* The service comes up in the end and stays up, unless the database is of *)
(* the first release or a migration was run out of its turn.               *)
ServiceComesUp == <>[](At("up") \/ OfFirstRelease \/ misrun)

(* "schema.sql (CREATE IF NOT EXISTS) first, then migrations to ALTER      *)
(* existing tables for installs that pre-date a column" (storage.py:77-79) *)
OldInstallsComeUp == <>[](At("up") \/ misrun)
=============================================================================

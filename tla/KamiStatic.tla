----------------------------- MODULE KamiStatic -----------------------------
(***************************************************************************)
(* The kami_static table (ingester/kami_static.py) and the programs that   *)
(* write it: the sweep thread of the service, which refreshes kamis that   *)
(* are missing or older than a day through a pool of workers, and the      *)
(* repair scripts, run while the service is stopped.  What a kami is on    *)
(* chain is a version number that grows; so is the name of an account.     *)
(***************************************************************************)
EXTENDS Integers, FiniteSets, Sequences, SequencesExt

CONSTANTS
    Kami,
    Account,
    Owner,       \* Owner[k][v]: the account of kami k at its version v
    None,        \* SQL NULL, Python None
    Workers,     \* size of the thread pool
    FlushEvery,  \* rows that are collected before an upsert
    LastVer,     \* bound: the last version of each kami,
    LastName,    \*   and of the name of each account
    MaxFaults    \* bound: calls that raise and kills

Version  == (UNION {1 .. LastVer[k] : k \in Kami}) \cup (UNION {1 .. LastName[a] : a \in Account})

ASSUME KamiStaticAssumption ==
    /\ Workers \in Nat \ {0} /\ FlushEvery \in Nat \ {0}
    /\ LastVer \in [Kami -> Nat \ {0}] /\ LastName \in [Account -> Nat \ {0}]
    /\ MaxFaults \in Nat
    /\ None \notin Nat /\ None \notin Account /\ None \notin Kami
    /\ \A k \in Kami : \A v \in 1 .. LastVer[k] : Owner[k][v] \in Account

VARIABLES
    ver,      \* the version of each kami on chain
    nameVer,  \* the version of each account's name
    seen,     \* the kamis that occur in kami_action
    static,   \* the table kami_static
    prog,     \* the program that runs, see Program
    pc,       \* where its main (or sweep) thread is
    cache,    \* _account_cache of the reader
    phase,    \* where the worker of each kami is, see Phase
    got,      \* the KamiStatic it has filled so far
    pending,  \* rows collected and not yet upserted
    flush,    \* rows of the upsert in progress not yet written
    left,     \* the kamis of the pass or script neither written nor failed
    base,     \* history: ver and nameVer when the pass began
    faults

chainVars == <<ver, nameVer, seen>>
poolVars  == <<cache, phase, got>>
passVars  == <<pending, flush, left, base>>
vars == <<chainVars, static, prog, pc, poolVars, passVars, faults>>

(* serve: the service; "all", "build", "names", "modifiers", "affinity":   *)
(* the scripts backfill_kami_static, _build, backfill_account_names, ...   *)
Scripts == {"all", "build", "names", "modifiers", "affinity"}
Program == {"none", "serve"} \cup Scripts

(* "off": the service runs, but its sweep thread was never started.        *)
PC == {"idle", "pass", "flush", "drain", "off"}
Phase == {"none", "queued", "account", "cache", "build", "done", "failed"}

Opt(S) == S \cup {None}

(* core: name, traits, affinities, base stats; level: level, xp, totals;   *)
(* build: slots, skills, equipment; mods: the modifier columns, which are  *)
(* computed of build, 0 when that is NULL; aff: body_ and                  *)
(* hand_affinity; built: build_refreshed_ts is not NULL; old:              *)
(* last_refreshed_ts is before the cutoff.                                 *)
Columns == [core : Version, acct : Account, name : Opt(Version),
            level : Opt(Version), build : Opt(Version),
            mods : Opt(Version \cup {0}), aff : Opt(Version),
            built : BOOLEAN, old : BOOLEAN]

Versions == [ver : [Kami -> Version], name : [Account -> Version]]

Now    == [ver |-> ver, name |-> nameVer]
NoBase == [ver |-> [k \in Kami |-> 1], name |-> [a \in Account |-> 1]]

Blank == [core |-> 1, acct |-> CHOOSE a \in Account : TRUE, name |-> None,
          level |-> None, build |-> None, mods |-> None, aff |-> None,
          built |-> FALSE, old |-> FALSE]

Fault == faults < MaxFaults /\ faults' = faults + 1

-----------------------------------------------------------------------------
(* The table as migrations left it: no rows, or rows of before the account *)
(* name, build, modifier and affinity columns.                             *)
Legacy(k) == [Blank EXCEPT !.acct = Owner[k][1], !.old = TRUE]

Init ==
    /\ ver = [k \in Kami |-> 1] /\ nameVer = [a \in Account |-> 1]
    /\ seen \in SUBSET Kami
    /\ static \in {[k \in K |-> Legacy(k)] : K \in SUBSET Kami}
    /\ prog = "none" /\ pc = "idle"
    /\ cache = << >> /\ phase = [k \in Kami |-> "none"] /\ got = [k \in Kami |-> Blank]
    /\ pending = << >> /\ flush = << >> /\ left = {} /\ base = NoBase
    /\ faults = 0

(* The service starts: the reader is built, with an empty account cache.   *)
Boot ==
    /\ prog = "none"
    /\ prog' = "serve"
    /\ UNCHANGED <<chainVars, static, pc, poolVars, passVars, faults>>

(* The constructor of the reader makes RPC calls; if one raises, the       *)
(* service runs on without a sweep thread.                                 *)
BootWithoutReader ==
    /\ prog = "none"
    /\ Fault
    /\ prog' = "serve" /\ pc' = "off"
    /\ UNCHANGED <<chainVars, static, poolVars, passVars>>

(* MUTANT: only kamis without a row are refreshed. *)
StaleMissing == seen \ DOMAIN static

(* _stale_kami_ids: seen in an action, and missing or old.                 *)
Stale == {k \in seen : k \notin DOMAIN static \/ static[k].old}

(* _pending_kami_ids of backfill_kami_build. *)
Unbuilt == {k \in DOMAIN static : ~static[k].built}

NullIn(col) == {k \in DOMAIN static : static[k][col] = None}

Candidates ==
    CASE prog = "serve" -> Stale
      [] prog = "all"   -> seen
      [] prog = "build" -> Unbuilt
      [] OTHER          -> {}

(* A script is started by hand; it ends at once if it has nothing to do.   *)
RunScript(p) ==
    /\ prog = "none"
    /\ prog' = p
    /\ left' = CASE p = "names"     -> NullIn("name")
                 [] p = "modifiers" -> IF NullIn("mods") = {} THEN {} ELSE DOMAIN static
                 [] p = "affinity"  -> NullIn("aff")
                 [] OTHER           -> {}
    /\ UNCHANGED <<chainVars, static, pc, poolVars, pending, flush, base, faults>>

(* _fetch_many begins: one future for each candidate. *)
BeginPass ==
    /\ pc = "idle" /\ Candidates # {}
    /\ pc' = "pass"
    /\ phase' = [k \in Kami |-> IF k \in Candidates THEN "queued" ELSE "none"]
    /\ left' = Candidates /\ base' = Now
    /\ UNCHANGED <<chainVars, static, prog, cache, got, pending, flush, faults>>

-----------------------------------------------------------------------------
(* The workers: KamiStaticReader.fetch *)

Running == {k \in Kami : phase[k] \in {"account", "cache", "build"}}

ToPhase(k, p) == phase' = [phase EXCEPT ![k] = p]

(* MUTANT: a kami that has a row keeps its name, traits and affinities. *)
GetKamiStored(k) ==
    /\ phase[k] = "queued" /\ Cardinality(Running) < Workers
    /\ LET core == IF k \in DOMAIN static THEN static[k].core ELSE ver[k]
       IN got' = [got EXCEPT ![k] = [Blank EXCEPT !.core = core, !.level = ver[k],
                                       !.aff = core, !.acct = Owner[k][ver[k]]]]
    /\ ToPhase(k, "account")
    /\ UNCHANGED <<chainVars, static, prog, pc, cache, passVars, faults>>

(* getKami *)
GetKami(k) ==
    /\ phase[k] = "queued" /\ Cardinality(Running) < Workers
    /\ got' = [got EXCEPT ![k] = [Blank EXCEPT !.core = ver[k], !.level = ver[k],
                                    !.aff = ver[k], !.acct = Owner[k][ver[k]]]]
    /\ ToPhase(k, "account")
    /\ UNCHANGED <<chainVars, static, prog, pc, cache, passVars, faults>>

GetKamiRaises(k) ==
    /\ phase[k] = "queued" /\ Cardinality(Running) < Workers
    /\ Fault
    /\ ToPhase(k, "failed")
    /\ UNCHANGED <<chainVars, static, prog, pc, cache, got, passVars>>

(* fetch_account: a hit costs no call, a failed call gives (None, None). *)
AccountCached(k) ==
    /\ phase[k] = "account" /\ got[k].acct \in DOMAIN cache
    /\ got' = [got EXCEPT ![k].name = cache[got[k].acct]]
    /\ ToPhase(k, "build")
    /\ UNCHANGED <<chainVars, static, prog, pc, cache, passVars, faults>>

AccountRead(k) ==
    /\ phase[k] = "account" /\ got[k].acct \notin DOMAIN cache
    /\ \/ got' = [got EXCEPT ![k].name = nameVer[got[k].acct]] /\ UNCHANGED faults
       \/ got' = got /\ Fault
    /\ ToPhase(k, "cache")
    /\ UNCHANGED <<chainVars, static, prog, pc, cache, passVars>>

AccountStored(k) ==
    /\ phase[k] = "cache"
    /\ cache' = [a \in DOMAIN cache \cup {got[k].acct} |->
                   IF a = got[k].acct THEN got[k].name ELSE cache[a]]
    /\ ToPhase(k, "build")
    /\ UNCHANGED <<chainVars, static, prog, pc, got, passVars, faults>>

(* compute_modifiers: sums over the skills and the equipment that are      *)
(* stored, zero without any.  Of the sums the model keeps the version of   *)
(* the build they are sums of.                                             *)
Modifiers(b) == IF b = None THEN 0 ELSE b

(* _fetch_build_extras, where a failed read leaves its columns NULL,       *)
(* compute_modifiers, and build_refreshed_ts in any case.                  *)
FetchBuild(k) ==
    /\ phase[k] = "build"
    /\ \E b \in {ver[k], None} :
          /\ IF b = None THEN Fault ELSE UNCHANGED faults
          /\ got' = [got EXCEPT ![k].build = b, ![k].mods = Modifiers(b), ![k].built = TRUE]
    /\ ToPhase(k, "done")
    /\ UNCHANGED <<chainVars, static, prog, pc, cache, passVars>>

Worker(k) == GetKami(k) \/ AccountCached(k) \/ AccountRead(k) \/ AccountStored(k)
               \/ FetchBuild(k)

-----------------------------------------------------------------------------
(* The thread that runs _fetch_many. *)

(* MUTANT: off by one. *)
FullAbove(batch) == Len(batch) > FlushEvery

Full(batch) == Len(batch) >= FlushEvery

(* as_completed hands over one finished future; a failed kami is counted   *)
(* and skipped, a full batch is upserted.                                  *)
Collect(k) ==
    /\ pc = "pass" /\ phase[k] \in {"done", "failed"}
    /\ ToPhase(k, "none")
    /\ LET batch == IF phase[k] = "done" THEN Append(pending, k) ELSE pending
           full  == phase[k] = "done" /\ Full(batch)
       IN /\ left' = IF phase[k] = "done" THEN left ELSE left \ {k}
          /\ pending' = IF full THEN << >> ELSE batch
          /\ flush' = IF full THEN batch ELSE flush
          /\ pc' = IF full THEN "flush" ELSE pc
    /\ UNCHANGED <<chainVars, static, prog, cache, got, base, faults>>

AllCollected == \A k \in Kami : phase[k] = "none"

(* MUTANT: the rows behind the last full batch are not upserted.           *)
LastBatchDropped ==
    /\ pc = "pass" /\ AllCollected /\ pending # << >>
    /\ pending' = << >>
    /\ UNCHANGED <<chainVars, static, prog, pc, poolVars, flush, left, base, faults>>

(* The rest is upserted when every future is done. *)
LastBatch ==
    /\ pc = "pass" /\ AllCollected /\ pending # << >>
    /\ flush' = pending /\ pending' = << >>
    /\ pc' = "flush"
    /\ UNCHANGED <<chainVars, static, prog, poolVars, left, base, faults>>

(* upsert_kami_static writes every column but first_seen_ts; _apply_batch  *)
(* of backfill_kami_build only the build columns of a row that is there.   *)
Upserted(t, k) == [x \in DOMAIN t \cup {k} |-> IF x = k THEN got[k] ELSE t[x]]

BuildApplied(t, k) ==
    [t EXCEPT ![k].level = got[k].level, ![k].build = got[k].build,
              ![k].built = TRUE, ![k].old = FALSE]

(* One row of the executemany; each row commits by itself. *)
FlushRow ==
    /\ pc = "flush" /\ flush # << >>
    /\ LET k == Head(flush)
       IN /\ static' = IF prog = "build" THEN BuildApplied(static, k) ELSE Upserted(static, k)
          /\ left' = left \ {k}
          /\ got' = [got EXCEPT ![k] = Blank]
    /\ flush' = Tail(flush)
    /\ UNCHANGED <<chainVars, prog, pc, cache, phase, pending, base, faults>>

Flushed ==
    /\ pc = "flush" /\ flush = << >>
    /\ pc' = "pass"
    /\ UNCHANGED <<chainVars, static, prog, poolVars, passVars, faults>>

(* A statement raises: the pool's exit waits for its futures, the rows     *)
(* collected are lost, and the sweep is logged as failed.                  *)
FlushRaises ==
    /\ pc = "flush" /\ flush # << >>
    /\ Fault
    /\ pc' = "drain" /\ flush' = << >> /\ pending' = << >>
    /\ UNCHANGED <<chainVars, static, prog, poolVars, left, base>>

(* A pass is over; a script ends with it, the service's thread sleeps with *)
(* its reader.                                                             *)
PassOver ==
    /\ pc' = "idle"
    /\ phase' = [k \in Kami |-> "none"] /\ got' = [k \in Kami |-> Blank]
    /\ pending' = << >> /\ flush' = << >> /\ left' = {} /\ base' = NoBase

MayKeepReader ==
    IF prog = "serve" THEN UNCHANGED <<prog, cache>> ELSE prog' = "none" /\ cache' = << >>

Drained ==
    /\ pc = "drain" /\ \A k \in Kami : phase[k] \in {"none", "done", "failed"}
    /\ PassOver /\ MayKeepReader
    /\ UNCHANGED <<chainVars, static, faults>>

EndPass ==
    /\ pc = "pass" /\ AllCollected /\ pending = << >>
    /\ PassOver /\ MayKeepReader
    /\ UNCHANGED <<chainVars, static, faults>>

-----------------------------------------------------------------------------
(* The scripts that need no pool. *)

(* backfill_account_names: the rows without a name get the name their      *)
(* account has now, in one transaction for a batch of accounts; a failed   *)
(* lookup writes NULL again.  Every row touched counts as refreshed.       *)
NameAccount(a) ==
    LET rows == {k \in left : static[k].acct = a}
    IN /\ prog = "names" /\ rows # {}
       /\ \E name \in {nameVer[a], None} :
             /\ IF name = None THEN Fault ELSE UNCHANGED faults
             /\ static' = [k \in DOMAIN static |->
                   IF k \in rows THEN [static[k] EXCEPT !.name = name, !.old = FALSE]
                   ELSE static[k]]
       /\ left' = left \ rows
       /\ UNCHANGED <<chainVars, prog, pc, poolVars, pending, flush, base>>

(* MUTANT: backfill_kami_modifiers leaves build_refreshed_ts alone. *)
ModifiersUnstamped(k) ==
    /\ prog = "modifiers" /\ k \in left
    /\ static' = [static EXCEPT ![k].mods = Modifiers(static[k].build), ![k].old = FALSE]
    /\ left' = left \ {k}
    /\ UNCHANGED <<chainVars, prog, pc, poolVars, pending, flush, base, faults>>

(* backfill_kami_modifiers: the modifiers are computed from the stored     *)
(* build columns, and build_refreshed_ts is set where it was NULL.         *)
ModifiersOf(k) ==
    /\ prog = "modifiers" /\ k \in left
    /\ static' = [static EXCEPT ![k].mods = Modifiers(static[k].build),
                                ![k].built = TRUE, ![k].old = FALSE]
    /\ left' = left \ {k}
    /\ UNCHANGED <<chainVars, prog, pc, poolVars, pending, flush, base, faults>>

(* backfill_kami_affinity: one UPDATE that splits the stored affinities.   *)
SplitAffinities ==
    /\ prog = "affinity" /\ left # {}
    /\ static' = [k \in DOMAIN static |->
          IF k \in left THEN [static[k] EXCEPT !.aff = static[k].core, !.old = FALSE]
          ELSE static[k]]
    /\ left' = {}
    /\ UNCHANGED <<chainVars, prog, pc, poolVars, pending, flush, base, faults>>

ScriptStep ==
    \/ \E a \in Account : NameAccount(a)
    \/ \E k \in Kami : ModifiersOf(k)
    \/ SplitAffinities

(* The program ends: a script that is done, or any program killed.         *)
Stop == prog' = "none" /\ cache' = << >> /\ PassOver

ScriptEnds ==
    /\ prog \in Scripts /\ pc = "idle" /\ left = {} /\ Candidates = {}
    /\ Stop
    /\ UNCHANGED <<chainVars, static, faults>>

Kill ==
    /\ prog # "none"
    /\ Fault
    /\ Stop
    /\ UNCHANGED <<chainVars, static>>

-----------------------------------------------------------------------------
(* The environment. *)

KamiChanges ==
    /\ \E k \in Kami : ver[k] < LastVer[k] /\ ver' = [ver EXCEPT ![k] = @ + 1]
    /\ UNCHANGED <<nameVer, seen, static, prog, pc, poolVars, passVars, faults>>

AccountRenamed ==
    /\ \E a \in Account : nameVer[a] < LastName[a] /\ nameVer' = [nameVer EXCEPT ![a] = @ + 1]
    /\ UNCHANGED <<ver, seen, static, prog, pc, poolVars, passVars, faults>>

(* The poller stores an action of a kami.  Only a pass that begins reads   *)
(* seen: what is stored during a pass is put after it.                     *)
KamiSeen ==
    /\ prog = "serve" /\ pc \in {"idle", "off"}
    /\ \E k \in Kami \ seen : seen' = seen \cup {k}
    /\ UNCHANGED <<ver, nameVer, static, prog, pc, poolVars, passVars, faults>>

(* A row becomes older than KAMI_STATIC_MAX_AGE_HOURS, which only the      *)
(* service's sweep looks at.                                               *)
Ages(k) ==
    /\ prog = "serve" /\ pc # "off"
    /\ k \in DOMAIN static /\ ~static[k].old
    /\ static' = [static EXCEPT ![k].old = TRUE]
    /\ UNCHANGED <<chainVars, prog, pc, poolVars, passVars, faults>>

PassStep ==
    \/ BeginPass
    \/ \E k \in Kami : Worker(k)
    \/ \E k \in Kami : Collect(k)
    \/ LastBatch \/ FlushRow \/ Flushed \/ Drained \/ EndPass

Next ==
    \/ PassStep \/ Boot \/ ScriptStep \/ ScriptEnds
    \/ BootWithoutReader \/ Kill \/ FlushRaises
    \/ \E p \in Scripts : RunScript(p)
    \/ \E k \in Kami : GetKamiRaises(k)
    \/ KamiChanges \/ AccountRenamed \/ KamiSeen
    \/ \E k \in Kami : Ages(k)

Spec == Init /\ [][Next]_vars

(* The sweep thread and its workers run, their calls time out rather than  *)
(* hang; the service is started again after a script or a kill; a day ends.*)
FairSpec ==
    /\ Spec
    /\ WF_vars(PassStep) /\ SF_vars(Boot) /\ WF_vars(ScriptStep) /\ WF_vars(ScriptEnds)
    /\ \A k \in Kami : WF_vars(Ages(k))
-----------------------------------------------------------------------------
TypeOK ==
    /\ ver \in [Kami -> Version] /\ nameVer \in [Account -> Version] /\ seen \subseteq Kami
    /\ DOMAIN static \subseteq Kami /\ \A k \in DOMAIN static : static[k] \in Columns
    /\ prog \in Program /\ pc \in PC
    /\ DOMAIN cache \subseteq Account /\ \A a \in DOMAIN cache : cache[a] \in Opt(Version)
    /\ phase \in [Kami -> Phase] /\ got \in [Kami -> Columns]
    /\ pending \in Seq(Kami) /\ flush \in Seq(Kami) /\ Len(pending) < FlushEvery
    /\ left \subseteq Kami /\ base \in Versions
    /\ faults \in 0 .. MaxFaults

(* No result of the pool is lost (_fetch_many, kami_static.py:609-639): a  *)
(* kami of the pass that is neither written nor failed is with a worker,   *)
(* in the batch, or in the upsert under way -- each exactly once.          *)
NoResultLost ==
    /\ pc \in {"pass", "flush"} =>
         left = {k \in Kami : phase[k] # "none"} \cup ToSet(pending) \cup ToSet(flush)
    /\ IsInjective(pending \o flush)
    /\ \A k \in ToSet(pending \o flush) : phase[k] = "none"

(* Columns that are computed from others are those of the row as it is,    *)
(* whoever wrote either: the sweep, backfill_kami_build, _kami_modifiers   *)
(* or _kami_affinity in any order, with kills between rows.  It rests on   *)
(* the modifiers script stamping build_refreshed_ts, and on every writer   *)
(* of the affinities writing the two columns split from them.              *)
DerivedColumnsMatch ==
    \A k \in DOMAIN static :
        /\ static[k].mods # None => static[k].mods = Modifiers(static[k].build)
        /\ static[k].aff \in {None, static[k].core}

(* A sweep writes what it read: every column it stores was read after the  *)
(* pass began, the build columns not before the others -- never the result *)
(* of a pass that failed (account names apart, see AccountNamesFresh).     *)
RowsAreFresh ==
    [][\A k \in left \ left' :
         pc = "flush" /\ prog \in {"serve", "all"} /\ pc' = "flush" =>
            /\ static'[k].core >= base.ver[k] /\ static'[k].level = static'[k].core
            /\ static'[k].build # None => static'[k].build >= static'[k].core]_vars

(* Every kami seen in an action is refreshed again and again: once chain   *)
(* and faults settle, its row shows its current state for good, unless the *)
(* service has been started without its sweep thread (serve.py:369-377).   *)
EveryKamiRefreshed ==
    <>[](pc = "off" \/ \A k \in seen :
            /\ k \in DOMAIN static
            /\ static[k].core = ver[k] /\ static[k].build = ver[k])

(* "refreshed on the same cadence as the rest of kami_static" (README.md   *)
(* 62-64): an account name a pass stores is not older than the pass.       *)
AccountNamesFresh ==
    [][\A k \in left \ left' :
         /\ pc = "flush" /\ prog \in {"serve", "all"} /\ pc' = "flush"
         /\ static'[k].name # None
         => static'[k].name >= base.name[static'[k].acct]]_vars
=============================================================================

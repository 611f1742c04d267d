------------------------------ MODULE Registry ------------------------------
(***************************************************************************)
(* The system registry (ingester/system_registry.py): which address is     *)
(* which Kamigotchi system, in the memory of the process and in the table  *)
(* system_address_snapshot.  Systems are redeployed on chain at any time;  *)
(* the service resolves them at the "latest" tag when it boots and every   *)
(* REGISTRY_REPROBE_INTERVAL_S, the backfill at several past heights, and  *)
(* both join what earlier runs stored.  A transaction to an address the    *)
(* registry does not hold is skipped for good; one to a system the decoder *)
(* did not know when it was built is stored without actions.               *)
(***************************************************************************)
EXTENDS Integers, Sequences

CONSTANTS
    System,       \* the systems of the world contract
    SystemOrder,  \* the keys of SYSTEM_ID_TO_ABI with an ABI file, in order
    Deployments,  \* the addresses a system may be deployed at
    None,         \* Python None, SQL NULL, no deployment
    Before,       \* the length of the chain when the project is first run
    MaxHeight,    \* bound: the last block of the chain
    Probes,       \* --registry-probes of the backfill
    MaxFaults     \* bound: calls that raise, kills, and runs of the backfill

Address == UNION {Deployments[s] : s \in System}
Height  == 1 .. MaxHeight

ASSUME RegistryAssumption ==
    /\ Before \in Nat \ {0} /\ MaxHeight \in Nat /\ Before <= MaxHeight
    /\ Probes \in Nat \ {0}
    /\ MaxFaults \in Nat
    /\ None \notin Nat /\ None \notin Address /\ \A S \in SUBSET System : S # None
    /\ SystemOrder \in Seq(System)

(* getEntitiesWithValue is the inverse of a map from addresses to systems: *)
(* an address is of one system, and no contract is registered again as     *)
(* another one (resolve_systems logs a collision and keeps the first).     *)
ASSUME OneSystemPerAddress ==
    \A s, t \in System : s # t => Deployments[s] \cap Deployments[t] = {}

VARIABLES
    chain,     \* chain[h][s]: the address of system s after block h
    reg,       \* _by_address of the running process
    snap,      \* system_address_snapshot: <<sid, addr>> -> its seen range
    pc,        \* where the process is, see RegistryPC
    job,       \* "service" or "backfill": the program that runs
    heights,   \* the probe heights left; None is the latest tag
    todo,      \* the systems resolve_systems has yet to ask for
    fresh,     \* by_address of the resolve_systems call in progress
    rows,      \* the addresses upsert_system_address_snapshot has yet to write
    index,     \* the systems Decoder._index was built for; None before
    window,    \* the first and last block of the backfill's range
    next,      \* the next block to scan
    stored,    \* the addresses with a raw_tx row in the block scanned last
    decoded,   \* those of them with kami_action rows
    failed,    \* history: an upsert of this process raised
    atBoot,    \* history: the systems with a snapshot row at boot
    faults     \* faults so far

probeVars == <<heights, todo, fresh>>
scanVars  == <<next, stored, decoded>>
histVars  == <<failed, atBoot, faults>>
vars == <<chain, reg, snap, pc, job, index, window, rows, probeVars, scanVars, histVars>>

(* "resolve": inside resolve_systems;                                      *)
(* "prior": before the snapshot is joined; "upsert": inside executemany.   *)
RegistryPC == {"down", "resolve", "prior", "upsert", "loop"}

Seen  == {None} \cup Height
Entry == [sid : System, first : Seen, last : Seen]
Row   == [first : Seen, last : Seen]

-----------------------------------------------------------------------------
(* SystemRegistry *)

(* MUTANT: an unknown height counts as 0. *)
MinOptZero(a, b) == IF a = None \/ b = None THEN 0 ELSE IF a <= b THEN a ELSE b

MinOpt(a, b) == IF a = None THEN b ELSE IF b = None \/ a <= b THEN a ELSE b
(* MUTANT: the lesser of two heights is kept. *)
MaxOptLesser(a, b) == IF a = None THEN b ELSE IF b = None \/ a <= b THEN a ELSE b

MaxOpt(a, b) == IF a = None THEN b ELSE IF b = None \/ a >= b THEN a ELSE b

Empty == [a \in {} |-> None]

Known(r)     == DOMAIN r
SystemIds(r) == {r[a].sid : a \in DOMAIN r}

Widen(e, f) == [e EXCEPT !.first = MinOpt(@, f.first), !.last = MaxOpt(@, f.last)]

(* MUTANT: a known system's entry is widened, whatever the address.        *)
ExtendBySystem(r, other) ==
    LET same(a) == {b \in Known(other) : other[b].sid = r[a].sid}
    IN [a \in Known(r) \cup {b \in Known(other) : other[b].sid \notin SystemIds(r)} |->
          IF a \notin Known(r) THEN other[a]
          ELSE IF same(a) = {} THEN r[a] ELSE Widen(r[a], other[CHOOSE b \in same(a) : TRUE])]

(* extend: an address held keeps its system and has its range widened, a   *)
(* new one is added.                                                       *)
Extend(r, other) ==
    [a \in Known(r) \cup Known(other) |->
        IF a \notin Known(r) THEN other[a]
        ELSE IF a \notin Known(other) THEN r[a] ELSE Widen(r[a], other[a])]

(* from_snapshot_rows: of two rows of one address, the one the SELECT gave *)
(* last wins.                                                              *)
FromRows ==
    LET held == {k[2] : k \in DOMAIN snap}
        last == {p \in [held -> System] : \A a \in held : <<p[a], a>> \in DOMAIN snap}
    IN {[a \in held |-> [sid   |-> p[a],
                        first |-> snap[<<p[a], a>>].first,
                        last  |-> snap[<<p[a], a>>].last]] : p \in last}

(* MUTANT: ON CONFLICT DO NOTHING.                                         *)
UpsertRowIgnores(t, a, e) ==
    LET k == <<e.sid, a>>
    IN [x \in DOMAIN t \cup {k} |->
          IF x \in DOMAIN t THEN t[x] ELSE [first |-> e.first, last |-> e.last]]

(* One row of upsert_system_address_snapshot: insert, or widen the range.  *)
UpsertRow(t, a, e) ==
    LET k   == <<e.sid, a>>
        new == [first |-> e.first, last |-> e.last]
    IN [x \in DOMAIN t \cup {k} |->
          IF x # k THEN t[x] ELSE IF k \notin DOMAIN t THEN new ELSE Widen(t[k], new)]

(* evenly_spaced_probes; Python's round takes a half to the even side.     *)
RoundHalfEven(p, q) ==
    LET d == p \div q
        r == 2 * (p % q)
    IN IF r > q \/ (r = q /\ d % 2 = 1) THEN d + 1 ELSE d

(* The i-th of k heights from start to head, counted from 0.               *)
Spaced(start, head, k, i) ==
    IF i = 0 THEN start ELSE IF i = k - 1 THEN head
    ELSE RoundHalfEven(start * (k - 1) + i * (head - start), k - 1)

(* MUTANT: a range shorter than the number of probes is probed at its head *)
EvenlySpacedShort(start, head, k) ==
    IF k < 2 \/ head - start < k THEN {head} ELSE {Spaced(start, head, k, i) : i \in 0 .. k - 1}

EvenlySpaced(start, head, k) ==
    IF k < 2 \/ head <= start THEN {head} ELSE {Spaced(start, head, k, i) : i \in 0 .. k - 1}

(* sorted(set(block_heights)): the next one.                               *)
Lowest(hs) == CHOOSE h \in hs : \A g \in hs : g = h \/ h < g

-----------------------------------------------------------------------------
head == Len(chain)

Deployed(h) == {chain[h][s] : s \in System} \ {None}

Fault == faults < MaxFaults /\ faults' = faults + 1

Init ==
    /\ chain \in [1 .. Before -> [System -> Address \cup {None}]]
    /\ \A h \in 1 .. Before, s \in System : chain[h][s] \in Deployments[s] \cup {None}
    /\ reg = Empty /\ snap = Empty
    /\ pc = "down" /\ job = "service"
    /\ heights = {} /\ todo = << >> /\ fresh = Empty /\ rows = {}
    /\ index = None /\ window = <<1, 1>>
    /\ next = Before /\ stored = {} /\ decoded = {}
    /\ failed = FALSE /\ atBoot = {} /\ faults = 0

(* A program starts: the service resolves at latest, the backfill at       *)
(* heights across its range (or at latest, if that is a single block).     *)
Start(j, hs) ==
    /\ pc = "down"
    /\ pc' = "resolve" /\ job' = j
    /\ heights' = hs /\ todo' = SystemOrder /\ fresh' = Empty
    /\ reg' = Empty /\ index' = None /\ rows' = {}
    /\ failed' = FALSE /\ atBoot' = {k[1] : k \in DOMAIN snap}

StartService ==
    /\ Start("service", {None})
    /\ UNCHANGED <<chain, snap, window, scanVars, faults>>

StartBackfill ==
    \E start \in 1 .. head :
        /\ Start("backfill", IF Probes > 1 /\ head > start
                             THEN EvenlySpaced(start, head, Probes) ELSE {None})
        /\ window' = <<start, head>>
        /\ next' = start
        /\ Fault
        /\ UNCHANGED <<chain, snap, stored, decoded>>

(* One getEntitiesWithValue call.  At the latest tag the chain may move    *)
(* between two of them.                                                    *)
ResolveSystem ==
    /\ pc = "resolve" /\ todo # << >>
    /\ LET s == Head(todo)
           h == Lowest(heights)
           a == chain[IF h = None THEN head ELSE h][s]
       IN fresh' = IF a = None \/ a \in Known(fresh) THEN fresh
                   ELSE [b \in Known(fresh) \cup {a} |->
                           IF b = a THEN [sid |-> s, first |-> h, last |-> h] ELSE fresh[b]]
    /\ todo' = Tail(todo)
    /\ UNCHANGED <<chain, reg, snap, pc, job, heights, index, window, rows, scanVars, histVars>>

(* resolve_systems returned: the process extends its registry, and goes on *)
(* with the next height, the prior snapshot, or the rows to store -- after *)
(* a re-probe only if an address is new.                                   *)
Resolved ==
    /\ pc = "resolve" /\ todo = << >>
    /\ reg' = Extend(reg, fresh)
    /\ heights' = heights \ {Lowest(heights)}
    /\ IF heights' # {} THEN pc' = "resolve" /\ todo' = SystemOrder /\ rows' = rows
       ELSE IF index = None THEN pc' = "prior" /\ todo' = << >> /\ rows' = rows
       ELSE /\ todo' = << >>
            /\ rows' = IF Known(fresh) \subseteq Known(reg) THEN {} ELSE Known(reg')
            /\ pc' = "upsert"
    /\ fresh' = Empty
    /\ UNCHANGED <<chain, snap, job, index, window, scanVars, histVars>>

(* MUTANT: the stored snapshot is not joined at boot.                      *)
JoinPriorNot ==
    /\ pc = "prior"
    /\ reg' = reg /\ rows' = Known(reg) /\ pc' = "upsert"
    /\ UNCHANGED <<chain, snap, job, index, window, probeVars, scanVars, histVars>>

(* The snapshot stored by earlier runs is joined and everything known is   *)
(* written back row by row, here in any order.                             *)
JoinPrior ==
    /\ pc = "prior"
    /\ \E prior \in FromRows : reg' = Extend(reg, prior)
    /\ rows' = Known(reg')
    /\ pc' = "upsert"
    /\ UNCHANGED <<chain, snap, job, index, window, probeVars, scanVars, histVars>>

UpsertSnapshotRow ==
    /\ pc = "upsert"
    /\ \E a \in rows : snap' = UpsertRow(snap, a, reg[a]) /\ rows' = rows \ {a}
    /\ UNCHANGED <<chain, reg, pc, job, index, window, probeVars, scanVars, histVars>>

(* The upsert is done; at boot the decoder's selector index is built from  *)
(* the systems known now, and never again.                                 *)
Upserted ==
    /\ pc = "upsert" /\ rows = {}
    /\ index' = IF index = None THEN SystemIds(reg) ELSE index
    /\ pc' = "loop"
    /\ UNCHANGED <<chain, reg, snap, job, window, rows, probeVars, scanVars, histVars>>

(* A call of a re-probe raises: it is caught and logged, and what extend   *)
(* took stays.                                                             *)
CallPending ==
    \/ pc = "resolve" /\ todo # << >>
    \/ pc = "upsert" /\ rows # {}

ReprobeRaises ==
    /\ CallPending /\ index # None
    /\ Fault
    /\ pc' = "loop"
    /\ failed' = (failed \/ pc = "upsert")
    /\ heights' = {} /\ todo' = << >> /\ fresh' = Empty /\ rows' = {}
    /\ UNCHANGED <<chain, reg, snap, job, index, window, scanVars, atBoot>>

(* Every REGISTRY_REPROBE_INTERVAL_S, between two ranges of the poller.    *)
Reprobe ==
    /\ pc = "loop" /\ job = "service"
    /\ pc' = "resolve"
    /\ heights' = {None} /\ todo' = SystemOrder /\ fresh' = Empty
    /\ UNCHANGED <<chain, reg, snap, job, index, window, rows, scanVars, histVars>>

(* One block of process_block_range: every transaction to a known address  *)
(* is stored, and decoded if the decoder has an index for its system.      *)
ScanBlock ==
    /\ pc = "loop"
    /\ next <= IF job = "service" THEN head ELSE window[2]
    /\ LET hit == Deployed(next) \cap Known(reg)
       IN /\ stored' = hit
          /\ decoded' = {a \in hit : reg[a].sid \in index}
    /\ next' = next + 1
    /\ UNCHANGED <<chain, reg, snap, pc, job, index, window, rows, probeVars, histVars>>

Exit ==
    /\ pc' = "down" /\ job' = "service" /\ window' = <<1, 1>>
    /\ reg' = Empty /\ index' = None /\ rows' = {}
    /\ heights' = {} /\ todo' = << >> /\ fresh' = Empty
    /\ failed' = FALSE /\ atBoot' = {}

BackfillEnds ==
    /\ pc = "loop" /\ job = "backfill" /\ next > window[2]
    /\ Exit
    /\ UNCHANGED <<chain, snap, scanVars, faults>>

(* The process is killed, or a call raises at boot, which ends main.       *)
Crash ==
    /\ pc # "down"
    /\ Fault
    /\ Exit
    /\ UNCHANGED <<chain, snap, scanVars>>

(* The chain grows; a block may deploy one system, for the first time or   *)
(* at another address.                                                     *)
NewBlock ==
    /\ head < MaxHeight
    /\ \E s \in System :
          \E a \in Deployments[s] : chain' = Append(chain, [chain[head] EXCEPT ![s] = a])
    /\ UNCHANGED <<reg, snap, pc, job, index, window, rows, probeVars, scanVars, histVars>>

RegistryStep ==
    \/ StartService
    \/ ResolveSystem \/ Resolved \/ JoinPrior \/ UpsertSnapshotRow \/ Upserted
    \/ BackfillEnds

Next ==
    \/ RegistryStep \/ Reprobe \/ ScanBlock
    \/ StartBackfill \/ ReprobeRaises \/ Crash \/ NewBlock

Spec == Init /\ [][Next]_vars

(* The process runs and is restarted, its calls time out rather than hang, *)
(* the poller goes on and re-probes at its interval.                       *)
FairSpec == Spec /\ WF_vars(RegistryStep) /\ WF_vars(ScanBlock) /\ WF_vars(Reprobe)

-----------------------------------------------------------------------------
TypeOK ==
    /\ chain \in Seq([System -> Address \cup {None}]) /\ head \in Height
    /\ Known(reg) \subseteq Address /\ \A a \in Known(reg) : reg[a] \in Entry
    /\ Known(fresh) \subseteq Address /\ \A a \in Known(fresh) : fresh[a] \in Entry
    /\ DOMAIN snap \subseteq System \X Address /\ \A k \in DOMAIN snap : snap[k] \in Row
    /\ rows \subseteq Known(reg)
    /\ pc \in RegistryPC /\ job \in {"service", "backfill"}
    /\ heights \subseteq Seen /\ todo \in Seq(System)
    /\ index \in {None} \cup SUBSET System
    /\ window \in Height \X Height
    /\ next \in 1 .. MaxHeight + 1
    /\ stored \subseteq Address /\ decoded \subseteq stored
    /\ failed \in BOOLEAN /\ atBoot \subseteq System /\ faults \in 0 .. MaxFaults

(* A seen range is true (SystemRegistry.extend, the snapshot's LEAST and   *)
(* GREATEST): however often ranges were widened, stored, loaded and merged *)
(* with unranged live reads, the system was deployed at that address at    *)
(* both ends of it.                                                        *)
Truthful(s, a, e) ==
    \/ e.first = None /\ e.last = None
    \/ /\ e.first \in 1 .. head /\ e.last \in e.first .. head
       /\ chain[e.first][s] = a /\ chain[e.last][s] = a

SeenIsTrue ==
    /\ \A a \in Known(reg) : Truthful(reg[a].sid, a, reg[a])
    /\ \A k \in DOMAIN snap : Truthful(k[1], k[2], snap[k])

(* The registry in memory is the one on disk (serve.py:136-142, 327-334):  *)
(* while the process runs and none of its upserts failed, every address it *)
(* matches is stored with the same range, although a re-probe stores only  *)
(* when an address is new.                                                 *)
MemoryIsStored ==
    pc = "loop" /\ ~failed =>
        \A a \in Known(reg) :
            LET k == <<reg[a].sid, a>>
            IN k \in DOMAIN snap /\ snap[k] = [first |-> reg[a].first, last |-> reg[a].last]

(* The probes of a backfill are dense enough: a deployment that lasted as  *)
(* many blocks of the range as two neighbouring probes are apart is in the *)
(* registry when the scan begins (backfill.py:163-191).                    *)
Spacing == (window[2] - window[1] + Probes - 2) \div (Probes - 1)

LongLivedObserved ==
    pc = "loop" /\ job = "backfill" /\ window[1] < window[2] /\ Probes > 1 =>
        \A i \in DOMAIN SystemOrder, a \in Address, lo \in window[1] .. window[2] :
            /\ lo + Spacing - 1 <= window[2]
            /\ \A h \in lo .. lo + Spacing - 1 : chain[h][SystemOrder[i]] = a
            => a \in Known(reg)

(* What was once stored is used from then on: when a block is scanned, by  *)
(* whichever program and after whatever restarts, the transactions of      *)
(* every deployment in the snapshot are stored, and those of a system that *)
(* was in the snapshot when the process started are decoded.               *)
ObservedIsIngested ==
    [][pc = "loop" /\ next' = next + 1 =>
         \A k \in DOMAIN snap : k[2] \in Deployed(next) =>
            /\ k[2] \in stored'
            /\ k[1] \in atBoot => k[2] \in decoded']_vars

(* The snapshot is append-only: no deployment is forgotten and no range    *)
(* shrinks, through failed upserts and half-written batches.               *)
SnapshotGrows ==
    [][\A k \in DOMAIN snap :
         /\ k \in DOMAIN snap'
         /\ snap[k].first # None => snap'[k].first # None /\ snap'[k].first <= snap[k].first
         /\ snap[k].last # None => snap'[k].last # None /\ snap'[k].last >= snap[k].last]_vars

(* A redeployment is noticed: once the chain settles, the running service  *)
(* comes to know every mapped system's address for good.                   *)
RedeploymentNoticed ==
    <>[](\A i \in DOMAIN SystemOrder :
           chain[head][SystemOrder[i]] \in Known(reg) \cup {None})
=============================================================================

------------------------------- MODULE Query -------------------------------
(***************************************************************************)
(* The query layer that is hosted in the service's process: requests on    *)
(* threads of their own (ingester/api.py, ratelimit.py), /sql with its     *)
(* watcher threads (ingester/sql.py), and beside them the poller's writes  *)
(* and the prune transaction (ingester/storage.py), all on one connection  *)
(* under one lock.  A request is for one kind of route; what it reads is   *)
(* left out.                                                               *)
(***************************************************************************)
EXTENDS RateLimit, Connection

CONSTANTS
    Request,
    Kinds,       \* Kinds[r]: the routes request r may be for
    GoodToken,   \* the key of the token that require_token accepts
    HealthReads, \* bound: statements of /health, six in the code
    MaxLate,     \* bound: watchers that outlive the 0.1 s of their join
    MaxFaults    \* bound: kills and shutdowns

Route == {"sql", "backup", "health", "summary", "rows"}

ASSUME QueryAssumption ==
    /\ IsFiniteSet(Request) /\ Kinds \in [Request -> SUBSET Route]
    /\ GoodToken \in Key
    /\ Request \cap {"poller", "prune", NoThread} = {}
    /\ NoThread \notin {"poller", "prune"}
    /\ HealthReads \in Nat \ {0} /\ MaxLate \in Nat /\ MaxFaults \in Nat

VARIABLES
    kind,      \* the route of each request, "none" before it arrives
    at,        \* where each thread is, see Stage
    todo,      \* statements a request has still to run
    watcher,   \* the watcher thread of each /sql request, see WatcherStage
    answer,    \* the status of each answer, 0 before, -1: connection lost
    server,    \* "up"; "stopping": a signal came; "closed": storage.close()
    stray,     \* history: a watcher has interrupted another's statement
    late,      \* watchers that outlived their join
    faults

threadVars == <<kind, at, todo, watcher, answer>>
lifeVars   == <<server, stray, late, faults>>
vars == <<limitVars, connVars, threadVars, lifeVars>>

Thread == Request \cup {"poller", "prune"}
Stage  == {"new", "lock", "exec", "fetch", "join", "done",
           "raw", "act", "cursor", "idle", "begin", "delAct", "delRaw", "commit", "rollback"}

(* "late": wait() returned False, the interrupt is to come; "fired": it    *)
(* came; "woken": the event was set in time.                               *)
WatcherStage == {"none", "waiting", "late", "fired", "woken"}

Init ==
    /\ RateLimitInit /\ ConnectionInit
    /\ kind = [r \in Request |-> "none"]
    /\ at = [t \in Thread |-> CASE t = "poller" -> "raw" [] t = "prune" -> "idle" [] OTHER -> "new"]
    /\ todo = [r \in Request |-> 0]
    /\ watcher = [r \in Request |-> "none"]
    /\ answer = [r \in Request |-> 0]
    /\ server = "up" /\ stray = FALSE /\ late = 0 /\ faults = 0

Go(t, stage) == at' = [at EXCEPT ![t] = stage]
Answers(r, status) == answer' = [answer EXCEPT ![r] = status]

-----------------------------------------------------------------------------
(* A request arrives *)

(* The storage calls of a route, each of which takes the lock for itself.  *)
Statements(route) ==
    CASE route = "health" -> HealthReads [] route = "summary" -> 2 [] OTHER -> 1

Answered(r, route, status) ==
    /\ kind' = [kind EXCEPT ![r] = route]
    /\ Go(r, "done") /\ Answers(r, status)
    /\ UNCHANGED <<todo, watcher>>

Accepted(r, route) ==
    /\ kind' = [kind EXCEPT ![r] = route]
    /\ Go(r, "lock")
    /\ todo' = [todo EXCEPT ![r] = Statements(route)]
    /\ UNCHANGED <<watcher, answer>>

(* /health passes the limiter and needs no token. *)
HealthArrives(r) ==
    /\ server = "up" /\ at[r] = "new" /\ "health" \in Kinds[r]
    /\ Accepted(r, "health")
    /\ UNCHANGED <<limitVars, connVars, lifeVars>>

(* Without a bearer token: not counted, and turned away by require_token.  *)
ArrivesWithoutToken(r, route) ==
    /\ server = "up" /\ at[r] = "new" /\ route \in Kinds[r] \ {"health"}
    /\ Answered(r, route, 401)
    /\ UNCHANGED <<limitVars, connVars, lifeVars>>

ArrivesOverLimit(r, route, k) ==
    /\ server = "up" /\ at[r] = "new" /\ route \in Kinds[r] \ {"health"}
    /\ Reject(k)
    /\ Answered(r, route, 429)
    /\ UNCHANGED <<connVars, lifeVars>>

(* A request that is let through: a wrong token is counted and then turned *)
(* away; 400: validate_readonly_sql, or the backup's destination; 403: the *)
(* backup's caller is not this host.                                       *)
Refusals(route, k) ==
    IF k # GoodToken THEN {401}
    ELSE CASE route = "sql" -> {400} [] route = "backup" -> {400, 403} [] OTHER -> {}

Arrives(r, route, k) ==
    /\ server = "up" /\ at[r] = "new" /\ route \in Kinds[r] \ {"health"}
    /\ Admit(k)
    /\ \/ k = GoodToken /\ Accepted(r, route)
       \/ \E status \in Refusals(route, k) : Answered(r, route, status)
    /\ UNCHANGED <<connVars, lifeVars>>

-----------------------------------------------------------------------------
(* Requests on the connection *)

(* run_readonly takes the lock, starts the watcher and executes.  The      *)
(* other routes go through Storage's methods.                              *)
Begin(r) ==
    /\ server # "closed" /\ at[r] = "lock"
    /\ LockAndExecute(r)
    /\ Go(r, "exec")
    /\ watcher' = IF kind[r] = "sql" THEN [watcher EXCEPT ![r] = "waiting"] ELSE watcher
    /\ UNCHANGED <<limitVars, kind, todo, answer, lifeVars>>

(* interrupted.wait(timeout_s) runs out *)
Expire(r) ==
    /\ watcher[r] = "waiting" /\ at[r] \in {"exec", "fetch"}
    /\ watcher' = [watcher EXCEPT ![r] = "late"]
    /\ UNCHANGED <<limitVars, connVars, kind, at, todo, answer, lifeVars>>

(* MUTANT: the watcher interrupts when the event was set.                  *)
WatcherInterruptsWhenSet(r) ==
    /\ watcher[r] = "late" /\ at[r] \notin {"exec", "fetch"}
    /\ watcher' = [watcher EXCEPT ![r] = "fired"]
    /\ InterruptConnection
    /\ UNCHANGED <<limitVars, kind, at, todo, answer, lifeVars>>

(* con.interrupt(): it hits the statement that runs now, whose ever it is. *)
WatcherInterrupts(r) ==
    /\ watcher[r] = "late"
    /\ watcher' = [watcher EXCEPT ![r] = "fired"]
    /\ InterruptConnection
    /\ UNCHANGED <<limitVars, kind, at, todo, answer, lifeVars>>

(* The event is set in time. *)
WatcherWakes(r) ==
    /\ watcher[r] = "waiting" /\ at[r] \in {"join", "done"}
    /\ watcher' = [watcher EXCEPT ![r] = "woken"]
    /\ UNCHANGED <<limitVars, connVars, kind, at, todo, answer, lifeVars>>

(* A statement that was interrupted by a watcher of another request. *)
Strayed(t) ==
    stray' = (stray \/ ~(t \in Request /\ watcher[t] = "fired"))

(* execute() returns; the flag stays for fetchmany. *)
Executed(r) ==
    /\ lock = r /\ at[r] = "exec" /\ kind[r] = "sql"
    /\ Go(r, "fetch")
    /\ UNCHANGED <<limitVars, connVars, kind, todo, watcher, answer, lifeVars>>

SqlReturns(r) ==
    /\ Go(r, "join")
    /\ running' = FALSE /\ flag' = FALSE
    /\ UNCHANGED <<limitVars, lock, open, db, seen, kind, todo, watcher>>

Fetched(r) ==
    /\ lock = r /\ at[r] = "fetch"
    /\ SqlReturns(r) /\ Answers(r, 200)
    /\ UNCHANGED lifeVars

(* execute() or fetchmany() raises of itself: 504 when the time is over.   *)
SqlFails(r) ==
    /\ lock = r /\ at[r] \in {"exec", "fetch"} /\ kind[r] = "sql"
    /\ SqlReturns(r)
    /\ Answers(r, IF watcher[r] = "waiting" THEN 400 ELSE 504)
    /\ UNCHANGED lifeVars

SqlInterrupted(r) ==
    /\ lock = r /\ at[r] \in {"exec", "fetch"} /\ kind[r] = "sql" /\ flag
    /\ SqlReturns(r) /\ Answers(r, 504) /\ Strayed(r)
    /\ UNCHANGED <<server, late, faults>>

(* MUTANT: the watcher is not joined before the lock is released.          *)
JoinedAtOnce(r) ==
    /\ lock = r /\ at[r] = "join"
    /\ Unlock /\ Go(r, "done")
    /\ UNCHANGED <<limitVars, open, db, seen, kind, todo, watcher, answer, lifeVars>>

(* watcher.join(timeout=0.1), and the lock is released. *)
Joined(r) ==
    /\ lock = r /\ at[r] = "join" /\ watcher[r] \in {"fired", "woken"}
    /\ Unlock /\ Go(r, "done")
    /\ UNCHANGED <<limitVars, open, db, seen, kind, todo, watcher, answer, lifeVars>>

JoinTimesOut(r) ==
    /\ lock = r /\ at[r] = "join" /\ watcher[r] \in {"waiting", "late"}
    /\ late < MaxLate /\ late' = late + 1
    /\ Unlock /\ Go(r, "done")
    /\ UNCHANGED <<limitVars, open, db, seen, kind, todo, watcher, answer, server, stray, faults>>

(* MUTANT: off by one. *)
ReadDoneOnceMore(r) ==
    /\ lock = r /\ at[r] = "exec" /\ kind[r] # "sql"
    /\ Unlock
    /\ todo' = [todo EXCEPT ![r] = @ - 1]
    /\ IF todo[r] = 0 THEN Go(r, "done") /\ Answers(r, 200)
       ELSE Go(r, "lock") /\ UNCHANGED answer
    /\ UNCHANGED <<limitVars, open, db, seen, kind, watcher, lifeVars>>

(* A statement of the other routes. *)
ReadDone(r) ==
    /\ lock = r /\ at[r] = "exec" /\ kind[r] # "sql"
    /\ Unlock
    /\ todo' = [todo EXCEPT ![r] = @ - 1]
    /\ IF todo[r] = 1 THEN Go(r, "done") /\ Answers(r, 200)
       ELSE Go(r, "lock") /\ UNCHANGED answer
    /\ UNCHANGED <<limitVars, open, db, seen, kind, watcher, lifeVars>>

ReadInterrupted(r) ==
    /\ lock = r /\ at[r] = "exec" /\ kind[r] # "sql" /\ flag
    /\ Unlock /\ Go(r, "done") /\ Answers(r, 500) /\ Strayed(r)
    /\ UNCHANGED <<limitVars, open, db, seen, kind, todo, watcher, server, late, faults>>

-----------------------------------------------------------------------------
(* The poller's thread: the rows of a range, then its cursor. *)

PollerStages == {"raw", "act", "cursor"}

PollerBegins ==
    /\ server # "closed" /\ at["poller"] \in PollerStages
    /\ LockAndExecute("poller")
    /\ UNCHANGED <<limitVars, threadVars, lifeVars>>

PollerStores ==
    /\ lock = "poller"
    /\ Write(seen \cup {at["poller"]})
    /\ Unlock
    /\ Go("poller", CASE at["poller"] = "raw" -> "act" [] at["poller"] = "act" -> "cursor"
                      [] OTHER -> "idle")
    /\ UNCHANGED <<limitVars, open, kind, todo, watcher, answer, lifeVars>>

(* The range is logged as failed and tried again. *)
PollerInterrupted ==
    /\ lock = "poller" /\ flag
    /\ Unlock /\ Go("poller", "raw") /\ Strayed("poller")
    /\ UNCHANGED <<limitVars, open, db, seen, kind, todo, watcher, answer, server, late, faults>>

-----------------------------------------------------------------------------
(* prune_older_than, under the lock from BEGIN to COMMIT or ROLLBACK.  A   *)
(* prune that changes nothing is left out: nothing is old, or a            *)
(* transaction is open, so that its BEGIN raises.                          *)

PruneThread(stage) ==
    /\ Go("prune", stage)
    /\ UNCHANGED <<limitVars, kind, todo, watcher, answer>>

PruneBegins ==
    /\ server = "up" /\ at["prune"] = "idle" /\ Old \cap seen # {} /\ ~open
    /\ LockAndExecute("prune")
    /\ PruneThread("begin")
    /\ UNCHANGED lifeVars

(* execute() of the next statement clears the flag. *)
ThenRun(stage) == PruneThread(stage) /\ flag' = FALSE /\ UNCHANGED <<lock, running>>

(* MUTANT: without a transaction *)
NoTransaction ==
    /\ lock = "prune" /\ at["prune"] = "begin"
    /\ ThenRun("delAct")
    /\ UNCHANGED <<open, db, seen, lifeVars>>

TransactionBegun ==
    /\ lock = "prune" /\ at["prune"] = "begin"
    /\ open' = TRUE
    /\ ThenRun("delAct")
    /\ UNCHANGED <<db, seen, lifeVars>>

(* BEGIN stands outside of the try: no ROLLBACK. *)
BeginRaises ==
    /\ lock = "prune" /\ at["prune"] = "begin" /\ flag
    /\ Unlock /\ PruneThread("idle") /\ Strayed("prune")
    /\ UNCHANGED <<open, db, seen, server, late, faults>>

ActionsDeleted ==
    /\ lock = "prune" /\ at["prune"] = "delAct"
    /\ Write(seen \ {"oldAct"})
    /\ ThenRun("delRaw")
    /\ UNCHANGED <<open, lifeVars>>

RawTxsDeleted ==
    /\ lock = "prune" /\ at["prune"] = "delRaw"
    /\ Write(seen \ {"oldRaw"})
    /\ ThenRun("commit")
    /\ UNCHANGED <<open, lifeVars>>

Committed ==
    /\ lock = "prune" /\ at["prune"] = "commit"
    /\ Commit
    /\ Unlock /\ PruneThread("idle")
    /\ UNCHANGED lifeVars

(* MUTANT: the exception leaves without a ROLLBACK. *)
PruneLeaves ==
    /\ lock = "prune" /\ at["prune"] \in {"delAct", "delRaw", "commit"} /\ flag
    /\ Unlock /\ PruneThread("idle") /\ Strayed("prune")
    /\ UNCHANGED <<open, db, seen, server, late, faults>>

(* A DELETE, a COUNT before one, or the COMMIT is interrupted. *)
PruneInterrupted ==
    /\ lock = "prune" /\ at["prune"] \in {"delAct", "delRaw", "commit"} /\ flag
    /\ ThenRun("rollback") /\ Strayed("prune")
    /\ UNCHANGED <<open, db, seen, server, late, faults>>

RolledBack ==
    /\ lock = "prune" /\ at["prune"] = "rollback"
    /\ Rollback
    /\ Unlock /\ PruneThread("idle")
    /\ UNCHANGED lifeVars

(* The ROLLBACK is interrupted, too; its exception replaces the first.     *)
RollbackRaises ==
    /\ lock = "prune" /\ at["prune"] = "rollback" /\ flag
    /\ Unlock /\ PruneThread("idle") /\ Strayed("prune")
    /\ UNCHANGED <<open, db, seen, server, late, faults>>

-----------------------------------------------------------------------------
(* The process *)

(* A signal: uvicorn takes no more requests and ends those it has.         *)
Stop ==
    /\ server = "up" /\ faults < MaxFaults
    /\ server' = "stopping" /\ faults' = faults + 1
    /\ UNCHANGED <<limitVars, connVars, threadVars, stray, late>>

InFlight == {r \in Request : at[r] \notin {"new", "done"}}

(* Then storage.close(), under the lock.  The joins of the poller's and    *)
(* the prune's threads may have run out before.                            *)
Close ==
    /\ server = "stopping" /\ InFlight = {} /\ lock = NoThread
    /\ server' = "closed"
    /\ UNCHANGED <<limitVars, connVars, threadVars, stray, late, faults>>

NewProcess ==
    /\ Lose /\ Forget
    /\ server' = "up"
    /\ at' = [t \in Thread |->
                CASE t = "poller" -> IF "cursor" \in db THEN "idle" ELSE "raw"
                  [] t = "prune"  -> "idle"
                  [] OTHER        -> IF at[t] = "new" THEN "new" ELSE "done"]
    /\ answer' = [r \in Request |-> IF r \in InFlight THEN -1 ELSE answer[r]]
    /\ watcher' = [r \in Request |-> "none"]
    /\ todo' = [r \in Request |-> 0]
    /\ UNCHANGED <<kind, stray, late>>

Restart ==
    /\ server = "closed"
    /\ NewProcess
    /\ UNCHANGED faults

Kill ==
    /\ faults < MaxFaults /\ faults' = faults + 1
    /\ NewProcess

Arrival ==
    \E r \in Request :
        \/ HealthArrives(r)
        \/ \E route \in Route : ArrivesWithoutToken(r, route)
        \/ \E route \in Route, k \in Key : Arrives(r, route, k) \/ ArrivesOverLimit(r, route, k)

QueryEnds(r) == Executed(r) \/ Fetched(r) \/ SqlFails(r)

RequestStep(r) ==
    \/ Begin(r) \/ Expire(r) \/ WatcherInterrupts(r) \/ WatcherWakes(r) \/ SqlInterrupted(r)
    \/ Joined(r) \/ JoinTimesOut(r) \/ ReadDone(r) \/ ReadInterrupted(r)

PollerStep == PollerBegins \/ PollerStores \/ PollerInterrupted

PruneStep ==
    \/ PruneBegins \/ TransactionBegun \/ BeginRaises \/ ActionsDeleted \/ RawTxsDeleted
    \/ Committed \/ PruneInterrupted \/ RolledBack \/ RollbackRaises

ProcessStep == (\E r \in Request : RequestStep(r)) \/ PollerStep \/ PruneStep \/ Close \/ Restart

Next == Arrival \/ (\E r \in Request : QueryEnds(r)) \/ ProcessStep \/ Stop \/ Kill

Spec == Init /\ [][Next]_vars

(* Threads run, a waiting watcher's time runs out, systemd starts again;   *)
(* that a /sql query ends by itself is not assumed.                        *)
(* One fairness condition is enough: without arrivals, interrupts and      *)
(* kills, which are finite, the threads run out of steps.                  *)
FairSpec == Spec /\ WF_vars(ProcessStep)
-----------------------------------------------------------------------------
TypeOK ==
    /\ RateLimitTypeOK /\ ConnectionTypeOK
    /\ lock \in Thread \cup {NoThread}
    /\ kind \in [Request -> Route \cup {"none"}] /\ at \in [Thread -> Stage]
    /\ todo \in [Request -> 0 .. HealthReads + 2]
    /\ watcher \in [Request -> WatcherStage]
    /\ answer \in [Request -> {-1, 0, 200, 400, 401, 403, 429, 500, 504}]
    /\ server \in {"up", "stopping", "closed"} /\ stray \in BOOLEAN
    /\ late \in 0 .. MaxLate /\ faults \in 0 .. MaxFaults

(* Whoever takes the lock finds no transaction open (storage.py:370-387),  *)
(* whatever statement of the prune was interrupted: no later write can     *)
(* become part of a transaction nobody commits.  Only two watchers that    *)
(* outlive their joins can break it, one that hits a DELETE and one that   *)
(* hits the ROLLBACK, which has no second try.                             *)
NoTransactionLeftOpen == lock = NoThread /\ late < 2 => ~open /\ seen = db

(* "a single transaction so a crash mid-prune can't leave one table stale  *)
(* against the other" (storage.py:364-366).                                *)
PrunedTogether == "oldRaw" \in db <=> "oldAct" \in db

(* The join of the watcher (sql.py:185, 202) keeps an interrupt with the   *)
(* query it is meant for: a statement of anybody else is hit only when a   *)
(* watcher outlived the 0.1 s of its join.                                 *)
InterruptsStay == stray => late > 0

(* A query that never ends keeps no one waiting for good: every request    *)
(* that arrived is answered or lost with the process, and the poller's     *)
(* range is stored in the end, stray interrupts and kills notwithstanding, *)
(* unless it is stored in a transaction that was left open.                *)
EveryoneServed ==
    <>[](InFlight = {} /\ (open \/ {"raw", "act", "cursor"} \subseteq db))
=============================================================================

---------------------------- MODULE QueryProofs ----------------------------
(***************************************************************************)
(* What the one connection keeps, for any number of requests, any limits   *)
(* and any number of late watchers, kills and shutdowns: the prune is      *)
(* atomic, no transaction is left open behind the lock, and an interrupt   *)
(* that strays comes from a watcher that outlived its join.  Last, what    *)
(* the rate limiter keeps, whoever asks and whenever.                      *)
(***************************************************************************)
EXTENDS Query, FiniteSetTheorems, WellFoundedInduction, TLAPS

LEMMA ThreadNames ==
    /\ "poller" \in Thread /\ "prune" \in Thread
    /\ "poller" \notin Request /\ "prune" \notin Request
    /\ NoThread \notin Thread
    /\ \A r \in Request : r \in Thread /\ r # "poller" /\ r # "prune" /\ r # NoThread
BY QueryAssumption DEF Thread

-----------------------------------------------------------------------------
(* Types *)

(* A request that still waits or executes has a statement to run. *)
SomethingToDo == \A r \in Request : at[r] \in {"lock", "exec"} => todo[r] >= 1

(* Where a thread stands while it holds the lock, and when it must hold it *)
Holding ==
    /\ \A r \in Request : at[r] \in {"exec", "fetch", "join"} => lock = r
    /\ at["prune"] # "idle" => lock = "prune"
    /\ lock = "poller" => at["poller"] \in PollerStages

Typed == TypeOK /\ SomethingToDo /\ Holding

(* The limiter is used in three ways. *)
LEMMA LimiterUse ==
    ASSUME [Next]_vars
    PROVE  UNCHANGED limitVars \/ (\E k \in Key : Admit(k) \/ Reject(k)) \/ Forget
<1>1. CASE UNCHANGED vars
  BY <1>1 DEF vars
<1>2. CASE Arrival
  BY <1>2 DEF Arrival, HealthArrives, ArrivesWithoutToken, Arrives, ArrivesOverLimit
<1>3. ASSUME NEW r \in Request, QueryEnds(r) \/ RequestStep(r)
      PROVE  UNCHANGED limitVars
  BY <1>3 DEF QueryEnds, Executed, Fetched, SqlFails, SqlReturns, RequestStep, Begin, Expire,
              WatcherInterrupts, WatcherWakes, SqlInterrupted, Joined, JoinTimesOut, ReadDone,
              ReadInterrupted
<1>4. CASE PollerStep
  BY <1>4 DEF PollerStep, PollerBegins, PollerStores, PollerInterrupted
<1>5. CASE PruneStep
  BY <1>5 DEF PruneStep, PruneThread, ThenRun, PruneBegins, TransactionBegun, BeginRaises,
              ActionsDeleted, RawTxsDeleted, Committed, PruneInterrupted, RolledBack,
              RollbackRaises
<1>6. CASE Close \/ Restart \/ Stop \/ Kill
  BY <1>6 DEF Close, Restart, Stop, Kill, NewProcess
<1> QED BY <1>1, <1>2, <1>3, <1>4, <1>5, <1>6 DEF Next, ProcessStep

LEMMA LimiterTyped ==
    ASSUME RateLimitTypeOK, [Next]_vars
    PROVE  RateLimitTypeOK'
<1>1. CASE UNCHANGED limitVars
  BY <1>1 DEF limitVars, RateLimitTypeOK
<1>2. ASSUME NEW k \in Key, NEW t \in Later, Count(k, t)
      PROVE  now' \in Time /\ DOMAIN counts' \subseteq Key
             /\ \A x \in DOMAIN counts' : counts'[x] \in [start : 0 .. now', count : Nat \ {0}]
  <2>1. t \in Nat /\ now \in Nat /\ now <= t /\ t \in Time
    BY RateLimitAssumption DEF Later, RateLimitTypeOK, Time
  <2>2. CurrentWindow(k, t) \in [start : 0 .. t, count : Nat]
    BY <2>1 DEF CurrentWindow, RateLimitTypeOK
  <2>3. [CurrentWindow(k, t) EXCEPT !.count = @ + 1] \in [start : 0 .. t, count : Nat \ {0}]
    BY <2>1, <2>2
  <2>4. \A x \in DOMAIN counts : counts[x] \in [start : 0 .. t, count : Nat \ {0}]
    BY <2>1 DEF RateLimitTypeOK
  <2> QED BY <1>2, <2>1, <2>3, <2>4 DEF Count, RateLimitTypeOK
<1>3. ASSUME NEW k \in Key, Admit(k) \/ Reject(k)
      PROVE  RateLimitTypeOK'
  <2>1. PICK t \in Later : Count(k, t) /\ (\/ UNCHANGED admitted
                                           \/ admitted' = [admitted EXCEPT ![k] = Append(@, t)])
    BY <1>3 DEF Admit, Reject
  <2>2. t \in Time
    BY RateLimitAssumption DEF Later, RateLimitTypeOK, Time
  <2>3. admitted' \in [Key -> Seq(Time)]
    <3>1. admitted \in [Key -> Seq(Time)]
      BY DEF RateLimitTypeOK
    <3>2. Append(admitted[k], t) \in Seq(Time)
      BY <2>2, <3>1
    <3> QED BY <2>1, <3>1, <3>2, Zenon
  <2> QED BY <1>2, <2>1, <2>3 DEF RateLimitTypeOK
<1>4. CASE Forget
  BY <1>4 DEF Forget, RateLimitTypeOK
<1> QED BY <1>1, <1>3, <1>4, LimiterUse

(* Whoever holds the lock is a thread, and rows are rows.                  *)
LEMMA ConnectionTyped ==
    ASSUME Typed, [Next]_vars
    PROVE  lock' \in Thread \cup {NoThread} /\ ConnectionTypeOK'
<1> USE ThreadNames DEF ConnectionTypeOK, Stage
<1>0. /\ lock \in Thread \cup {NoThread} /\ ConnectionTypeOK
      /\ at \in [Thread -> Stage]
  BY DEF Typed, TypeOK
<1>1. CASE UNCHANGED connVars
  BY <1>0, <1>1 DEF connVars
<1>2. CASE Arrival
  BY <1>1, <1>2 DEF Arrival, HealthArrives, ArrivesWithoutToken, Arrives, ArrivesOverLimit
<1>3. ASSUME NEW t \in Thread, LockAndExecute(t) \/ Unlock, UNCHANGED <<open, db, seen>>
      PROVE  lock' \in Thread \cup {NoThread} /\ ConnectionTypeOK'
  BY <1>0, <1>3 DEF LockAndExecute, Unlock
<1>4. ASSUME NEW r \in Request, QueryEnds(r) \/ RequestStep(r)
      PROVE  lock' \in Thread \cup {NoThread} /\ ConnectionTypeOK'
  <2>1. CASE Begin(r) \/ Joined(r) \/ JoinTimesOut(r) \/ ReadDone(r) \/ ReadInterrupted(r)
    BY <1>3, <2>1 DEF Begin, Joined, JoinTimesOut, ReadDone, ReadInterrupted, LockAndExecute
  <2>2. CASE Expire(r) \/ WatcherWakes(r) \/ Executed(r)
    BY <1>1, <2>2 DEF Expire, WatcherWakes, Executed
  <2>3. CASE WatcherInterrupts(r)
    BY <1>0, <2>3 DEF WatcherInterrupts, InterruptConnection
  <2>4. CASE Fetched(r) \/ SqlFails(r) \/ SqlInterrupted(r)
    BY <1>0, <2>4 DEF Fetched, SqlFails, SqlInterrupted, SqlReturns
  <2> QED BY <1>4, <2>1, <2>2, <2>3, <2>4 DEF QueryEnds, RequestStep
<1>5. CASE PollerBegins \/ PollerInterrupted \/ PruneBegins \/ BeginRaises \/ RollbackRaises
  BY <1>3, <1>5 DEF PollerBegins, PollerInterrupted, PruneBegins, BeginRaises, RollbackRaises,
                    LockAndExecute
<1>6. CASE PollerStores \/ ActionsDeleted \/ RawTxsDeleted
  <2>1. ASSUME NEW S \in SUBSET Row, Write(S), UNCHANGED open,
               Unlock \/ (flag' = FALSE /\ UNCHANGED <<lock, running>>)
        PROVE  lock' \in Thread \cup {NoThread} /\ ConnectionTypeOK'
    BY <1>0, <2>1 DEF Write, Unlock
  <2>2. CASE PollerStores
    <3>1. at["poller"] \in Row
      BY <2>2, QueryAssumption DEF PollerStores, Typed, Holding, PollerStages, Row
    <3>2. seen \cup {at["poller"]} \in SUBSET Row
      BY <1>0, <3>1
    <3>3. Write(seen \cup {at["poller"]}) /\ Unlock /\ UNCHANGED open
      BY <2>2 DEF PollerStores
    <3>4. lock' = NoThread /\ running' = FALSE /\ flag' = FALSE /\ open' \in BOOLEAN
      BY <1>0, <3>3 DEF Unlock
    <3>5. db' \subseteq Row /\ seen' \subseteq Row
      BY <1>0, <3>2, <3>3 DEF Write
    <3> QED BY <3>4, <3>5
  <2>3. CASE ActionsDeleted \/ RawTxsDeleted
    <3>1. seen \ {"oldAct"} \in SUBSET Row /\ seen \ {"oldRaw"} \in SUBSET Row
      BY <1>0
    <3> QED BY <2>1, <2>3, <3>1 DEF ActionsDeleted, RawTxsDeleted, ThenRun
  <2> QED BY <1>6, <2>2, <2>3
<1>7. CASE TransactionBegun \/ PruneInterrupted
  BY <1>0, <1>7 DEF TransactionBegun, PruneInterrupted, ThenRun
<1>8. CASE Committed \/ RolledBack
  BY <1>0, <1>8 DEF Committed, RolledBack, Commit, Rollback, Unlock
<1>9. CASE Close \/ Stop
  BY <1>1, <1>9 DEF Close, Stop
<1>10. CASE Restart \/ Kill
  BY <1>0, <1>10 DEF Restart, Kill, NewProcess, Lose, Unlock, Rollback
<1> QED BY <1>1, <1>2, <1>4, <1>5, <1>6, <1>7, <1>8, <1>9, <1>10
           DEF Next, ProcessStep, PollerStep, PruneStep, vars

(* A thread keeps the lock until it has left the stages under it. *)
LEMMA HoldingKept ==
    ASSUME Typed, [Next]_vars
    PROVE  Holding'
<1> USE ThreadNames DEF Holding, PollerStages
<1>0. /\ Holding /\ lock \in Thread \cup {NoThread}
      /\ at \in [Thread -> Stage]
  BY DEF Typed, TypeOK
<1>1. CASE UNCHANGED <<lock, at>>
  BY <1>0, <1>1
<1>2. ASSUME NEW r \in Request, NEW stage, Go(r, stage), lock' = lock,
             stage \in {"exec", "fetch", "join"} => lock = r
      PROVE  Holding'
  BY <1>0, <1>2 DEF Go
<1>3. ASSUME NEW r \in Request, NEW stage \in {"lock", "done"}, Go(r, stage), lock = r, Unlock
      PROVE  Holding'
  BY <1>0, <1>3 DEF Go, Unlock
<1>4. CASE Arrival
  BY <1>2, <1>4 DEF Arrival, HealthArrives, ArrivesWithoutToken, Arrives, ArrivesOverLimit,
                    Accepted, Answered, connVars
<1>5. ASSUME NEW r \in Request, QueryEnds(r) \/ RequestStep(r)
      PROVE  Holding'
  <2>1. CASE Begin(r)
    BY <1>0, <2>1 DEF Begin, LockAndExecute, Go
  <2>2. CASE Executed(r) \/ Fetched(r) \/ SqlFails(r) \/ SqlInterrupted(r)
    BY <1>2, <2>2 DEF Executed, Fetched, SqlFails, SqlInterrupted, SqlReturns, connVars
  <2>3. CASE Joined(r) \/ JoinTimesOut(r) \/ ReadDone(r) \/ ReadInterrupted(r)
    BY <1>3, <2>3 DEF Joined, JoinTimesOut, ReadDone, ReadInterrupted
  <2>4. CASE Expire(r) \/ WatcherWakes(r) \/ WatcherInterrupts(r)
    BY <1>1, <2>4 DEF Expire, WatcherWakes, WatcherInterrupts, InterruptConnection, connVars
  <2> QED BY <1>5, <2>1, <2>2, <2>3, <2>4 DEF QueryEnds, RequestStep
<1>6. CASE PollerStep
  <2>1. CASE PollerBegins
    BY <1>0, <2>1 DEF PollerBegins, LockAndExecute, threadVars
  <2>2. CASE PollerStores \/ PollerInterrupted
    BY <1>0, <2>2 DEF PollerStores, PollerInterrupted, Unlock, Go
  <2> QED BY <1>6, <2>1, <2>2 DEF PollerStep
<1>7. CASE PruneStep
  <2>1. CASE PruneBegins
    BY <1>0, <2>1 DEF PruneBegins, LockAndExecute, PruneThread, Go
  <2>2. ASSUME NEW stage, lock = "prune", ThenRun(stage)
        PROVE  Holding'
    BY <1>0, <2>2 DEF ThenRun, PruneThread, Go
  <2>3. ASSUME lock = "prune", Unlock, PruneThread("idle")
        PROVE  Holding'
    BY <1>0, <2>3 DEF Unlock, PruneThread, Go
  <2> QED BY <1>7, <2>1, <2>2, <2>3
             DEF PruneStep, TransactionBegun, BeginRaises, ActionsDeleted, RawTxsDeleted, Committed,
                 PruneInterrupted, RolledBack, RollbackRaises
<1>8. CASE Close \/ Stop
  BY <1>1, <1>8 DEF Close, Stop, connVars, threadVars
<1>9. CASE Restart \/ Kill
  BY <1>0, <1>9 DEF Restart, Kill, NewProcess, Lose, Unlock
<1> QED BY <1>1, <1>4, <1>5, <1>6, <1>7, <1>8, <1>9
           DEF Next, ProcessStep, vars, connVars, threadVars

(* The whole state. *)
LEMMA TypedKept ==
    ASSUME Typed, [Next]_vars
    PROVE  Typed'
<1> USE ThreadNames DEF Typed, TypeOK, SomethingToDo
<1>0. RateLimitTypeOK' /\ lock' \in Thread \cup {NoThread} /\ ConnectionTypeOK'
  BY LimiterTyped, ConnectionTyped DEF Typed, TypeOK
<1>h. Holding'
  BY HoldingKept
<1>1. HealthReads \in Nat \ {0} /\ MaxLate \in Nat /\ MaxFaults \in Nat
  BY QueryAssumption
<1>2. CASE UNCHANGED vars
  BY <1>0, <1>h, <1>2 DEF vars, connVars, threadVars, lifeVars
<1>3. ASSUME NEW r \in Request, NEW route \in Route, at[r] = "new",
             \/ Accepted(r, route)
             \/ \E status \in {400, 401, 403, 429} : Answered(r, route, status),
             UNCHANGED <<connVars, lifeVars>>
      PROVE  Typed'
  <2>1. kind' \in [Request -> Route \cup {"none"}]
    BY <1>3 DEF Accepted, Answered
  <2>2. at' \in [Thread -> Stage] /\ watcher' \in [Request -> WatcherStage]
    BY <1>3 DEF Accepted, Answered, Go, Stage
  <2>3. Statements(route) \in 1 .. HealthReads + 2
    BY <1>1 DEF Statements
  <2>4. todo' \in [Request -> 0 .. HealthReads + 2] /\ SomethingToDo'
    BY <1>1, <1>3, <2>3 DEF Accepted, Answered, Go
  <2>5. answer' \in [Request -> {-1, 0, 200, 400, 401, 403, 429, 500, 504}]
    BY <1>3 DEF Accepted, Answered, Answers
  <2> QED BY <1>0, <1>h, <1>3, <2>1, <2>2, <2>4, <2>5 DEF lifeVars
<1>4. CASE Arrival
  <2>1. PICK r \in Request :
          \/ HealthArrives(r)
          \/ \E route \in Route : ArrivesWithoutToken(r, route)
          \/ \E route \in Route, k \in Key : Arrives(r, route, k) \/ ArrivesOverLimit(r, route, k)
    BY <1>4 DEF Arrival
  <2>2. \A route \in Route, k \in Key : Refusals(route, k) \subseteq {400, 401, 403}
    BY DEF Refusals
  <2> QED BY <1>3, <2>1, <2>2 DEF HealthArrives, ArrivesWithoutToken, Arrives, ArrivesOverLimit, Route
<1>5. ASSUME NEW r \in Request, QueryEnds(r) \/ RequestStep(r)
      PROVE  Typed'
  <2> USE <1>0, <1>h, <1>1 DEF lifeVars, Go, Answers, Unlock, Stage, WatcherStage
  <2>1. CASE Begin(r)
    BY <2>1 DEF Begin, LockAndExecute
  <2>2. CASE Expire(r)
    BY <2>2 DEF Expire
  <2>3. CASE WatcherInterrupts(r)
    BY <2>3 DEF WatcherInterrupts, InterruptConnection
  <2>4. CASE WatcherWakes(r)
    BY <2>4 DEF WatcherWakes
  <2>5. CASE Executed(r)
    BY <2>5 DEF Executed
  <2>6. CASE Fetched(r)
    BY <2>6 DEF Fetched, SqlReturns
  <2>7. CASE SqlFails(r)
    BY <2>7 DEF SqlFails, SqlReturns
  <2>8. CASE SqlInterrupted(r)
    BY <2>8 DEF SqlInterrupted, SqlReturns, Strayed
  <2>9. CASE Joined(r)
    BY <2>9 DEF Joined
  <2>10. CASE JoinTimesOut(r)
    BY <2>10 DEF JoinTimesOut
  <2>11. CASE ReadDone(r)
    BY <2>11 DEF ReadDone
  <2>12. CASE ReadInterrupted(r)
    BY <2>12 DEF ReadInterrupted, Strayed
  <2> QED BY <1>5, <2>1, <2>2, <2>3, <2>4, <2>5, <2>6, <2>7, <2>8, <2>9, <2>10, <2>11, <2>12
             DEF QueryEnds, RequestStep
<1>6. CASE PollerStep
  <2> USE <1>0, <1>h, <1>1 DEF lifeVars, threadVars, Go, Unlock, Stage
  <2>1. CASE PollerBegins
    BY <2>1 DEF PollerBegins, LockAndExecute
  <2>2. CASE PollerStores
    BY <2>2 DEF PollerStores, Write
  <2>3. CASE PollerInterrupted
    BY <2>3 DEF PollerInterrupted, Strayed
  <2> QED BY <1>6, <2>1, <2>2, <2>3 DEF PollerStep
<1>7. CASE PruneStep
  <2> USE <1>0, <1>h, <1>1 DEF lifeVars, Go, Unlock, Stage, PruneThread, ThenRun
  <2>1. CASE PruneBegins
    BY <2>1 DEF PruneBegins, LockAndExecute
  <2>2. CASE TransactionBegun
    BY <2>2 DEF TransactionBegun
  <2>3. CASE BeginRaises
    BY <2>3 DEF BeginRaises, Strayed
  <2>8. CASE RollbackRaises
    BY <2>8 DEF RollbackRaises, Strayed
  <2>4. CASE ActionsDeleted \/ RawTxsDeleted
    BY <2>4 DEF ActionsDeleted, RawTxsDeleted, Write
  <2>5. CASE Committed
    BY <2>5 DEF Committed, Commit
  <2>6. CASE PruneInterrupted
    BY <2>6 DEF PruneInterrupted, Strayed
  <2>7. CASE RolledBack
    BY <2>7 DEF RolledBack, Rollback
  <2> QED BY <1>7, <2>1, <2>2, <2>3, <2>4, <2>5, <2>6, <2>7, <2>8 DEF PruneStep
<1>8. CASE Stop \/ Close
  BY <1>0, <1>h, <1>1, <1>8 DEF Stop, Close, connVars, threadVars
<1>9. ASSUME NewProcess, faults' \in 0 .. MaxFaults
      PROVE  Typed'
  <2>2. at' \in [Thread -> Stage] /\ \A r \in Request : at'[r] \in {"new", "done"}
    BY <1>9 DEF NewProcess, Stage
  <2>3. answer' \in [Request -> {-1, 0, 200, 400, 401, 403, 429, 500, 504}]
    BY <1>9 DEF NewProcess
  <2>4. /\ watcher' \in [Request -> WatcherStage]
        /\ todo' \in [Request -> 0 .. HealthReads + 2]
        /\ kind' \in [Request -> Route \cup {"none"}]
        /\ server' \in {"up", "stopping", "closed"} /\ stray' \in BOOLEAN /\ late' \in 0 .. MaxLate
    BY <1>1, <1>9 DEF NewProcess, WatcherStage
  <2>5. SomethingToDo'
    BY <2>2
  <2> QED BY <1>0, <1>h, <1>9, <2>2, <2>3, <2>4, <2>5
<1>10. CASE Restart \/ Kill
  BY <1>1, <1>9, <1>10 DEF Restart, Kill
<1> QED BY <1>2, <1>4, <1>5, <1>6, <1>7, <1>8, <1>10 DEF Next, ProcessStep

LEMMA StartsTyped == Init => Typed
<1> SUFFICES ASSUME Init PROVE Typed
  OBVIOUS
<1> USE ThreadNames, QueryAssumption DEF Init
<1>1. RateLimitTypeOK
  <2>1. /\ now = 0 /\ counts = << >>
        /\ admitted = [k \in Key |-> << >>]
    BY DEF RateLimitInit
  <2>2. DOMAIN counts = {}
    BY <2>1
  <2>3. 0 \in Time
    BY RateLimitAssumption DEF Time
  <2>4. << >> \in Seq(Time)
    OBVIOUS
  <2>5. admitted \in [Key -> Seq(Time)]
    BY <2>1, <2>4, Zenon
  <2>6. now \in Time
    BY <2>1, <2>3
  <2>7. /\ DOMAIN counts \subseteq Key
        /\ \A k \in DOMAIN counts : counts[k] \in [start : 0 .. now, count : Nat \ {0}]
    BY <2>2, Zenon
  <2> QED BY <2>5, <2>6, <2>7, Zenon DEF RateLimitTypeOK
<1>2. ConnectionTypeOK /\ lock = NoThread
  BY DEF ConnectionInit, ConnectionTypeOK, Row, Old
<1>3. at \in [Thread -> Stage] /\ \A r \in Request : at[r] = "new"
  BY DEF Stage
<1>4. at["prune"] = "idle"
  OBVIOUS
<1>5. SomethingToDo /\ Holding
  BY <1>2, <1>3, <1>4 DEF SomethingToDo, Holding
<1>6. TypeOK
  <2>1. /\ kind \in [Request -> Route \cup {"none"}] /\ watcher \in [Request -> WatcherStage]
        /\ todo \in [Request -> 0 .. HealthReads + 2]
        /\ answer \in [Request -> {-1, 0, 200, 400, 401, 403, 429, 500, 504}]
    BY DEF WatcherStage
  <2>2. /\ server \in {"up", "stopping", "closed"} /\ stray \in BOOLEAN
    OBVIOUS
  <2>3. late \in 0 .. MaxLate /\ faults \in 0 .. MaxFaults
    <3>1. late = 0 /\ faults = 0 /\ MaxLate \in Nat /\ MaxFaults \in Nat
      OBVIOUS
    <3> HIDE QueryAssumption, ThreadNames DEF Init
    <3> QED BY <3>1
  <2> QED BY <1>1, <1>2, <1>3, <2>1, <2>2, <2>3 DEF TypeOK
<1> QED BY <1>5, <1>6 DEF Typed

(* Query's TypeOK holds in every reachable state.                          *)
THEOREM TypeCorrect == Spec => []TypeOK
<1>1. Init => Typed
  BY StartsTyped
<1>2. Typed /\ [Next]_vars => Typed'
  BY TypedKept
<1>3. Typed => TypeOK
  BY DEF Typed
<1> QED BY <1>1, <1>2, <1>3, PTL DEF Spec

-----------------------------------------------------------------------------
(* Interrupts *)

(* A watcher that can still interrupt is that of a /sql request which      *)
(* executes, joins it, or is over.                                         *)
Pending(r) == watcher[r] \in {"waiting", "late"}

Watching ==
    \A r \in Request : Pending(r) =>
        kind[r] = "sql" /\ at[r] \in {"exec", "fetch", "join", "done"}

(* The watchers that have outlived their request and can still interrupt.  *)
Outlived == {r \in Request : Pending(r) /\ at[r] = "done"}

(* Each of them was late, and so was the one whose interrupt hits the      *)
(* prune now, and the one that made it roll back.                          *)
HitsPrune == IF lock = "prune" /\ flag THEN 1 ELSE 0
MadeRollBack == IF at["prune"] = "rollback" THEN 1 ELSE 0

Counted == Cardinality(Outlived) + HitsPrune + MadeRollBack <= late

(* A statement is interrupted by its own watcher, or by a late one.        *)
Flagged == flag => late > 0 \/ (lock \in Request /\ watcher[lock] = "fired")

LEMMA Fewer ==
    ASSUME Typed
    PROVE  /\ IsFiniteSet(Outlived) /\ Cardinality(Outlived) \in Nat
           /\ \A S \in SUBSET Outlived : Cardinality(S) \in Nat /\ Cardinality(S) <= Cardinality(Outlived)
           /\ \A r \in Outlived : Cardinality(Outlived \ {r}) = Cardinality(Outlived) - 1
           /\ \A r \in Request : Cardinality(Outlived \cup {r}) <= Cardinality(Outlived) + 1
                               /\ Cardinality(Outlived \cup {r}) \in Nat
<1>1. IsFiniteSet(Outlived)
  BY QueryAssumption, FS_Subset DEF Outlived
<1>2. Cardinality(Outlived) \in Nat
  BY <1>1, FS_CardinalityType
<1>3. ASSUME NEW S \in SUBSET Outlived
      PROVE  Cardinality(S) \in Nat /\ Cardinality(S) <= Cardinality(Outlived)
  BY <1>1, FS_Subset, FS_CardinalityType
<1>4. ASSUME NEW r \in Outlived
      PROVE  Cardinality(Outlived \ {r}) = Cardinality(Outlived) - 1
  BY <1>1, FS_RemoveElement
<1>5. ASSUME NEW r \in Request
      PROVE  Cardinality(Outlived \cup {r}) <= Cardinality(Outlived) + 1
             /\ Cardinality(Outlived \cup {r}) \in Nat
  <2>1. IsFiniteSet(Outlived \cup {r})
        /\ Cardinality(Outlived \cup {r})
             = IF r \in Outlived THEN Cardinality(Outlived) ELSE Cardinality(Outlived) + 1
    BY <1>1, FS_AddElement
  <2> QED BY <1>2, <2>1, FS_CardinalityType
<1> QED BY <1>1, <1>2, <1>3, <1>4, <1>5

(* A step of the poller or the prune leaves the watchers alone. *)
LEMMA OthersDoNotWatch ==
    ASSUME Typed, NEW t \in {"poller", "prune"},
           UNCHANGED at \/ \E stage : Go(t, stage), UNCHANGED <<watcher, kind>>
    PROVE  /\ \A r \in Request : at'[r] = at[r]
           /\ Watching => Watching'
           /\ Outlived' = Outlived
<1>1. \A r \in Request : at'[r] = at[r]
  BY ThreadNames DEF Typed, TypeOK, Go
<1>2. \A r \in Request : Pending(r)' = Pending(r)
  BY DEF Pending
<1> QED BY <1>1, <1>2 DEF Watching, Outlived

LEMMA WatchingKept ==
    ASSUME Typed, Watching, [Next]_vars
    PROVE  Watching'
<1> USE ThreadNames DEF Watching, Pending
<1>0. /\ at \in [Thread -> Stage] /\ kind \in [Request -> Route \cup {"none"}]
      /\ watcher \in [Request -> WatcherStage]
  BY DEF Typed, TypeOK
<1>1. CASE UNCHANGED <<at, kind, watcher>>
  BY <1>1
<1>2. CASE Arrival
  <2>1. ASSUME NEW r \in Request, at[r] = "new", NEW route,
               Accepted(r, route) \/ \E status : Answered(r, route, status)
        PROVE  Watching'
    BY <1>0, <2>1 DEF Accepted, Answered, Go
  <2> QED BY <1>2, <2>1 DEF Arrival, HealthArrives, ArrivesWithoutToken, Arrives, ArrivesOverLimit
<1>3. ASSUME NEW r \in Request, QueryEnds(r) \/ RequestStep(r)
      PROVE  Watching'
  <2>1. CASE Begin(r)
    BY <1>0, <2>1 DEF Begin, Go
  <2>2. CASE Expire(r) \/ WatcherInterrupts(r) \/ WatcherWakes(r)
    BY <1>0, <2>2 DEF Expire, WatcherInterrupts, WatcherWakes
  <2>3. CASE Executed(r) \/ Fetched(r) \/ SqlFails(r) \/ SqlInterrupted(r)
    BY <1>0, <2>3 DEF Executed, Fetched, SqlFails, SqlInterrupted, SqlReturns, Go
  <2>4. CASE Joined(r) \/ JoinTimesOut(r) \/ ReadDone(r) \/ ReadInterrupted(r)
    BY <1>0, <2>4 DEF Joined, JoinTimesOut, ReadDone, ReadInterrupted, Go
  <2> QED BY <1>3, <2>1, <2>2, <2>3, <2>4 DEF QueryEnds, RequestStep
<1>4. CASE PollerStep
  BY <1>4, OthersDoNotWatch DEF PollerStep, PollerBegins, PollerStores, PollerInterrupted, threadVars
<1>5. CASE PruneStep
  BY <1>5, OthersDoNotWatch
     DEF PruneStep, PruneThread, ThenRun, PruneBegins, TransactionBegun, BeginRaises, ActionsDeleted,
         RawTxsDeleted, Committed, PruneInterrupted, RolledBack, RollbackRaises
<1>6. CASE Close \/ Stop
  BY <1>1, <1>6 DEF Close, Stop, threadVars
<1>7. CASE Restart \/ Kill
  BY <1>7 DEF Restart, Kill, NewProcess
<1> QED BY <1>1, <1>2, <1>3, <1>4, <1>5, <1>6, <1>7 DEF Next, ProcessStep, vars, threadVars

LEMMA CountedKept ==
    ASSUME Typed, Watching, Counted, [Next]_vars
    PROVE  Counted'
<1> USE ThreadNames DEF Holding
<1>0. /\ at \in [Thread -> Stage] /\ late \in Nat /\ Holding /\ QueryAssumption
  BY QueryAssumption DEF Typed, TypeOK
<1>s. Cardinality(Outlived) + HitsPrune + MadeRollBack <= late
  BY DEF Counted
<1>f. /\ Cardinality(Outlived) \in Nat
      /\ \A S \in SUBSET Outlived : Cardinality(S) \in Nat /\ Cardinality(S) <= Cardinality(Outlived)
      /\ \A r \in Outlived : Cardinality(Outlived \ {r}) = Cardinality(Outlived) - 1
      /\ \A r \in Request : Cardinality(Outlived \cup {r}) <= Cardinality(Outlived) + 1
                          /\ Cardinality(Outlived \cup {r}) \in Nat
  BY Fewer
(* Nothing that counts is added. *)
<1>1. ASSUME Outlived' \subseteq Outlived, HitsPrune' <= HitsPrune, MadeRollBack' = MadeRollBack,
             late' = late
      PROVE  Counted'
  <2>1. Cardinality(Outlived') \in Nat /\ Cardinality(Outlived') <= Cardinality(Outlived)
    BY <1>1, <1>f
  <2>2. /\ HitsPrune \in Nat /\ HitsPrune' \in Nat /\ MadeRollBack \in Nat
        /\ Cardinality(Outlived') = Cardinality(Outlived)'
    BY DEF HitsPrune, MadeRollBack
  <2> QED BY <1>0, <1>1, <1>s, <1>f, <2>1, <2>2 DEF Counted
<1>2. ASSUME UNCHANGED <<lock, flag, late>>,
             at' = at \/ \E r \in Request : \E stage : Go(r, stage),
             Outlived' \subseteq Outlived
      PROVE  Counted'
  BY <1>0, <1>1, <1>2 DEF HitsPrune, MadeRollBack, Go
<1>3. CASE Arrival
  <2>1. ASSUME NEW r \in Request, at[r] = "new", NEW route,
               Accepted(r, route) \/ \E status : Answered(r, route, status),
               UNCHANGED <<connVars, lifeVars>>
        PROVE  Counted'
    <3>1. Outlived' \subseteq Outlived
      BY <1>0, <2>1 DEF Accepted, Answered, Go, Outlived, Pending, Watching
    <3> QED BY <1>2, <2>1, <3>1 DEF Accepted, Answered, connVars, lifeVars
  <2> QED BY <1>3, <2>1 DEF Arrival, HealthArrives, ArrivesWithoutToken, Arrives, ArrivesOverLimit
<1>4. ASSUME NEW r \in Request, QueryEnds(r) \/ RequestStep(r)
      PROVE  Counted'
  <2> USE <1>0 DEF Outlived, Pending
  <2>1. CASE Expire(r) \/ WatcherWakes(r) \/ Executed(r)
    <3>1. Outlived' \subseteq Outlived
      BY <2>1 DEF Expire, WatcherWakes, Executed, Go, Typed, TypeOK
    <3> QED BY <1>2, <2>1, <3>1 DEF Expire, WatcherWakes, Executed, connVars, lifeVars
  <2>2. ASSUME lock' # "prune", late' = late, Outlived' \subseteq Outlived, \E stage : Go(r, stage)
        PROVE  Counted'
    BY <1>1, <2>2 DEF HitsPrune, MadeRollBack, Go
  <2>3. CASE Begin(r)
    <3>1. \A q \in Request : q # r => at'[q] = at[q] /\ watcher'[q] = watcher[q]
      BY <2>3 DEF Begin, Go, Typed, TypeOK
    <3>2. Outlived' \subseteq Outlived
      BY <2>3, <3>1 DEF Begin, Go
    <3> QED BY <2>2, <2>3, <3>2 DEF Begin, LockAndExecute, lifeVars
  <2>4. CASE Fetched(r) \/ SqlFails(r) \/ SqlInterrupted(r)
    <3>1. Outlived' \subseteq Outlived
      BY <2>4 DEF Fetched, SqlFails, SqlInterrupted, SqlReturns, Go
    <3> QED BY <2>2, <2>4, <3>1 DEF Fetched, SqlFails, SqlInterrupted, SqlReturns, lifeVars
  <2>5. CASE Joined(r)
    <3>1. Outlived' \subseteq Outlived
      BY <2>5 DEF Joined, Go
    <3> QED BY <2>2, <2>5, <3>1 DEF Joined, Unlock, lifeVars
  <2>6. CASE ReadDone(r) \/ ReadInterrupted(r)
    <3>1. Outlived' \subseteq Outlived
      BY <2>6 DEF ReadDone, ReadInterrupted, Go, Watching
    <3> QED BY <2>2, <2>6, <3>1 DEF ReadDone, ReadInterrupted, Unlock, Go, lifeVars
  <2>7. CASE JoinTimesOut(r)
    <3>1. Outlived' = Outlived \cup {r}
      BY <2>7 DEF JoinTimesOut, Go
    <3>2. HitsPrune' = 0 /\ MadeRollBack' = MadeRollBack /\ late' = late + 1
      BY <2>7 DEF JoinTimesOut, Unlock, Go, HitsPrune, MadeRollBack
    <3> HIDE DEF Outlived
    <3>3. Cardinality(Outlived)' <= Cardinality(Outlived) + 1 /\ Cardinality(Outlived)' \in Nat
      BY <1>f, <3>1
    <3>4. HitsPrune \in Nat /\ MadeRollBack \in Nat
      BY DEF HitsPrune, MadeRollBack
    <3> QED BY <1>s, <1>f, <3>2, <3>3, <3>4 DEF Counted
  <2>8. CASE WatcherInterrupts(r)
    <3>1. /\ Outlived' = Outlived \ {r} /\ late' = late /\ MadeRollBack' = MadeRollBack
          /\ lock' = lock /\ HitsPrune' \in {0, 1} /\ HitsPrune \in {0, 1} /\ MadeRollBack \in Nat
      BY <2>8 DEF WatcherInterrupts, InterruptConnection, MadeRollBack, HitsPrune, lifeVars, Typed, TypeOK,
                  WatcherStage
    <3>2. CASE r \in Outlived
      <4> HIDE DEF Outlived
      <4>1. Cardinality(Outlived)' = Cardinality(Outlived) - 1
        BY <1>f, <3>1, <3>2
      <4> QED BY <1>s, <1>f, <3>1, <4>1 DEF Counted
    <3>3. CASE r \notin Outlived
      <4>1. lock = r
        BY <2>8, <3>3 DEF WatcherInterrupts, Watching
      <4>2. HitsPrune' = 0
        BY <3>1, <4>1 DEF HitsPrune
      <4> QED BY <1>1, <3>1, <4>2
    <3> QED BY <3>2, <3>3
  <2> QED BY <1>4, <2>1, <2>3, <2>4, <2>5, <2>6, <2>7, <2>8 DEF QueryEnds, RequestStep
<1>5. CASE PollerStep
  <2>1. Outlived' = Outlived
    BY <1>5, OthersDoNotWatch DEF PollerStep, PollerBegins, PollerStores, PollerInterrupted, threadVars
  <2>2. lock' # "prune" /\ at'["prune"] = at["prune"] /\ late' = late
    BY <1>0, <1>5 DEF PollerStep, PollerBegins, PollerStores, PollerInterrupted, threadVars, lifeVars,
                      LockAndExecute, Unlock, Go
  <2> QED BY <1>1, <2>1, <2>2 DEF HitsPrune, MadeRollBack
<1>6. CASE PruneStep
  <2>1. Outlived' = Outlived /\ late' = late
    BY <1>6, OthersDoNotWatch
       DEF PruneStep, PruneThread, ThenRun, PruneBegins, TransactionBegun, BeginRaises, ActionsDeleted,
           RawTxsDeleted, Committed, PruneInterrupted, RolledBack, RollbackRaises, lifeVars
  <2>2. CASE PruneInterrupted
    <3>1. HitsPrune = 1 /\ MadeRollBack = 0 /\ HitsPrune' = 0 /\ MadeRollBack' = 1
      BY <1>0, <2>2 DEF PruneInterrupted, ThenRun, PruneThread, Go, HitsPrune, MadeRollBack
    <3> QED BY <1>s, <1>f, <2>1, <3>1 DEF Counted
  <2>3. CASE ~PruneInterrupted
    <3>1. HitsPrune' = 0 /\ MadeRollBack' = 0
      BY <1>0, <1>6, <2>3
         DEF PruneStep, PruneThread, ThenRun, PruneBegins, TransactionBegun, BeginRaises, ActionsDeleted,
             RawTxsDeleted, Committed, RolledBack, RollbackRaises, LockAndExecute, Unlock, Go,
             HitsPrune, MadeRollBack
    <3>2. HitsPrune \in Nat /\ MadeRollBack \in Nat
      BY DEF HitsPrune, MadeRollBack
    <3> QED BY <1>0, <1>s, <1>f, <2>1, <3>1, <3>2 DEF Counted
  <2> QED BY <2>2, <2>3
<1>7. CASE Close \/ Stop
  <2>1. UNCHANGED <<lock, flag, late, at>> /\ Outlived' = Outlived
    BY <1>7 DEF Close, Stop, connVars, threadVars, Outlived, Pending
  <2> QED BY <1>2, <2>1
<1>8. CASE Restart \/ Kill
  <2>1. NewProcess
    BY <1>8 DEF Restart, Kill
  <2>2. Outlived' = {}
    BY <2>1 DEF NewProcess, Outlived, Pending
  <2>3. HitsPrune' = 0 /\ MadeRollBack' = 0 /\ late' = late
    BY <2>1 DEF NewProcess, Lose, Unlock, HitsPrune, MadeRollBack
  <2> QED BY <1>0, <2>2, <2>3, FS_EmptySet DEF Counted
<1>9. CASE UNCHANGED vars
  <2>1. UNCHANGED <<lock, flag, late, at>> /\ Outlived' = Outlived
    BY <1>9 DEF vars, connVars, threadVars, lifeVars, Outlived, Pending
  <2> QED BY <1>2, <2>1
<1> QED BY <1>3, <1>4, <1>5, <1>6, <1>7, <1>8, <1>9 DEF Next, ProcessStep

(* Whoever's statement is interrupted: it was late, or its own watcher.    *)
LEMMA FlaggedKept ==
    ASSUME Typed, Watching, Counted, Flagged, InterruptsStay, [Next]_vars
    PROVE  Flagged' /\ InterruptsStay'
<1> USE ThreadNames DEF Flagged, InterruptsStay
<1>0. late \in Nat /\ watcher \in [Request -> WatcherStage]
  BY QueryAssumption DEF Typed, TypeOK
<1>1. late' >= late /\ late' \in Nat
  BY <1>0
     DEF Next, vars, lifeVars, Arrival, HealthArrives, ArrivesWithoutToken, Arrives, ArrivesOverLimit,
         QueryEnds, Executed, Fetched, SqlFails, ProcessStep, RequestStep, Begin, Expire,
         WatcherInterrupts, WatcherWakes, SqlInterrupted, Joined, JoinTimesOut, ReadDone,
         ReadInterrupted, PollerStep, PollerBegins, PollerStores, PollerInterrupted, PruneStep,
         PruneBegins, TransactionBegun, BeginRaises, ActionsDeleted, RawTxsDeleted, Committed,
         PruneInterrupted, RolledBack, RollbackRaises, Close, Restart, Stop, Kill, NewProcess
<1>2. Outlived # {} => late > 0
  <2>1. HitsPrune \in Nat /\ MadeRollBack \in Nat
    BY DEF HitsPrune, MadeRollBack
  <2>2. ASSUME NEW r \in Outlived PROVE Cardinality(Outlived) >= 1
    <3>1. Cardinality(Outlived \ {r}) \in Nat /\ Cardinality(Outlived \ {r}) = Cardinality(Outlived) - 1
      BY Fewer
    <3> QED BY <3>1, Fewer
  <2> QED BY <1>0, <2>1, <2>2, Fewer DEF Counted
<1>3. ASSUME NEW t \in Thread, lock = t, flag, Strayed(t)
      PROVE  InterruptsStay'
  <2>1. late > 0 \/ (t \in Request /\ watcher[t] = "fired")
    BY <1>3
  <2>2. stray' => late > 0
    BY <1>3, <2>1, Zenon DEF Strayed
  <2>3. late > 0 => late' > 0
    BY <1>0, <1>1
  <2> QED BY <2>2, <2>3, Zenon
<1>4. ASSUME UNCHANGED stray
      PROVE  InterruptsStay'
  BY <1>0, <1>1, <1>4
<1>5. ASSUME flag' = FALSE \/ UNCHANGED <<flag, lock, watcher>>
      PROVE  Flagged'
  <2>1. late > 0 => late' > 0
    BY <1>0, <1>1
  <2>2. CASE flag' = FALSE
    BY <2>2, Zenon
  <2>3. CASE UNCHANGED <<flag, lock, watcher>>
    <3>1. flag' = flag /\ lock' = lock /\ watcher' = watcher
      BY <2>3
    <3> QED BY <2>1, <3>1, Zenon
  <2> QED BY <1>5, <2>2, <2>3
<1>6. CASE UNCHANGED vars
  BY <1>4, <1>5, <1>6 DEF vars, connVars, threadVars, lifeVars
<1>7. CASE Arrival
  BY <1>4, <1>5, <1>7 DEF Arrival, HealthArrives, ArrivesWithoutToken, Arrives, ArrivesOverLimit,
                          Accepted, Answered, connVars, lifeVars
<1>8. ASSUME NEW r \in Request, QueryEnds(r) \/ RequestStep(r)
      PROVE  Flagged' /\ InterruptsStay'
  <2>1. CASE Begin(r) \/ Fetched(r) \/ SqlFails(r) \/ Joined(r) \/ JoinTimesOut(r) \/ ReadDone(r)
    BY <1>4, <1>5, <2>1 DEF Begin, LockAndExecute, Fetched, SqlFails, SqlReturns, Joined, JoinTimesOut,
                            ReadDone, Unlock, lifeVars
  <2>2. CASE Executed(r)
    BY <1>4, <1>5, <2>2 DEF Executed, connVars, lifeVars
  <2>3. CASE SqlInterrupted(r) \/ ReadInterrupted(r)
    BY <1>3, <1>5, <2>3 DEF SqlInterrupted, SqlReturns, ReadInterrupted, Unlock
  <2>4. CASE Expire(r) \/ WatcherWakes(r)
    <3>1. /\ lock' = lock /\ flag' = flag /\ stray' = stray
          /\ \A q \in Request : watcher[q] = "fired" => watcher'[q] = "fired"
      BY <1>0, <2>4 DEF Expire, WatcherWakes, connVars, lifeVars
    <3> QED BY <1>0, <1>1, <1>4, <3>1
  <2>5. CASE WatcherInterrupts(r)
    <3>1. stray' = stray /\ lock' = lock /\ watcher'[r] = "fired"
      BY <1>0, <2>5 DEF WatcherInterrupts, InterruptConnection, lifeVars
    <3>2. CASE at[r] = "done"
      BY <1>1, <1>2, <1>4, <1>0, <2>5, <3>1, <3>2 DEF WatcherInterrupts, Outlived, Pending
    <3>3. CASE at[r] # "done"
      BY <1>4, <2>5, <3>1, <3>3 DEF WatcherInterrupts, Watching, Pending, Typed, Holding
    <3> QED BY <3>2, <3>3
  <2> QED BY <1>8, <2>1, <2>2, <2>3, <2>4, <2>5 DEF QueryEnds, RequestStep
<1>9. CASE PollerStep
  BY <1>3, <1>4, <1>5, <1>9 DEF PollerStep, PollerBegins, LockAndExecute, PollerStores,
                                PollerInterrupted, Unlock, lifeVars
<1>10. CASE PruneStep
  BY <1>3, <1>4, <1>5, <1>10
     DEF PruneStep, PruneThread, ThenRun, PruneBegins, LockAndExecute, TransactionBegun, BeginRaises,
         ActionsDeleted, RawTxsDeleted, Committed, PruneInterrupted, RolledBack, RollbackRaises,
         Unlock, lifeVars
<1>11. CASE Close \/ Stop
  BY <1>4, <1>5, <1>11 DEF Close, Stop, connVars, threadVars
<1>12. CASE Restart \/ Kill
  BY <1>4, <1>5, <1>12 DEF Restart, Kill, NewProcess, Lose, Unlock
<1> QED BY <1>6, <1>7, <1>8, <1>9, <1>10, <1>11, <1>12 DEF Next, ProcessStep

-----------------------------------------------------------------------------
(* The prune transaction *)

(* What each stage of the prune has deleted, in a transaction that nobody  *)
(* but the prune leaves open, and only after two late interrupts.          *)
Transaction ==
    /\ at["prune"] = "begin" => ~open
    /\ at["prune"] \in {"delAct", "delRaw", "commit", "rollback"} => open
    /\ at["prune"] \in {"delRaw", "commit"} => "oldAct" \notin seen
    /\ at["prune"] = "commit" => "oldRaw" \notin seen
    /\ open => at["prune"] # "idle" \/ late >= 2
    /\ ~open => seen = db

LEMMA TransactionKept ==
    ASSUME Typed, Counted, Transaction, PrunedTogether, [Next]_vars
    PROVE  Transaction' /\ PrunedTogether'
<1> USE ThreadNames DEF Transaction, PrunedTogether
<1>0. /\ at \in [Thread -> Stage] /\ late \in Nat /\ open \in BOOLEAN
      /\ Holding
  BY QueryAssumption DEF Typed, TypeOK, ConnectionTypeOK
<1>1. ASSUME UNCHANGED <<open, db, seen, late>>, at'["prune"] = at["prune"]
      PROVE  Transaction' /\ PrunedTogether'
  BY <1>1
<1>2. CASE UNCHANGED vars
  BY <1>1, <1>2 DEF vars, connVars, threadVars, lifeVars
<1>3. CASE Arrival
  BY <1>0, <1>1, <1>3 DEF Arrival, HealthArrives, ArrivesWithoutToken, Arrives, ArrivesOverLimit,
                          Accepted, Answered, Go, connVars, lifeVars
<1>4. ASSUME NEW r \in Request, QueryEnds(r) \/ RequestStep(r)
      PROVE  Transaction' /\ PrunedTogether'
  <2>1. CASE JoinTimesOut(r)
    BY <1>0, <2>1 DEF JoinTimesOut, Go
  <2>2. CASE ~JoinTimesOut(r)
    <3>1. at'["prune"] = at["prune"]
      BY <1>0, <1>4, <2>2
         DEF QueryEnds, RequestStep, Begin, Expire, WatcherInterrupts, WatcherWakes, Executed, Fetched,
             SqlFails, SqlReturns, SqlInterrupted, Joined, ReadDone, ReadInterrupted, Go
    <3>2. UNCHANGED <<open, db, seen, late>>
      BY <1>4, <2>2
         DEF QueryEnds, RequestStep, Begin, LockAndExecute, Expire, WatcherInterrupts,
             InterruptConnection, WatcherWakes, Executed, Fetched, SqlFails, SqlReturns,
             SqlInterrupted, Joined, ReadDone, ReadInterrupted, Unlock, connVars, lifeVars
    <3> QED BY <1>1, <3>1, <3>2
  <2> QED BY <2>1, <2>2
<1>5. CASE PollerStep
  <2>1. CASE PollerBegins \/ PollerInterrupted
    BY <1>0, <1>1, <2>1 DEF PollerBegins, PollerInterrupted, LockAndExecute, threadVars, lifeVars, Unlock, Go
  <2>2. CASE PollerStores
    <3>1. at["poller"] \notin Old /\ at["prune"] = "idle" /\ at'["prune"] = "idle"
      BY <1>0, <2>2 DEF PollerStores, Holding, PollerStages, Old, Go
    <3>2. open' = open /\ late' = late
      BY <2>2 DEF PollerStores, lifeVars
    <3>3. seen' = seen \cup {at["poller"]} /\ db' = IF open THEN db ELSE seen'
      BY <2>2 DEF PollerStores, Write
    <3> QED BY <3>1, <3>2, <3>3 DEF Old
  <2> QED BY <1>5, <2>1, <2>2 DEF PollerStep
<1>6. CASE PruneStep
  <2> USE <1>0 DEF PruneThread, ThenRun, Unlock, Go, lifeVars
  <2>1. CASE PruneBegins
    BY <2>1 DEF PruneBegins, LockAndExecute
  <2>2. CASE TransactionBegun
    BY <2>2 DEF TransactionBegun
  <2>3. CASE BeginRaises
    BY <2>3 DEF BeginRaises
  <2>4. CASE ActionsDeleted
    BY <2>4 DEF ActionsDeleted, Write
  <2>5. CASE RawTxsDeleted
    BY <2>5 DEF RawTxsDeleted, Write
  <2>6. CASE Committed
    BY <2>6 DEF Committed, Commit
  <2>7. CASE PruneInterrupted
    BY <2>7 DEF PruneInterrupted
  <2>8. CASE RolledBack
    BY <2>8 DEF RolledBack, Rollback
  <2>9. CASE RollbackRaises
    <3>1. HitsPrune = 1 /\ MadeRollBack = 1
      BY <2>9 DEF RollbackRaises, HitsPrune, MadeRollBack
    <3>2. late >= 2
      BY <3>1, Fewer DEF Counted
    <3>3. open' = open /\ seen' = seen /\ db' = db /\ late' = late /\ at'["prune"] = "idle" /\ open
      BY <2>9 DEF RollbackRaises
    <3> QED BY <3>2, <3>3
  <2> QED BY <1>6, <2>1, <2>2, <2>3, <2>4, <2>5, <2>6, <2>7, <2>8, <2>9 DEF PruneStep
<1>7. CASE Close \/ Stop
  BY <1>1, <1>7 DEF Close, Stop, connVars, threadVars
<1>8. CASE Restart \/ Kill
  <2>1. open' = FALSE /\ seen' = db /\ db' = db /\ at'["prune"] = "idle"
    BY <1>8 DEF Restart, Kill, NewProcess, Lose, Rollback
  <2> QED BY <2>1
<1> QED BY <1>2, <1>3, <1>4, <1>5, <1>6, <1>7, <1>8 DEF Next, ProcessStep

-----------------------------------------------------------------------------
(* The inductive invariant. *)
IInv ==
    /\ Typed
    /\ Watching /\ Counted /\ Flagged /\ InterruptsStay
    /\ Transaction /\ PrunedTogether

LEMMA Starts == Init => IInv
<1> SUFFICES ASSUME Init PROVE IInv
  OBVIOUS
<1>1. Typed
  BY StartsTyped
<1>2. at["prune"] = "idle" /\ \A r \in Request : watcher[r] = "none"
  BY ThreadNames DEF Init
<1>3. Watching /\ Outlived = {}
  BY <1>2 DEF Watching, Outlived, Pending
<1>4. Counted
  <2>1. HitsPrune = 0 /\ MadeRollBack = 0 /\ late = 0
    BY <1>2, ThreadNames DEF Init, ConnectionInit, HitsPrune, MadeRollBack
  <2> QED BY <1>3, <2>1, FS_EmptySet DEF Counted
<1>5. flag = FALSE /\ stray = FALSE /\ open = FALSE /\ db = Old /\ seen = db
  BY DEF Init, ConnectionInit
<1>6. Flagged /\ InterruptsStay
  BY <1>5 DEF Flagged, InterruptsStay
<1>7. Transaction /\ PrunedTogether
  BY <1>2, <1>5 DEF Transaction, PrunedTogether, Old
<1> QED BY <1>1, <1>3, <1>4, <1>6, <1>7 DEF IInv

LEMMA Inductive == Spec => []IInv
<1>1. IInv /\ [Next]_vars => IInv'
  BY TypedKept, WatchingKept, CountedKept, FlaggedKept, TransactionKept DEF IInv
<1> QED BY Starts, <1>1, PTL DEF Spec

(* Whichever of its statements are interrupted, and whenever the process   *)
(* is killed, the prune deletes old rows of both tables or of neither      *)
(* (storage.py:364-387).                                                   *)
THEOREM PruneIsAtomic == Spec => []PrunedTogether
<1>1. IInv => PrunedTogether
  BY DEF IInv
<1> QED BY Inductive, <1>1, PTL

(* Whoever gets the lock finds no transaction open, as long as not two     *)
(* watchers have outlived their joins (storage.py:370-387, sql.py:202).    *)
THEOREM NothingLeftOpen == Spec => []NoTransactionLeftOpen
<1>1. ASSUME IInv PROVE NoTransactionLeftOpen
  <2>1. lock = NoThread => at["prune"] = "idle"
    BY <1>1, ThreadNames DEF IInv, Typed, Holding
  <2>2. late \in Nat
    BY <1>1, QueryAssumption DEF IInv, Typed, TypeOK
  <2> QED BY <1>1, <2>1, <2>2 DEF IInv, Transaction, NoTransactionLeftOpen
<1> QED BY Inductive, <1>1, PTL

(* A watcher interrupts the statement of its own query, unless it outlived *)
(* its join (sql.py:163-202).                                              *)
THEOREM InterruptsStayHome == Spec => []InterruptsStay
<1>1. IInv => InterruptsStay
  BY DEF IInv
<1> QED BY Inductive, <1>1, PTL
-----------------------------------------------------------------------------
(* The limiter *)

(* Induction on the natural numbers, as a fact about sets: what holds      *)
(* somewhere holds at a first place.                                       *)
Below == {p \in Nat \X Nat : p[1] < p[2]}

LEMMA LeastElement ==
    ASSUME NEW S \in SUBSET Nat, S # {}
    PROVE  \E n \in S : \A m \in S : n <= m
<1>1. IsWellFoundedOn(Below, Nat)
  <2>1. OpToRel(<, Nat) = Below
    BY DEF OpToRel, Below
  <2> QED BY <2>1, NatLessThanWellFounded
<1>2. PICK n \in S : \A m \in S : ~(<<m, n>> \in Below)
  BY <1>1, WFMin
<1>3. ASSUME NEW m \in S PROVE n <= m
  <2>1. m \in Nat /\ n \in Nat
    OBVIOUS
  <2>2. m < n => <<m, n>> \in Below
    BY <2>1 DEF Below
  <2> QED BY <1>2, <2>1, <2>2
<1> QED BY <1>3

(* Numbers that all lie less than w apart are at most w.                   *)
LEMMA CloseTogether ==
    ASSUME NEW S \in SUBSET Nat, NEW w \in Nat, \A i, j \in S : j < i + w
    PROVE  Cardinality(S) <= w
<1>1. CASE S = {}
  BY <1>1, FS_EmptySet
<1>2. CASE S # {}
  <2>1. PICK n \in S : \A m \in S : n <= m
    BY <1>2, LeastElement
  <2>2. S \subseteq n .. (n + w - 1) /\ n \in Nat
    BY <2>1
  <2>3. /\ IsFiniteSet(n .. (n + w - 1))
        /\ Cardinality(n .. (n + w - 1)) = IF n > n + w - 1 THEN 0 ELSE (n + w - 1) - n + 1
    BY <2>2, FS_Interval
  <2>4. IsFiniteSet(S) /\ Cardinality(S) <= Cardinality(n .. (n + w - 1))
    BY <2>2, <2>3, FS_Subset
  <2>5. Cardinality(S) \in Nat /\ Cardinality(n .. (n + w - 1)) \in Nat
    BY <2>3, <2>4, FS_CardinalityType
  <2>6. Cardinality(n .. (n + w - 1)) <= w
    BY <2>2, <2>3
  <2> QED BY <2>4, <2>5, <2>6
<1> QED BY <1>1, <1>2

(* How many requests of key k its present window has let through.          *)
InWindow(k) == IF counts[k].count < Limit THEN counts[k].count ELSE Limit

(* Let through until now, the last m of them since s: those before came    *)
(* before s, and all but Limit of those a whole window earlier.            *)
Recent(a, m, s) ==
    /\ m <= Len(a)
    /\ \A i \in 1 .. (Len(a) - m) : a[i] <= s
    /\ \A i \in 1 .. (Len(a) - m - Limit) : a[i] + Window <= s

(* Two requests that lie twice the limit apart lie a window apart.         *)
Spaced(a) ==
    /\ \A i, j \in DOMAIN a : i <= j => a[i] <= a[j]
    /\ \A i, j \in DOMAIN a : i + 2 * Limit <= j => a[i] + Window <= a[j]

WindowOf(k) ==
    IF k \in DOMAIN counts THEN Recent(admitted[k], InWindow(k), counts[k].start)
    ELSE admitted[k] = << >>

Windows ==
    \A k \in Key : /\ WindowOf(k) /\ Spaced(admitted[k])
                   /\ \A i \in DOMAIN admitted[k] : admitted[k][i] <= now

LEMMA AppendSpaced ==
    ASSUME NEW a \in Seq(Nat), NEW t \in Nat, Spaced(a),
           \A i \in DOMAIN a : a[i] <= t,
           \A i \in 1 .. (Len(a) + 1 - 2 * Limit) : a[i] + Window <= t
    PROVE  Spaced(Append(a, t)) /\ \A i \in DOMAIN Append(a, t) : Append(a, t)[i] <= t
<1>0. Limit \in Nat \ {0} /\ Window \in Nat \ {0} /\ Len(a) \in Nat /\ DOMAIN a = 1 .. Len(a)
  BY RateLimitAssumption
<1> DEFINE b == Append(a, t)
<1>1. /\ DOMAIN b = 1 .. (Len(a) + 1) /\ b[Len(a) + 1] = t
      /\ \A i \in 1 .. Len(a) : b[i] = a[i] /\ a[i] \in Nat /\ a[i] <= t
  BY <1>0
<1> HIDE DEF b
<1>2. \A i \in DOMAIN b : b[i] <= t
  BY <1>0, <1>1
<1>3. ASSUME NEW i \in DOMAIN b, NEW j \in DOMAIN b, i <= j
      PROVE  b[i] <= b[j]
  <2>1. CASE j = Len(a) + 1
    BY <1>1, <1>2, <2>1
  <2>2. CASE j # Len(a) + 1
    BY <1>0, <1>1, <1>3, <2>2 DEF Spaced
  <2> QED BY <2>1, <2>2
<1>4. ASSUME NEW i \in DOMAIN b, NEW j \in DOMAIN b, i + 2 * Limit <= j
      PROVE  b[i] + Window <= b[j]
  <2>1. CASE j = Len(a) + 1
    <3>1. i \in 1 .. (Len(a) + 1 - 2 * Limit) /\ i \in 1 .. Len(a)
      BY <1>0, <1>1, <1>4, <2>1
    <3> QED BY <1>1, <2>1, <3>1
  <2>2. CASE j # Len(a) + 1
    <3>1. i \in 1 .. Len(a) /\ j \in 1 .. Len(a)
      BY <1>0, <1>1, <1>4, <2>2
    <3> QED BY <1>0, <1>1, <1>4, <3>1 DEF Spaced
  <2> QED BY <2>1, <2>2
<1>5. Spaced(b)
  BY <1>3, <1>4 DEF Spaced
<1> QED BY <1>2, <1>5 DEF b

(* One more in the same window. *)
LEMMA AppendRecent ==
    ASSUME NEW a \in Seq(Nat), NEW t \in Nat, NEW m \in Nat, NEW s \in Nat, Recent(a, m, s)
    PROVE  Recent(Append(a, t), m + 1, s)
<1>0. Limit \in Nat \ {0} /\ Len(a) \in Nat /\ Len(Append(a, t)) = Len(a) + 1
  BY RateLimitAssumption
<1>1. \A i \in 1 .. Len(a) : Append(a, t)[i] = a[i]
  BY <1>0
<1> QED BY <1>0, <1>1 DEF Recent

(* The first of a new window. *)
LEMMA AppendFirst ==
    ASSUME NEW a \in Seq(Nat), NEW t \in Nat, \A i \in DOMAIN a : a[i] <= t,
           \A i \in 1 .. (Len(a) - Limit) : a[i] + Window <= t
    PROVE  Recent(Append(a, t), 1, t)
<1>0. Limit \in Nat \ {0} /\ Len(a) \in Nat /\ Len(Append(a, t)) = Len(a) + 1
      /\ DOMAIN a = 1 .. Len(a)
  BY RateLimitAssumption
<1>1. \A i \in 1 .. Len(a) : Append(a, t)[i] = a[i]
  BY <1>0
<1> QED BY <1>0, <1>1 DEF Recent

LEMMA WindowsKept ==
    ASSUME RateLimitTypeOK, Windows, [Next]_vars
    PROVE  Windows'
<1>0. /\ Limit \in Nat \ {0} /\ Window \in Nat \ {0} /\ now \in Nat
      /\ admitted \in [Key -> Seq(Nat)]
  BY RateLimitAssumption DEF RateLimitTypeOK, Time
<1>1. CASE UNCHANGED limitVars
  BY <1>1 DEF limitVars, Windows, WindowOf, InWindow
<1>2. CASE Forget
  BY <1>2 DEF Forget, Windows, WindowOf, Spaced
<1>3. ASSUME NEW k \in Key, NEW t \in Later, Count(k, t),
             \/ ~Over(k, t) /\ admitted' = [admitted EXCEPT ![k] = Append(@, t)]
             \/ Over(k, t) /\ admitted' = admitted
      PROVE  Windows'
  <2> DEFINE a == admitted[k]
             w == CurrentWindow(k, t)
  <2>1. /\ t \in Nat /\ now <= t /\ now' = t /\ k \in DOMAIN counts'
        /\ counts'[k] = [w EXCEPT !.count = @ + 1]
        /\ \A x \in Key \ {k} : /\ x \in DOMAIN counts <=> x \in DOMAIN counts'
                                /\ x \in DOMAIN counts => counts'[x] = counts[x]
    BY <1>0, <1>3, RateLimitAssumption DEF Count, Later
  <2>2. /\ a \in Seq(Nat) /\ Len(a) \in Nat /\ DOMAIN a = 1 .. Len(a)
        /\ \A i \in DOMAIN a : a[i] \in Nat /\ a[i] <= now /\ a[i] <= t
        /\ WindowOf(k) /\ Spaced(a)
    <3>1. a \in Seq(Nat) /\ WindowOf(k) /\ Spaced(a) /\ \A i \in DOMAIN a : a[i] <= now
      BY <1>0 DEF Windows
    <3>2. \A i \in DOMAIN a : a[i] \in Nat
      BY <3>1
    <3> QED BY <1>0, <2>1, <3>1, <3>2
  <2>3. ASSUME NEW x \in Key, x # k
        PROVE  /\ WindowOf(x)' /\ Spaced(admitted[x])'
               /\ \A i \in DOMAIN admitted'[x] : admitted'[x][i] <= now'
    <3>1. admitted'[x] = admitted[x] /\ admitted[x] \in Seq(Nat)
      BY <1>0, <1>3, <2>3
    <3>2. WindowOf(x)' /\ Spaced(admitted[x])'
      BY <2>1, <2>3, <3>1 DEF Windows, WindowOf, InWindow, Spaced
    <3>3. \A i \in DOMAIN admitted[x] : admitted[x][i] \in Nat /\ admitted[x][i] <= now
      BY <3>1 DEF Windows
    <3> QED BY <1>0, <2>1, <3>1, <3>2, <3>3
  <2>4. ASSUME Recent(a', InWindow(k)', counts'[k].start), Spaced(a'),
               \A i \in DOMAIN a' : a'[i] <= t
        PROVE  Windows'
    BY <2>1, <2>3, <2>4 DEF Windows, WindowOf
  <2>5. CASE k \in DOMAIN counts /\ t - counts[k].start < Window
    <3> DEFINE s == counts[k].start
               m == InWindow(k)
    <3>1. counts[k] \in [start : 0 .. now, count : Nat \ {0}]
      BY <2>5 DEF RateLimitTypeOK
    <3>2. w = counts[k] /\ s \in Nat /\ s <= t
      BY <1>0, <2>1, <2>5, <3>1 DEF CurrentWindow
    <3>3. counts'[k].start = s /\ counts'[k].count = counts[k].count + 1
      BY <2>1, <3>1, <3>2
    <3>4. Recent(a, m, s)
      BY <2>2, <2>5 DEF WindowOf
    <3>5. CASE Over(k, t)
      <4>1. a' = a /\ counts[k].count >= Limit
        BY <1>0, <1>3, <3>1, <3>2, <3>5 DEF Over
      <4>2. InWindow(k)' = Limit /\ m = Limit
        BY <1>0, <3>1, <3>3, <4>1 DEF InWindow
      <4>3. Recent(a', InWindow(k)', counts'[k].start)
        BY <3>3, <3>4, <4>1, <4>2
      <4> QED BY <2>2, <2>4, <4>1, <4>3
    <3>6. CASE ~Over(k, t)
      <4>1. a' = Append(a, t) /\ counts[k].count < Limit
        BY <1>0, <1>3, <3>1, <3>2, <3>6 DEF Over
      <4>2. InWindow(k)' = m + 1 /\ m \in Nat /\ m < Limit
        BY <1>0, <3>1, <3>3, <4>1 DEF InWindow
      <4>3. Recent(Append(a, t), m + 1, s)
        BY <2>1, <2>2, <3>2, <3>4, <4>2, AppendRecent
      <4>4. ASSUME NEW i \in 1 .. (Len(a) + 1 - 2 * Limit) PROVE a[i] + Window <= t
        <5>1. i \in 1 .. (Len(a) - m - Limit) /\ i \in 1 .. Len(a)
          BY <1>0, <2>2, <4>2
        <5>2. a[i] + Window <= s /\ a[i] \in Nat
          BY <2>2, <3>4, <5>1 DEF Recent
        <5>3. s \in Nat /\ s <= t /\ t \in Nat
          BY <2>1, <3>2
        <5> HIDE DEF a, s
        <5> QED BY <1>0, <5>2, <5>3
      <4>5. Spaced(Append(a, t)) /\ \A i \in DOMAIN Append(a, t) : Append(a, t)[i] <= t
        BY <2>1, <2>2, <4>4, AppendSpaced
      <4> QED BY <2>4, <3>3, <4>1, <4>2, <4>3, <4>5
    <3> QED BY <3>5, <3>6
  <2>6. CASE ~(k \in DOMAIN counts /\ t - counts[k].start < Window)
    <3>1. w = [start |-> t, count |-> 0]
      <4>1. CASE k \in DOMAIN counts
        <5>1. counts[k].start \in Nat
          BY <4>1 DEF RateLimitTypeOK
        <5> QED BY <1>0, <2>1, <2>6, <4>1, <5>1 DEF CurrentWindow
      <4>2. CASE k \notin DOMAIN counts
        BY <1>0, <2>1, <4>2 DEF CurrentWindow
      <4> QED BY <4>1, <4>2
    <3>2. counts'[k] = [start |-> t, count |-> 1] /\ ~Over(k, t)
      BY <1>0, <2>1, <3>1 DEF Over
    <3>3. a' = Append(a, t) /\ InWindow(k)' = 1
      BY <1>0, <1>3, <3>2 DEF InWindow
    <3>4. ASSUME NEW i \in 1 .. (Len(a) - Limit) PROVE a[i] + Window <= t
      <4>1. k \in DOMAIN counts
        BY <1>0, <2>2, <3>4 DEF WindowOf
      <4>2. /\ counts[k] \in [start : 0 .. now, count : Nat \ {0}]
            /\ InWindow(k) \in Nat /\ InWindow(k) <= Limit
        BY <1>0, <4>1 DEF RateLimitTypeOK, InWindow
      <4>3. a[i] <= counts[k].start /\ a[i] \in Nat
        BY <1>0, <2>2, <4>1, <4>2 DEF WindowOf, Recent
      <4> DEFINE s == counts[k].start
                 x == a[i]
      <4>4. s \in Nat /\ ~(t - s < Window) /\ x <= s /\ x \in Nat /\ t \in Nat
        BY <1>0, <2>1, <2>6, <4>1, <4>2, <4>3
      <4>5. x + Window <= t
        <5> HIDE DEF s, x
        <5> QED BY <1>0, <4>4
      <4> QED BY <4>5
    <3>5. Recent(Append(a, t), 1, t)
      BY <2>1, <2>2, <3>4, AppendFirst
    <3>6. \A i \in 1 .. (Len(a) + 1 - 2 * Limit) : i \in 1 .. (Len(a) - Limit)
      BY <1>0, <2>2
    <3>7. Spaced(Append(a, t)) /\ \A i \in DOMAIN Append(a, t) : Append(a, t)[i] <= t
      BY <2>1, <2>2, <3>4, <3>6, AppendSpaced
    <3> QED BY <2>4, <3>2, <3>3, <3>5, <3>7
  <2> QED BY <2>5, <2>6
<1> QED BY <1>1, <1>2, <1>3, LimiterUse DEF Admit, Reject

LEMMA WindowsCorrect == Spec => [](RateLimitTypeOK /\ Windows)
<1>1. Init => RateLimitTypeOK /\ Windows
  BY RateLimitAssumption
     DEF Init, RateLimitInit, RateLimitTypeOK, Time, Windows, WindowOf, Spaced
<1>2. RateLimitTypeOK /\ Windows /\ [Next]_vars => (RateLimitTypeOK /\ Windows)'
  BY LimiterTyped, WindowsKept
<1> QED BY <1>1, <1>2, PTL DEF Spec

(* Whenever its requests come, a token gets at most twice the limit        *)
(* through within the length of a window (ratelimit.py:3-7, 45-53).        *)
THEOREM AtMostTwice == Spec => []TwiceTheLimit
<1>1. RateLimitTypeOK /\ Windows => TwiceTheLimit
  <2> SUFFICES ASSUME RateLimitTypeOK, Windows, NEW k \in Key, NEW i \in DOMAIN admitted[k]
               PROVE  Cardinality({j \in DOMAIN admitted[k] :
                          /\ admitted[k][j] >= admitted[k][i]
                          /\ admitted[k][j] - admitted[k][i] < Window}) <= 2 * Limit
    BY DEF TwiceTheLimit
  <2> DEFINE a == admitted[k]
             S == {j \in DOMAIN a : a[j] >= a[i] /\ a[j] - a[i] < Window}
  <2>0. Limit \in Nat \ {0} /\ Window \in Nat \ {0}
    BY RateLimitAssumption
  <2>1. a \in Seq(Nat) /\ Spaced(a)
    BY RateLimitAssumption DEF RateLimitTypeOK, Time, Windows
  <2>2. S \subseteq Nat
    BY <2>1
  <2>3. ASSUME NEW x \in S, NEW y \in S PROVE y < x + 2 * Limit
    <3>1. /\ x \in DOMAIN a /\ y \in DOMAIN a /\ x \in Nat /\ y \in Nat
          /\ a[x] \in Nat /\ a[y] \in Nat /\ a[i] \in Nat
      <4>1. x \in DOMAIN a /\ y \in DOMAIN a /\ i \in DOMAIN a
        OBVIOUS
      <4>2. \A j \in DOMAIN a : j \in Nat /\ a[j] \in Nat
        <5> HIDE DEF a
        <5> QED BY <2>1
      <4> HIDE DEF a, S
      <4> QED BY <4>1, <4>2
    <3>2. a[x] >= a[i] /\ a[y] - a[i] < Window
      OBVIOUS
    <3>3. x + 2 * Limit <= y => a[x] + Window <= a[y]
      BY <2>1, <3>1 DEF Spaced
    <3> QED BY <2>0, <3>1, <3>2, <3>3
  <2>4. 2 * Limit \in Nat
    BY <2>0
  <2> HIDE DEF S
  <2>5. Cardinality(S) <= 2 * Limit
    BY <2>2, <2>3, <2>4, CloseTogether
  <2> QED BY <2>5 DEF S
<1> QED BY WindowsCorrect, <1>1, PTL
=============================================================================

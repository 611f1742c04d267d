----------------------------- MODULE Connection -----------------------------
(***************************************************************************)
(* The one DuckDB connection of a process and Storage.lock around it       *)
(* (ingester/storage.py).  DuckDB is modelled as its callers use it: a     *)
(* statement commits by itself unless a transaction is open; interrupt()   *)
(* from another thread sets a flag that ends the statement which is        *)
(* running, or does nothing: the next execute() clears the flag.           *)
(***************************************************************************)
CONSTANT
    NoThread    \* the lock is free

VARIABLES
    lock,     \* the thread that holds Storage.lock
    running,  \* a statement is being executed
    flag,     \* it has been interrupted
    open,     \* a transaction is open
    db,       \* the rows that are committed
    seen      \* the rows the connection sees

connVars == <<lock, running, flag, open, db, seen>>

(* What the rows are: those of a batch of the poller and its cursor, and   *)
(* two that are older than the retention window.                           *)
Row == {"raw", "act", "cursor", "oldRaw", "oldAct"}
Old == {"oldRaw", "oldAct"}

ConnectionTypeOK ==
    /\ running \in BOOLEAN /\ flag \in BOOLEAN /\ open \in BOOLEAN
    /\ db \subseteq Row /\ seen \subseteq Row

ConnectionInit ==
    /\ lock = NoThread /\ running = FALSE /\ flag = FALSE /\ open = FALSE
    /\ db = Old /\ seen = db

(* "with self.lock" and the first statement under it; what an interrupt    *)
(* does between the two is nothing.                                        *)
LockAndExecute(t) ==
    /\ lock = NoThread
    /\ lock' = t /\ running' = TRUE /\ flag' = FALSE
    /\ UNCHANGED <<open, db, seen>>

(* The statement leaves the rows of the connection as S. *)
Write(S) ==
    /\ seen' = S
    /\ db' = IF open THEN db ELSE S

Unlock == lock' = NoThread /\ running' = FALSE /\ flag' = FALSE

Commit   == db' = seen /\ open' = FALSE /\ UNCHANGED seen
Rollback == seen' = db /\ open' = FALSE /\ UNCHANGED db

(* con.interrupt() *)
InterruptConnection ==
    /\ flag' = running
    /\ UNCHANGED <<lock, running, open, db, seen>>

(* The process dies: DuckDB rolls an open transaction back. *)
Lose ==
    /\ Unlock
    /\ Rollback
=============================================================================

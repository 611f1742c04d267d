----------------------------- MODULE RateLimit -----------------------------
(***************************************************************************)
(* The per-token fixed window of ingester/ratelimit.py.  Retry-After, what *)
(* a rejected client is told, is left out.                                 *)
(***************************************************************************)
EXTENDS Integers, Sequences, FiniteSets

CONSTANTS
    Key,        \* bucket keys: hashes of bearer tokens
    Limit,      \* limit_per_min
    Window,     \* WINDOW_SECONDS, in ticks of the clock
    MaxTime     \* bound: the last tick

ASSUME RateLimitAssumption ==
    /\ Limit \in Nat \ {0} /\ Window \in Nat \ {0}
    /\ MaxTime \in Nat

VARIABLES
    now,       \* the clock
    counts,    \* _counts: key -> [start, count]
    admitted   \* history: for each key the times of the requests let through

limitVars == <<now, counts, admitted>>

Time == 0 .. MaxTime

RateLimitInit ==
    /\ now = 0
    /\ counts = << >>
    /\ admitted = [k \in Key |-> << >>]

(* MUTANT: the comparison is the wrong way round. *)
CurrentWindowInverted(k, t) ==
    LET w == IF k \in DOMAIN counts THEN counts[k] ELSE [start |-> t, count |-> 0]
    IN IF t - w.start < Window THEN [start |-> t, count |-> 0] ELSE w

(* The window a request of key k falls into at time t; an expired one      *)
(* starts anew.                                                            *)
CurrentWindow(k, t) ==
    LET w == IF k \in DOMAIN counts THEN counts[k] ELSE [start |-> t, count |-> 0]
    IN IF t - w.start >= Window THEN [start |-> t, count |-> 0] ELSE w

Over(k, t) == CurrentWindow(k, t).count + 1 > Limit

(* A request is counted even when it is then rejected. *)
Count(k, t) ==
    LET w == [CurrentWindow(k, t) EXCEPT !.count = @ + 1]
    IN /\ now' = t
       /\ counts' = [x \in DOMAIN counts \cup {k} |-> IF x = k THEN w ELSE counts[x]]

(* The clock matters to requests that come, so it moves with them. *)
Later == now .. MaxTime

Admit(k) ==
    \E t \in Later :
        /\ ~Over(k, t)
        /\ Count(k, t)
        /\ admitted' = [admitted EXCEPT ![k] = Append(@, t)]

Reject(k) ==
    \E t \in Later :
        /\ Over(k, t)
        /\ Count(k, t)
        /\ UNCHANGED admitted

(* A new process counts from nothing. *)
Forget ==
    /\ counts' = << >>
    /\ admitted' = [k \in Key |-> << >>]
    /\ UNCHANGED now

-----------------------------------------------------------------------------
RateLimitTypeOK ==
    /\ now \in Time
    /\ DOMAIN counts \subseteq Key
    /\ \A k \in DOMAIN counts : counts[k] \in [start : 0 .. now, count : Nat \ {0}]
    /\ admitted \in [Key -> Seq(Time)]

(* A token that changes windows gets at most twice the limit through in    *)
(* any stretch of time as long as a window (fixed 60-second windows,       *)
(* ratelimit.py:3-7), as long as the process lives.                        *)
TwiceTheLimit ==
    \A k \in Key : \A i \in DOMAIN admitted[k] :
        Cardinality({j \in DOMAIN admitted[k] :
            /\ admitted[k][j] >= admitted[k][i]
            /\ admitted[k][j] - admitted[k][i] < Window}) <= 2 * Limit
=============================================================================

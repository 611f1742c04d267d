------------------------------ MODULE MCQuery ------------------------------
(* Two /sql requests, and one for another route.                           *)
EXTENDS Query, TLC

CONSTANTS sql1, sql2, other, good

MCRequest == {sql1, sql2, other}
MCKinds == (sql1 :> {"sql"}) @@ (sql2 :> {"sql"}) @@ (other :> {"backup", "health"})
MCKey == {good}
=============================================================================

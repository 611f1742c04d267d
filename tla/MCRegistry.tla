----------------------------- MODULE MCRegistry -----------------------------
(* One system that may be redeployed and one that may appear later.        *)
EXTENDS Registry

CONSTANTS getter, craft, a1, a2, a3

MCSystem == {getter, craft}
MCOrder == <<getter, craft>>
MCDeployments == [s \in MCSystem |-> IF s = getter THEN {a1, a2} ELSE {a3}]
=============================================================================

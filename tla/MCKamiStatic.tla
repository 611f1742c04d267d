---------------------------- MODULE MCKamiStatic ----------------------------
(* Two kamis of one account, one of which changes and changes hands; their
   first account is renamed. *)
EXTENDS KamiStatic, TLC

CONSTANTS k1, k2, x, y

MCKami == {k1, k2}
MCAccount == {x, y}
MCOwner == (k1 :> <<y>>) @@ (k2 :> <<x, y>>)
MCLast == (k1 :> 1) @@ (k2 :> 2)
MCLastName == (x :> 2) @@ (y :> 1)
=============================================================================

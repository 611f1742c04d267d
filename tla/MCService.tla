----------------------------- MODULE MCService -----------------------------
(* Service on the chain of MCChain. *)
EXTENDS Service, MCChain
=============================================================================

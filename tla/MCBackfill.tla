----------------------------- MODULE MCBackfill -----------------------------
(* Backfill on the chain of MCChain.  Behind: an earlier run of the service *)
(* began at or before the range, so its cursor vouches for the blocks of    *)
(* the range below it.  Ahead: it began above the start of the range.       *)
EXTENDS Backfill, MCChain

Behind == {<<1, 1>>, <<2, 2>>, <<2, 3>>}
Ahead  == {<<3, 3>>}
=============================================================================

------------------------------ MODULE MCChain ------------------------------
(***************************************************************************)
(* A three-block chain for the model checker: a harvest is started (by a   *)
(* reverted transaction), collected, liquidated and stopped; another       *)
(* kami's harvest is stopped and the kami named only later in that block;  *)
(* and one transaction has a selector the decoder does not know.           *)
(***************************************************************************)
EXTENDS Chain

CONSTANTS k1, k2, t1, t2, t3, t4, t5

MCTx == {t1, t2, t3, t4, t5}
MCKami == {k1, k2}

MCBody == << <<t1>>, <<t2, t3>>, <<t4, t5>> >>

MCBlockOf == [t \in MCTx |->
    IF t = t1 THEN 1 ELSE IF t \in {t4, t5} THEN 3 ELSE 2]

Start(k)        == [type |-> "harvest_start", kami |-> k, harvest |-> k]
Stop(h)         == [type |-> "harvest_stop", kami |-> None, harvest |-> h]
Collect(h)      == [type |-> "harvest_collect", kami |-> None, harvest |-> h]
Liquidate(k, h) == [type |-> "harvest_liquidate", kami |-> k, harvest |-> h]

(* t1 starts k1; t2 is a batch that collects k1 and stops k2; t3, later in *)
(* the same block, liquidates k1 by k2; t4 stops k1; t5 does not decode.   *)
MCDecoded == [t \in MCTx |->
    CASE t = t1 -> << Start(k1) >>
      [] t = t2 -> << Collect(k1), Stop(k2) >>
      [] t = t3 -> << Liquidate(k2, k1) >>
      [] t = t4 -> << Stop(k1) >>
      [] t = t5 -> << >>]

MCStatus == [t \in MCTx |-> IF t = t1 THEN 0 ELSE 1]

MCDrains == [t \in MCTx |->
    CASE t = t2 -> {k1}
      [] t = t3 -> {k1}
      [] OTHER  -> {}]
=============================================================================

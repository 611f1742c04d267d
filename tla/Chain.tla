------------------------------- MODULE Chain -------------------------------
(***************************************************************************)
(* What the ingester reads from Yominet, reduced to what its control tells *)
(* apart.  A block is a number; Body[b] lists, in chain order, the         *)
(* transactions of block b sent to a known Kamigotchi system (the others   *)
(* are dropped by the filter at ingester/ingest.py:95-105).  Decoded[t]    *)
(* lists the action rows Decoder.decode_tx makes of t, which depend on the *)
(* calldata alone; it is empty for an unknown selector or a decode error.  *)
(* Status[t] and Drains[t] are what the receipt of t says: 1 or 0, and the *)
(* harvest entities decode_musu_drains finds drained in its logs.          *)
(*                                                                         *)
(* A harvest id is keccak("harvest" || kami_id), so it is named here by    *)
(* the kami that owns it: harvest = k stands for the harvest entity of k.  *)
(***************************************************************************)
EXTENDS Integers, Sequences

CONSTANTS
    MaxBlock,   \* bound: the last block number of the modelled chain
    Tx,         \* the transactions to known systems
    Kami,       \* the kamis, each also naming its harvest entity
    None,       \* SQL NULL, Python None
    BlockOf,    \* the block of a transaction
    Body,       \* the transactions of a block, in chain order
    Decoded,    \* the action rows a transaction decodes to
    Status,     \* the receipt's status of a transaction
    Drains      \* the harvests drained according to a transaction's receipt

Block == 1 .. MaxBlock

(* The action types process_block_range and the resolver treat apart; any  *)
(* other type carries a kami_id and nothing else that matters here.        *)
ActionType == {"harvest_start", "harvest_stop", "harvest_collect",
               "harvest_liquidate", "other"}

(* One entry of Decoded[t]: the columns the decoder fills from calldata.   *)
(* harvest is harvest_id, or metadata.victim_harvest_id of a liquidate.    *)
DecodedAction ==
    [type : ActionType, kami : Kami \cup {None}, harvest : Kami \cup {None}]

ASSUME ChainAssumption ==
    /\ MaxBlock \in Nat \ {0}
    /\ None \notin Nat /\ None \notin Kami /\ None \notin Tx
    /\ BlockOf \in [Tx -> Block]
    /\ Body \in [Block -> Seq(Tx)]
    /\ \A b \in Block : {Body[b][i] : i \in DOMAIN Body[b]}
                          = {t \in Tx : BlockOf[t] = b}
    /\ Decoded \in [Tx -> Seq(DecodedAction)]
    /\ Status \in [Tx -> {0, 1}]
    /\ Drains \in [Tx -> SUBSET Kami]

(* The primary key of kami_action, "{tx_hash}:{sub_index}" (from 1 here).  *)
Keys(t) == {<<t, j>> : j \in DOMAIN Decoded[t]}
ActKey  == UNION {Keys(t) : t \in Tx}

(* The decoded columns of the action row with key k. *)
Action(k) == Decoded[k[1]][k[2]]
=============================================================================

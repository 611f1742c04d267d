------------------------------ MODULE Storage ------------------------------
(***************************************************************************)
(* The durable state of ingester/storage.py that ingestion writes: the     *)
(* tables raw_tx and kami_action and the single row of ingest_cursor, with *)
(* the statements Storage runs on them.  Every statement autocommits, so   *)
(* each operator here is one durable step.                                 *)
(***************************************************************************)
EXTENDS Chain, Functions

VARIABLES
    raw,      \* raw_tx: tx_hash -> [status]
    act,      \* kami_action: key -> [kami, amount, status]
    cursor    \* ingest_cursor.last_block_scanned, or None: no row yet

dbVars == <<raw, act, cursor>>

(* raw_tx.status as stored. *)
RawRow == {0, 1}

(* The columns of kami_action that are not a function of the key.  amount  *)
(* is kept as its provenance: the transaction whose receipt showed the     *)
(* harvest drained, or None for NULL.                                      *)
ActRow == [kami : Kami \cup {None}, amount : Tx \cup {None}, status : {0, 1}]

(* A table: a function from the keys that are present to their rows. *)
IsTable(table, K, R) ==
    /\ DOMAIN table \subseteq K
    /\ \A k \in DOMAIN table : table[k] \in R

EmptyTable == [k \in {} |-> None]

StorageTypeOK ==
    /\ IsTable(raw, Tx, RawRow)
    /\ IsTable(act, ActKey, ActRow)
    /\ cursor \in Block \cup {None}

StorageInit ==
    /\ raw = EmptyTable
    /\ act = EmptyTable
    /\ cursor = None

(* MUTANT: ON CONFLICT DO UPDATE, the row that is there is overwritten.    *)
InsertOrReplace(table, k, row) ==
    [x \in DOMAIN table \cup {k} |-> IF x = k THEN row ELSE table[x]]

(* INSERT ... ON CONFLICT DO NOTHING: the row that is there stays. *)
InsertOrIgnore(table, k, row) ==
    [x \in DOMAIN table \cup {k} |-> IF x \in DOMAIN table THEN table[x] ELSE row]

(* One row of upsert_raw_txs' executemany. *)
InsertRawTx(r) ==
    /\ raw' = InsertOrIgnore(raw, r.tx, r.status)
    /\ UNCHANGED <<act, cursor>>

(* One row of upsert_actions' executemany. *)
InsertAction(a) ==
    /\ act' = InsertOrIgnore(act, <<a.tx, a.sub>>,
                 [kami |-> a.kami, amount |-> a.amount, status |-> a.status])
    /\ UNCHANGED <<raw, cursor>>

(* INSERT ... ON CONFLICT DO UPDATE: the cursor is overwritten whatever it *)
(* was, so it can also move back.                                          *)
SetCursor(b) ==
    /\ cursor' = b
    /\ UNCHANGED <<raw, act>>

(* MUTANTS: a cutoff for kami_action that is one block late, and one for   *)
(* raw_tx that is one block early (<= for <).                              *)
ActionsSinceLate(cutoff) ==
    Restrict(act, {k \in DOMAIN act : BlockOf[k[1]] >= cutoff - 1})
RawTxsSinceEarly(cutoff) ==
    Restrict(raw, {t \in DOMAIN raw : BlockOf[t] > cutoff})

(* DELETE FROM kami_action / raw_tx WHERE block_timestamp < cutoff: what   *)
(* stays.  Timestamps grow with block numbers, so the cutoff is given as   *)
(* the first block inside the window.                                      *)
ActionsSince(cutoff)  == Restrict(act, {k \in DOMAIN act : BlockOf[k[1]] >= cutoff})
RawTxsSince(cutoff)   == Restrict(raw, {t \in DOMAIN raw : BlockOf[t] >= cutoff})

(* prune_older_than: both deletes in one transaction under Storage.lock,   *)
(* so other threads and a crash see both or neither.                       *)
PruneOlderThan(cutoff) ==
    /\ act' = ActionsSince(cutoff)
    /\ raw' = RawTxsSince(cutoff)
    /\ UNCHANGED cursor
=============================================================================

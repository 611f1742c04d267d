------------------------------- MODULE Ledger -------------------------------
(***************************************************************************)
(* What ingestion promises to the readers of the database, without saying  *)
(* how: a growing ledger of rows and a mark.  Whatever failed, was killed  *)
(* or was scanned again on the way, every row of the blocks from the first *)
(* marked one up to the mark is in the ledger, unless it has left the      *)
(* retention window, and the mark never jumps over a block.                *)
(***************************************************************************)
EXTENDS Integers

CONSTANTS
    Row,          \* every row the blocks can give rise to
    BlockOfRow,   \* the block of a row
    LastBlock,    \* the last block of the chain
    Unset         \* the mark before the first block is marked

VARIABLES
    stored,   \* the rows in the ledger
    mark,     \* the last marked block, or Unset
    origin,   \* the first block ever marked
    cutoff    \* the first block inside the retention window

ledgerVars == <<stored, mark, origin, cutoff>>

(* Every row of first..last that is inside the window is in the ledger. *)
Covered(first, last) ==
    \A r \in Row : BlockOfRow[r] \in first .. last /\ BlockOfRow[r] >= cutoff
                     => r \in stored

Init ==
    /\ stored = {}
    /\ mark = Unset
    /\ origin = 0
    /\ cutoff = 1

Record(r) ==
    /\ r \notin stored
    /\ stored' = stored \cup {r}
    /\ UNCHANGED <<mark, origin, cutoff>>

(* The first block is marked. *)
Open(b) ==
    /\ mark = Unset
    /\ Covered(b, b)
    /\ mark' = b /\ origin' = b
    /\ UNCHANGED <<stored, cutoff>>

(* A further block is marked, or an earlier one again. *)
Mark(b) ==
    /\ mark # Unset
    /\ b \in origin .. mark + 1
    /\ Covered(origin, b)
    /\ mark' = b
    /\ UNCHANGED <<stored, origin, cutoff>>

(* A block leaves the window. *)
Expire ==
    /\ cutoff' = cutoff + 1
    /\ UNCHANGED <<stored, mark, origin>>

(* Rows outside the window are dropped, all of them at once. *)
Drop ==
    /\ stored' = {r \in stored : BlockOfRow[r] >= cutoff}
    /\ UNCHANGED <<mark, origin, cutoff>>

Next ==
    \/ \E r \in Row : Record(r)
    \/ \E b \in 1 .. LastBlock : Open(b) \/ Mark(b)
    \/ Expire
    \/ Drop

Spec == Init /\ [][Next]_ledgerVars
=============================================================================

------------------------------ MODULE MCSchema ------------------------------
(* A CSV file of two rows; the next version drops one and adds another.    *)
EXTENDS Schema

CONSTANTS rowA, rowB, rowC

MCCsv == <<{rowA, rowB}, {rowB, rowC}>>
=============================================================================

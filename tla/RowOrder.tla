-------------------------------- MODULE RowOrder --------------------------------
(***************************************************************************)
(* What ORDER BY does to the rows that a query finds.  SQLite is external. *)
(***************************************************************************)
EXTENDS Naturals, FiniteSets

\* The n-th row is the one that n - 1 others come before, in an order that is total.
InOrder(rows, Before(_, _)) ==
    [n \in 1 .. Cardinality(rows) |->
        CHOOSE row \in rows : Cardinality({other \in rows : Before(other, row)}) = n - 1]
=============================================================================

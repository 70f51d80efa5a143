--------------------------- MODULE MCTransactions ---------------------------
(***************************************************************************)
(* Transactions on small instances.                                        *)
(***************************************************************************)
EXTENDS Transactions, TLC

\* Writers, transaction ids and contents are interchangeable.
Symmetry == Permutations(Writers) \cup Permutations(Txs) \cup Permutations(Contents)
=============================================================================

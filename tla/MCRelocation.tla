---------------------------- MODULE MCRelocation ----------------------------
(***************************************************************************)
(* Relocation on small instances.                                          *)
(***************************************************************************)
EXTENDS Relocation, TLC

\* Operators and writers are interchangeable; so are external roots
\* and move ids.
Symmetry == Permutations(Operators) \cup Permutations(Writers)
            \cup Permutations(Externals) \cup Permutations(Txs)
=============================================================================

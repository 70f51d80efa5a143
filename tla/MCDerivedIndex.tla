--------------------------- MODULE MCDerivedIndex ---------------------------
(* A small instance of DerivedIndex for TLC.                               *)
EXTENDS DerivedIndex

\* A dear record, a cheap one that SQLite does not match, one that scores
\* nothing and one without text.
MCKinds ==
  {[score |-> 2, cost |-> 2, fts |-> TRUE], [score |-> 1, cost |-> 1, fts |-> FALSE],
   [score |-> 0, cost |-> 1, fts |-> FALSE], [score |-> 1, cost |-> 0, fts |-> FALSE]}

\* A budget that leaves out the dear record, and one with overheads.
MCRequests ==
  {[budget |-> 1, fixed |-> 0, per |-> 0], [budget |-> 4, fixed |-> 1, per |-> 1]}

Symmetry == Permutations(Procs)
=============================================================================

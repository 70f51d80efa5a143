---------------------------- MODULE MCLifecycle ----------------------------
(* A small instance of Lifecycle for TLC.                                  *)
EXTENDS Lifecycle, TLC

\* The two classes whose treatment differs where a record is silenced.
MCRequests ==
  {[full |-> FALSE, class |-> c, scoped |-> TRUE, verified |-> FALSE] :
     c \in {"model_derived", "derived_from_retrieval"}}

MCClaims == {[class |-> "tool_observed", scoped |-> TRUE, found |-> TRUE]}

Symmetry == Permutations(Ids) \cup Permutations(Callers)
            \cup Permutations(Contents)
============================================================================

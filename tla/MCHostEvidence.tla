-------------------------- MODULE MCHostEvidence --------------------------
EXTENDS HostEvidence, TLC

CONSTANTS c1, c2
CommandLists == {{c1}, {c1, c2}}

Symmetry == Permutations(Agents) \cup Permutations(Keys)
=============================================================================

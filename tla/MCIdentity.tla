----------------------------- MODULE MCIdentity -----------------------------
(* Small instances of Identity for TLC.                                    *)
EXTENDS Identity, TLC

Symmetry == Permutations(Operators) \cup Permutations(Identities)
=============================================================================

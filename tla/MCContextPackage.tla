-------------------------- MODULE MCContextPackage --------------------------
(* A small instance of ContextPackage for TLC.                             *)
EXTENDS ContextPackage, TLC

Symmetry == Permutations(Callers)
=============================================================================

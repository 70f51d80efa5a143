----------------------------- MODULE Assignment -----------------------------
(***************************************************************************)
(* What the identity bootstrap promises, with no file and no process: an   *)
(* identity is assigned at most once and an assignment is never taken      *)
(* back.                                                                   *)
(***************************************************************************)
CONSTANT Values

VARIABLE assigned

AssignmentInit == assigned = {}

Assign(v) == assigned = {} /\ assigned' = {v}

AssignmentSpec == AssignmentInit /\ [][\E v \in Values : Assign(v)]_assigned
=============================================================================

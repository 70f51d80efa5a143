------------------------------- MODULE Memory -------------------------------
(***************************************************************************)
(* What a reader of the store sees: the set of active records.  A write    *)
(* adds one record and may retire one; nothing else changes the set, so    *)
(* compactions, crashes and power losses are invisible.                    *)
(***************************************************************************)
CONSTANT Records

VARIABLE active

MemoryInit == active = {}

WriteRecord(r, retired) ==
    /\ r \notin active
    /\ retired \subseteq active
    /\ active' = (active \ retired) \cup {r}

MemoryNext ==
    \E r \in Records : \E d \in {{}} \cup {{x} : x \in Records} : WriteRecord(r, d)

MemorySpec == MemoryInit /\ [][MemoryNext]_active
=============================================================================

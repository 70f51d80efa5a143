------------------------------ MODULE Custody ------------------------------
(***************************************************************************)
(* What the custody of a store promises: there is one vault, it is at one  *)
(* place at a time, a write advances it where it is, and a move changes    *)
(* the place and nothing else.                                             *)
(***************************************************************************)
EXTENDS Naturals

CONSTANTS Places, FirstPlace

VARIABLES home,      \* where the vault is
          revision   \* the last committed revision in it

custodyVars == <<home, revision>>

CustodyInit == home = FirstPlace /\ revision = 1

Advance == revision' = revision + 1 /\ UNCHANGED home

Move == home' \in Places /\ UNCHANGED revision

CustodyNext == Advance \/ Move

CustodySpec == CustodyInit /\ [][CustodyNext]_custodyVars
=============================================================================

------------------------------- MODULE Ledger -------------------------------
(***************************************************************************)
(* What the store promises its callers, with no disk, lock, journal or     *)
(* receipt in it: an append-only log of entries, each with a transaction   *)
(* id that is used once, and a part of the log that survives a power loss. *)
(***************************************************************************)
EXTENDS Sequences, Naturals

CONSTANTS Txs, Contents

VARIABLES log,     \* what a reader of CURRENT sees
          stable   \* the part of it a power loss cannot take away

ledgerVars == <<log, stable>>

Entry == [tx : Txs, content : Contents]

Used(l) == {l[i].tx : i \in DOMAIN l}

LedgerInit == log = <<>> /\ stable = <<>>

\* One entry, under a transaction id the log does not hold yet, is appended;
\* it may or may not be stable at once.
Commit == \E e \in Entry :
            /\ e.tx \notin Used(log)
            /\ log' = Append(log, e)
            /\ stable' \in {stable, log'}

\* The whole log becomes stable.
Stabilise == stable' = log /\ UNCHANGED log

\* A power loss takes back what was not stable, and nothing else.
Lose == log' = stable /\ UNCHANGED stable

LedgerNext == Commit \/ Stabilise \/ Lose

LedgerSpec == LedgerInit /\ [][LedgerNext]_ledgerVars
=============================================================================

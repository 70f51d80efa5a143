-------------------------- MODULE RelocationProofs --------------------------
(***************************************************************************)
(* Proofs about Relocation, for any number of writers, external roots,     *)
(* moves, revisions and failures, when one operator runs the commands of a *)
(* project, one move after the other, and no writer keeps a store that it  *)
(* opened by flag.  Without any of the three AuthorityComplete is false:   *)
(* see Findings in the README.                                             *)
(***************************************************************************)
EXTENDS Relocation, TLAPS

Alone ==
  /\ OneAtATime /\ ~KeepNamed
  /\ \A p, q \in Operators : p = q

-----------------------------------------------------------------------------
(* Where a move is.                                                        *)

Moved == {moves[i] : i \in 1 .. Len(moves)}
Last == moves[Len(moves)]

\* Before and behind its commit point, which is the step that moves the pointer.
Uncommitted(t) == journal[t].stage \in {"staging", "published"} /\ t \notin Moved
Committed(t) == journal[t].stage \in {"published", "pointer_moved"} /\ t \in Moved

Staged == {"stage", "journal_receipt"}
BeforePointer == Staged \cup {"publish", "journal_published", "mark", "pointer"}
BehindPointer == {"journal_pointer", "verify", "verify_moved", "cleanup", "journal_cleaned"}
Waiting == {"commit_lock", "reconcile_lock"}
Steps == BeforePointer \cup BehindPointer \cup Waiting
         \cup {"idle", "reconcile", "remove", "journal_aborted"}

FilesTyped ==
  /\ vault \in [Places -> SUBSET Files] /\ dirs \subseteq Externals
  /\ staging \in [Txs -> SUBSET Files] /\ pointer \in Pointers
MovesTyped ==
  plan \in [Txs -> Plans] /\ journal \in [Txs -> Journals] /\ moves \in Seq(Txs)
ProcessesTyped ==
  /\ lock \in [Places -> Operators \cup Writers \cup {Nobody}]
  /\ cmd \in [Operators -> Commands \cup {Idle}] /\ pc \in [Operators -> Steps]
  /\ sess \in [Writers -> [loc : Places, under : BOOLEAN]]
  /\ wpc \in [Writers -> {"closed", "open", "ready", "write"}]
CountsTyped == written \in 1 .. MaxRevision /\ failures \in 0 .. MaxFailures

TypesOK == FilesTyped /\ MovesTyped /\ ProcessesTyped /\ CountsTyped

-----------------------------------------------------------------------------
(* The authority, and the plans made of it.                                *)

\* The root that the pointer gives holds every revision, and CURRENT is the last.
HomeOK ==
  Whole(written) \subseteq vault[Home] /\ InUnit(vault[Home], "refs") = {Current(written)}

PlanOK(P) ==
  /\ Whole(P.base) \subseteq P.entries /\ InUnit(P.entries, "refs") = {Current(P.base)}
  /\ P.base <= written
  /\ P.dir = "out" => P.source = "local" /\ P.dest \in Externals
  /\ P.dir = "back" => P.source \in Externals /\ P.dest = "local"

PlansOK ==
  \A t \in Txs : IF plan[t] = NoPlan THEN journal[t].stage = "absent" ELSE PlanOK(plan[t])

\* A root that does not exist holds no files.
DirsOK == \A e \in Externals \ dirs : vault[e] = {}

\* A receipt is in the copy of its own move until that has passed its commit point.
ReceiptsOK ==
  \A t \in Txs :
    /\ \A u \in Txs : plan[u] # NoPlan /\ Receipt(t) \in plan[u].entries => t \in Moved
    /\ \A l \in Places :
         Receipt(t) \in vault[l] => t \in Moved \/ (~Finished(t) /\ l = plan[t].dest)
    /\ journal[t].stage \in {"absent", "aborted"} => staging[t] = {}

-----------------------------------------------------------------------------
(* The moves.                                                              *)

StagesOK ==
  /\ \A t, u \in Txs : ~Finished(t) /\ ~Finished(u) => t = u
  /\ \A t \in Txs :
       /\ journal[t].stage \in {"absent", "staging", "aborted"} => t \notin Moved
       /\ journal[t].stage \in {"pointer_moved", "cleaned"} => t \in Moved

\* Until the commit point the source is the authority, and it is what was planned
\* unless it has advanced; the destination is part of the copy.
BeforeOK(t) ==
  LET P == plan[t]
  IN  /\ Home = P.source /\ (P.dir = "out" => pointer \in {NoPointer, "torn"})
      /\ written = P.base => vault[P.source] = P.entries
      /\ vault[P.dest] \subseteq Copy(t) /\ staging[t] \subseteq Copy(t)
      /\ P.dir = "out" /\ journal[t].stage = "staging" /\ P.dest \in dirs =>
           vault[P.dest] = Copy(t)
      /\ P.dir = "back" => \A u \in UnitNames :
           InUnit(vault["local"], u) = {} \/ InUnit(staging[t], u) = {}

MovesOK ==
  \A t \in Txs :
    /\ Uncommitted(t) => BeforeOK(t)
    /\ Committed(t) => t = Last /\ vault[plan[t].source] \subseteq plan[t].entries

\* The authority is where the last move took it, and a finished move has emptied
\* its source, which only a later move may have begun to fill.
LastOK ==
  moves # <<>> =>
    /\ Home = plan[Last].dest
    /\ Finished(Last) =>
         \/ vault[plan[Last].source] = {}
         \/ \E t \in Txs : Uncommitted(t) /\ plan[t].dest = plan[Last].source

-----------------------------------------------------------------------------
(* The processes.                                                          *)

\* What the operator knows of its move at each step before the commit point.
KnowsBefore(s, t, mode) ==
  /\ s = "commit_lock" => mode = "commit"
  /\ s \in {"reconcile_lock", "reconcile"} => mode = "reconcile"
  /\ s \in BeforePointer \cup {"remove", "journal_aborted"} => Uncommitted(t)
  /\ s \in Staged => vault[plan[t].dest] = {} /\ mode = "commit"
  /\ s \in Staged \cup {"publish", "journal_published"} => journal[t].stage = "staging"
  /\ s \in BeforePointer /\ (mode = "commit" \/ s \in {"mark", "pointer"}) =>
       plan[t].base = written
  /\ s \in Staged \cup {"publish", "journal_published"} /\ plan[t].dir = "out" =>
       mode = "commit" /\ (s = "journal_published" <=> plan[t].dest \in dirs)
  /\ s = "publish" /\ plan[t].dir = "out" => staging[t] = Copy(t)
  /\ s \in {"mark", "pointer"} => journal[t].stage = "published"
  /\ s \in {"journal_receipt", "mark"} => plan[t].dir = "back"
  /\ s = "pointer" => vault[plan[t].dest] = Copy(t)
  /\ s \in {"remove", "journal_aborted"} /\ plan[t].dir = "out" => journal[t].stage = "published"
  /\ s = "journal_aborted" => vault[plan[t].dest] = {} /\ staging[t] = {}

KnowsBehind(s, t) ==
  /\ s \in BehindPointer => Committed(t)
  /\ s = "journal_pointer" => journal[t].stage = "published"
  /\ s \in BehindPointer \ {"journal_pointer"} => journal[t].stage = "pointer_moved"
  /\ s = "journal_cleaned" => vault[plan[t].source] = {}

\* The operator works on one move, with the journal that is on disk, under the
\* locks of its source.
OperatorsOK ==
  \A p \in Operators : pc[p] # "idle" =>
    /\ cmd[p] \in Commands /\ plan[Tx(p)] # NoPlan
    /\ J(p).stage = journal[Tx(p)].stage
    /\ \A u \in Txs : u # Tx(p) => Finished(u)
    /\ IF pc[p] = "commit_lock" THEN journal[Tx(p)].stage = "absent" ELSE ~Finished(Tx(p))
    /\ pc[p] \notin Waiting => lock[Plan(p).source] = p
    /\ KnowsBefore(pc[p], Tx(p), cmd[p].mode) /\ KnowsBehind(pc[p], Tx(p))

\* A writer inside a commit writes to the authority, under its locks.
WritersOK ==
  \A w \in Writers :
    /\ wpc[w] = "write" => lock[sess[w].loc] = w /\ sess[w].loc = Home
    /\ sess[w].loc \in Externals => sess[w].under

StoreInv ==
  HomeOK /\ PlansOK /\ DirsOK /\ ReceiptsOK /\ StagesOK /\ MovesOK /\ LastOK

IndInv == TypesOK /\ StoreInv /\ OperatorsOK /\ WritersOK

-----------------------------------------------------------------------------
(* Files and plans.                                                        *)

LEMMA FileNames ==
  /\ \A t : Receipt(t)[1] = "receipts" /\ Receipt(t)[2] = t
  /\ \A r : Current(r)[1] = "refs" /\ Current(r)[2] = r
  /\ Identity[1] = "identity"
  /\ \A r : Object(r)[1] = "objects"
BY DEF Receipt, Current, Identity, Object

LEMMA UnitsOfFiles ==
  /\ UnitNames = {"refs", "objects", "identity", "receipts"}
  /\ \A f \in Files : f[1] \in UnitNames
<1>1. DOMAIN Units = 1 .. 4 /\ Units[1] = "refs" /\ Units[2] = "objects"
      /\ Units[3] = "identity" /\ Units[4] = "receipts"
  BY DEF Units
<1>2. \A i : i \in 1 .. 4 <=> i = 1 \/ i = 2 \/ i = 3 \/ i = 4
  OBVIOUS
<1>3. UnitNames = {"refs", "objects", "identity", "receipts"}
  BY <1>1, <1>2 DEF UnitNames
<1>4. ASSUME NEW f \in Files PROVE f[1] \in UnitNames
  BY <1>3, FileNames DEF Files
<1>5. QED
  BY <1>3, <1>4

\* A vault whose only file of refs names r.
LEMMA CurrentIs ==
  ASSUME NEW l, NEW r \in Nat \ {0}, InUnit(vault[l], "refs") = {Current(r)}
  PROVE  CurrentOf(l) = r
<1>1. (CHOOSE f \in InUnit(vault[l], "refs") : TRUE) = Current(r)
  OBVIOUS
<1>2. Current(r)[2] = r
  BY FileNames
<1>3. QED
  BY <1>1, <1>2 DEF CurrentOf

LEMMA HomePlace ==
  ASSUME TypesOK
  PROVE  Home \in Places /\ written \in Nat \ {0}
BY RelocationAssumption DEF TypesOK, FilesTyped, CountsTyped, Home, Places

LEMMA HomeVault ==
  ASSUME TypesOK, HomeOK
  PROVE  /\ CurrentOf(Home) = written /\ Verified(Home) /\ vault_present(Home)
         /\ Identity \in vault[Home]
<1>1. CurrentOf(Home) = written
  BY HomePlace, CurrentIs DEF HomeOK
<1>2. QED
  BY <1>1, HomePlace DEF HomeOK, Verified, vault_present, Whole

\* What the custody checks admit is the authority.
LEMMA CustodyIsHome ==
  ASSUME TypesOK, HomeOK, NEW l \in Places, check_custody(l)
  PROVE  l = Home /\ (l \in Externals => pointer = l)
<1>1. CASE pointer = NoPointer
  BY <1>1, HomeVault, NamesAssumption DEF check_custody, Home, Places
<1>2. CASE pointer # NoPointer
  BY <1>2, HomeVault, NamesAssumption DEF check_custody, Home, Places
<1>3. QED
  BY <1>1, <1>2

LEMMA PlanFields ==
  ASSUME TypesOK, PlansOK, NEW t \in Txs, plan[t] # NoPlan
  PROVE  /\ plan[t].source \in Places /\ plan[t].dest \in Places
         /\ plan[t].source # plan[t].dest
         /\ plan[t].entries \in SUBSET Files /\ plan[t].base \in Nat \ {0}
         /\ plan[t].dir \in {"out", "back"} /\ PlanOK(plan[t])
         /\ Copy(t) \in SUBSET Files
<1>1. plan[t] \in [dir : {"out", "back"}, source : Places, dest : Places,
                   base : 1..MaxRevision, entries : SUBSET Files]
  BY DEF TypesOK, MovesTyped, Plans
<1>2. PlanOK(plan[t])
  BY DEF PlansOK
<1>3. plan[t].source # plan[t].dest
  BY <1>1, <1>2, NamesAssumption DEF PlanOK
<1>4. plan[t].base \in Nat \ {0}
  BY <1>1, RelocationAssumption
<1>5. Receipt(t) \in Files
  BY DEF Files
<1>6. QED
  BY <1>1, <1>2, <1>3, <1>4, <1>5 DEF Copy

\* The copy of a move names the revision that was planned.
LEMMA CopyIsWhole ==
  ASSUME TypesOK, PlansOK, NEW t \in Txs, plan[t] # NoPlan
  PROVE  Whole(plan[t].base) \subseteq Copy(t) /\ InUnit(Copy(t), "refs") = {Current(plan[t].base)}
<1>1. PlanOK(plan[t])
  BY DEF PlansOK
<1>2. InUnit(Copy(t), "refs") = InUnit(plan[t].entries, "refs")
  BY FileNames DEF InUnit, Copy
<1>3. QED
  BY <1>1, <1>2 DEF PlanOK, Copy

\* A stage of a journal.
LEMMA StageCases ==
  ASSUME TypesOK, NEW t \in Txs
  PROVE  /\ journal[t].stage \in Stages \cup {"absent"}
         /\ ~Finished(t) <=> journal[t].stage \in {"staging", "published", "pointer_moved"}
         /\ journal[t].stage = "absent" <=> journal[t] = NoJournal
<1>1. journal[t] \in Journals
  BY DEF TypesOK, MovesTyped
<1>2. NoJournal.stage = "absent"
  BY DEF NoJournal
<1>3. journal[t] # NoJournal => journal[t].stage \in Stages
  BY <1>1 DEF Journals
<1>4. "absent" \notin Stages
  BY DEF Stages
<1>5. journal[t].stage \in Stages \cup {"absent"}
      /\ (journal[t].stage = "absent" <=> journal[t] = NoJournal)
  BY <1>2, <1>3, <1>4
<1>6. ~Finished(t) <=> journal[t].stage \in {"staging", "published", "pointer_moved"}
  BY <1>5 DEF Finished, Stages
<1>7. QED
  BY <1>5, <1>6

\* A move that is under way is before its commit point or behind it.
LEMMA UnderWay ==
  ASSUME TypesOK, StoreInv, NEW t \in Txs, ~Finished(t)
  PROVE  /\ plan[t] # NoPlan
         /\ Uncommitted(t) \/ Committed(t)
         /\ \A u \in Txs : ~Finished(u) => u = t
BY StageCases DEF StoreInv, StagesOK, PlansOK, Uncommitted, Committed, Finished

LEMMA LastIs ==
  ASSUME TypesOK, moves # <<>>
  PROVE  Last \in Txs /\ Last \in Moved
<1>1. moves \in Seq(Txs)
  BY DEF TypesOK, MovesTyped
<1>2. Len(moves) \in 1 .. Len(moves)
  BY <1>1
<1>3. QED
  BY <1>1, <1>2 DEF Last, Moved

-----------------------------------------------------------------------------
(* What a step does to the files and the journals, and what that keeps.    *)

\* A step of the move t.
OthersKept(t) ==
  /\ plan' = plan /\ written' = written
  /\ \A u \in Txs : u # t => journal'[u].stage = journal[u].stage /\ staging'[u] = staging[u]

\* A step that leaves the files and the stages alone; a pointer may be torn where
\* there was none.
QuietStep ==
  /\ vault' = vault /\ dirs' = dirs /\ staging' = staging
  /\ Home' = Home /\ pointer' \in {pointer, "torn"}
  /\ plan' = plan /\ moves' = moves /\ written' = written
  /\ \A t \in Txs : journal'[t].stage = journal[t].stage

LEMMA QuietKeeps ==
  ASSUME TypesOK, StoreInv, QuietStep
  PROVE  StoreInv'
<1> USE DEF QuietStep
<1>1. HomeOK' /\ PlansOK' /\ DirsOK'
  BY DEF StoreInv, HomeOK, PlansOK, PlanOK, DirsOK, InUnit
<1>2. \A t \in Txs : Finished(t)' = Finished(t) /\ Uncommitted(t)' = Uncommitted(t)
                     /\ Committed(t)' = Committed(t)
  BY DEF Finished, Uncommitted, Committed, Moved
<1>3. ReceiptsOK'
  BY <1>2 DEF StoreInv, ReceiptsOK, Moved
<1>4. StagesOK'
  BY <1>2 DEF StoreInv, StagesOK, Moved
<1>5. ASSUME NEW t \in Txs, BeforeOK(t) PROVE BeforeOK(t)'
  BY <1>5 DEF BeforeOK, Copy, InUnit
<1>6. MovesOK'
  BY <1>2, <1>5 DEF StoreInv, MovesOK, Last
<1>7. Last' = Last /\ Home' = Home
  BY DEF Last
<1>8. LastOK'
  <2>1. moves # <<>> => Last \in Txs
    BY LastIs
  <2>2. QED
    BY <2>1, <1>2, <1>7 DEF StoreInv, LastOK
<1>9. QED
  BY <1>1, <1>3, <1>4, <1>6, <1>8 DEF StoreInv

\* A step before the commit point touches the destination and the staging
\* directory, and the authority is the source.
DestinationStep(t) ==
  /\ OthersKept(t) /\ pointer' = pointer /\ moves' = moves
  /\ \A l \in Places : l # plan[t].dest => vault'[l] = vault[l]
  /\ \A e \in Externals : e # plan[t].dest => (e \in dirs' <=> e \in dirs)
  /\ plan[t].dest \in Externals \ dirs' => vault'[plan[t].dest] = {}

BeforeStep(t) ==
  /\ Uncommitted(t) /\ DestinationStep(t)
  /\ journal'[t].stage \in {"staging", "published"} /\ BeforeOK(t)'

AbortStep(t) ==
  /\ Uncommitted(t) /\ DestinationStep(t)
  /\ journal'[t].stage = "aborted" /\ vault'[plan[t].dest] = {} /\ staging'[t] = {}

\* What the two have in common.
LEMMA DestinationKeeps ==
  ASSUME TypesOK, StoreInv, NEW t \in Txs, Uncommitted(t), DestinationStep(t),
         journal'[t].stage \in {"staging", "published", "aborted"}
  PROVE  /\ plan[t] # NoPlan /\ BeforeOK(t) /\ Home' = Home /\ Moved' = Moved /\ Last' = Last
         /\ \A u \in Txs : u # t =>
              Finished(u) /\ Finished(u)' /\ ~Uncommitted(u)' /\ ~Committed(u)'
         /\ HomeOK' /\ PlansOK' /\ DirsOK' /\ StagesOK'
<1>1. ~Finished(t)
  BY StageCases DEF Uncommitted
<1>2. plan[t] # NoPlan /\ BeforeOK(t) /\ \A u \in Txs : ~Finished(u) => u = t
  BY <1>1, UnderWay DEF StoreInv, MovesOK
<1>3. Home' = Home /\ Moved' = Moved /\ Last' = Last
  BY DEF DestinationStep, Home, Moved, Last
<1>4. ASSUME NEW u \in Txs, u # t
      PROVE  Finished(u) /\ Finished(u)' /\ ~Uncommitted(u)' /\ ~Committed(u)'
  <2>1. Finished(u) /\ journal'[u].stage = journal[u].stage
    BY <1>2, <1>4 DEF DestinationStep, OthersKept
  <2>2. QED
    BY <2>1 DEF Finished, Uncommitted, Committed
<1>5. HomeOK'
  <2>1. Home \in Places /\ Home # plan[t].dest
    BY <1>2, HomePlace, PlanFields DEF BeforeOK, StoreInv
  <2>2. vault'[Home'] = vault[Home] /\ written' = written
    BY <2>1, <1>3 DEF DestinationStep, OthersKept
  <2>3. QED
    BY <2>2 DEF StoreInv, HomeOK, InUnit
<1>6. PlansOK'
  BY <1>2 DEF StoreInv, PlansOK, PlanOK, DestinationStep, OthersKept, InUnit
<1>7. DirsOK'
  BY DEF StoreInv, DirsOK, DestinationStep, Places
<1>8. StagesOK'
  <2>1. \A u, v \in Txs : ~Finished(u)' /\ ~Finished(v)' => u = v
    BY <1>4
  <2>2. t \notin Moved
    BY DEF Uncommitted
  <2>3. QED
    BY <1>3, <2>1, <2>2 DEF StoreInv, StagesOK, DestinationStep, OthersKept
<1>9. QED
  BY <1>2, <1>3, <1>4, <1>5, <1>6, <1>7, <1>8

LEMMA BeforeKeeps ==
  ASSUME TypesOK, StoreInv, NEW t \in Txs, BeforeStep(t)
  PROVE  StoreInv'
<1> USE DEF BeforeStep
<1>1. /\ plan[t] # NoPlan /\ BeforeOK(t) /\ Home' = Home /\ Moved' = Moved /\ Last' = Last
      /\ \A u \in Txs : u # t =>
           Finished(u) /\ Finished(u)' /\ ~Uncommitted(u)' /\ ~Committed(u)'
      /\ HomeOK' /\ PlansOK' /\ DirsOK' /\ StagesOK'
  BY DestinationKeeps
<1>2. plan' = plan /\ t \notin Moved
  BY DEF DestinationStep, OthersKept, Uncommitted
<1>3. ~Finished(t)' /\ Uncommitted(t)' /\ ~Committed(t)'
  BY <1>1, <1>2 DEF Finished, Uncommitted, Committed
<1>4. ReceiptsOK'
  <2> SUFFICES ASSUME NEW u \in Txs
               PROVE  /\ \A v \in Txs : plan[v] # NoPlan /\ Receipt(u) \in plan[v].entries => u \in Moved
                      /\ \A l \in Places : Receipt(u) \in vault'[l] =>
                           u \in Moved \/ (~Finished(u)' /\ l = plan[u].dest)
                      /\ journal'[u].stage \in {"absent", "aborted"} => staging'[u] = {}
    BY <1>1, <1>2 DEF ReceiptsOK, Receipt
  <2>1. \A v \in Txs : plan[v] # NoPlan /\ Receipt(u) \in plan[v].entries => u \in Moved
    BY DEF StoreInv, ReceiptsOK
  <2>2. ASSUME NEW l \in Places, Receipt(u) \in vault'[l], u \notin Moved
        PROVE  ~Finished(u)' /\ l = plan[u].dest
    <3>1. CASE l = plan[t].dest
      <4>1. vault'[l] \subseteq plan[t].entries \cup {Receipt(t)}
        BY <3>1, <1>2 DEF BeforeOK, Copy, Receipt
      <4>2. Receipt(u) \notin plan[t].entries
        BY <1>1, <2>1, <2>2
      <4>3. u = t
        BY <4>1, <4>2, <2>2, FileNames
      <4>4. QED
        BY <4>3, <3>1, <1>3
    <3>2. CASE l # plan[t].dest
      <4>1. vault'[l] = vault[l]
        BY <3>2 DEF DestinationStep
      <4>2. ~Finished(u) /\ l = plan[u].dest
        BY <4>1, <2>2 DEF StoreInv, ReceiptsOK
      <4>3. QED
        BY <4>2, <1>1, <3>2
    <3>3. QED
      BY <3>1, <3>2
  <2>3. journal'[u].stage \in {"absent", "aborted"} => staging'[u] = {}
    BY DEF StoreInv, ReceiptsOK, DestinationStep, OthersKept
  <2>4. QED
    BY <2>1, <2>2, <2>3
<1>5. MovesOK'
  BY <1>1, <1>3 DEF MovesOK
<1>6. LastOK'
  <2> SUFFICES ASSUME moves # <<>>
               PROVE  /\ Home = plan[Last].dest
                      /\ Finished(Last)' =>
                           \/ vault'[plan[Last].source] = {}
                           \/ \E v \in Txs : Uncommitted(v)' /\ plan[v].dest = plan[Last].source
    BY <1>1, <1>2 DEF LastOK, DestinationStep
  <2>1. Last \in Txs /\ Last # t
    BY LastIs, <1>2
  <2>2. Finished(Last)
    BY <2>1, <1>1
  <2>3. plan[Last] # NoPlan
    BY <2>1, LastIs, StageCases DEF StoreInv, PlansOK, StagesOK
  <2>4. plan[Last].source \in Places
    BY <2>1, <2>3, PlanFields DEF StoreInv
  <2>5. CASE plan[Last].source = plan[t].dest
    BY <2>5, <1>3 DEF StoreInv, LastOK
  <2>6. CASE plan[Last].source # plan[t].dest
    <3>1. ~\E v \in Txs : Uncommitted(v) /\ plan[v].dest = plan[Last].source
      BY <2>6, <1>1, StageCases DEF Uncommitted, Finished
    <3>2. QED
      BY <3>1, <2>2, <2>4, <2>6 DEF StoreInv, LastOK, DestinationStep
  <2>7. QED
    BY <2>5, <2>6
<1>7. QED
  BY <1>1, <1>4, <1>5, <1>6 DEF StoreInv

LEMMA AbortKeeps ==
  ASSUME TypesOK, StoreInv, NEW t \in Txs, AbortStep(t)
  PROVE  StoreInv'
<1> USE DEF AbortStep
<1>1. /\ plan[t] # NoPlan /\ BeforeOK(t) /\ Home' = Home /\ Moved' = Moved /\ Last' = Last
      /\ \A u \in Txs : u # t =>
           Finished(u) /\ Finished(u)' /\ ~Uncommitted(u)' /\ ~Committed(u)'
      /\ HomeOK' /\ PlansOK' /\ DirsOK' /\ StagesOK'
  BY DestinationKeeps
<1>2. plan' = plan /\ t \notin Moved
  BY DEF DestinationStep, OthersKept, Uncommitted
<1>3. ~Uncommitted(t)' /\ ~Committed(t)'
  BY <1>1, <1>2 DEF Uncommitted, Committed
<1>4. ReceiptsOK'
  <2> SUFFICES ASSUME NEW u \in Txs
               PROVE  /\ \A v \in Txs : plan[v] # NoPlan /\ Receipt(u) \in plan[v].entries => u \in Moved
                      /\ \A l \in Places : Receipt(u) \in vault'[l] => u \in Moved
                      /\ journal'[u].stage \in {"absent", "aborted"} => staging'[u] = {}
    BY <1>1, <1>2 DEF ReceiptsOK, Receipt
  <2>1. \A v \in Txs : plan[v] # NoPlan /\ Receipt(u) \in plan[v].entries => u \in Moved
    BY DEF StoreInv, ReceiptsOK
  <2>2. ASSUME NEW l \in Places, Receipt(u) \in vault'[l] PROVE u \in Moved
    <3>1. l # plan[t].dest /\ vault'[l] = vault[l]
      BY <2>2 DEF DestinationStep
    <3>2. QED
      BY <3>1, <2>2, <1>1 DEF StoreInv, ReceiptsOK
  <2>3. journal'[u].stage \in {"absent", "aborted"} => staging'[u] = {}
    BY DEF StoreInv, ReceiptsOK, DestinationStep, OthersKept
  <2>4. QED
    BY <2>1, <2>2, <2>3
<1>5. MovesOK'
  BY <1>1, <1>3 DEF MovesOK
<1>6. LastOK'
  <2> SUFFICES ASSUME moves # <<>>
               PROVE  Home = plan[Last].dest /\ vault'[plan[Last].source] = {}
    BY <1>1, <1>2 DEF LastOK, DestinationStep
  <2>1. Last \in Txs /\ Last # t
    BY LastIs, <1>2
  <2>2. Finished(Last)
    BY <2>1, <1>1
  <2>3. plan[Last] # NoPlan
    BY <2>1, LastIs, StageCases DEF StoreInv, PlansOK, StagesOK
  <2>4. plan[Last].source \in Places
    BY <2>1, <2>3, PlanFields DEF StoreInv
  <2>5. CASE plan[Last].source = plan[t].dest
    BY <2>5 DEF StoreInv, LastOK
  <2>6. CASE plan[Last].source # plan[t].dest
    <3>1. ~\E v \in Txs : Uncommitted(v) /\ plan[v].dest = plan[Last].source
      BY <2>6, <1>1, StageCases DEF Uncommitted, Finished
    <3>2. QED
      BY <3>1, <2>2, <2>4, <2>6 DEF StoreInv, LastOK, DestinationStep
  <2>7. QED
    BY <2>5, <2>6
<1>7. QED
  BY <1>1, <1>4, <1>5, <1>6 DEF StoreInv

\* A step behind the commit point: the source only loses files.
BehindStep(t) ==
  /\ Committed(t) /\ OthersKept(t)
  /\ dirs' = dirs /\ staging' = staging /\ pointer' = pointer /\ moves' = moves
  /\ \A l \in Places : l # plan[t].source => vault'[l] = vault[l]
  /\ vault'[plan[t].source] \subseteq vault[plan[t].source]
  /\ \/ journal'[t].stage \in {"published", "pointer_moved"}
     \/ journal'[t].stage = "cleaned" /\ vault'[plan[t].source] = {}

LEMMA BehindKeeps ==
  ASSUME TypesOK, StoreInv, NEW t \in Txs, BehindStep(t)
  PROVE  StoreInv'
<1> USE DEF BehindStep
<1>1. ~Finished(t) /\ t \in Moved
  BY StageCases DEF Committed
<1>2. plan[t] # NoPlan /\ \A u \in Txs : ~Finished(u) => u = t
  BY <1>1, UnderWay
<1>3. t = Last /\ vault[plan[t].source] \subseteq plan[t].entries
  BY DEF StoreInv, MovesOK
<1>4. Home' = Home /\ Moved' = Moved /\ Last' = Last /\ plan' = plan
  BY DEF Home, Moved, Last, OthersKept
<1>5. moves # <<>>
  <2>1. moves = <<>> => Moved = {}
    BY DEF Moved
  <2>2. QED
    BY <2>1, <1>1
<1>6. Home = plan[t].dest /\ plan[t].source \in Places /\ plan[t].dest \in Places
      /\ plan[t].source # plan[t].dest
  BY <1>2, <1>3, <1>5, PlanFields DEF StoreInv, LastOK
<1>7. \A l \in Places : vault'[l] \subseteq vault[l]
  OBVIOUS
<1>8. ASSUME NEW u \in Txs, u # t
      PROVE  Finished(u) /\ Finished(u)' /\ ~Uncommitted(u)' /\ ~Committed(u)'
  <2>1. Finished(u) /\ journal'[u].stage = journal[u].stage
    BY <1>2, <1>8 DEF OthersKept
  <2>2. QED
    BY <2>1 DEF Finished, Uncommitted, Committed
<1>9. HomeOK'
  <2>1. vault'[Home'] = vault[Home] /\ written' = written
    BY <1>4, <1>6 DEF OthersKept
  <2>2. QED
    BY <2>1 DEF StoreInv, HomeOK, InUnit
<1>10. PlansOK'
  BY <1>2 DEF StoreInv, PlansOK, PlanOK, OthersKept, InUnit
<1>11. DirsOK'
  BY <1>7 DEF StoreInv, DirsOK, Places
<1>12. ReceiptsOK'
  <2>1. \A u, v \in Txs : plan[v] # NoPlan /\ Receipt(u) \in plan[v].entries => u \in Moved
    BY DEF StoreInv, ReceiptsOK
  <2>2. ASSUME NEW u \in Txs, NEW l \in Places, Receipt(u) \in vault'[l]
        PROVE  u \in Moved
    <3>1. Receipt(u) \in vault[l]
      BY <1>7, <2>2
    <3>2. u \in Moved \/ ~Finished(u)
      BY <3>1 DEF StoreInv, ReceiptsOK
    <3>3. QED
      BY <3>2, <1>2, <1>1
  <2>3. \A u \in Txs : journal'[u].stage \in {"absent", "aborted"} => staging'[u] = {}
    BY DEF StoreInv, ReceiptsOK, OthersKept
  <2>4. QED
    BY <2>1, <2>2, <2>3, <1>4 DEF ReceiptsOK, Receipt
<1>13. StagesOK'
  <2>1. \A u, v \in Txs : ~Finished(u)' /\ ~Finished(v)' => u = v
    BY <1>8
  <2>2. QED
    BY <1>1, <1>4, <2>1 DEF StoreInv, StagesOK, OthersKept
<1>14. MovesOK'
  <2>1. ~Uncommitted(t)'
    BY <1>1, <1>4 DEF Uncommitted
  <2>2. vault'[plan[t].source] \subseteq plan[t].entries
    BY <1>3
  <2>3. QED
    BY <2>1, <2>2, <1>3, <1>4, <1>8 DEF MovesOK
<1>15. LastOK'
  <2>1. Finished(t)' => vault'[plan[t].source] = {}
    BY DEF Finished
  <2>2. QED
    BY <2>1, <1>3, <1>4, <1>6 DEF LastOK
<1>16. QED
  BY <1>9, <1>10, <1>11, <1>12, <1>13, <1>14, <1>15 DEF StoreInv

\* The commit point: the pointer goes from the source to the complete copy.
MoveStep(t) ==
  /\ Uncommitted(t) /\ OthersKept(t) /\ journal'[t].stage = journal[t].stage
  /\ journal[t].stage = "published" /\ staging' = staging
  /\ vault' = vault /\ dirs' = dirs /\ moves' = Append(moves, t)
  /\ vault[plan[t].dest] = Copy(t) /\ plan[t].base = written /\ Home' = plan[t].dest

LEMMA AppendLast ==
  ASSUME NEW S, NEW s \in Seq(S), NEW t \in S
  PROVE  /\ {Append(s, t)[i] : i \in 1 .. Len(Append(s, t))} = {s[i] : i \in 1 .. Len(s)} \cup {t}
         /\ Append(s, t)[Len(Append(s, t))] = t
         /\ Append(s, t) # <<>>
<1>1. Len(Append(s, t)) = Len(s) + 1 /\ Append(s, t)[Len(s) + 1] = t /\ Len(s) \in Nat
  OBVIOUS
<1>2. \A i \in 1 .. Len(s) : Append(s, t)[i] = s[i]
  OBVIOUS
<1>3. 1 .. (Len(s) + 1) = (1 .. Len(s)) \cup {Len(s) + 1}
  BY <1>1
<1>4. {Append(s, t)[i] : i \in 1 .. Len(Append(s, t))} = {s[i] : i \in 1 .. Len(s)} \cup {t}
  BY <1>1, <1>2, <1>3
<1>5. Len(<<>>) = 0 /\ Len(Append(s, t)) # 0
  BY <1>1
<1>6. QED
  BY <1>1, <1>4, <1>5

LEMMA MoveKeeps ==
  ASSUME TypesOK, StoreInv, NEW t \in Txs, MoveStep(t)
  PROVE  StoreInv'
<1> USE DEF MoveStep
<1>1. ~Finished(t) /\ t \notin Moved
  BY StageCases DEF Uncommitted
<1>2. plan[t] # NoPlan /\ BeforeOK(t) /\ \A u \in Txs : ~Finished(u) => u = t
  BY <1>1, UnderWay DEF StoreInv, MovesOK
<1>3. Moved' = Moved \cup {t} /\ Last' = t /\ plan' = plan /\ moves' # <<>>
  BY AppendLast DEF TypesOK, MovesTyped, Moved, Last, OthersKept
<1>4. \A u \in Txs : journal'[u].stage = journal[u].stage
  BY DEF OthersKept
<1>5. \A u \in Txs : Finished(u)' = Finished(u)
  BY <1>4 DEF Finished
<1>6. HomeOK'
  <2>1. Whole(written) \subseteq Copy(t) /\ InUnit(Copy(t), "refs") = {Current(written)}
    BY <1>2, CopyIsWhole DEF StoreInv
  <2>2. vault'[Home'] = Copy(t) /\ written' = written
    BY DEF OthersKept
  <2>3. QED
    BY <2>1, <2>2 DEF HomeOK, InUnit
<1>7. PlansOK'
  BY <1>3, <1>4 DEF StoreInv, PlansOK, PlanOK, OthersKept, InUnit
<1>8. DirsOK'
  BY DEF StoreInv, DirsOK
<1>9. ReceiptsOK'
  BY <1>3, <1>4, <1>5 DEF StoreInv, ReceiptsOK, Receipt
<1>10. StagesOK'
  BY <1>1, <1>2, <1>3, <1>4, <1>5, StageCases DEF StoreInv, StagesOK
<1>11. ASSUME NEW u \in Txs PROVE ~Uncommitted(u)' /\ (Committed(u)' => u = t)
  <2>1. CASE u = t
    BY <2>1, <1>3 DEF Uncommitted
  <2>2. CASE u # t
    BY <2>2, <1>2, <1>4 DEF Uncommitted, Committed, Finished
  <2>3. QED
    BY <2>1, <2>2
<1>12. MovesOK'
  <2>1. vault'[plan[t].source] \subseteq plan[t].entries
    BY <1>2 DEF BeforeOK
  <2>2. QED
    BY <2>1, <1>3, <1>11 DEF MovesOK
<1>13. LastOK'
  BY <1>1, <1>3, <1>5 DEF LastOK
<1>14. QED
  BY <1>6, <1>7, <1>8, <1>9, <1>10, <1>12, <1>13 DEF StoreInv

-----------------------------------------------------------------------------
(* Plans, and the lock step that puts one on the way.                      *)

\* A plan is made of the authority.
PlanStep(t, P) ==
  /\ plan[t] = NoPlan /\ P # NoPlan /\ plan' = [plan EXCEPT ![t] = P]
  /\ P.base = written /\ P.entries = vault[Home] /\ P.source = Home
  /\ P.dir = "out" => P.source = "local" /\ P.dest \in Externals
  /\ P.dir = "back" => P.source \in Externals /\ P.dest = "local"
  /\ UNCHANGED <<files, journal, moves, written>>

LEMMA PlanKeeps ==
  ASSUME TypesOK, StoreInv, NEW t \in Txs, NEW P, PlanStep(t, P)
  PROVE  StoreInv' /\ \A u \in Txs : u # t => plan'[u] = plan[u]
<1> USE DEF PlanStep, files
<1>1. plan'[t] = P /\ \A u \in Txs : u # t => plan'[u] = plan[u]
  BY DEF TypesOK, MovesTyped
<1>2. journal[t].stage = "absent"
  BY DEF StoreInv, PlansOK
<1>3. Finished(t) /\ t \notin Moved /\ ~Uncommitted(t) /\ ~Committed(t)
  BY <1>2 DEF Finished, Uncommitted, Committed, StoreInv, StagesOK
<1>4. /\ Home' = Home /\ Moved' = Moved /\ Last' = Last /\ journal' = journal
      /\ \A u \in Txs : Finished(u)' = Finished(u) /\ Uncommitted(u)' = Uncommitted(u)
                        /\ Committed(u)' = Committed(u)
  BY DEF Home, Moved, Last, Finished, Uncommitted, Committed
<1>5. HomeOK' /\ DirsOK' /\ StagesOK'
  BY <1>4 DEF StoreInv, HomeOK, DirsOK, StagesOK, InUnit
<1>6. PlansOK'
  <2>1. PlanOK(P)'
    <3>1. Whole(P.base) \subseteq P.entries /\ InUnit(P.entries, "refs") = {Current(P.base)}
      BY DEF StoreInv, HomeOK
    <3>2. P.base <= written'
      BY HomePlace
    <3>3. QED
      BY <3>1, <3>2 DEF PlanOK
  <2>2. \A Q : PlanOK(Q) => PlanOK(Q)'
    BY DEF PlanOK
  <2>3. QED
    BY <2>1, <2>2, <1>1 DEF StoreInv, PlansOK
<1>7. ReceiptsOK'
  <2>1. ASSUME NEW u \in Txs, Receipt(u) \in vault[Home] PROVE u \in Moved
    <3>1. u \in Moved \/ (~Finished(u) /\ Home = plan[u].dest)
      BY <2>1, HomePlace DEF StoreInv, ReceiptsOK
    <3>2. ASSUME ~Finished(u), u \notin Moved PROVE Home # plan[u].dest
      <4>1. Uncommitted(u) /\ plan[u] # NoPlan
        BY <3>2, UnderWay DEF Committed
      <4>2. Home = plan[u].source
        BY <4>1 DEF StoreInv, MovesOK, BeforeOK
      <4>3. QED
        BY <4>1, <4>2, PlanFields DEF StoreInv
    <3>3. QED
      BY <3>1, <3>2
  <2>2. ASSUME NEW u \in Txs, NEW v \in Txs, plan'[v] # NoPlan, Receipt(u) \in plan'[v].entries
        PROVE  u \in Moved
    BY <1>1, <2>1, <2>2 DEF StoreInv, ReceiptsOK
  <2>3. ASSUME NEW u \in Txs, NEW l \in Places, Receipt(u) \in vault[l]
        PROVE  u \in Moved \/ (~Finished(u) /\ l = plan'[u].dest)
    BY <1>1, <1>3, <2>3 DEF StoreInv, ReceiptsOK
  <2>4. \A u \in Txs : journal[u].stage \in {"absent", "aborted"} => staging[u] = {}
    BY DEF StoreInv, ReceiptsOK
  <2>5. QED
    BY <1>4, <2>2, <2>3, <2>4 DEF ReceiptsOK, Receipt
<1>8. ASSUME NEW u \in Txs, u # t, BeforeOK(u) PROVE BeforeOK(u)'
  BY <1>1, <1>4, <1>8 DEF BeforeOK, Copy, InUnit
<1>9. MovesOK'
  <2>1. ASSUME NEW u \in Txs
        PROVE  /\ Uncommitted(u)' => BeforeOK(u)'
               /\ Committed(u)' => u = Last' /\ vault'[plan'[u].source] \subseteq plan'[u].entries
    BY <1>1, <1>3, <1>4, <1>8 DEF StoreInv, MovesOK
  <2>2. QED
    BY <2>1 DEF MovesOK
<1>10. LastOK'
  <2>1. moves # <<>> => Last \in Txs /\ Last # t
    BY LastIs, <1>3
  <2>2. moves # <<>> => plan'[Last] = plan[Last]
    BY <2>1, <1>1
  <2>3. \A u \in Txs : Uncommitted(u) => plan'[u] = plan[u]
    BY <1>1, <1>3
  <2>4. QED
    BY <1>4, <2>1, <2>2, <2>3 DEF StoreInv, LastOK
<1>11. QED
  BY <1>1, <1>5, <1>6, <1>7, <1>9, <1>10 DEF StoreInv

\* commit_relocation and commit_back accept the plan under the locks.
BeginStep(t) ==
  /\ plan[t] # NoPlan /\ journal[t].stage = "absent" /\ journal'[t].stage = "staging"
  /\ \A u \in Txs : u # t => Finished(u) /\ journal'[u] = journal[u]
  /\ Home = plan[t].source /\ vault[plan[t].source] = plan[t].entries
  /\ vault[plan[t].dest] = {}
  /\ plan[t].dir = "out" => pointer = NoPointer /\ plan[t].dest \notin dirs
  /\ UNCHANGED <<files, plan, moves, written>>

LEMMA BeginKeeps ==
  ASSUME TypesOK, StoreInv, NEW t \in Txs, BeginStep(t)
  PROVE  StoreInv' /\ Uncommitted(t)' /\ plan[t].base = written
<1> USE DEF BeginStep, files
<1>1. t \notin Moved /\ staging[t] = {}
  BY DEF StoreInv, StagesOK, ReceiptsOK
<1>2. /\ Home' = Home /\ Moved' = Moved /\ Last' = Last
      /\ \A u \in Txs : u # t => Finished(u)' /\ ~Uncommitted(u)' /\ ~Committed(u)'
  BY DEF Home, Moved, Last, Finished, Uncommitted, Committed
<1>3. ~Finished(t)' /\ Uncommitted(t)' /\ ~Committed(t)'
  BY <1>1, <1>2 DEF Finished, Uncommitted, Committed
<1>4. plan[t].base = written
  <2>1. InUnit(vault[Home], "refs") = {Current(written)}
    BY DEF StoreInv, HomeOK
  <2>2. InUnit(vault[Home], "refs") = {Current(plan[t].base)}
    BY DEF StoreInv, PlansOK, PlanOK
  <2>3. QED
    BY <2>1, <2>2, FileNames
<1>5. HomeOK' /\ DirsOK'
  BY <1>2 DEF StoreInv, HomeOK, DirsOK, InUnit
<1>6. PlansOK'
  BY DEF StoreInv, PlansOK, PlanOK, InUnit
<1>7. ReceiptsOK'
  <2>1. \A u, v \in Txs : plan[v] # NoPlan /\ Receipt(u) \in plan[v].entries => u \in Moved
    BY DEF StoreInv, ReceiptsOK
  <2>2. \A u \in Txs, l \in Places : Receipt(u) \in vault[l] =>
          u \in Moved \/ (~Finished(u) /\ l = plan[u].dest)
    BY DEF StoreInv, ReceiptsOK
  <2>3. \A u \in Txs : ~Finished(u) => u = t
    OBVIOUS
  <2>4. \A u \in Txs : journal'[u].stage \in {"absent", "aborted"} => staging[u] = {}
    BY DEF StoreInv, ReceiptsOK
  <2>5. QED
    BY <1>2, <1>3, <2>1, <2>2, <2>3, <2>4 DEF ReceiptsOK, Receipt
<1>8. StagesOK'
  <2>1. \A u, v \in Txs : ~Finished(u)' /\ ~Finished(v)' => u = v
    BY <1>2
  <2>2. QED
    BY <1>1, <1>2, <2>1 DEF StoreInv, StagesOK
<1>9. BeforeOK(t)'
  BY <1>1, <1>2, PlanFields DEF StoreInv, BeforeOK, Copy, PlanOK, InUnit
<1>10. MovesOK'
  BY <1>2, <1>3, <1>9 DEF MovesOK
<1>11. LastOK'
  <2>1. moves # <<>> => Last \in Txs /\ Last # t
    BY LastIs, <1>1
  <2>2. \A u \in Txs : ~Uncommitted(u)
    BY DEF Uncommitted, Finished
  <2>3. moves # <<>> => Finished(Last)
    BY <2>1
  <2>4. QED
    BY <1>2, <2>2, <2>3 DEF StoreInv, LastOK
<1>12. QED
  BY <1>3, <1>4, <1>5, <1>6, <1>7, <1>8, <1>10, <1>11 DEF StoreInv

-----------------------------------------------------------------------------
(* A write to the authority.                                               *)

Written(S, r) == (S \ InUnit(S, "refs")) \cup {Object(r), Current(r)}

LEMMA WholeAfterWrite ==
  ASSUME NEW S, NEW r \in Nat, Whole(r) \subseteq S
  PROVE  /\ Whole(r + 1) \subseteq Written(S, r + 1)
         /\ InUnit(Written(S, r + 1), "refs") = {Current(r + 1)}
<1>1. 1 .. (r + 1) = (1 .. r) \cup {r + 1}
  OBVIOUS
<1>2. \A i \in 1 .. r : Object(i) \in S /\ Object(i) \notin InUnit(S, "refs")
  BY FileNames DEF Whole, InUnit
<1>3. Identity \in S \ InUnit(S, "refs")
  BY FileNames DEF Whole, InUnit
<1>4. Whole(r + 1) \subseteq Written(S, r + 1)
  BY <1>1, <1>2, <1>3 DEF Whole, Written
<1>5. InUnit(Written(S, r + 1), "refs") = {Current(r + 1)}
  BY FileNames DEF InUnit, Written
<1>6. QED
  BY <1>4, <1>5

WriteStep ==
  /\ written < MaxRevision /\ written' = written + 1
  /\ vault' = [vault EXCEPT ![Home] = Written(vault[Home], written + 1)]
  /\ UNCHANGED <<dirs, staging, pointer, plan, journal, moves>>

LEMMA WriteKeeps ==
  ASSUME TypesOK, StoreInv, WriteStep
  PROVE  StoreInv' /\ \A l \in Places : l # Home => vault'[l] = vault[l]
<1> USE DEF WriteStep
<1>1. Home \in Places /\ written \in Nat /\ vault \in [Places -> SUBSET Files]
  BY HomePlace DEF TypesOK, FilesTyped
<1>2. /\ vault'[Home] = Written(vault[Home], written + 1)
      /\ \A l \in Places : l # Home => vault'[l] = vault[l]
  BY <1>1
<1>3. /\ Home' = Home /\ Moved' = Moved /\ Last' = Last
      /\ \A u \in Txs : Finished(u)' = Finished(u) /\ Uncommitted(u)' = Uncommitted(u)
                        /\ Committed(u)' = Committed(u) /\ Copy(u)' = Copy(u)
  BY DEF Home, Moved, Last, Finished, Uncommitted, Committed, Copy
<1>4. HomeOK'
  BY <1>1, <1>2, <1>3, WholeAfterWrite DEF StoreInv, HomeOK
<1>5. PlansOK'
  <2>1. ASSUME NEW t \in Txs, plan[t] # NoPlan PROVE PlanOK(plan[t])'
    <3>1. PlanOK(plan[t]) /\ plan[t].base \in Nat
      BY <2>1, PlanFields DEF StoreInv
    <3>2. plan[t].base <= written'
      BY <3>1, <1>1 DEF PlanOK
    <3>3. QED
      BY <3>1, <3>2 DEF PlanOK
  <2>2. QED
    BY <2>1 DEF StoreInv, PlansOK, PlanOK
<1>6. DirsOK'
  <2>1. ASSUME NEW e \in Externals \ dirs PROVE vault'[e] = {}
    <3>1. vault[e] = {}
      BY DEF StoreInv, DirsOK
    <3>2. e # Home
      BY <3>1 DEF StoreInv, HomeOK, Whole
    <3>3. QED
      BY <3>1, <3>2, <1>2 DEF Places
  <2>2. QED
    BY <2>1 DEF DirsOK
<1>7. ReceiptsOK'
  <2>1. \A l \in Places, t \in Txs : Receipt(t) \in vault'[l] => Receipt(t) \in vault[l]
    BY <1>2, FileNames DEF Written
  <2>2. QED
    BY <1>3, <2>1 DEF StoreInv, ReceiptsOK, Receipt
<1>8. StagesOK'
  BY <1>3 DEF StoreInv, StagesOK
<1>9. ASSUME NEW t \in Txs, Uncommitted(t) PROVE BeforeOK(t)'
  <2>1. BeforeOK(t) /\ plan[t] # NoPlan
    BY <1>9, StageCases, UnderWay DEF StoreInv, MovesOK, Uncommitted
  <2>2. plan[t].base \in Nat /\ plan[t].base <= written
    BY <2>1, PlanFields DEF StoreInv, PlanOK
  <2>3. written' # plan[t].base
    BY <2>2, <1>1
  <2>4. plan[t].dest # Home /\ plan[t].dest \in Places
    BY <2>1, PlanFields DEF StoreInv, BeforeOK
  <2>5. vault'[plan[t].dest] = vault[plan[t].dest]
    BY <2>4, <1>2
  <2>6. plan[t].dir = "back" => plan[t].dest = "local"
    BY <2>1, PlanFields DEF StoreInv, PlanOK
  <2>7. QED
    BY <1>3, <2>1, <2>3, <2>5, <2>6 DEF BeforeOK, InUnit
<1>10. ASSUME NEW t \in Txs, plan[t] # NoPlan, Home = plan[t].dest
       PROVE  vault'[plan[t].source] = vault[plan[t].source]
  BY <1>10, <1>2, PlanFields DEF StoreInv
<1>11. moves # <<>> => Last \in Txs /\ plan[Last] # NoPlan /\ Home = plan[Last].dest
  <2> SUFFICES ASSUME moves # <<>> PROVE Last \in Txs /\ plan[Last] # NoPlan /\ Home = plan[Last].dest
    OBVIOUS
  <2>1. Last \in Txs /\ Last \in Moved
    BY LastIs
  <2>2. plan[Last] # NoPlan
    BY <2>1 DEF StoreInv, PlansOK, StagesOK
  <2>3. QED
    BY <2>1, <2>2 DEF StoreInv, LastOK
<1>12. moves # <<>> => vault'[plan[Last].source] = vault[plan[Last].source]
  BY <1>10, <1>11
<1>13. MovesOK'
  <2>1. ASSUME NEW t \in Txs, Committed(t)
        PROVE  t = Last /\ vault'[plan[t].source] \subseteq plan[t].entries
    <3>1. t = Last /\ vault[plan[t].source] \subseteq plan[t].entries
      BY <2>1 DEF StoreInv, MovesOK
    <3>2. moves # <<>>
      BY <2>1 DEF Committed, Moved
    <3>3. QED
      BY <3>1, <3>2, <1>12
  <2>2. QED
    BY <1>3, <1>9, <2>1 DEF MovesOK
<1>14. LastOK'
  BY <1>3, <1>11, <1>12 DEF StoreInv, LastOK
<1>15. QED
  BY <1>2, <1>4, <1>5, <1>6, <1>7, <1>8, <1>13, <1>14 DEF StoreInv

-----------------------------------------------------------------------------
(* An operator at work.                                                    *)

\* What the invariant says of an operator with move t in mode m.
AtWork(p, t, m) ==
  /\ cmd[p] \in Commands /\ cmd[p].tx = t /\ cmd[p].mode = m
  /\ J(p) \in Journals /\ J(p).stage = journal[t].stage
  /\ plan[t] # NoPlan /\ plan[t].source \in Places /\ plan[t].dest \in Places
  /\ plan[t].source # plan[t].dest /\ plan[t].dir \in {"out", "back"} /\ PlanOK(plan[t])
  /\ \A u \in Txs : u # t => Finished(u)
  /\ IF pc[p] = "commit_lock" THEN journal[t].stage = "absent" ELSE ~Finished(t)
  /\ pc[p] \notin Waiting => lock[plan[t].source] = p
  /\ KnowsBefore(pc[p], t, m) /\ KnowsBehind(pc[p], t)
  /\ \A q \in Operators : q = p

LEMMA Working ==
  ASSUME Alone, IndInv, NEW p \in Operators, pc[p] # "idle"
  PROVE  \E t \in Txs, m \in {"commit", "reconcile"} : AtWork(p, t, m)
<1>1. cmd[p] \in Commands
  BY DEF IndInv, OperatorsOK
<1>2. PICK t \in Txs : t = cmd[p].tx
  BY <1>1 DEF Commands
<1>3. PICK m \in {"commit", "reconcile"} : m = cmd[p].mode
  BY <1>1 DEF Commands
<1>4. J(p) \in Journals
  BY <1>1 DEF Commands, J
<1>5. /\ plan[t] # NoPlan /\ J(p).stage = journal[t].stage
      /\ \A u \in Txs : u # t => Finished(u)
      /\ IF pc[p] = "commit_lock" THEN journal[t].stage = "absent" ELSE ~Finished(t)
      /\ pc[p] \notin Waiting => lock[plan[t].source] = p
      /\ KnowsBefore(pc[p], t, m) /\ KnowsBehind(pc[p], t)
  BY <1>2, <1>3, Zenon DEF IndInv, OperatorsOK, Tx, Plan
<1>6. /\ plan[t].source \in Places /\ plan[t].dest \in Places
      /\ plan[t].source # plan[t].dest /\ plan[t].dir \in {"out", "back"} /\ PlanOK(plan[t])
  BY <1>5, PlanFields DEF IndInv, StoreInv
<1>7. \A q \in Operators : q = p
  BY DEF Alone
<1>8. AtWork(p, t, m)
  BY <1>1, <1>2, <1>3, <1>4, <1>5, <1>6, <1>7, Zenon DEF AtWork
<1>9. QED
  BY <1>8

LEMMA JournalUpdate ==
  ASSUME NEW j \in Journals, j.stage # "absent"
  PROVE  /\ \A s \in Stages : [j EXCEPT !.stage = s] \in Journals /\ [j EXCEPT !.stage = s].stage = s
         /\ [j EXCEPT !.receipt = TRUE] \in Journals /\ [j EXCEPT !.receipt = TRUE].stage = j.stage
         /\ [j EXCEPT !.removing = TRUE] \in Journals /\ [j EXCEPT !.removing = TRUE].stage = j.stage
         /\ [j EXCEPT !.stage = "published", !.receipt = TRUE] \in Journals
         /\ [j EXCEPT !.stage = "published", !.receipt = TRUE].stage = "published"
<1>1. j \in [stage : Stages, receipt : BOOLEAN, removing : BOOLEAN]
  BY DEF Journals, NoJournal
<1>2. QED
  BY <1>1 DEF Journals, Stages

LEMMA FirstJournal ==
  [NoJournal EXCEPT !.stage = "staging"] \in Journals
  /\ [NoJournal EXCEPT !.stage = "staging"].stage = "staging"
BY DEF NoJournal, Journals, Stages

\* The journal in memory reaches the disk.
LEMMA Journaled ==
  ASSUME TypesOK, NEW p \in Operators, NEW t \in Txs, NEW m, AtWork(p, t, m),
         NEW j \in Journals, WriteJournal(p, j)
  PROVE  /\ journal'[t] = j /\ \A u \in Txs : u # t => journal'[u] = journal[u]
         /\ cmd'[p] \in Commands /\ cmd'[p].tx = t /\ cmd'[p].mode = m /\ cmd'[p].j = j
<1>1. cmd[p] \in Commands /\ cmd[p].tx = t /\ cmd[p].mode = m
  BY DEF AtWork
<1>2. journal' = [journal EXCEPT ![t] = j]
  BY <1>1 DEF WriteJournal, Tx
<1>3. cmd'[p] = [cmd[p] EXCEPT !.j = j]
  BY DEF WriteJournal, TypesOK, ProcessesTyped
<1>4. cmd'[p] \in Commands /\ cmd'[p].tx = t /\ cmd'[p].mode = m /\ cmd'[p].j = j
  BY <1>1, <1>3 DEF Commands
<1>5. QED
  BY <1>2, <1>4 DEF TypesOK, MovesTyped

LEMMA JournalClosed ==
  ASSUME TypesOK, NEW p \in Operators, NEW t \in Txs, NEW m, AtWork(p, t, m),
         pc[p] # "commit_lock", NEW s \in Stages, CloseJournal(p, s)
  PROVE  /\ journal'[t].stage = s /\ \A u \in Txs : u # t => journal'[u] = journal[u]
         /\ Release(p)
<1>1. journal' = [journal EXCEPT ![t] = [J(p) EXCEPT !.stage = s]]
  BY DEF CloseJournal, Tx, AtWork
<1>2. J(p) \in Journals /\ J(p).stage # "absent"
  BY DEF AtWork, Finished
<1>3. journal'[t].stage = s
  BY <1>1, <1>2, JournalUpdate DEF TypesOK, MovesTyped
<1>4. QED
  BY <1>1, <1>3 DEF CloseJournal, TypesOK, MovesTyped

\* No lock of another process is touched.
LocksKept(p) == \A l \in Places : lock[l] \notin {p, Nobody} => lock'[l] = lock[l]

\* A step that goes on to s.
Goes(p, t, m, s) ==
  /\ pc' = [pc EXCEPT ![p] = s] /\ s \notin {"idle", "commit_lock"}
  /\ cmd'[p] \in Commands /\ cmd'[p].tx = t /\ cmd'[p].mode = m
  /\ cmd'[p].j.stage = journal'[t].stage
  /\ \A u \in Txs : u # t => journal'[u].stage = journal[u].stage
  /\ journal'[t].stage \in {"staging", "published", "pointer_moved"}
  /\ UNCHANGED <<plan, writer>> /\ LocksKept(p)
  /\ s \notin Waiting => lock'[plan[t].source] = p
  /\ Home' = Home \/ lock[Home] = p

\* A writer inside a commit keeps its lock and the authority it writes to.
LEMMA WritersKept ==
  ASSUME TypesOK, WritersOK, NEW p \in Operators, UNCHANGED writer, LocksKept(p),
         Home' = Home \/ lock[Home] = p
  PROVE  WritersOK'
<1> SUFFICES ASSUME NEW w \in Writers
             PROVE  /\ wpc[w] = "write" => lock'[sess[w].loc] = w /\ sess[w].loc = Home'
                    /\ sess[w].loc \in Externals => sess[w].under
  BY DEF WritersOK, writer
<1>1. w \notin {p, Nobody} /\ sess[w].loc \in Places
  BY NamesAssumption DEF TypesOK, ProcessesTyped
<1>2. QED
  BY <1>1 DEF WritersOK, LocksKept

LEMMA Going ==
  ASSUME TypesOK, WritersOK, NEW p \in Operators, NEW t \in Txs, NEW m, NEW s,
         AtWork(p, t, m), Goes(p, t, m, s), KnowsBefore(s, t, m)', KnowsBehind(s, t)'
  PROVE  OperatorsOK' /\ WritersOK'
<1>1. WritersOK'
  BY WritersKept DEF Goes
<1>2. pc'[p] = s /\ \A q \in Operators : q = p
  BY DEF Goes, AtWork, TypesOK, ProcessesTyped
<1>3. cmd'[p] \in Commands /\ Tx(p)' = t /\ cmd'[p].mode = m /\ plan' = plan
      /\ J(p)'.stage = journal'[t].stage
  BY DEF Goes, Tx, J
<1>4. plan[t] # NoPlan
  BY DEF AtWork
<1>5. \A u \in Txs : u # t => Finished(u)'
  BY DEF AtWork, Goes, Finished
<1>6. s # "commit_lock" /\ ~Finished(t)'
  BY DEF Goes, Finished
<1>7. s \notin Waiting => lock'[plan[t].source] = p
  BY DEF Goes
<1>8. KnowsBefore(pc[p], Tx(p), cmd[p].mode)' /\ KnowsBehind(pc[p], Tx(p))'
  BY <1>2, <1>3, Zenon DEF KnowsBefore, KnowsBehind
<1>9. OperatorsOK'
  BY <1>2, <1>3, <1>4, <1>5, <1>6, <1>7, <1>8, Zenon DEF OperatorsOK, Plan
<1>10. QED
  BY <1>1, <1>9

\* A call returns.
LEMMA Returning ==
  ASSUME TypesOK, WritersOK, NEW p \in Operators, \A q \in Operators : q = p,
         Release(p), UNCHANGED writer, Home' = Home
  PROVE  OperatorsOK' /\ WritersOK'
<1>1. pc'[p] = "idle"
  BY DEF Release, TypesOK, ProcessesTyped
<1>2. LocksKept(p)
  BY DEF Release, LocksKept
<1>3. QED
  BY <1>1, <1>2, WritersKept DEF OperatorsOK

-----------------------------------------------------------------------------
(* The steps of a command.                                                 *)

Safe == StoreInv /\ OperatorsOK /\ WritersOK

LEMMA GotoGoes ==
  ASSUME TypesOK, NEW p \in Operators, NEW t \in Txs, NEW m, NEW s, AtWork(p, t, m),
         pc[p] \notin Waiting, s \notin Waiting \cup {"idle"}, Goto(p, s),
         UNCHANGED <<journal, cmd, plan, writer>>, Home' = Home \/ lock[Home] = p
  PROVE  Goes(p, t, m, s)
<1>1. journal[t].stage \in {"staging", "published", "pointer_moved"}
  BY StageCases DEF AtWork, Waiting
<1>2. LocksKept(p) /\ pc' = [pc EXCEPT ![p] = s] /\ lock' = lock
  BY DEF Goto, LocksKept
<1>3. QED
  BY <1>1, <1>2, Zenon DEF Goes, AtWork, Waiting, J

LEMMA WriteGoes ==
  ASSUME TypesOK, NEW p \in Operators, NEW t \in Txs, NEW m, NEW s, AtWork(p, t, m),
         pc[p] \notin Waiting, s \notin Waiting \cup {"idle"}, Goto(p, s),
         NEW j \in Journals, j.stage \in {"staging", "published", "pointer_moved"},
         WriteJournal(p, j), UNCHANGED <<plan, writer>>, Home' = Home \/ lock[Home] = p
  PROVE  /\ Goes(p, t, m, s) /\ journal'[t] = j
         /\ \A u \in Txs : u # t => journal'[u] = journal[u]
<1>1. /\ journal'[t] = j /\ \A u \in Txs : u # t => journal'[u] = journal[u]
      /\ cmd'[p] \in Commands /\ cmd'[p].tx = t /\ cmd'[p].mode = m /\ cmd'[p].j = j
  BY Journaled
<1>2. LocksKept(p) /\ pc' = [pc EXCEPT ![p] = s] /\ lock' = lock
  BY DEF Goto, LocksKept
<1>3. lock[plan[t].source] = p
  BY DEF AtWork
<1>4. s \notin {"idle", "commit_lock"}
  BY DEF Waiting
<1>5. Goes(p, t, m, s)
  BY <1>1, <1>2, <1>3, <1>4 DEF Goes
<1>6. QED
  BY <1>1, <1>5

LEMMA QuietGoing ==
  ASSUME IndInv, NEW p \in Operators, NEW t \in Txs, NEW m, NEW s, AtWork(p, t, m),
         Goes(p, t, m, s), QuietStep, KnowsBefore(s, t, m), KnowsBehind(s, t)
  PROVE  Safe'
<1>1. TypesOK /\ StoreInv /\ WritersOK
  BY DEF IndInv
<1>2. StoreInv'
  BY <1>1, QuietKeeps
<1>3. /\ Uncommitted(t)' = Uncommitted(t) /\ Committed(t)' = Committed(t)
      /\ Copy(t)' = Copy(t) /\ journal'[t].stage = journal[t].stage
      /\ vault' = vault /\ staging' = staging /\ dirs' = dirs /\ plan' = plan
      /\ written' = written
  BY DEF QuietStep, Uncommitted, Committed, Copy, Moved
<1>4. KnowsBefore(s, t, m)' /\ KnowsBehind(s, t)'
  BY <1>3, Zenon DEF KnowsBefore, KnowsBehind
<1>5. QED
  BY <1>1, <1>2, <1>4, Going DEF Safe

LEMMA Refusing ==
  ASSUME Alone, IndInv, NEW p \in Operators, Refuse(p), UNCHANGED <<plan, writer>>
  PROVE  Safe'
<1>1. QuietStep /\ Home' = Home
  BY DEF Refuse, files, writer, QuietStep, Home
<1>2. Release(p) /\ \A q \in Operators : q = p
  BY DEF Refuse, Alone
<1>3. QED
  BY <1>1, <1>2, QuietKeeps, Returning DEF IndInv, Safe

LEMMA ReconcileLockSafe ==
  ASSUME Alone, IndInv, NEW p \in Operators, ReconcileLock(p), UNCHANGED <<plan, writer>>
  PROVE  Safe'
<1>1. PICK t \in Txs, m \in {"commit", "reconcile"} : AtWork(p, t, m)
  BY Working DEF ReconcileLock
<1>2. TypesOK
  BY DEF IndInv
<1>3. QuietStep
  BY DEF ReconcileLock, files, writer, QuietStep, Home
<1>4. journal[t].stage \in {"staging", "published", "pointer_moved"}
  BY <1>1, <1>2, StageCases DEF AtWork, ReconcileLock
<1>5. lock[plan[t].source] = Nobody /\ lock' = [lock EXCEPT ![plan[t].source] = p]
  BY <1>1 DEF ReconcileLock, Plan, Tx, AtWork
<1>6. LocksKept(p) /\ lock'[plan[t].source] = p
  BY <1>1, <1>2, <1>5 DEF LocksKept, TypesOK, ProcessesTyped, AtWork
<1>7. Home' = Home /\ journal' = journal /\ cmd' = cmd /\ pc' = [pc EXCEPT ![p] = "reconcile"]
  BY DEF ReconcileLock, files, Home
<1>8. Goes(p, t, m, "reconcile")
  BY <1>1, <1>4, <1>6, <1>7 DEF Goes, AtWork, J, Waiting
<1>9. KnowsBefore("reconcile", t, m) /\ KnowsBehind("reconcile", t)
  BY <1>1 DEF AtWork, ReconcileLock, KnowsBefore, KnowsBehind, BeforePointer, BehindPointer, Staged
<1>10. QED
  BY <1>1, <1>3, <1>8, <1>9, QuietGoing

LEMMA JournalReceiptSafe ==
  ASSUME Alone, IndInv, NEW p \in Operators, JournalReceipt(p), UNCHANGED <<plan, writer>>
  PROVE  Safe'
<1>1. PICK t \in Txs, m \in {"commit", "reconcile"} : AtWork(p, t, m)
  BY Working DEF JournalReceipt
<1>2. TypesOK
  BY DEF IndInv
<1>3. KnowsBefore("journal_receipt", t, m)
  BY <1>1 DEF AtWork, JournalReceipt
<1>4. J(p) \in Journals /\ J(p).stage = "staging" /\ J(p).stage = journal[t].stage
  BY <1>1, <1>3 DEF AtWork, KnowsBefore, Staged
<1>5. Home' = Home
  BY DEF JournalReceipt, files, Home
<1>6. /\ Goes(p, t, m, "publish") /\ journal'[t] = J(p)
      /\ \A u \in Txs : u # t => journal'[u] = journal[u]
  <2>1. pc[p] = "journal_receipt" /\ Goto(p, "publish") /\ WriteJournal(p, J(p))
    BY DEF JournalReceipt
  <2>2. QED
    BY <1>1, <1>2, <1>4, <1>5, <2>1, WriteGoes DEF Waiting
<1>7. QuietStep
  BY <1>4, <1>6 DEF JournalReceipt, files, writer, QuietStep, Home
<1>8. KnowsBefore("publish", t, m) /\ KnowsBehind("publish", t)
  BY <1>3 DEF KnowsBefore, KnowsBehind, BeforePointer, BehindPointer, Staged
<1>9. QED
  BY <1>1, <1>6, <1>7, <1>8, QuietGoing

LEMMA MarkSafe ==
  ASSUME Alone, IndInv, NEW p \in Operators, Mark(p), UNCHANGED <<plan, writer>>
  PROVE  Safe'
<1>1. PICK t \in Txs, m \in {"commit", "reconcile"} : AtWork(p, t, m)
  BY Working DEF Mark
<1>2. TypesOK /\ StoreInv
  BY DEF IndInv
<1>3. CASE ~PublishedMatches(Tx(p))
  BY <1>3, Refusing DEF Mark
<1>4. CASE PublishedMatches(Tx(p))
  <2>1. pc[p] = "mark" /\ KnowsBefore("mark", t, m) /\ Tx(p) = t
    BY <1>1 DEF AtWork, Mark, Tx
  <2>2. Uncommitted(t) /\ journal[t].stage = "published" /\ plan[t].dir = "back"
        /\ plan[t].base = written
    BY <2>1 DEF KnowsBefore, BeforePointer
  <2>3. J(p) \in Journals /\ J(p).stage = "published"
    BY <1>1, <2>2 DEF AtWork
  <2>4. PICK j \in Journals : j = [J(p) EXCEPT !.removing = TRUE] /\ j.stage = "published"
    BY <2>3, JournalUpdate
  <2>5. WriteJournal(p, j) /\ Goto(p, "pointer") /\ UNCHANGED <<files, moves>>
    BY <1>4, <2>4 DEF Mark
  <2>6. Home' = Home
    BY <2>5 DEF files, Home
  <2>7. /\ Goes(p, t, m, "pointer") /\ journal'[t] = j
        /\ \A u \in Txs : u # t => journal'[u] = journal[u]
    BY <1>1, <1>2, <2>1, <2>4, <2>5, <2>6, WriteGoes DEF Waiting
  <2>8. QuietStep
    BY <2>2, <2>4, <2>5, <2>7 DEF files, writer, QuietStep, Home
  <2>9. vault[plan[t].dest] = Copy(t)
    <3>1. BeforeOK(t) /\ plan[t].dest = "local"
      BY <1>1, <1>2, <2>2 DEF StoreInv, MovesOK, AtWork, PlanOK
    <3>2. vault["local"] \subseteq Copy(t) /\ Copy(t) \subseteq vault["local"]
      BY <3>1, <1>4, <2>1 DEF BeforeOK, PublishedMatches
    <3>3. QED
      BY <3>1, <3>2
  <2>10. KnowsBefore("pointer", t, m) /\ KnowsBehind("pointer", t)
    BY <2>2, <2>9 DEF KnowsBefore, KnowsBehind, BeforePointer, BehindPointer, Staged
  <2>11. QED
    BY <1>1, <2>7, <2>8, <2>10, QuietGoing
<1>5. QED
  BY <1>3, <1>4

\* The steps that only decide where to go on.
LEMMA Deciding ==
  ASSUME IndInv, NEW p \in Operators, NEW t \in Txs, NEW m, NEW s, AtWork(p, t, m),
         pc[p] \notin Waiting, s \notin Waiting \cup {"idle"}, Goto(p, s),
         UNCHANGED <<files, journal, cmd, moves>>, UNCHANGED <<plan, writer>>,
         KnowsBefore(s, t, m), KnowsBehind(s, t)
  PROVE  Safe'
<1>1. QuietStep /\ Home' = Home
  BY DEF files, writer, QuietStep, Home
<1>2. Goes(p, t, m, s)
  BY <1>1, GotoGoes DEF IndInv
<1>3. QED
  BY <1>1, <1>2, QuietGoing

LEMMA VerifyLocalSafe ==
  ASSUME Alone, IndInv, NEW p \in Operators, VerifyLocal(p), UNCHANGED <<plan, writer>>
  PROVE  Safe'
<1>1. PICK t \in Txs, m \in {"commit", "reconcile"} : AtWork(p, t, m)
  BY Working DEF VerifyLocal
<1>2. KnowsBehind("cleanup", t) /\ KnowsBefore("cleanup", t, m)
  BY <1>1 DEF VerifyLocal, AtWork, KnowsBefore, KnowsBehind, BeforePointer, BehindPointer, Staged
<1>3. CASE Refuse(p)
  BY <1>3, Refusing
<1>4. CASE Goto(p, "cleanup") /\ UNCHANGED <<files, journal, cmd, moves>>
  BY <1>1, <1>2, <1>4, Deciding DEF VerifyLocal, Waiting
<1>5. QED
  BY <1>3, <1>4 DEF VerifyLocal

LEMMA ReconcileOutPublishedSafe ==
  ASSUME Alone, IndInv, NEW p \in Operators, ReconcileOutPublished(p), UNCHANGED <<plan, writer>>
  PROVE  Safe'
<1>1. PICK t \in Txs, m \in {"commit", "reconcile"} : AtWork(p, t, m)
  BY Working DEF ReconcileOutPublished, At
<1>2. TypesOK /\ StoreInv
  BY DEF IndInv
<1>3. Tx(p) = t /\ pc[p] = "reconcile" /\ plan[t].dir = "out" /\ journal[t].stage = "published"
  BY <1>1 DEF ReconcileOutPublished, At, AtWork, Tx, Out, Plan
<1>4. CASE Refuse(p)
  BY <1>4, Refusing
<1>5. CASE ~Refuse(p)
  <2>1. /\ pointer = NoPointer /\ DestinationIsCopy(t)
        /\ cmd[p].abort \/ CurrentOf("local") = plan[t].base
        /\ Goto(p, IF cmd[p].abort THEN "remove" ELSE "pointer")
        /\ UNCHANGED <<files, journal, cmd, moves>>
    BY <1>3, <1>5 DEF ReconcileOutPublished, Plan
  <2>2. Home = "local" /\ CurrentOf("local") = written
    BY <1>2, <2>1, HomeVault, NamesAssumption DEF Home, StoreInv
  <2>3. Uncommitted(t)
    <3>1. plan[t].dest # Home
      BY <1>1, <1>3, <2>2, NamesAssumption DEF AtWork, PlanOK
    <3>2. ~Committed(t)
      <4>1. ASSUME Committed(t) PROVE FALSE
        <5>1. t = Last /\ moves # <<>>
          BY <4>1, <1>2 DEF StoreInv, MovesOK, Committed, Moved
        <5>2. QED
          BY <5>1, <3>1, <1>2 DEF StoreInv, LastOK
      <4>2. QED
        BY <4>1
    <3>3. QED
      BY <3>2, <1>3 DEF Committed, Uncommitted
  <2>4. PICK s \in {"remove", "pointer"} :
            s = (IF cmd[p].abort THEN "remove" ELSE "pointer") /\ (s = "pointer" => plan[t].base = written)
    BY <2>1, <2>2
  <2>5. KnowsBefore(s, t, m) /\ KnowsBehind(s, t)
    BY <1>3, <2>1, <2>3, <2>4
       DEF KnowsBefore, KnowsBehind, BeforePointer, BehindPointer, Staged, DestinationIsCopy
  <2>6. Goto(p, s)
    BY <2>1, <2>4
  <2>7. QED
    BY <1>1, <1>3, <2>1, <2>4, <2>5, <2>6, Deciding DEF Waiting
<1>6. QED
  BY <1>4, <1>5

LEMMA ReconcileBackStagingSafe ==
  ASSUME Alone, IndInv, NEW p \in Operators, ReconcileBackStaging(p), UNCHANGED <<plan, writer>>
  PROVE  Safe'
<1>1. PICK t \in Txs, m \in {"commit", "reconcile"} : AtWork(p, t, m)
  BY Working DEF ReconcileBackStaging, At
<1>2. pc[p] = "reconcile" /\ plan[t].dir = "back" /\ journal[t].stage = "staging"
  BY <1>1 DEF ReconcileBackStaging, At, AtWork, Tx, Out, Plan
<1>3. m = "reconcile"
  BY <1>1, <1>2 DEF AtWork, KnowsBefore
<1>4. Uncommitted(t)
  BY <1>2 DEF IndInv, StoreInv, StagesOK, Uncommitted
<1>5. PICK s \in {"remove", "publish"} : Goto(p, s)
  BY DEF ReconcileBackStaging
<1>6. KnowsBefore(s, t, m) /\ KnowsBehind(s, t)
  BY <1>2, <1>3, <1>4, <1>5 DEF KnowsBefore, KnowsBehind, BeforePointer, BehindPointer, Staged
<1>7. QED
  BY <1>1, <1>2, <1>5, <1>6, Deciding DEF Waiting, ReconcileBackStaging

LEMMA ReconcileBackPublishedSafe ==
  ASSUME Alone, IndInv, NEW p \in Operators, ReconcileBackPublished(p), UNCHANGED <<plan, writer>>
  PROVE  Safe'
<1>1. PICK t \in Txs, m \in {"commit", "reconcile"} : AtWork(p, t, m)
  BY Working DEF ReconcileBackPublished, At
<1>2. TypesOK /\ StoreInv
  BY DEF IndInv
<1>3. Tx(p) = t /\ pc[p] = "reconcile" /\ plan[t].dir = "back" /\ journal[t].stage = "published"
  BY <1>1 DEF ReconcileBackPublished, At, AtWork, Tx, Out, Plan
<1>4. CASE Refuse(p)
  BY <1>4, Refusing
<1>5. CASE ~Refuse(p)
  <2>1. /\ pointer \notin {"torn", NoPointer}
        /\ cmd[p].abort \/ CurrentOf(plan[t].source) = plan[t].base
        /\ Goto(p, IF cmd[p].abort THEN "remove" ELSE "mark")
        /\ UNCHANGED <<files, journal, cmd, moves>>
    BY <1>3, <1>5 DEF ReconcileBackPublished, Plan
  <2>2. Home \in Externals /\ CurrentOf(Home) = written
    BY <1>2, <2>1, HomeVault DEF Home, StoreInv, TypesOK, FilesTyped, Pointers
  <2>3. Uncommitted(t)
    <3>1. plan[t].dest # Home
      BY <1>1, <1>3, <2>2, NamesAssumption DEF AtWork, PlanOK
    <3>2. ~Committed(t)
      <4>1. ASSUME Committed(t) PROVE FALSE
        <5>1. t = Last /\ moves # <<>>
          BY <4>1, <1>2 DEF StoreInv, MovesOK, Committed, Moved
        <5>2. QED
          BY <5>1, <3>1, <1>2 DEF StoreInv, LastOK
      <4>2. QED
        BY <4>1
    <3>3. QED
      BY <3>2, <1>3 DEF Committed, Uncommitted
  <2>4. Home = plan[t].source
    BY <1>2, <2>3 DEF StoreInv, MovesOK, BeforeOK
  <2>5. PICK s \in {"remove", "mark"} :
            s = (IF cmd[p].abort THEN "remove" ELSE "mark") /\ (s = "mark" => plan[t].base = written)
    BY <2>1, <2>2, <2>4
  <2>6. KnowsBefore(s, t, m) /\ KnowsBehind(s, t)
    BY <1>3, <2>3, <2>5 DEF KnowsBefore, KnowsBehind, BeforePointer, BehindPointer, Staged
  <2>7. Goto(p, s)
    BY <2>1, <2>5
  <2>8. QED
    BY <1>1, <1>3, <2>1, <2>5, <2>6, <2>7, Deciding DEF Waiting
<1>6. QED
  BY <1>4, <1>5

LEMMA ReconcileMovedSafe ==
  ASSUME Alone, IndInv, NEW p \in Operators, ReconcileMoved(p), UNCHANGED <<plan, writer>>
  PROVE  Safe'
<1>1. PICK t \in Txs, m \in {"commit", "reconcile"} : AtWork(p, t, m)
  BY Working DEF ReconcileMoved, At
<1>2. CASE Refuse(p)
  BY <1>2, Refusing
<1>3. CASE ~Refuse(p)
  <2>1. pc[p] = "reconcile" /\ journal[t].stage = "pointer_moved"
    BY <1>1 DEF ReconcileMoved, At, AtWork
  <2>2. Committed(t)
    BY <2>1 DEF IndInv, StoreInv, StagesOK, Committed
  <2>3. PICK s \in {"cleanup", "verify_moved"} : Goto(p, s) /\ UNCHANGED <<files, journal, cmd, moves>>
    BY <1>3 DEF ReconcileMoved
  <2>4. KnowsBefore(s, t, m) /\ KnowsBehind(s, t)
    BY <2>1, <2>2, <2>3 DEF KnowsBefore, KnowsBehind, BeforePointer, BehindPointer, Staged
  <2>5. QED
    BY <1>1, <2>1, <2>3, <2>4, Deciding DEF Waiting
<1>4. QED
  BY <1>2, <1>3

LEMMA CommitLockSafe ==
  ASSUME Alone, IndInv, NEW p \in Operators, CommitLock(p), UNCHANGED <<plan, writer>>
  PROVE  Safe'
<1>1. PICK t \in Txs, m \in {"commit", "reconcile"} : AtWork(p, t, m)
  BY Working DEF CommitLock
<1>2. TypesOK /\ StoreInv /\ WritersOK
  BY DEF IndInv
<1>3. /\ Tx(p) = t /\ Plan(p) = plan[t] /\ journal[t].stage = "absent" /\ m = "commit"
      /\ lock[plan[t].source] = Nobody
  BY <1>1 DEF CommitLock, AtWork, Tx, Plan, KnowsBefore
<1>4. CASE Refuse(p)
  BY <1>4, Refusing
<1>5. CASE ~Refuse(p)
  <2>1. /\ CommitAccepted(p) /\ lock' = [lock EXCEPT ![plan[t].source] = p]
        /\ pc' = [pc EXCEPT ![p] = "stage"] /\ UNCHANGED <<files, moves>>
        /\ WriteJournal(p, [NoJournal EXCEPT !.stage = "staging"])
    BY <1>3, <1>5 DEF CommitLock
  <2>2. PICK j \in Journals : j = [NoJournal EXCEPT !.stage = "staging"] /\ j.stage = "staging"
    BY FirstJournal
  <2>3. /\ journal'[t] = j /\ \A u \in Txs : u # t => journal'[u] = journal[u]
        /\ cmd'[p] \in Commands /\ cmd'[p].tx = t /\ cmd'[p].mode = m /\ cmd'[p].j = j
    BY <1>1, <1>2, <2>1, <2>2, Journaled
  <2>4. /\ check_custody(plan[t].source) /\ vault[plan[t].source] = plan[t].entries
        /\ plan[t].dir = "out" => pointer = NoPointer /\ plan[t].dest \notin dirs
        /\ plan[t].dir = "back" => vault["local"] = {}
    BY <1>1, <1>3, <2>1 DEF CommitAccepted, AtWork
  <2>5. Home = plan[t].source
    BY <1>1, <1>2, <2>4, CustodyIsHome DEF StoreInv, AtWork
  <2>6. vault[plan[t].dest] = {}
    BY <1>1, <1>2, <2>4 DEF AtWork, PlanOK, StoreInv, DirsOK
  <2>7. BeginStep(t)
    BY <1>1, <1>3, <2>1, <2>2, <2>3, <2>4, <2>5, <2>6 DEF BeginStep, AtWork, writer
  <2>8. StoreInv' /\ Uncommitted(t)' /\ plan[t].base = written
    BY <1>2, <2>7, BeginKeeps
  <2>9. /\ vault' = vault /\ dirs' = dirs /\ Home' = Home /\ pointer' = pointer
        /\ plan' = plan /\ written' = written
    BY <2>1 DEF files, writer, Home
  <2>10. LocksKept(p) /\ lock'[plan[t].source] = p
    BY <1>1, <1>2, <1>3, <2>1 DEF LocksKept, AtWork, TypesOK, ProcessesTyped
  <2>11. Goes(p, t, m, "stage")
    BY <2>1, <2>2, <2>3, <2>9, <2>10 DEF Goes
  <2>12. KnowsBefore("stage", t, m)' /\ KnowsBehind("stage", t)'
    BY <1>3, <2>2, <2>3, <2>4, <2>6, <2>8, <2>9
       DEF KnowsBefore, KnowsBehind, BeforePointer, BehindPointer, Staged
  <2>13. QED
    BY <1>1, <1>2, <2>8, <2>11, <2>12, Going DEF Safe
<1>6. QED
  BY <1>4, <1>5

LEMMA StageSafe ==
  ASSUME Alone, IndInv, NEW p \in Operators, Stage(p), UNCHANGED <<plan, writer>>
  PROVE  Safe'
<1>1. PICK t \in Txs, m \in {"commit", "reconcile"} : AtWork(p, t, m)
  BY Working DEF Stage
<1>2. TypesOK /\ StoreInv /\ WritersOK
  BY DEF IndInv
<1>3. KnowsBefore("stage", t, m) /\ Tx(p) = t /\ Plan(p) = plan[t]
  BY <1>1 DEF Stage, AtWork, Tx, Plan
<1>4. /\ Uncommitted(t) /\ journal[t].stage = "staging" /\ vault[plan[t].dest] = {}
      /\ m = "commit" /\ plan[t].base = written
      /\ plan[t].dir = "out" => plan[t].dest \notin dirs
  BY <1>3 DEF KnowsBefore, BeforePointer, Staged
<1>5. BeforeOK(t)
  BY <1>2, <1>4 DEF StoreInv, MovesOK
<1>6. /\ staging' = [staging EXCEPT ![t] = Copy(t)]
      /\ UNCHANGED <<vault, dirs, pointer, journal, moves>>
  BY <1>3 DEF Stage
<1>7. staging'[t] = Copy(t) /\ \A u \in Txs : u # t => staging'[u] = staging[u]
  BY <1>2, <1>6 DEF TypesOK, FilesTyped
<1>8. Home' = Home /\ Copy(t)' = Copy(t) /\ written' = written
  BY <1>6 DEF Home, Copy, Receipt, writer
<1>9. BeforeOK(t)'
  <2>1. plan[t].dir = "back" => plan[t].dest = "local"
    BY <1>1 DEF AtWork, PlanOK
  <2>2. plan[t].dir = "back" => \A u \in UnitNames : InUnit(vault["local"], u) = {}
    BY <1>4, <2>1 DEF InUnit
  <2>3. QED
    BY <1>4, <1>5, <1>6, <1>7, <1>8, <2>2 DEF BeforeOK, InUnit
<1>10. StoreInv'
  <2>1. DestinationStep(t)
    BY <1>2, <1>4, <1>6, <1>7, <1>8 DEF DestinationStep, OthersKept
  <2>2. QED
    BY <1>2, <1>4, <1>6, <1>9, <2>1, BeforeKeeps DEF BeforeStep
<1>11. PICK s \in {"publish", "journal_receipt"} :
         Goto(p, s) /\ s = IF plan[t].dir = "out" THEN "publish" ELSE "journal_receipt"
  BY <1>3 DEF Stage, Out
<1>12. cmd'[p] \in Commands /\ cmd'[p].tx = t /\ cmd'[p].mode = m /\ cmd'[p].j.stage = "staging"
  <2>1. J(p) \in Journals /\ J(p).stage = "staging"
    BY <1>1, <1>4 DEF AtWork
  <2>2. PICK j \in Journals : j = [J(p) EXCEPT !.receipt = TRUE] /\ j.stage = "staging"
    <3>1. J(p).stage # "absent"
      BY <2>1
    <3>2. [J(p) EXCEPT !.receipt = TRUE] \in Journals /\ [J(p) EXCEPT !.receipt = TRUE].stage = J(p).stage
      BY <2>1, <3>1, JournalUpdate
    <3>3. QED
      BY <2>1, <3>2
  <2>3. cmd'[p] = [cmd[p] EXCEPT !.j = j]
    BY <1>2, <2>2 DEF Stage, J, TypesOK, ProcessesTyped
  <2>4. QED
    BY <1>1, <2>2, <2>3 DEF AtWork, Commands
<1>13. Goes(p, t, m, s)
  <2>1. LocksKept(p) /\ pc' = [pc EXCEPT ![p] = s] /\ lock' = lock
    BY <1>11 DEF Goto, LocksKept
  <2>2. lock[plan[t].source] = p
    BY <1>1 DEF AtWork, Stage, Waiting
  <2>3. QED
    BY <1>4, <1>6, <1>8, <1>12, <2>1, <2>2 DEF Goes
<1>14. Uncommitted(t)'
  BY <1>4, <1>6 DEF Uncommitted, Moved
<1>15. KnowsBefore(s, t, m)' /\ KnowsBehind(s, t)'
  BY <1>4, <1>6, <1>7, <1>8, <1>11, <1>14, <1>1
     DEF KnowsBefore, KnowsBehind, BeforePointer, BehindPointer, Staged, AtWork
<1>16. QED
  BY <1>1, <1>2, <1>10, <1>13, <1>15, Going DEF Safe

LEMMA PublishOutSafe ==
  ASSUME Alone, IndInv, NEW p \in Operators, PublishOut(p), UNCHANGED <<plan, writer>>
  PROVE  Safe'
<1>1. PICK t \in Txs, m \in {"commit", "reconcile"} : AtWork(p, t, m)
  BY Working DEF PublishOut
<1>2. TypesOK /\ StoreInv /\ WritersOK
  BY DEF IndInv
<1>3. KnowsBefore("publish", t, m) /\ Tx(p) = t /\ Plan(p) = plan[t] /\ plan[t].dir = "out"
  BY <1>1 DEF PublishOut, AtWork, Tx, Plan, Out
<1>4. /\ Uncommitted(t) /\ journal[t].stage = "staging" /\ plan[t].dest \notin dirs
      /\ m = "commit" /\ plan[t].base = written /\ staging[t] = Copy(t)
  BY <1>3 DEF KnowsBefore, BeforePointer, Staged
<1>5. BeforeOK(t)
  BY <1>2, <1>4 DEF StoreInv, MovesOK
<1>6. plan[t].dest \in Externals /\ plan[t].dest \in Places /\ plan[t].dest # plan[t].source
  BY <1>1, <1>3 DEF AtWork, PlanOK
<1>7. /\ vault' = [vault EXCEPT ![plan[t].dest] = Copy(t)] /\ dirs' = dirs \cup {plan[t].dest}
      /\ Goto(p, "journal_published") /\ staging' = [staging EXCEPT ![t] = {}]
      /\ UNCHANGED <<journal, cmd, pointer, moves>>
  BY <1>3, <1>4 DEF PublishOut, SetVault, DiscardStaging
<1>8. /\ vault'[plan[t].dest] = Copy(t) /\ staging'[t] = {}
      /\ \A l \in Places : l # plan[t].dest => vault'[l] = vault[l]
      /\ \A u \in Txs : u # t => staging'[u] = staging[u]
  BY <1>2, <1>6, <1>7 DEF TypesOK, FilesTyped
<1>9. Home' = Home /\ Copy(t)' = Copy(t) /\ written' = written
  BY <1>7 DEF Home, Copy, Receipt, writer
<1>10. BeforeOK(t)'
  BY <1>1, <1>3, <1>5, <1>6, <1>7, <1>8, <1>9 DEF BeforeOK, AtWork
<1>11. StoreInv'
  <2>1. DestinationStep(t)
    BY <1>2, <1>7, <1>8, <1>9 DEF DestinationStep, OthersKept
  <2>2. QED
    BY <1>2, <1>4, <1>7, <1>10, <2>1, BeforeKeeps DEF BeforeStep
<1>12. Goes(p, t, m, "journal_published")
  BY <1>1, <1>2, <1>7, <1>9, GotoGoes DEF PublishOut, Waiting
<1>13. Uncommitted(t)'
  BY <1>4, <1>7 DEF Uncommitted, Moved
<1>14. KnowsBefore("journal_published", t, m)' /\ KnowsBehind("journal_published", t)'
  BY <1>3, <1>4, <1>7, <1>9, <1>13
     DEF KnowsBefore, KnowsBehind, BeforePointer, BehindPointer, Staged
<1>15. QED
  BY <1>1, <1>2, <1>11, <1>12, <1>14, Going DEF Safe

LEMMA PublishUnitSafe ==
  ASSUME Alone, IndInv, NEW p \in Operators, PublishUnit(p), UNCHANGED <<plan, writer>>
  PROVE  Safe'
<1>1. PICK t \in Txs, m \in {"commit", "reconcile"} : AtWork(p, t, m)
  BY Working DEF PublishUnit
<1>2. TypesOK /\ StoreInv /\ WritersOK
  BY DEF IndInv
<1>3. KnowsBefore("publish", t, m) /\ Tx(p) = t /\ plan[t].dir = "back" /\ plan[t].dest = "local"
  BY <1>1 DEF PublishUnit, AtWork, Tx, Plan, Out, PlanOK
<1>4. Uncommitted(t) /\ journal[t].stage = "staging" /\ (m = "commit" => plan[t].base = written)
  BY <1>3 DEF KnowsBefore, BeforePointer, Staged
<1>5. BeforeOK(t)
  BY <1>2, <1>4 DEF StoreInv, MovesOK
<1>6. CASE Refuse(p)
  BY <1>6, Refusing
<1>7. CASE ~Refuse(p)
  <2>1. PICK n : n = Units[CHOOSE i \in Pending(t) : \A k \in Pending(t) : i <= k]
    OBVIOUS
  <2>2. PICK N : N = InUnit(staging[t], n)
    OBVIOUS
  <2>3. /\ vault' = [vault EXCEPT !["local"] = vault["local"] \cup N]
        /\ staging' = [staging EXCEPT ![t] = @ \ N]
        /\ UNCHANGED <<dirs, pointer, journal, lock, operator, moves>>
    BY <1>3, <1>7, <2>1, <2>2 DEF PublishUnit, SetVault
  <2>4. "local" \in Places
    BY DEF Places
  <2>5. /\ vault'["local"] = vault["local"] \cup N /\ staging'[t] = staging[t] \ N
        /\ \A l \in Places : l # plan[t].dest => vault'[l] = vault[l]
        /\ \A u \in Txs : u # t => staging'[u] = staging[u]
    BY <1>2, <1>3, <2>3, <2>4 DEF TypesOK, FilesTyped
  <2>6. /\ Home' = Home /\ Copy(t)' = Copy(t) /\ written' = written /\ pc' = pc /\ cmd' = cmd
        /\ lock' = lock
    BY <2>3 DEF Home, Copy, Receipt, writer, operator
  <2>7. \A u \in UnitNames : InUnit(vault'["local"], u) = {} \/ InUnit(staging'[t], u) = {}
    <3> SUFFICES ASSUME NEW u \in UnitNames
                 PROVE  InUnit(vault'["local"], u) = {} \/ InUnit(staging'[t], u) = {}
      OBVIOUS
    <3>1. InUnit(vault["local"], u) = {} \/ InUnit(staging[t], u) = {}
      BY <1>3, <1>5 DEF BeforeOK
    <3>2. CASE u = n
      BY <3>2, <2>2, <2>5 DEF InUnit
    <3>3. CASE u # n
      BY <3>1, <3>3, <2>2, <2>5 DEF InUnit
    <3>4. QED
      BY <3>2, <3>3
  <2>8. BeforeOK(t)'
    <3>1. vault'["local"] \subseteq Copy(t) /\ staging'[t] \subseteq Copy(t)
      BY <1>3, <1>5, <2>2, <2>5 DEF BeforeOK, InUnit
    <3>2. vault'[plan[t].source] = vault[plan[t].source]
      BY <1>1, <2>5 DEF AtWork
    <3>3. QED
      BY <1>3, <1>5, <2>3, <2>6, <2>7, <3>1, <3>2 DEF BeforeOK
  <2>9. StoreInv'
    <3>1. "local" \notin Externals
      BY NamesAssumption
    <3>2. DestinationStep(t)
      BY <1>3, <2>3, <2>5, <2>6, <3>1 DEF DestinationStep, OthersKept
    <3>3. QED
      BY <1>2, <1>4, <2>3, <2>8, <3>2, BeforeKeeps DEF BeforeStep
  <2>10. Goes(p, t, m, "publish")
    <3>1. Goto(p, "publish")
      BY <1>2, <2>6 DEF Goto, PublishUnit, TypesOK, ProcessesTyped
    <3>2. QED
      BY <1>1, <1>2, <2>3, <2>6, <3>1, GotoGoes DEF PublishUnit, Waiting
  <2>11. Uncommitted(t)'
    BY <1>4, <2>3 DEF Uncommitted, Moved
  <2>12. KnowsBefore("publish", t, m)' /\ KnowsBehind("publish", t)'
    BY <1>3, <1>4, <2>3, <2>6, <2>11
       DEF KnowsBefore, KnowsBehind, BeforePointer, BehindPointer, Staged
  <2>13. QED
    BY <1>1, <1>2, <2>9, <2>10, <2>12, Going DEF Safe
<1>8. QED
  BY <1>6, <1>7

LEMMA PublishedUnitsSafe ==
  ASSUME Alone, IndInv, NEW p \in Operators, PublishedUnits(p), UNCHANGED <<plan, writer>>
  PROVE  Safe'
<1>1. PICK t \in Txs, m \in {"commit", "reconcile"} : AtWork(p, t, m)
  BY Working DEF PublishedUnits
<1>2. TypesOK /\ StoreInv /\ WritersOK
  BY DEF IndInv
<1>3. KnowsBefore("publish", t, m) /\ Tx(p) = t /\ plan[t].dir = "back"
  BY <1>1 DEF PublishedUnits, AtWork, Tx, Plan, Out
<1>4. Uncommitted(t) /\ journal[t].stage = "staging" /\ (m = "commit" => plan[t].base = written)
  BY <1>3 DEF KnowsBefore, BeforePointer, Staged
<1>5. BeforeOK(t)
  BY <1>2, <1>4 DEF StoreInv, MovesOK
<1>6. /\ staging' = [staging EXCEPT ![t] = {}] /\ Goto(p, "journal_published")
      /\ UNCHANGED <<vault, dirs, pointer, journal, cmd, moves>>
  BY <1>3 DEF PublishedUnits, DiscardStaging
<1>7. staging'[t] = {} /\ \A u \in Txs : u # t => staging'[u] = staging[u]
  BY <1>2, <1>6 DEF TypesOK, FilesTyped
<1>8. Home' = Home /\ Copy(t)' = Copy(t) /\ written' = written
  BY <1>6 DEF Home, Copy, Receipt, writer
<1>9. BeforeOK(t)'
  BY <1>3, <1>5, <1>6, <1>7, <1>8 DEF BeforeOK, InUnit
<1>10. StoreInv'
  <2>1. plan[t].dest \notin Externals
    BY <1>1, <1>3, NamesAssumption DEF AtWork, PlanOK
  <2>2. DestinationStep(t)
    BY <1>6, <1>7, <1>8, <2>1 DEF DestinationStep, OthersKept
  <2>3. QED
    BY <1>2, <1>4, <1>6, <1>9, <2>2, BeforeKeeps DEF BeforeStep
<1>11. Goes(p, t, m, "journal_published")
  BY <1>1, <1>2, <1>6, <1>8, GotoGoes DEF PublishedUnits, Waiting
<1>12. Uncommitted(t)'
  BY <1>4, <1>6 DEF Uncommitted, Moved
<1>13. KnowsBefore("journal_published", t, m)' /\ KnowsBehind("journal_published", t)'
  BY <1>3, <1>4, <1>6, <1>8, <1>12
     DEF KnowsBefore, KnowsBehind, BeforePointer, BehindPointer, Staged
<1>14. QED
  BY <1>1, <1>2, <1>10, <1>11, <1>13, Going DEF Safe

LEMMA JournalPublishedSafe ==
  ASSUME Alone, IndInv, NEW p \in Operators, JournalPublished(p), UNCHANGED <<plan, writer>>
  PROVE  Safe'
<1>1. PICK t \in Txs, m \in {"commit", "reconcile"} : AtWork(p, t, m)
  BY Working DEF JournalPublished
<1>2. TypesOK /\ StoreInv /\ WritersOK
  BY DEF IndInv
<1>3. KnowsBefore("journal_published", t, m) /\ plan[t].dir \in {"out", "back"}
  BY <1>1 DEF JournalPublished, AtWork
<1>4. /\ Uncommitted(t) /\ journal[t].stage = "staging" /\ (m = "commit" => plan[t].base = written)
      /\ plan[t].dir = "out" => m = "commit" /\ plan[t].dest \in dirs
  BY <1>3 DEF KnowsBefore, BeforePointer, Staged
<1>5. BeforeOK(t)
  BY <1>2, <1>4 DEF StoreInv, MovesOK
<1>6. PICK j \in Journals : j = [J(p) EXCEPT !.stage = "published"] /\ j.stage = "published"
  <2>1. J(p) \in Journals /\ J(p).stage # "absent"
    BY <1>1, <1>4 DEF AtWork
  <2>2. "published" \in Stages
    BY DEF Stages
  <2>3. QED
    BY <2>1, <2>2, JournalUpdate
<1>7. PICK s \in {"reconcile", "pointer", "mark"} :
         /\ Goto(p, s)
         /\ s = IF m = "reconcile" THEN "reconcile"
                ELSE IF plan[t].dir = "out" THEN "pointer" ELSE "mark"
  BY <1>1 DEF JournalPublished, AtWork, Out, Plan, Tx
<1>8. UNCHANGED <<vault, dirs, staging, pointer, moves>> /\ WriteJournal(p, j)
  BY <1>6 DEF JournalPublished, files
<1>9. Home' = Home /\ Copy(t)' = Copy(t) /\ written' = written
  BY <1>8 DEF Home, Copy, Receipt, writer
<1>10. /\ Goes(p, t, m, s) /\ journal'[t] = j
       /\ \A u \in Txs : u # t => journal'[u] = journal[u]
  BY <1>1, <1>2, <1>6, <1>7, <1>8, <1>9, WriteGoes DEF JournalPublished, Waiting
<1>11. BeforeOK(t)'
  BY <1>5, <1>6, <1>8, <1>9, <1>10 DEF BeforeOK, InUnit
<1>12. StoreInv'
  <2>1. plan[t].dest \in Externals \ dirs => vault'[plan[t].dest] = {}
    BY <1>2, <1>8 DEF StoreInv, DirsOK
  <2>2. DestinationStep(t)
    BY <1>8, <1>9, <1>10, <2>1 DEF DestinationStep, OthersKept
  <2>3. QED
    BY <1>2, <1>4, <1>6, <1>10, <1>11, <2>2, BeforeKeeps DEF BeforeStep
<1>13. Uncommitted(t)'
  BY <1>4, <1>6, <1>8, <1>10 DEF Uncommitted, Moved
<1>14. plan[t].dir = "out" => vault[plan[t].dest] = Copy(t)
  BY <1>4, <1>5 DEF BeforeOK
<1>15. s = "pointer" => plan[t].dir = "out"
  BY <1>7
<1>16. s = "mark" => plan[t].dir = "back"
  BY <1>3, <1>7
<1>17. KnowsBefore(s, t, m)' /\ KnowsBehind(s, t)'
  BY <1>4, <1>6, <1>7, <1>8, <1>9, <1>10, <1>13, <1>14, <1>15, <1>16
     DEF KnowsBefore, KnowsBehind, BeforePointer, BehindPointer, Staged
<1>18. QED
  BY <1>1, <1>2, <1>10, <1>12, <1>17, Going DEF Safe

\* A move that is aborted.
LEMMA Aborting ==
  ASSUME Alone, IndInv, NEW p \in Operators, NEW t \in Txs, NEW m, AtWork(p, t, m),
         pc[p] # "commit_lock", Uncommitted(t), CloseJournal(p, "aborted"),
         UNCHANGED <<pointer, moves, plan, writer>>,
         \A l \in Places : l # plan[t].dest => vault'[l] = vault[l],
         \A e \in Externals : e # plan[t].dest => (e \in dirs' <=> e \in dirs),
         \A u \in Txs : u # t => staging'[u] = staging[u],
         vault'[plan[t].dest] = {}, staging'[t] = {}
  PROVE  Safe'
<1>1. TypesOK /\ StoreInv /\ WritersOK
  BY DEF IndInv
<1>2. "aborted" \in Stages
  BY DEF Stages
<1>3. /\ journal'[t].stage = "aborted" /\ \A u \in Txs : u # t => journal'[u] = journal[u]
      /\ Release(p)
  BY <1>1, <1>2, JournalClosed
<1>4. DestinationStep(t)
  BY <1>3 DEF DestinationStep, OthersKept, writer
<1>5. StoreInv'
  BY <1>1, <1>3, <1>4, AbortKeeps DEF AbortStep
<1>6. Home' = Home
  BY DEF Home
<1>7. QED
  BY <1>1, <1>3, <1>5, <1>6, Returning DEF AtWork, Safe

LEMMA StageFailsSafe ==
  ASSUME Alone, IndInv, NEW p \in Operators, StageFails(p), UNCHANGED <<plan, writer>>
  PROVE  Safe'
<1>1. PICK t \in Txs, m \in {"commit", "reconcile"} : AtWork(p, t, m)
  BY Working DEF StageFails
<1>2. TypesOK /\ StoreInv
  BY DEF IndInv
<1>3. KnowsBefore(pc[p], t, m) /\ Tx(p) = t
  BY <1>1 DEF AtWork, Tx
<1>4. pc[p] \in {"stage", "journal_receipt"} \/ (pc[p] = "publish" /\ plan[t].dir = "out")
  BY <1>3 DEF StageFails, Out, Plan
<1>5. Uncommitted(t) /\ vault[plan[t].dest] = {}
  <2>1. CASE pc[p] \in {"stage", "journal_receipt"}
    BY <1>3, <2>1 DEF KnowsBefore, BeforePointer, Staged
  <2>2. CASE pc[p] = "publish" /\ plan[t].dir = "out"
    <3>1. Uncommitted(t) /\ plan[t].dest \notin dirs
      BY <1>3, <2>2 DEF KnowsBefore, BeforePointer, Staged
    <3>2. plan[t].dest \in Externals
      BY <1>1, <2>2 DEF AtWork, PlanOK
    <3>3. QED
      BY <1>2, <3>1, <3>2 DEF StoreInv, DirsOK
  <2>3. QED
    BY <1>4, <2>1, <2>2
<1>6. /\ staging' = [staging EXCEPT ![t] = {}] /\ CloseJournal(p, "aborted")
      /\ UNCHANGED <<vault, dirs, pointer, moves>>
  BY <1>3 DEF StageFails, DiscardStaging
<1>7. staging'[t] = {} /\ \A u \in Txs : u # t => staging'[u] = staging[u]
  BY <1>2, <1>6 DEF TypesOK, FilesTyped
<1>8. pc[p] # "commit_lock"
  BY <1>4
<1>9. vault'[plan[t].dest] = {} /\ \A l \in Places : l # plan[t].dest => vault'[l] = vault[l]
  BY <1>5, <1>6
<1>10. \A e \in Externals : e # plan[t].dest => (e \in dirs' <=> e \in dirs)
  BY <1>6
<1>11. UNCHANGED <<pointer, moves, plan, writer>>
  BY <1>6
<1>12. QED
  BY <1>1, <1>5, <1>6, <1>7, <1>8, <1>9, <1>10, <1>11, Aborting

LEMMA JournalAbortedSafe ==
  ASSUME Alone, IndInv, NEW p \in Operators, JournalAborted(p), UNCHANGED <<plan, writer>>
  PROVE  Safe'
<1>1. PICK t \in Txs, m \in {"commit", "reconcile"} : AtWork(p, t, m)
  BY Working DEF JournalAborted
<1>2. pc[p] = "journal_aborted" /\ KnowsBefore("journal_aborted", t, m)
  BY <1>1 DEF JournalAborted, AtWork
<1>3. Uncommitted(t) /\ vault[plan[t].dest] = {} /\ staging[t] = {}
  BY <1>2 DEF KnowsBefore
<1>4. CloseJournal(p, "aborted") /\ UNCHANGED <<vault, dirs, staging, pointer, moves>>
  BY DEF JournalAborted, files
<1>5. vault'[plan[t].dest] = {} /\ \A l \in Places : l # plan[t].dest => vault'[l] = vault[l]
  BY <1>3, <1>4
<1>6. \A e \in Externals : e # plan[t].dest => (e \in dirs' <=> e \in dirs)
  BY <1>4
<1>7. staging'[t] = {} /\ \A u \in Txs : u # t => staging'[u] = staging[u]
  BY <1>3, <1>4
<1>8. UNCHANGED <<pointer, moves, plan, writer>>
  BY <1>4
<1>9. QED
  BY <1>1, <1>2, <1>3, <1>4, <1>5, <1>6, <1>7, <1>8, Aborting

LEMMA ReconcileOutStagingSafe ==
  ASSUME Alone, IndInv, NEW p \in Operators, ReconcileOutStaging(p), UNCHANGED <<plan, writer>>
  PROVE  Safe'
<1>1. PICK t \in Txs, m \in {"commit", "reconcile"} : AtWork(p, t, m)
  BY Working DEF ReconcileOutStaging, At
<1>2. TypesOK /\ StoreInv /\ WritersOK
  BY DEF IndInv
<1>3. /\ Tx(p) = t /\ pc[p] = "reconcile" /\ plan[t].dir = "out" /\ journal[t].stage = "staging"
      /\ KnowsBefore("reconcile", t, m)
  BY <1>1 DEF ReconcileOutStaging, At, AtWork, Tx, Out, Plan
<1>4. Uncommitted(t) /\ m = "reconcile"
  BY <1>2, <1>3 DEF StoreInv, StagesOK, Uncommitted, KnowsBefore
<1>5. BeforeOK(t)
  BY <1>2, <1>4 DEF StoreInv, MovesOK
<1>6. CASE DestinationIsCopy(t)
  <2>1. PICK j \in Journals :
           j = [J(p) EXCEPT !.stage = "published", !.receipt = TRUE] /\ j.stage = "published"
    <3>1. J(p) \in Journals /\ J(p).stage # "absent"
      BY <1>1, <1>3 DEF AtWork
    <3>2. QED
      BY <3>1, JournalUpdate
  <2>2. /\ WriteJournal(p, j) /\ Goto(p, "reconcile")
        /\ UNCHANGED <<vault, dirs, staging, pointer, moves>>
    BY <1>3, <1>6, <2>1 DEF ReconcileOutStaging
  <2>3. Home' = Home /\ Copy(t)' = Copy(t) /\ written' = written
    BY <2>2 DEF Home, Copy, Receipt, writer
  <2>4. /\ Goes(p, t, m, "reconcile") /\ journal'[t] = j
        /\ \A u \in Txs : u # t => journal'[u] = journal[u]
    BY <1>1, <1>2, <1>3, <2>1, <2>2, <2>3, WriteGoes DEF Waiting
  <2>5. BeforeOK(t)'
    BY <1>5, <2>1, <2>2, <2>3, <2>4 DEF BeforeOK, InUnit
  <2>6. StoreInv'
    <3>1. plan[t].dest \in dirs
      BY <1>6 DEF DestinationIsCopy
    <3>2. DestinationStep(t)
      BY <2>2, <2>3, <2>4, <3>1 DEF DestinationStep, OthersKept
    <3>3. QED
      BY <1>2, <1>4, <2>1, <2>4, <2>5, <3>2, BeforeKeeps DEF BeforeStep
  <2>7. KnowsBefore("reconcile", t, m)' /\ KnowsBehind("reconcile", t)'
    BY <1>4 DEF KnowsBefore, KnowsBehind, BeforePointer, BehindPointer, Staged
  <2>8. QED
    BY <1>1, <1>2, <2>4, <2>6, <2>7, Going DEF Safe
<1>7. CASE ~DestinationIsCopy(t)
  <2>1. /\ staging' = [staging EXCEPT ![t] = {}] /\ CloseJournal(p, "aborted")
        /\ UNCHANGED <<vault, dirs, pointer, moves>>
    BY <1>3, <1>7 DEF ReconcileOutStaging, DiscardStaging
  <2>2. staging'[t] = {} /\ \A u \in Txs : u # t => staging'[u] = staging[u]
    BY <1>2, <2>1 DEF TypesOK, FilesTyped
  <2>3. plan[t].dest \in Externals \ dirs
    BY <1>1, <1>3, <1>5, <1>7 DEF AtWork, PlanOK, BeforeOK, DestinationIsCopy
  <2>4. vault'[plan[t].dest] = {} /\ \A l \in Places : l # plan[t].dest => vault'[l] = vault[l]
    BY <1>2, <2>1, <2>3 DEF StoreInv, DirsOK
  <2>5. \A e \in Externals : e # plan[t].dest => (e \in dirs' <=> e \in dirs)
    BY <2>1
  <2>6. UNCHANGED <<pointer, moves, plan, writer>> /\ pc[p] # "commit_lock"
    BY <1>3, <2>1
  <2>7. QED
    BY <1>1, <1>4, <2>1, <2>2, <2>4, <2>5, <2>6, Aborting
<1>8. QED
  BY <1>6, <1>7

\* What an abort removes is the whole copy, wherever it is.
LEMMA RemovesAll ==
  ASSUME TypesOK, NEW p \in Operators, NEW t \in Txs, NEW m, AtWork(p, t, m), BeforeOK(t),
         Uncommitted(t)
  PROVE  vault[plan[t].dest] \subseteq Removable(p)
<1>1. Tx(p) = t /\ J(p).stage = journal[t].stage
  BY DEF AtWork, Tx
<1>2. CASE plan[t].dir = "out"
  BY <1>1, <1>2 DEF Removable, Out, Plan
<1>3. CASE plan[t].dir = "back"
  <2>1. plan[t].dest = "local" /\ vault["local"] \in SUBSET Files
    BY <1>3 DEF AtWork, PlanOK, TypesOK, FilesTyped, Places
  <2>2. Removable(p) = {f \in vault["local"] :
                          f[1] \in IF journal[t].stage = "staging" THEN UnitsPublished(t)
                                   ELSE UnitNames}
    BY <1>1, <1>3 DEF Removable, Out, Plan
  <2>3. ASSUME NEW f \in vault["local"] PROVE f \in Removable(p)
    <3>1. f[1] \in UnitNames
      BY <2>1, <2>3, UnitsOfFiles
    <3>2. f \in InUnit(vault["local"], f[1]) /\ f \in InUnit(Copy(t), f[1])
      BY <2>1, <2>3 DEF InUnit, BeforeOK
    <3>3. InUnit(staging[t], f[1]) = {}
      BY <1>3, <3>1, <3>2 DEF BeforeOK
    <3>4. f[1] \in UnitsPublished(t)
      BY <3>1, <3>2, <3>3 DEF UnitsPublished
    <3>5. QED
      BY <2>2, <2>3, <3>1, <3>4
  <2>4. QED
    BY <2>1, <2>3
<1>4. QED
  BY <1>2, <1>3 DEF AtWork

LEMMA RemoveSafe ==
  ASSUME Alone, IndInv, NEW p \in Operators, Remove(p), UNCHANGED <<plan, writer>>
  PROVE  Safe'
<1>1. PICK t \in Txs, m \in {"commit", "reconcile"} : AtWork(p, t, m)
  BY Working DEF Remove
<1>2. TypesOK /\ StoreInv /\ WritersOK
  BY DEF IndInv
<1>3. Tx(p) = t /\ Plan(p) = plan[t] /\ pc[p] = "remove" /\ KnowsBefore("remove", t, m)
  BY <1>1 DEF Remove, AtWork, Tx, Plan
<1>4. /\ Uncommitted(t) /\ journal[t].stage \in {"staging", "published"}
      /\ plan[t].dir = "out" => journal[t].stage = "published"
  BY <1>3 DEF KnowsBefore, Uncommitted
<1>5. BeforeOK(t)
  BY <1>2, <1>4 DEF StoreInv, MovesOK
<1>6. CASE ~PlannedCopy(p)
  BY <1>6, Refusing DEF Remove
<1>7. CASE PlannedCopy(p)
  <2>1. /\ vault' = [vault EXCEPT ![plan[t].dest] = vault[plan[t].dest] \ Removable(p)]
        /\ dirs' = dirs \ {plan[t].dest} /\ staging' = [staging EXCEPT ![t] = {}]
        /\ Goto(p, "journal_aborted") /\ UNCHANGED <<pointer, journal, cmd, moves>>
    BY <1>3, <1>7 DEF Remove, SetVault, DiscardStaging
  <2>2. /\ vault'[plan[t].dest] = {} /\ \A l \in Places : l # plan[t].dest => vault'[l] = vault[l]
        /\ staging'[t] = {} /\ \A u \in Txs : u # t => staging'[u] = staging[u]
    BY <1>1, <1>2, <1>4, <1>5, <2>1, RemovesAll DEF TypesOK, FilesTyped, AtWork
  <2>3. Home' = Home /\ Copy(t)' = Copy(t) /\ written' = written
    BY <2>1 DEF Home, Copy, Receipt, writer
  <2>4. BeforeOK(t)'
    BY <1>1, <1>4, <1>5, <2>1, <2>2, <2>3 DEF BeforeOK, InUnit, AtWork
  <2>5. StoreInv'
    <3>1. DestinationStep(t)
      BY <2>1, <2>2, <2>3 DEF DestinationStep, OthersKept
    <3>2. QED
      BY <1>2, <1>4, <2>1, <2>4, <3>1, BeforeKeeps DEF BeforeStep
  <2>6. Goes(p, t, m, "journal_aborted")
    BY <1>1, <1>2, <1>3, <2>1, <2>3, GotoGoes DEF Waiting
  <2>7. Uncommitted(t)'
    BY <1>4, <2>1 DEF Uncommitted, Moved
  <2>8. KnowsBefore("journal_aborted", t, m)' /\ KnowsBehind("journal_aborted", t)'
    BY <1>4, <2>1, <2>2, <2>7 DEF KnowsBefore, KnowsBehind, BeforePointer, BehindPointer, Staged
  <2>9. QED
    BY <1>1, <1>2, <2>5, <2>6, <2>8, Going DEF Safe
<1>8. QED
  BY <1>6, <1>7

\* The commit point.
LEMMA MovePointerSafe ==
  ASSUME Alone, IndInv, NEW p \in Operators, MovePointer(p), UNCHANGED <<plan, writer>>
  PROVE  Safe'
<1>1. PICK t \in Txs, m \in {"commit", "reconcile"} : AtWork(p, t, m)
  BY Working DEF MovePointer
<1>2. TypesOK /\ StoreInv /\ WritersOK
  BY DEF IndInv
<1>3. /\ Tx(p) = t /\ Plan(p) = plan[t] /\ pc[p] = "pointer" /\ KnowsBefore("pointer", t, m)
      /\ lock[plan[t].source] = p
  BY <1>1 DEF MovePointer, AtWork, Tx, Plan, Waiting
<1>4. /\ Uncommitted(t) /\ journal[t].stage = "published" /\ plan[t].base = written
      /\ vault[plan[t].dest] = Copy(t)
  BY <1>3 DEF KnowsBefore, BeforePointer, Staged
<1>5. Home = plan[t].source /\ (plan[t].dir = "out" => pointer \in {NoPointer, "torn"})
  BY <1>2, <1>4 DEF StoreInv, MovesOK, BeforeOK
<1>6. CASE Refuse(p)
  BY <1>6, Refusing
<1>7. CASE ~Refuse(p)
  <2>1. /\ pointer # "torn" /\ pointer' = PointerAfter(p) /\ Goto(p, "journal_pointer")
        /\ moves' = IF pointer' # pointer THEN Append(moves, t) ELSE moves
        /\ UNCHANGED <<vault, dirs, staging, journal, cmd>>
    BY <1>3, <1>7 DEF MovePointer
  <2>2. pointer' # pointer /\ Home' = plan[t].dest
    <3>1. CASE plan[t].dir = "out"
      <4>1. pointer = NoPointer /\ pointer' = plan[t].dest /\ plan[t].dest \in Externals
        BY <1>1, <1>3, <1>5, <2>1, <3>1 DEF PointerAfter, Out, AtWork, PlanOK
      <4>2. QED
        BY <4>1, NamesAssumption DEF Home
    <3>2. CASE plan[t].dir = "back"
      <4>1. pointer' = NoPointer /\ plan[t].source \in Externals /\ plan[t].dest = "local"
        BY <1>1, <1>3, <2>1, <3>2 DEF PointerAfter, Out, AtWork, PlanOK
      <4>2. pointer = plan[t].source
        BY <1>5, <4>1, NamesAssumption DEF Home
      <4>3. QED
        BY <4>1, <4>2, NamesAssumption DEF Home
    <3>3. QED
      BY <1>1, <3>1, <3>2 DEF AtWork
  <2>3. StoreInv'
    <3>1. MoveStep(t)
      BY <1>4, <2>1, <2>2 DEF MoveStep, OthersKept, writer
    <3>2. QED
      BY <1>2, <3>1, MoveKeeps
  <2>4. Goes(p, t, m, "journal_pointer")
    <3>1. lock[Home] = p
      BY <1>3, <1>5
    <3>2. QED
      BY <1>1, <1>2, <1>3, <2>1, <3>1, GotoGoes DEF Waiting
  <2>5. Committed(t)'
    <3>1. t \in Moved'
      BY <2>1, <2>2, AppendLast, <1>2 DEF Moved, TypesOK, MovesTyped
    <3>2. QED
      BY <1>4, <2>1, <3>1 DEF Committed
  <2>6. KnowsBefore("journal_pointer", t, m)' /\ KnowsBehind("journal_pointer", t)'
    BY <1>4, <2>1, <2>5 DEF KnowsBefore, KnowsBehind, BeforePointer, BehindPointer, Staged
  <2>7. QED
    BY <1>1, <1>2, <2>3, <2>4, <2>6, Going DEF Safe
<1>8. QED
  BY <1>6, <1>7

\* Behind the commit point a journal that goes on keeps what is known.
LEMMA JournalGoing ==
  ASSUME IndInv, NEW p \in Operators, NEW t \in Txs, NEW m, NEW s, AtWork(p, t, m),
         Goes(p, t, m, s), Committed(t), journal'[t].stage = "pointer_moved",
         UNCHANGED <<files, moves>>,
         s \in {"cleanup", "verify", "verify_moved", "reconcile"},
         s = "reconcile" => m = "reconcile"
  PROVE  Safe'
<1>1. TypesOK /\ StoreInv /\ WritersOK
  BY DEF IndInv
<1>2. BehindStep(t)
  BY DEF BehindStep, OthersKept, Goes, writer, files
<1>3. Committed(t)'
  BY DEF Committed, Moved
<1>4. KnowsBefore(s, t, m)' /\ KnowsBehind(s, t)'
  BY <1>3 DEF KnowsBefore, KnowsBehind, BeforePointer, BehindPointer, Staged
<1>5. QED
  BY <1>1, <1>2, <1>4, BehindKeeps, Going DEF Safe

LEMMA JournalPointerSafe ==
  ASSUME Alone, IndInv, NEW p \in Operators, JournalPointer(p), UNCHANGED <<plan, writer>>
  PROVE  Safe'
<1>1. PICK t \in Txs, m \in {"commit", "reconcile"} : AtWork(p, t, m)
  BY Working DEF JournalPointer
<1>2. TypesOK
  BY DEF IndInv
<1>3. pc[p] = "journal_pointer" /\ Committed(t) /\ journal[t].stage = "published"
  BY <1>1 DEF JournalPointer, AtWork, KnowsBehind, BehindPointer
<1>4. PICK j \in Journals : j = [J(p) EXCEPT !.stage = "pointer_moved"] /\ j.stage = "pointer_moved"
  <2>1. J(p) \in Journals /\ J(p).stage # "absent" /\ "pointer_moved" \in Stages
    BY <1>1, <1>3 DEF AtWork, Stages
  <2>2. QED
    BY <2>1, JournalUpdate
<1>5. PICK s \in {"cleanup", "verify"} : Goto(p, s)
  BY DEF JournalPointer
<1>6. WriteJournal(p, j) /\ UNCHANGED <<files, moves>>
  BY <1>4 DEF JournalPointer
<1>7. Home' = Home
  BY <1>6 DEF files, Home
<1>8. Goes(p, t, m, s) /\ journal'[t] = j
  BY <1>1, <1>2, <1>3, <1>4, <1>5, <1>6, <1>7, WriteGoes DEF Waiting
<1>9. QED
  BY <1>1, <1>3, <1>4, <1>5, <1>6, <1>8, JournalGoing

LEMMA ReconcileOutPointedSafe ==
  ASSUME Alone, IndInv, NEW p \in Operators, ReconcileOutPointed(p), UNCHANGED <<plan, writer>>
  PROVE  Safe'
<1>1. PICK t \in Txs, m \in {"commit", "reconcile"} : AtWork(p, t, m)
  BY Working DEF ReconcileOutPointed, At
<1>2. TypesOK /\ StoreInv
  BY DEF IndInv
<1>3. /\ pc[p] = "reconcile" /\ m = "reconcile" /\ journal[t].stage = "published"
      /\ plan[t].dir = "out" /\ pointer = plan[t].dest
  BY <1>1 DEF ReconcileOutPointed, At, AtWork, Out, Plan, Tx, KnowsBefore
<1>4. Committed(t)
  <2>1. pointer \in Externals
    BY <1>1, <1>3 DEF AtWork, PlanOK
  <2>2. ~Uncommitted(t)
    BY <1>2, <1>3, <2>1, NamesAssumption DEF StoreInv, MovesOK, BeforeOK
  <2>3. QED
    BY <1>3, <2>2 DEF Committed, Uncommitted
<1>5. PICK j \in Journals : j = [J(p) EXCEPT !.stage = "pointer_moved"] /\ j.stage = "pointer_moved"
  <2>1. J(p) \in Journals /\ J(p).stage # "absent" /\ "pointer_moved" \in Stages
    BY <1>1, <1>3 DEF AtWork, Stages
  <2>2. QED
    BY <2>1, JournalUpdate
<1>6. WriteJournal(p, j) /\ UNCHANGED <<files, moves>> /\ Goto(p, "reconcile")
  BY <1>5 DEF ReconcileOutPointed
<1>7. Home' = Home
  BY <1>6 DEF files, Home
<1>8. Goes(p, t, m, "reconcile") /\ journal'[t] = j
  BY <1>1, <1>2, <1>3, <1>5, <1>6, <1>7, WriteGoes DEF Waiting
<1>9. QED
  BY <1>1, <1>3, <1>4, <1>5, <1>6, <1>8, JournalGoing

LEMMA ReconcileBackRemovedSafe ==
  ASSUME Alone, IndInv, NEW p \in Operators, ReconcileBackRemoved(p), UNCHANGED <<plan, writer>>
  PROVE  Safe'
<1>1. PICK t \in Txs, m \in {"commit", "reconcile"} : AtWork(p, t, m)
  BY Working DEF ReconcileBackRemoved, At
<1>2. TypesOK /\ StoreInv /\ WritersOK
  BY DEF IndInv
<1>3. /\ pc[p] = "reconcile" /\ journal[t].stage = "published" /\ Tx(p) = t
      /\ plan[t].dir = "back" /\ pointer = NoPointer
  BY <1>1 DEF ReconcileBackRemoved, At, AtWork, Out, Plan, Tx
<1>4. Committed(t)
  <2>1. Home = "local" /\ plan[t].source # "local"
    BY <1>1, <1>3, NamesAssumption DEF AtWork, PlanOK, Home
  <2>2. ~Uncommitted(t)
    BY <1>2, <2>1 DEF StoreInv, MovesOK, BeforeOK
  <2>3. QED
    BY <1>3, <2>2 DEF Committed, Uncommitted
<1>5. CASE Refuse(p)
  BY <1>5, Refusing
<1>6. CASE ~Refuse(p)
  <2>1. PICK j \in Journals : j = [J(p) EXCEPT !.stage = "pointer_moved"] /\ j.stage = "pointer_moved"
    <3>1. J(p) \in Journals /\ J(p).stage # "absent" /\ "pointer_moved" \in Stages
      BY <1>1, <1>3 DEF AtWork, Stages
    <3>2. QED
      BY <3>1, JournalUpdate
  <2>2. /\ journal' = [journal EXCEPT ![t] = j] /\ UNCHANGED <<files, moves>>
        /\ \/ Release(p)
           \/ Goto(p, "verify_moved") /\ cmd' = [cmd EXCEPT ![p].j.stage = "pointer_moved"]
    BY <1>3, <1>6, <2>1 DEF ReconcileBackRemoved
  <2>3. journal'[t] = j /\ \A u \in Txs : u # t => journal'[u] = journal[u]
    BY <1>2, <2>2 DEF TypesOK, MovesTyped
  <2>4. Home' = Home
    BY <2>2 DEF files, Home
  <2>5. CASE Release(p)
    <3>1. BehindStep(t)
      BY <1>4, <2>1, <2>2, <2>3 DEF BehindStep, OthersKept, writer, files
    <3>2. QED
      BY <1>1, <1>2, <2>4, <2>5, <3>1, BehindKeeps, Returning DEF AtWork, Safe
  <2>6. CASE Goto(p, "verify_moved") /\ cmd' = [cmd EXCEPT ![p].j.stage = "pointer_moved"]
    <3>1. cmd' = [cmd EXCEPT ![p].j = j]
      BY <2>1, <2>6 DEF J
    <3>2. WriteJournal(p, j)
      BY <1>3, <2>2, <3>1 DEF WriteJournal
    <3>3. Goes(p, t, m, "verify_moved")
      BY <1>1, <1>2, <1>3, <2>1, <2>4, <2>6, <3>2, WriteGoes DEF Waiting
    <3>4. QED
      BY <1>1, <1>4, <2>1, <2>2, <2>3, <3>3, JournalGoing
  <2>7. QED
    BY <2>2, <2>5, <2>6
<1>7. QED
  BY <1>5, <1>6

LEMMA CleanupSafe ==
  ASSUME Alone, IndInv, NEW p \in Operators, Cleanup(p), UNCHANGED <<plan, writer>>
  PROVE  Safe'
<1>1. PICK t \in Txs, m \in {"commit", "reconcile"} : AtWork(p, t, m)
  BY Working DEF Cleanup
<1>2. TypesOK /\ StoreInv /\ WritersOK
  BY DEF IndInv
<1>3. /\ pc[p] = "cleanup" /\ Plan(p) = plan[t] /\ Committed(t)
      /\ journal[t].stage = "pointer_moved"
  BY <1>1 DEF Cleanup, AtWork, Plan, Tx, KnowsBehind, BehindPointer
<1>4. /\ vault' = [vault EXCEPT ![plan[t].source] = vault[plan[t].source] \ plan[t].entries]
      /\ Goto(p, "journal_cleaned") /\ UNCHANGED <<dirs, staging, pointer, journal, cmd, moves>>
  BY <1>3 DEF Cleanup, SetVault
<1>5. vault[plan[t].source] \subseteq plan[t].entries
  BY <1>2, <1>3 DEF StoreInv, MovesOK
<1>6. /\ vault'[plan[t].source] = {}
      /\ \A l \in Places : l # plan[t].source => vault'[l] = vault[l]
  BY <1>1, <1>2, <1>4, <1>5 DEF TypesOK, FilesTyped, AtWork
<1>7. BehindStep(t)
  BY <1>3, <1>4, <1>6 DEF BehindStep, OthersKept, writer
<1>8. Home' = Home
  BY <1>4 DEF Home
<1>9. Goes(p, t, m, "journal_cleaned")
  BY <1>1, <1>2, <1>3, <1>4, <1>8, GotoGoes DEF Waiting
<1>10. Committed(t)'
  BY <1>3, <1>4 DEF Committed, Moved
<1>11. KnowsBefore("journal_cleaned", t, m)' /\ KnowsBehind("journal_cleaned", t)'
  BY <1>3, <1>4, <1>6, <1>10 DEF KnowsBefore, KnowsBehind, BeforePointer, BehindPointer, Staged
<1>12. QED
  BY <1>1, <1>2, <1>7, <1>9, <1>11, BehindKeeps, Going DEF Safe

LEMMA JournalCleanedSafe ==
  ASSUME Alone, IndInv, NEW p \in Operators, JournalCleaned(p), UNCHANGED <<plan, writer>>
  PROVE  Safe'
<1>1. PICK t \in Txs, m \in {"commit", "reconcile"} : AtWork(p, t, m)
  BY Working DEF JournalCleaned
<1>2. TypesOK /\ StoreInv /\ WritersOK
  BY DEF IndInv
<1>3. pc[p] = "journal_cleaned" /\ Committed(t) /\ vault[plan[t].source] = {}
  BY <1>1 DEF JournalCleaned, AtWork, KnowsBehind, BehindPointer
<1>4. "cleaned" \in Stages
  BY DEF Stages
<1>5. CloseJournal(p, "cleaned") /\ UNCHANGED <<files, moves>>
  BY DEF JournalCleaned
<1>6. /\ journal'[t].stage = "cleaned" /\ \A u \in Txs : u # t => journal'[u] = journal[u]
      /\ Release(p)
  BY <1>1, <1>2, <1>3, <1>4, <1>5, JournalClosed
<1>7. BehindStep(t)
  BY <1>3, <1>5, <1>6 DEF BehindStep, OthersKept, writer, files
<1>8. Home' = Home
  BY <1>5 DEF files, Home
<1>9. QED
  BY <1>1, <1>2, <1>6, <1>7, <1>8, BehindKeeps, Returning DEF AtWork, Safe

-----------------------------------------------------------------------------
(* A command that dies.                                                    *)

LEMMA CrashSafe ==
  ASSUME Alone, IndInv, NEW p \in Operators, Crash(p), UNCHANGED <<plan, writer>>
  PROVE  Safe'
<1>1. PICK t \in Txs, m \in {"commit", "reconcile"} : AtWork(p, t, m)
  BY Working DEF Crash
<1>2. TypesOK /\ StoreInv /\ WritersOK
  BY DEF IndInv
<1>3. Tx(p) = t /\ Plan(p) = plan[t] /\ KnowsBefore(pc[p], t, m) /\ KnowsBehind(pc[p], t)
  BY <1>1 DEF AtWork, Plan, Tx
<1>4. Release(p) /\ UNCHANGED <<journal, moves>>
  BY DEF Crash
<1>5. ASSUME StoreInv', Home' = Home PROVE Safe'
  BY <1>1, <1>2, <1>4, <1>5, Returning DEF AtWork, Safe
<1>6. CASE UNCHANGED files
  <2>1. QuietStep /\ Home' = Home
    BY <1>4, <1>6 DEF files, writer, QuietStep, Home
  <2>2. QED
    BY <1>2, <1>5, <2>1, QuietKeeps
<1>7. CASE pc[p] = "stage" /\ UNCHANGED <<vault, dirs, pointer>>
           /\ \E S \in SUBSET Plan(p).entries : staging' = [staging EXCEPT ![Tx(p)] = S]
  <2>1. PICK S \in SUBSET plan[t].entries : staging' = [staging EXCEPT ![t] = S]
    BY <1>3, <1>7
  <2>2. staging'[t] = S /\ \A u \in Txs : u # t => staging'[u] = staging[u]
    BY <1>2, <2>1 DEF TypesOK, FilesTyped
  <2>3. /\ Uncommitted(t) /\ journal[t].stage = "staging" /\ vault[plan[t].dest] = {}
        /\ plan[t].dir = "out" => plan[t].dest \notin dirs
    BY <1>3, <1>7 DEF KnowsBefore, BeforePointer, Staged
  <2>4. BeforeOK(t)
    BY <1>2, <2>3 DEF StoreInv, MovesOK
  <2>5. Home' = Home /\ Copy(t)' = Copy(t) /\ written' = written
    BY <1>7 DEF Home, Copy, Receipt, writer
  <2>6. plan[t].dir = "back" => \A u \in UnitNames : InUnit(vault["local"], u) = {}
    BY <1>1, <2>3 DEF InUnit, AtWork, PlanOK
  <2>7. S \subseteq Copy(t)
    BY DEF Copy
  <2>8. BeforeOK(t)'
    BY <1>4, <1>7, <2>2, <2>3, <2>4, <2>5, <2>6, <2>7 DEF BeforeOK, InUnit
  <2>9. DestinationStep(t)
    BY <1>4, <1>7, <2>2, <2>3, <2>5 DEF DestinationStep, OthersKept
  <2>10. QED
    BY <1>2, <1>4, <1>5, <2>3, <2>5, <2>8, <2>9, BeforeKeeps DEF BeforeStep
<1>8. CASE pc[p] = "cleanup" /\ UNCHANGED <<dirs, staging, pointer>>
           /\ \E S \in SUBSET Plan(p).entries :
                SetVault(Plan(p).source, vault[Plan(p).source] \ S)
  <2>1. PICK S : vault' = [vault EXCEPT ![plan[t].source] = vault[plan[t].source] \ S]
    BY <1>3, <1>8 DEF SetVault
  <2>2. /\ vault'[plan[t].source] \subseteq vault[plan[t].source]
        /\ \A l \in Places : l # plan[t].source => vault'[l] = vault[l]
    BY <1>1, <1>2, <2>1 DEF TypesOK, FilesTyped, AtWork
  <2>3. Committed(t) /\ journal[t].stage = "pointer_moved"
    BY <1>3, <1>8 DEF KnowsBehind, BehindPointer
  <2>4. BehindStep(t)
    BY <1>4, <1>8, <2>2, <2>3 DEF BehindStep, OthersKept, writer
  <2>5. Home' = Home
    BY <1>8 DEF Home
  <2>6. QED
    BY <1>2, <1>5, <2>4, <2>5, BehindKeeps
<1>9. CASE pc[p] = "remove" /\ UNCHANGED <<dirs, staging, pointer>>
           /\ \E S \in SUBSET Removable(p) : SetVault(Plan(p).dest, vault[Plan(p).dest] \ S)
  <2>1. PICK S : vault' = [vault EXCEPT ![plan[t].dest] = vault[plan[t].dest] \ S]
    BY <1>3, <1>9 DEF SetVault
  <2>2. /\ vault'[plan[t].dest] \subseteq vault[plan[t].dest]
        /\ \A l \in Places : l # plan[t].dest => vault'[l] = vault[l]
    BY <1>1, <1>2, <2>1 DEF TypesOK, FilesTyped, AtWork
  <2>3. /\ Uncommitted(t) /\ journal[t].stage \in {"staging", "published"}
        /\ plan[t].dir = "out" => journal[t].stage = "published"
    BY <1>3, <1>9 DEF KnowsBefore, Uncommitted
  <2>4. BeforeOK(t)
    BY <1>2, <2>3 DEF StoreInv, MovesOK
  <2>5. Home' = Home /\ Copy(t)' = Copy(t) /\ written' = written
    BY <1>9 DEF Home, Copy, Receipt, writer
  <2>6. plan[t].dir = "back" =>
          \A u \in UnitNames : InUnit(vault'["local"], u) \subseteq InUnit(vault["local"], u)
    BY <1>1, <2>2 DEF InUnit, AtWork, PlanOK
  <2>7. BeforeOK(t)'
    <3>1. plan[t].dir = "back" => \A u \in UnitNames :
            InUnit(vault'["local"], u) = {} \/ InUnit(staging[t], u) = {}
      BY <2>4, <2>6 DEF BeforeOK
    <3>2. vault'[plan[t].source] = vault[plan[t].source] /\ vault'[plan[t].dest] \subseteq Copy(t)
      BY <1>1, <2>2, <2>4 DEF AtWork, BeforeOK
    <3>3. QED
      BY <1>1, <1>4, <1>9, <2>3, <2>4, <2>5, <3>1, <3>2 DEF BeforeOK, InUnit, AtWork
  <2>8. DestinationStep(t)
    <3>1. plan[t].dest \in Externals \ dirs => vault'[plan[t].dest] = {}
      BY <1>2, <2>2 DEF StoreInv, DirsOK
    <3>2. QED
      BY <1>4, <1>9, <2>2, <2>5, <3>1 DEF DestinationStep, OthersKept
  <2>9. QED
    BY <1>2, <1>4, <1>5, <2>3, <2>5, <2>7, <2>8, BeforeKeeps DEF BeforeStep
<1>10. CASE pc[p] = "pointer" /\ Out(p) /\ pointer = NoPointer /\ pointer' = "torn"
            /\ UNCHANGED <<vault, dirs, staging>>
  <2>1. Home' = Home
    BY <1>10, NamesAssumption DEF Home
  <2>2. QuietStep
    BY <1>4, <1>10, <2>1 DEF writer, QuietStep
  <2>3. QED
    BY <1>2, <1>5, <2>1, <2>2, QuietKeeps
<1>11. QED
  <2>1. Partial(p)
    BY DEF Crash
  <2>2. QED
    BY <2>1, <1>6, <1>7, <1>8, <1>9, <1>10 DEF Partial

-----------------------------------------------------------------------------
(* The start of a command.                                                 *)

CallStep(p, t, m, s) ==
  /\ pc[p] = "idle" /\ pc' = [pc EXCEPT ![p] = s] /\ lock' = lock
  /\ s = IF m = "commit" THEN "commit_lock" ELSE "reconcile_lock"
  /\ cmd'[p] \in Commands /\ cmd'[p].tx = t /\ cmd'[p].mode = m /\ cmd'[p].j = journal[t]
  /\ plan[t] # NoPlan /\ \A u \in Txs : u # t => Finished(u)
  /\ IF m = "commit" THEN journal[t].stage = "absent" ELSE ~Finished(t)
  /\ UNCHANGED <<files, journal, moves, plan, writer>>

LEMMA Calling ==
  ASSUME Alone, IndInv, NEW p \in Operators, NEW t \in Txs, NEW m \in {"commit", "reconcile"},
         NEW s, CallStep(p, t, m, s)
  PROVE  Safe'
<1> USE DEF CallStep
<1>1. TypesOK /\ StoreInv /\ WritersOK
  BY DEF IndInv
<1>2. QuietStep /\ Home' = Home /\ LocksKept(p)
  BY DEF files, writer, QuietStep, Home, LocksKept
<1>3. StoreInv' /\ WritersOK'
  BY <1>1, <1>2, QuietKeeps, WritersKept
<1>4. pc'[p] = s /\ \A q \in Operators : q = p
  BY <1>1 DEF Alone, TypesOK, ProcessesTyped
<1>5. cmd'[p] \in Commands /\ Tx(p)' = t /\ cmd'[p].mode = m /\ plan' = plan
      /\ J(p)'.stage = journal'[t].stage
  BY DEF Tx, J
<1>6. s \in Waiting /\ (s = "commit_lock" <=> m = "commit")
  BY DEF Waiting
<1>7. IF s = "commit_lock" THEN journal'[t].stage = "absent" ELSE ~Finished(t)'
  BY <1>6 DEF Finished
<1>8. \A u \in Txs : u # t => Finished(u)'
  BY DEF Finished
<1>9. KnowsBefore(s, t, m)' /\ KnowsBehind(s, t)'
  BY <1>6 DEF KnowsBefore, KnowsBehind, BeforePointer, BehindPointer, Staged, Waiting
<1>10. KnowsBefore(pc[p], Tx(p), cmd[p].mode)' /\ KnowsBehind(pc[p], Tx(p))'
  BY <1>4, <1>5, <1>9, Zenon DEF KnowsBefore, KnowsBehind
<1>11. OperatorsOK'
  BY <1>4, <1>5, <1>6, <1>7, <1>8, <1>10, Zenon DEF OperatorsOK, Plan
<1>12. QED
  BY <1>3, <1>11 DEF Safe

LEMMA CallSafe ==
  ASSUME Alone, IndInv, NEW p \in Operators, Call(p), UNCHANGED <<plan, writer>>
  PROVE  Safe'
<1>1. PICK t \in Txs : Commit(p, t) \/ Reconcile(p, t)
  BY DEF Call
<1>2. TypesOK /\ StoreInv
  BY DEF IndInv
<1>3. CASE Commit(p, t)
  <2>1. PICK j : j = NoJournal /\ journal[t] = j /\ j.stage = "absent"
    BY <1>3 DEF Commit, NoJournal
  <2>2. j \in Journals
    BY <2>1 DEF Journals
  <2>3. PICK c : c = [tx |-> t, mode |-> "commit", abort |-> FALSE, j |-> j]
    OBVIOUS
  <2>4. c \in Commands /\ c.tx = t /\ c.mode = "commit" /\ c.j = j
    BY <2>2, <2>3 DEF Commands
  <2>5. cmd'[p] = c
    BY <1>2, <1>3, <2>1, <2>3 DEF Commit, TypesOK, ProcessesTyped
  <2>6. \A u \in Txs : Finished(u)
    BY <1>3 DEF Commit, Alone
  <2>7. CallStep(p, t, "commit", "commit_lock")
    BY <1>3, <2>1, <2>4, <2>5, <2>6 DEF CallStep, Commit, Goto
  <2>8. QED
    BY <2>7, Calling
<1>4. CASE Reconcile(p, t)
  <2>1. PICK j : j = journal[t] /\ j \in Journals
    BY <1>2 DEF TypesOK, MovesTyped
  <2>2. PICK a \in BOOLEAN :
          cmd' = [cmd EXCEPT ![p] = [tx |-> t, mode |-> "reconcile", abort |-> a, j |-> j]]
    BY <1>4, <2>1 DEF Reconcile
  <2>3. PICK c : c = [tx |-> t, mode |-> "reconcile", abort |-> a, j |-> j]
    OBVIOUS
  <2>4. c \in Commands /\ c.tx = t /\ c.mode = "reconcile" /\ c.j = j
    BY <2>1, <2>3 DEF Commands
  <2>5. cmd'[p] = c
    BY <1>2, <2>2, <2>3 DEF TypesOK, ProcessesTyped
  <2>6. ~Finished(t) /\ plan[t] # NoPlan /\ \A u \in Txs : u # t => Finished(u)
    BY <1>2, <1>4, UnderWay DEF Reconcile
  <2>7. CallStep(p, t, "reconcile", "reconcile_lock")
    BY <1>4, <2>1, <2>4, <2>5, <2>6 DEF CallStep, Reconcile, Goto
  <2>8. QED
    BY <2>7, Calling
<1>5. QED
  BY <1>1, <1>3, <1>4

-----------------------------------------------------------------------------
(* The writers.                                                            *)

OperatorsStay == UNCHANGED <<dirs, staging, pointer, plan, journal, operator, moves, failures>>

LEMMA OperatorsKept ==
  ASSUME Alone, IndInv, OperatorsStay,
         \A l \in Places : lock[l] \in Operators => lock'[l] = lock[l],
         (vault' = vault /\ written' = written)
         \/ (lock[Home] \notin Operators /\ \A l \in Places : l # Home => vault'[l] = vault[l])
  PROVE  OperatorsOK'
<1> SUFFICES ASSUME NEW p \in Operators, pc[p] # "idle"
             PROVE  /\ cmd[p] \in Commands /\ plan[cmd[p].tx] # NoPlan
                    /\ J(p).stage = journal[cmd[p].tx].stage
                    /\ \A u \in Txs : u # cmd[p].tx => Finished(u)
                    /\ IF pc[p] = "commit_lock" THEN journal[cmd[p].tx].stage = "absent"
                       ELSE ~Finished(cmd[p].tx)
                    /\ pc[p] \notin Waiting => lock'[plan[cmd[p].tx].source] = p
                    /\ KnowsBefore(pc[p], cmd[p].tx, cmd[p].mode)' /\ KnowsBehind(pc[p], cmd[p].tx)'
  BY Zenon DEF OperatorsOK, OperatorsStay, operator, Tx, J, Plan, Finished
<1>1. PICK t \in Txs, m \in {"commit", "reconcile"} : AtWork(p, t, m)
  BY Working
<1>2. cmd[p].tx = t /\ cmd[p].mode = m
  BY <1>1 DEF AtWork
<1>3. pc[p] \notin Waiting => lock'[plan[t].source] = p
  BY <1>1 DEF AtWork
<1>4. PICK s : s = pc[p] /\ pc' = pc
  BY DEF OperatorsStay, operator
<1>5. /\ Uncommitted(t)' = Uncommitted(t) /\ Committed(t)' = Committed(t) /\ Copy(t)' = Copy(t)
      /\ journal' = journal /\ plan' = plan /\ staging' = staging /\ dirs' = dirs
  BY DEF OperatorsStay, Uncommitted, Committed, Copy, Moved, Receipt
<1>6. KnowsBefore(s, t, m)' /\ KnowsBehind(s, t)'
  <2>1. KnowsBefore(s, t, m) /\ KnowsBehind(s, t)
    BY <1>1, <1>4 DEF AtWork
  <2>2. CASE vault' = vault /\ written' = written
    BY <1>5, <2>1, <2>2, Zenon DEF KnowsBefore, KnowsBehind
  <2>3. CASE lock[Home] \notin Operators /\ \A l \in Places : l # Home => vault'[l] = vault[l]
    <3>1. CASE s \in Waiting
      BY <2>1, <3>1 DEF KnowsBefore, KnowsBehind, BeforePointer, BehindPointer, Staged, Waiting
    <3>2. CASE s \notin Waiting
      <4>1. plan[t].source \in Places /\ plan[t].source # Home
        BY <1>1, <1>4, <2>3, <3>2 DEF AtWork
      <4>2. vault'[plan[t].source] = vault[plan[t].source]
        BY <2>3, <4>1
      <4>3. ~Uncommitted(t)
        BY <4>1 DEF IndInv, StoreInv, MovesOK, BeforeOK
      <4>4. s \notin BeforePointer \cup {"remove", "journal_aborted"}
        BY <2>1, <4>3 DEF KnowsBefore
      <4>5. KnowsBefore(s, t, m)'
        BY <2>1, <4>4 DEF KnowsBefore, BeforePointer, Staged
      <4>6. KnowsBehind(s, t)'
        BY <1>5, <2>1, <4>2, Zenon DEF KnowsBehind
      <4>7. QED
        BY <4>5, <4>6
    <3>3. QED
      BY <3>1, <3>2
  <2>4. QED
    BY <2>2, <2>3
<1>7. KnowsBefore(pc[p], t, m)' /\ KnowsBehind(pc[p], t)'
  BY <1>4, <1>6
<1>8. /\ cmd[p] \in Commands /\ plan[t] # NoPlan /\ J(p).stage = journal[t].stage
      /\ \A u \in Txs : u # t => Finished(u)
      /\ IF pc[p] = "commit_lock" THEN journal[t].stage = "absent" ELSE ~Finished(t)
  BY <1>1 DEF AtWork
<1>9. cmd' = cmd
  BY DEF OperatorsStay, operator
<1>10. KnowsBefore(pc[p], cmd[p].tx, cmd[p].mode)' /\ KnowsBehind(pc[p], cmd[p].tx)'
  BY <1>2, <1>7, <1>9, Zenon DEF KnowsBefore, KnowsBehind
<1>11. QED
  BY <1>2, <1>3, <1>8, <1>10, Zenon

\* What a step of writer w must establish for it, the others being untouched.
WriterKnows(w) ==
  /\ \A v \in Writers : v # w => wpc'[v] = wpc[v] /\ sess'[v] = sess[v]
  /\ \A l \in Places : lock[l] \notin {w, Nobody} => lock'[l] = lock[l]
  /\ wpc'[w] = "write" => lock'[sess'[w].loc] = w /\ sess'[w].loc = Home
  /\ sess'[w].loc \in Externals => sess'[w].under

LEMMA WriterGoes ==
  ASSUME Alone, IndInv, OperatorsStay, NEW w \in Writers, WriterKnows(w),
         (vault' = vault /\ written' = written)
         \/ (WriteStep /\ lock[Home] = w)
  PROVE  Safe'
<1>1. TypesOK /\ StoreInv /\ WritersOK
  BY DEF IndInv
<1>2. Home' = Home /\ w \notin Operators /\ Nobody \notin Operators
  BY NamesAssumption DEF OperatorsStay, Home
<1>3. WritersOK'
  <2> SUFFICES ASSUME NEW v \in Writers
               PROVE  /\ wpc'[v] = "write" => lock'[sess'[v].loc] = v /\ sess'[v].loc = Home
                      /\ sess'[v].loc \in Externals => sess'[v].under
    BY <1>2 DEF WritersOK
  <2>1. CASE v = w
    BY <2>1 DEF WriterKnows
  <2>2. CASE v # w
    <3>1. wpc'[v] = wpc[v] /\ sess'[v] = sess[v] /\ sess[v].loc \in Places /\ v # Nobody
      BY <1>1, <2>2, NamesAssumption DEF WriterKnows, TypesOK, ProcessesTyped
    <3>2. QED
      BY <1>1, <2>2, <3>1 DEF WriterKnows, WritersOK
  <2>3. QED
    BY <2>1, <2>2
<1>4. StoreInv' /\ (\A l \in Places : vault' = vault \/ l # Home => vault'[l] = vault[l])
  <2>1. CASE vault' = vault /\ written' = written
    <3>1. QuietStep
      BY <1>2, <2>1 DEF QuietStep, OperatorsStay
    <3>2. QED
      BY <1>1, <2>1, <3>1, QuietKeeps
  <2>2. CASE WriteStep
    <3>1. Home \in Places /\ vault' # vault
      <4>1. Home \in Places /\ vault \in [Places -> SUBSET Files] /\ written \in Nat
        BY <1>1, HomePlace DEF TypesOK, FilesTyped
      <4>2. Current(written + 1) \in vault'[Home]
        BY <2>2, <4>1 DEF WriteStep, Written
      <4>3. Current(written + 1) \notin vault[Home]
        <5>1. Current(written + 1) # Current(written)
          BY <4>1, FileNames
        <5>2. InUnit(vault[Home], "refs") = {Current(written)}
          BY <1>1 DEF StoreInv, HomeOK
        <5>3. QED
          BY <5>1, <5>2, FileNames DEF InUnit
      <4>4. QED
        BY <4>1, <4>2, <4>3
    <3>2. QED
      BY <1>1, <2>2, <3>1, WriteKeeps
  <2>3. QED
    BY <2>1, <2>2
<1>5. \A l \in Places : lock[l] \in Operators => lock'[l] = lock[l]
  BY <1>2 DEF WriterKnows
<1>6. OperatorsOK'
  <2>1. CASE vault' = vault /\ written' = written
    BY <1>5, <2>1, OperatorsKept
  <2>2. CASE WriteStep /\ lock[Home] = w
    <3>1. lock[Home] \notin Operators /\ \A l \in Places : l # Home => vault'[l] = vault[l]
      BY <1>1, <1>2, <2>2, WriteKeeps
    <3>2. QED
      BY <1>5, <3>1, OperatorsKept
  <2>3. QED
    BY <2>1, <2>2
<1>7. QED
  BY <1>3, <1>4, <1>6 DEF Safe

LEMMA WriterSafe ==
  ASSUME Alone, IndInv, NEW w \in Writers, WriterStep(w), OperatorsStay
  PROVE  Safe'
<1>1. TypesOK /\ StoreInv /\ WritersOK
  BY DEF IndInv
<1>2. /\ wpc \in [Writers -> {"closed", "open", "ready", "write"}]
      /\ sess \in [Writers -> [loc : Places, under : BOOLEAN]]
      /\ lock \in [Places -> Operators \cup Writers \cup {Nobody}]
  BY <1>1 DEF TypesOK, ProcessesTyped
<1>3. sess[w].loc \in Places /\ (sess[w].loc \in Externals => sess[w].under)
  BY <1>1, <1>2 DEF WritersOK
<1>4. CASE Open(w)
  <2>1. sess' = [sess EXCEPT ![w] = [loc |-> Home, under |-> pointer = Home]]
    BY <1>4 DEF Open, Alone
  <2>2. sess'[w].loc = Home /\ sess'[w].under = (pointer = Home)
        /\ \A v \in Writers : v # w => sess'[v] = sess[v]
    BY <1>2, <2>1
  <2>3. Home \in Externals => pointer = Home
    BY NamesAssumption DEF Home
  <2>4. /\ wpc'[w] = "open" /\ \A v \in Writers : v # w => wpc'[v] = wpc[v]
        /\ UNCHANGED <<lock, vault, written>>
    BY <1>2, <1>4 DEF Open
  <2>5. WriterKnows(w)
    BY <2>2, <2>3, <2>4 DEF WriterKnows
  <2>6. QED
    BY <2>4, <2>5, WriterGoes
<1>5. CASE Preflight(w)
  <2>1. /\ wpc'[w] = "ready" /\ \A v \in Writers : v # w => wpc'[v] = wpc[v]
        /\ UNCHANGED <<lock, vault, sess, written>>
    BY <1>2, <1>5 DEF Preflight
  <2>2. WriterKnows(w)
    BY <1>3, <2>1 DEF WriterKnows
  <2>3. QED
    BY <2>1, <2>2, WriterGoes
<1>6. CASE OpenAndPreflight(w)
  <2>1. PICK l \in Places :
          /\ Accepted([loc |-> l, under |-> pointer = l])
          /\ sess' = [sess EXCEPT ![w] = [loc |-> l, under |-> pointer = l]]
    BY <1>6 DEF OpenAndPreflight
  <2>2. sess'[w].loc = l /\ sess'[w].under = (pointer = l)
        /\ \A v \in Writers : v # w => sess'[v] = sess[v]
    BY <1>2, <2>1
  <2>3. check_custody(l)
    BY <2>1 DEF Accepted
  <2>4. l = Home /\ (l \in Externals => pointer = l)
    BY <1>1, <2>3, CustodyIsHome DEF StoreInv
  <2>5. /\ wpc'[w] = "ready" /\ \A v \in Writers : v # w => wpc'[v] = wpc[v]
        /\ UNCHANGED <<lock, vault, written>>
    BY <1>2, <1>6 DEF OpenAndPreflight
  <2>6. WriterKnows(w)
    BY <2>2, <2>4, <2>5 DEF WriterKnows
  <2>7. QED
    BY <2>5, <2>6, WriterGoes
<1>7. CASE LockAndCheck(w)
  <2>1. PICK l \in Places : l = sess[w].loc
    BY <1>3
  <2>2. lock[l] = Nobody /\ UNCHANGED <<vault, sess, written>>
    BY <1>7, <2>1 DEF LockAndCheck
  <2>3. CASE ~custody_pointer_present(l, sess[w].under) /\ lock' = [lock EXCEPT ![l] = w]
             /\ wpc' = [wpc EXCEPT ![w] = "write"]
    <3>1. l = Home
      <4>1. CASE l = "local"
        BY <2>3, <4>1, NamesAssumption DEF custody_pointer_present, Home
      <4>2. CASE l # "local"
        BY <1>3, <2>1, <2>3, <4>2 DEF custody_pointer_present, Home, Places
      <4>3. QED
        BY <4>1, <4>2
    <3>2. lock'[l] = w /\ \A k \in Places : k # l => lock'[k] = lock[k]
      BY <1>2, <2>3
    <3>3. wpc'[w] = "write" /\ \A v \in Writers : v # w => wpc'[v] = wpc[v]
      BY <1>2, <2>3
    <3>4. WriterKnows(w)
      BY <1>3, <2>1, <2>2, <3>1, <3>2, <3>3 DEF WriterKnows
    <3>5. QED
      BY <2>2, <3>4, WriterGoes
  <2>4. CASE lock' = lock /\ wpc' = [wpc EXCEPT ![w] = "open"]
    <3>1. WriterKnows(w)
      BY <1>2, <1>3, <2>2, <2>4 DEF WriterKnows
    <3>2. QED
      BY <2>2, <3>1, WriterGoes
  <2>5. QED
    BY <1>7, <2>1, <2>3, <2>4 DEF LockAndCheck
<1>8. CASE Write(w)
  <2>1. sess[w].loc = Home /\ lock[Home] = w
    BY <1>1, <1>8 DEF Write, WritersOK
  <2>2. WriteStep
    BY <1>8, <2>1, Zenon DEF Write, SetVault, WriteStep, Written, OperatorsStay
  <2>3. /\ lock' = [lock EXCEPT ![Home] = Nobody] /\ wpc' = [wpc EXCEPT ![w] = "open"]
        /\ sess' = sess
    BY <1>8, <2>1 DEF Write
  <2>4. WriterKnows(w)
    BY <1>2, <1>3, <2>1, <2>3 DEF WriterKnows
  <2>5. QED
    BY <2>1, <2>2, <2>4, WriterGoes
<1>9. CASE GiveUp(w)
  <2>1. /\ wpc'[w] = "closed" /\ \A v \in Writers : v # w => wpc'[v] = wpc[v]
        /\ \A l \in Places : lock[l] # w => lock'[l] = lock[l]
        /\ UNCHANGED <<vault, sess, written>>
    BY <1>2, <1>9 DEF GiveUp
  <2>2. WriterKnows(w)
    BY <1>3, <2>1 DEF WriterKnows
  <2>3. QED
    BY <2>1, <2>2, WriterGoes
<1>10. QED
  BY <1>4, <1>5, <1>6, <1>7, <1>8, <1>9 DEF WriterStep

-----------------------------------------------------------------------------
(* The plans.                                                              *)

LEMMA PlanSafe ==
  ASSUME Alone, IndInv, NEW t \in Txs, NEW e \in Externals, PlanOut(t, e) \/ PlanBack(t, e)
  PROVE  Safe'
<1>1. TypesOK /\ StoreInv /\ OperatorsOK /\ WritersOK
  BY DEF IndInv
<1>2. PICK P : PlanStep(t, P) /\ UNCHANGED <<lock, operator, writer>>
  <2>1. CASE PlanOut(t, e)
    <3>1. PICK P : P = [dir |-> "out", source |-> "local", dest |-> e,
                        base |-> CurrentOf("local"), entries |-> vault["local"]]
      OBVIOUS
    <3>2. P.dir = "out" /\ P.source = "local" /\ P.dest = e
          /\ P.base = CurrentOf("local") /\ P.entries = vault["local"]
      BY <3>1
    <3>3. Home = "local" /\ CurrentOf(Home) = written
      BY <1>1, <2>1, HomeVault, NamesAssumption DEF PlanOut, Home, StoreInv
    <3>4. P # NoPlan
      BY <3>2 DEF NoPlan
    <3>5. plan[t] = NoPlan /\ plan' = [plan EXCEPT ![t] = P]
          /\ UNCHANGED <<files, journal, lock, operator, writer, moves>>
      BY <2>1, <3>1 DEF PlanOut
    <3>6. PlanStep(t, P)
      BY <3>2, <3>3, <3>4, <3>5 DEF PlanStep, writer
    <3>7. QED
      BY <3>5, <3>6
  <2>2. CASE PlanBack(t, e)
    <3>1. PICK P : P = [dir |-> "back", source |-> e, dest |-> "local",
                        base |-> CurrentOf(e), entries |-> vault[e]]
      OBVIOUS
    <3>2. P.dir = "back" /\ P.source = e /\ P.dest = "local"
          /\ P.base = CurrentOf(e) /\ P.entries = vault[e]
      BY <3>1
    <3>3. Home = e /\ CurrentOf(Home) = written
      <4>1. check_custody(e) /\ e \in Places
        BY <2>2 DEF PlanBack, Places
      <4>2. QED
        BY <1>1, <4>1, CustodyIsHome, HomeVault DEF StoreInv
    <3>4. P # NoPlan
      BY <3>2 DEF NoPlan
    <3>5. plan[t] = NoPlan /\ plan' = [plan EXCEPT ![t] = P]
          /\ UNCHANGED <<files, journal, lock, operator, writer, moves>>
      BY <2>2, <3>1 DEF PlanBack
    <3>6. PlanStep(t, P)
      BY <3>2, <3>3, <3>4, <3>5 DEF PlanStep, writer
    <3>7. QED
      BY <3>5, <3>6
  <2>3. QED
    BY <2>1, <2>2
<1>3. StoreInv' /\ \A u \in Txs : u # t => plan'[u] = plan[u]
  BY <1>1, <1>2, PlanKeeps
<1>4. Home' = Home
  BY <1>2 DEF PlanStep, files, Home
<1>5. WritersOK'
  BY <1>1, <1>2, <1>4 DEF WritersOK, writer
<1>6. OperatorsOK'
  <2> SUFFICES ASSUME NEW p \in Operators, pc[p] # "idle"
               PROVE  /\ cmd[p] \in Commands /\ plan'[cmd[p].tx] # NoPlan
                      /\ J(p).stage = journal[cmd[p].tx].stage
                      /\ \A u \in Txs : u # cmd[p].tx => Finished(u)
                      /\ IF pc[p] = "commit_lock" THEN journal[cmd[p].tx].stage = "absent"
                         ELSE ~Finished(cmd[p].tx)
                      /\ pc[p] \notin Waiting => lock[plan'[cmd[p].tx].source] = p
                      /\ KnowsBefore(pc[p], cmd[p].tx, cmd[p].mode)' /\ KnowsBehind(pc[p], cmd[p].tx)'
    BY <1>2, Zenon DEF OperatorsOK, PlanStep, operator, Tx, J, Plan, Finished
  <2>1. PICK u \in Txs, m \in {"commit", "reconcile"} : AtWork(p, u, m)
    BY Working
  <2>2. cmd[p].tx = u /\ cmd[p].mode = m /\ plan'[u] = plan[u]
    BY <1>2, <1>3, <2>1 DEF AtWork, PlanStep
  <2>3. PICK s : s = pc[p] /\ pc' = pc /\ cmd' = cmd
    BY <1>2 DEF operator
  <2>4. /\ Uncommitted(u)' = Uncommitted(u) /\ Committed(u)' = Committed(u) /\ Copy(u)' = Copy(u)
        /\ journal' = journal /\ staging' = staging /\ dirs' = dirs /\ vault' = vault
        /\ written' = written
    BY <1>2, <2>2 DEF PlanStep, files, Uncommitted, Committed, Copy, Moved, Receipt
  <2>5. KnowsBefore(s, u, m)' /\ KnowsBehind(s, u)'
    <3>1. KnowsBefore(s, u, m) /\ KnowsBehind(s, u)
      BY <2>1, <2>3 DEF AtWork
    <3>2. QED
      BY <2>2, <2>4, <3>1, Zenon DEF KnowsBefore, KnowsBehind
  <2>6. KnowsBefore(pc[p], cmd[p].tx, cmd[p].mode)' /\ KnowsBehind(pc[p], cmd[p].tx)'
    BY <2>2, <2>3, <2>5, Zenon DEF KnowsBefore, KnowsBehind
  <2>7. /\ cmd[p] \in Commands /\ plan[u] # NoPlan /\ J(p).stage = journal[u].stage
        /\ \A v \in Txs : v # u => Finished(v)
        /\ IF pc[p] = "commit_lock" THEN journal[u].stage = "absent" ELSE ~Finished(u)
        /\ pc[p] \notin Waiting => lock[plan[u].source] = p
    BY <2>1 DEF AtWork
  <2>8. QED
    BY <2>2, <2>6, <2>7, Zenon
<1>7. QED
  BY <1>3, <1>5, <1>6 DEF Safe

-----------------------------------------------------------------------------
(* The types.                                                              *)

LEMMA VaultTyped ==
  ASSUME TypesOK, NEW l \in Places, NEW S \in SUBSET Files, SetVault(l, S)
  PROVE  vault' \in [Places -> SUBSET Files]
BY DEF TypesOK, FilesTyped, SetVault

LEMMA StagingTyped ==
  ASSUME TypesOK, NEW t \in Txs, NEW S \in SUBSET Files, staging' = [staging EXCEPT ![t] = S]
  PROVE  staging' \in [Txs -> SUBSET Files]
BY DEF TypesOK, FilesTyped

LEMMA GotoTyped ==
  ASSUME TypesOK, NEW p \in Operators, NEW s \in Steps, Goto(p, s),
         cmd' \in [Operators -> Commands \cup {Idle}], UNCHANGED writer
  PROVE  ProcessesTyped'
BY DEF TypesOK, ProcessesTyped, Goto, writer

LEMMA ReleaseTyped ==
  ASSUME TypesOK, NEW p \in Operators, Release(p), UNCHANGED writer
  PROVE  ProcessesTyped'
<1>1. "idle" \in Steps
  BY DEF Steps
<1>2. pc' \in [Operators -> Steps] /\ cmd' \in [Operators -> Commands \cup {Idle}]
  BY <1>1 DEF TypesOK, ProcessesTyped, Release
<1>3. lock' \in [Places -> Operators \cup Writers \cup {Nobody}]
  BY DEF TypesOK, ProcessesTyped, Release
<1>4. QED
  BY <1>2, <1>3 DEF TypesOK, ProcessesTyped, writer

LEMMA JournalTyped ==
  ASSUME TypesOK, NEW p \in Operators, NEW t \in Txs, NEW m, AtWork(p, t, m),
         NEW j \in Journals, WriteJournal(p, j), UNCHANGED <<plan, moves>>
  PROVE  MovesTyped' /\ cmd' \in [Operators -> Commands \cup {Idle}]
<1>1. journal' = [journal EXCEPT ![t] = j]
  BY DEF WriteJournal, Tx, AtWork
<1>2. PICK c : c = [cmd[p] EXCEPT !.j = j]
  OBVIOUS
<1>3. c \in Commands
  BY <1>2 DEF AtWork, Commands
<1>4. cmd' = [cmd EXCEPT ![p] = c]
  BY <1>2 DEF WriteJournal
<1>5. QED
  BY <1>1, <1>3, <1>4 DEF TypesOK, MovesTyped, ProcessesTyped

LEMMA CloseTyped ==
  ASSUME TypesOK, NEW p \in Operators, NEW t \in Txs, NEW m, AtWork(p, t, m),
         pc[p] # "commit_lock", NEW s \in Stages, CloseJournal(p, s),
         UNCHANGED <<plan, moves, writer>>
  PROVE  MovesTyped' /\ ProcessesTyped'
<1>1. J(p) \in Journals /\ J(p).stage # "absent"
  BY DEF AtWork, Finished
<1>2. PICK j \in Journals : j = [J(p) EXCEPT !.stage = s]
  BY <1>1, JournalUpdate
<1>3. journal' = [journal EXCEPT ![t] = j]
  BY <1>2 DEF CloseJournal, Tx, AtWork
<1>4. MovesTyped'
  BY <1>3 DEF TypesOK, MovesTyped
<1>5. QED
  BY <1>4, ReleaseTyped DEF CloseJournal

LEMMA SameTyped ==
  ASSUME TypesOK
  PROVE  /\ UNCHANGED files => FilesTyped'
         /\ UNCHANGED <<plan, journal, moves>> => MovesTyped'
         /\ UNCHANGED cmd => cmd' \in [Operators -> Commands \cup {Idle}]
BY DEF TypesOK, FilesTyped, MovesTyped, ProcessesTyped, files

Typed == FilesTyped /\ MovesTyped /\ ProcessesTyped

LEMMA CallTyped ==
  ASSUME Alone, IndInv, NEW p \in Operators, Call(p), UNCHANGED <<plan, writer>>
  PROVE  Typed'
<1>1. TypesOK
  BY DEF IndInv
<1>2. PICK t \in Txs : Commit(p, t) \/ Reconcile(p, t)
  BY DEF Call
<1>3. UNCHANGED files /\ UNCHANGED <<plan, journal, moves>>
  BY <1>2 DEF Commit, Reconcile
<1>4. PICK c \in Commands : cmd' = [cmd EXCEPT ![p] = c]
  <2>1. journal[t] \in Journals
    BY <1>1 DEF TypesOK, MovesTyped
  <2>2. NoJournal \in Journals
    BY DEF Journals
  <2>3. \A j \in Journals, a \in BOOLEAN :
          /\ [tx |-> t, mode |-> "commit", abort |-> a, j |-> j] \in Commands
          /\ [tx |-> t, mode |-> "reconcile", abort |-> a, j |-> j] \in Commands
    BY DEF Commands
  <2>4. QED
    BY <1>2, <2>1, <2>2, <2>3 DEF Commit, Reconcile
<1>5. PICK s \in {"commit_lock", "reconcile_lock"} : Goto(p, s)
  BY <1>2 DEF Commit, Reconcile
<1>6. s \in Steps
  BY DEF Steps, Waiting
<1>7. cmd' \in [Operators -> Commands \cup {Idle}]
  BY <1>1, <1>4 DEF TypesOK, ProcessesTyped
<1>8. QED
  BY <1>1, <1>3, <1>5, <1>6, <1>7, SameTyped, GotoTyped DEF Typed

\* The steps that only go on or return, and those that write the journal.
LEMMA GoingTyped ==
  ASSUME Alone, IndInv, NEW p \in Operators, UNCHANGED <<plan, writer>>,
         \/ ReconcileLock(p) \/ JournalReceipt(p) \/ JournalPublished(p) \/ Mark(p)
         \/ JournalPointer(p) \/ VerifyLocal(p) \/ CleanupBlocked(p) \/ JournalCleaned(p)
         \/ ReconcileOutPointed(p) \/ ReconcileOutPublished(p) \/ ReconcileBackStaging(p)
         \/ ReconcileBackRemoved(p) \/ ReconcileBackPublished(p) \/ ReconcileMoved(p)
         \/ JournalAborted(p)
  PROVE  Typed'
<1>1. TypesOK
  BY DEF IndInv
<1>2. UNCHANGED files /\ UNCHANGED moves /\ pc[p] \notin {"idle", "commit_lock"}
  BY DEF ReconcileLock, JournalReceipt, JournalPublished, Mark, JournalPointer, VerifyLocal,
     CleanupBlocked, JournalCleaned, ReconcileOutPointed, ReconcileOutPublished,
     ReconcileBackStaging, ReconcileBackRemoved, ReconcileBackPublished, ReconcileMoved,
     JournalAborted, Refuse, At
<1>3. PICK t \in Txs, m \in {"commit", "reconcile"} : AtWork(p, t, m)
  BY <1>2, Working
<1>4. FilesTyped'
  BY <1>1, <1>2, SameTyped
<1>5. J(p) \in Journals /\ J(p).stage # "absent"
  BY <1>2, <1>3 DEF AtWork, Finished
<1>6. ASSUME NEW s \in Steps, Goto(p, s), UNCHANGED <<journal, cmd>> PROVE Typed'
  BY <1>1, <1>2, <1>4, <1>6, SameTyped, GotoTyped DEF Typed
<1>7. ASSUME NEW s \in Steps, Goto(p, s), NEW j \in Journals, WriteJournal(p, j) PROVE Typed'
  BY <1>1, <1>2, <1>3, <1>4, <1>7, JournalTyped, GotoTyped DEF Typed
<1>8. ASSUME Release(p), UNCHANGED journal PROVE Typed'
  BY <1>1, <1>2, <1>4, <1>8, SameTyped, ReleaseTyped DEF Typed
<1>9. ASSUME NEW s \in Stages, CloseJournal(p, s) PROVE Typed'
  BY <1>1, <1>2, <1>3, <1>4, <1>9, CloseTyped DEF Typed
<1>10. CASE ReconcileLock(p)
  <2>1. Plan(p).source \in Places
    BY <1>3 DEF AtWork, Plan, Tx
  <2>2. ProcessesTyped'
    BY <1>1, <1>10, <2>1 DEF ReconcileLock, TypesOK, ProcessesTyped, writer, Steps
  <2>3. QED
    BY <1>1, <1>2, <1>4, <1>10, <2>2, SameTyped DEF ReconcileLock, Typed
<1>11. CASE JournalReceipt(p) \/ JournalPublished(p) \/ JournalPointer(p) \/ ReconcileOutPointed(p)
  <2>1. PICK j \in Journals : WriteJournal(p, j)
    <3>1. "published" \in Stages /\ "pointer_moved" \in Stages
      BY DEF Stages
    <3>2. QED
      BY <1>5, <1>11, <3>1, JournalUpdate
         DEF JournalReceipt, JournalPublished, JournalPointer, ReconcileOutPointed
  <2>2. PICK s \in {"publish", "reconcile", "pointer", "mark", "cleanup", "verify"} : Goto(p, s)
    BY <1>11 DEF JournalReceipt, JournalPublished, JournalPointer, ReconcileOutPointed
  <2>3. s \in Steps
    BY DEF Steps, BeforePointer, BehindPointer
  <2>4. QED
    BY <1>7, <2>1, <2>2, <2>3
<1>12. CASE VerifyLocal(p) \/ ReconcileOutPublished(p) \/ ReconcileBackStaging(p)
            \/ ReconcileBackPublished(p) \/ ReconcileMoved(p)
  <2>1. \/ Refuse(p)
        \/ \E s \in {"cleanup", "remove", "pointer", "publish", "mark", "verify_moved"} :
             Goto(p, s) /\ UNCHANGED <<journal, cmd>>
    BY <1>12 DEF VerifyLocal, ReconcileOutPublished, ReconcileBackStaging,
       ReconcileBackPublished, ReconcileMoved
  <2>2. {"cleanup", "remove", "pointer", "publish", "mark", "verify_moved"} \subseteq Steps
    BY DEF Steps, BeforePointer, BehindPointer
  <2>3. QED
    BY <1>6, <1>8, <2>1, <2>2 DEF Refuse
<1>13. CASE Mark(p)
  <2>1. \/ Refuse(p)
        \/ WriteJournal(p, [J(p) EXCEPT !.removing = TRUE]) /\ Goto(p, "pointer")
    BY <1>13 DEF Mark
  <2>2. [J(p) EXCEPT !.removing = TRUE] \in Journals
    BY <1>5, JournalUpdate
  <2>3. "pointer" \in Steps
    BY DEF Steps, BeforePointer
  <2>4. CASE Refuse(p)
    BY <1>8, <2>4 DEF Refuse
  <2>5. CASE WriteJournal(p, [J(p) EXCEPT !.removing = TRUE]) /\ Goto(p, "pointer")
    BY <1>7, <2>2, <2>3, <2>5
  <2>6. QED
    BY <2>1, <2>4, <2>5
<1>14. CASE CleanupBlocked(p)
  BY <1>8, <1>14 DEF CleanupBlocked, Refuse
<1>15. CASE JournalCleaned(p) \/ JournalAborted(p)
  BY <1>9, <1>15 DEF JournalCleaned, JournalAborted, Stages
<1>16. CASE ReconcileBackRemoved(p)
  <2>1. PICK j \in Journals : j = [J(p) EXCEPT !.stage = "pointer_moved"]
    <3>1. "pointer_moved" \in Stages
      BY DEF Stages
    <3>2. QED
      BY <1>5, <3>1, JournalUpdate
  <2>2. \/ Refuse(p)
        \/ journal' = [journal EXCEPT ![Tx(p)] = j] /\ Release(p)
        \/ /\ journal' = [journal EXCEPT ![Tx(p)] = j] /\ Goto(p, "verify_moved")
           /\ cmd' = [cmd EXCEPT ![p].j.stage = "pointer_moved"]
    BY <1>16, <2>1 DEF ReconcileBackRemoved
  <2>3. CASE Refuse(p)
    BY <1>8, <2>3 DEF Refuse
  <2>4. CASE journal' = [journal EXCEPT ![Tx(p)] = j] /\ Release(p)
    <3>1. MovesTyped'
      BY <1>1, <1>2, <1>3, <2>4 DEF TypesOK, MovesTyped, Tx, AtWork
    <3>2. QED
      BY <1>1, <1>4, <2>4, <3>1, ReleaseTyped DEF Typed
  <2>5. CASE /\ journal' = [journal EXCEPT ![Tx(p)] = j] /\ Goto(p, "verify_moved")
             /\ cmd' = [cmd EXCEPT ![p].j.stage = "pointer_moved"]
    <3>1. cmd' = [cmd EXCEPT ![p].j = j]
      BY <2>1, <2>5 DEF J
    <3>2. WriteJournal(p, j)
      BY <2>5, <3>1 DEF WriteJournal
    <3>3. "verify_moved" \in Steps
      BY DEF Steps, BehindPointer
    <3>4. QED
      BY <1>7, <2>5, <3>2, <3>3
  <2>6. QED
    BY <2>2, <2>3, <2>4, <2>5
<1>17. QED
  BY <1>10, <1>11, <1>12, <1>13, <1>14, <1>15, <1>16

\* The steps that touch files.
LEMMA FilesStepTyped ==
  ASSUME Alone, IndInv, NEW p \in Operators, UNCHANGED <<plan, writer>>,
         \/ CommitLock(p) \/ Stage(p) \/ PublishOut(p) \/ PublishUnit(p) \/ PublishedUnits(p)
         \/ MovePointer(p) \/ Cleanup(p) \/ ReconcileOutStaging(p) \/ Remove(p)
         \/ StageFails(p) \/ Crash(p)
  PROVE  Typed'
<1>1. TypesOK
  BY DEF IndInv
<1>2. pc[p] # "idle"
  BY DEF CommitLock, Stage, PublishOut, PublishUnit, PublishedUnits, MovePointer, Cleanup,
     ReconcileOutStaging, Remove, StageFails, Crash, At
<1>3. PICK t \in Txs, m \in {"commit", "reconcile"} : AtWork(p, t, m)
  BY <1>2, Working
<1>4. /\ Tx(p) = t /\ Plan(p) = plan[t] /\ plan[t].source \in Places /\ plan[t].dest \in Places
      /\ Copy(t) \in SUBSET Files /\ staging[t] \in SUBSET Files
      /\ \A l \in Places : vault[l] \in SUBSET Files
  <2>1. Copy(t) \in SUBSET Files
    BY <1>1, <1>3, PlanFields DEF IndInv, StoreInv, AtWork
  <2>2. QED
    BY <1>1, <1>3, <2>1 DEF AtWork, Tx, Plan, TypesOK, FilesTyped
<1>5. J(p) \in Journals /\ (pc[p] # "commit_lock" => J(p).stage # "absent")
  BY <1>3 DEF AtWork, Finished
<1>6. ASSUME UNCHANGED files, UNCHANGED <<journal, moves>>, Release(p) PROVE Typed'
  BY <1>1, <1>6, SameTyped, ReleaseTyped DEF Typed
<1>7. ASSUME FilesTyped', UNCHANGED <<journal, cmd, moves>>, NEW s \in Steps, Goto(p, s)
      PROVE  Typed'
  BY <1>1, <1>7, SameTyped, GotoTyped DEF Typed
<1>8. ASSUME FilesTyped', UNCHANGED moves, pc[p] # "commit_lock", CloseJournal(p, "aborted")
      PROVE  Typed'
  <2>1. "aborted" \in Stages
    BY DEF Stages
  <2>2. QED
    BY <1>1, <1>3, <1>8, <2>1, CloseTyped DEF Typed
<1>9. ASSUME DiscardStaging(p) PROVE staging' \in [Txs -> SUBSET Files]
  <2>1. staging' = [staging EXCEPT ![t] = {}]
    BY <1>4, <1>9 DEF DiscardStaging
  <2>2. QED
    BY <1>1, <2>1 DEF TypesOK, FilesTyped
<1>10. CASE CommitLock(p)
  <2>1. CASE Refuse(p)
    BY <1>6, <2>1 DEF Refuse
  <2>2. CASE ~Refuse(p)
    <3>1. /\ lock' = [lock EXCEPT ![plan[t].source] = p] /\ pc' = [pc EXCEPT ![p] = "stage"]
          /\ WriteJournal(p, [NoJournal EXCEPT !.stage = "staging"])
          /\ UNCHANGED files /\ UNCHANGED moves
      BY <1>4, <1>10, <2>2 DEF CommitLock
    <3>2. MovesTyped' /\ cmd' \in [Operators -> Commands \cup {Idle}]
      BY <1>1, <1>3, <3>1, FirstJournal, JournalTyped
    <3>3. "stage" \in Steps
      BY DEF Steps, BeforePointer, Staged
    <3>4. ProcessesTyped'
      BY <1>1, <1>4, <3>1, <3>2, <3>3 DEF TypesOK, ProcessesTyped, writer
    <3>5. QED
      BY <1>1, <3>1, <3>2, <3>4, SameTyped DEF Typed
  <2>3. QED
    BY <2>1, <2>2
<1>11. CASE Stage(p)
  <2>1. staging' \in [Txs -> SUBSET Files]
    BY <1>1, <1>4, <1>11, StagingTyped DEF Stage
  <2>2. FilesTyped'
    BY <1>1, <1>11, <2>1 DEF Stage, TypesOK, FilesTyped
  <2>3. cmd' \in [Operators -> Commands \cup {Idle}]
    <3>1. PICK j \in Journals : j = [J(p) EXCEPT !.receipt = TRUE]
      BY <1>5, <1>11, JournalUpdate DEF Stage
    <3>2. PICK c : c = [cmd[p] EXCEPT !.j = j]
      OBVIOUS
    <3>3. c \in Commands
      BY <1>3, <3>2 DEF AtWork, Commands
    <3>4. cmd' = [cmd EXCEPT ![p] = c]
      BY <1>11, <3>1, <3>2 DEF Stage, J
    <3>5. QED
      BY <1>1, <3>3, <3>4 DEF TypesOK, ProcessesTyped
  <2>4. PICK s \in {"publish", "journal_receipt"} : Goto(p, s)
    BY <1>11 DEF Stage
  <2>5. s \in Steps
    BY DEF Steps, BeforePointer, Staged
  <2>6. ProcessesTyped'
    BY <1>1, <2>3, <2>4, <2>5, GotoTyped
  <2>7. UNCHANGED <<plan, journal, moves>>
    BY <1>11 DEF Stage
  <2>8. QED
    BY <1>1, <2>2, <2>6, <2>7, SameTyped DEF Typed
<1>12. CASE PublishOut(p)
  <2>1. staging' \in [Txs -> SUBSET Files] /\ UNCHANGED <<pointer, moves>>
    BY <1>9, <1>12 DEF PublishOut
  <2>2. plan[t].dir = "out"
    BY <1>4, <1>12 DEF PublishOut, Out
  <2>3. CASE plan[t].dest \in dirs
    <3>1. FilesTyped'
      BY <1>1, <1>4, <1>12, <2>1, <2>3 DEF PublishOut, TypesOK, FilesTyped
    <3>2. CloseJournal(p, "aborted") /\ pc[p] # "commit_lock"
      BY <1>4, <1>12, <2>3 DEF PublishOut
    <3>3. QED
      BY <1>8, <2>1, <3>1, <3>2
  <2>4. CASE plan[t].dest \notin dirs
    <3>1. SetVault(plan[t].dest, staging[t]) /\ dirs' = dirs \cup {plan[t].dest}
          /\ Goto(p, "journal_published") /\ UNCHANGED <<journal, cmd>>
      BY <1>4, <1>12, <2>4 DEF PublishOut
    <3>2. vault' \in [Places -> SUBSET Files]
      BY <1>1, <1>4, <3>1, VaultTyped
    <3>3. plan[t].dest \in Externals
      BY <1>3, <2>2 DEF AtWork, PlanOK
    <3>4. FilesTyped'
      BY <1>1, <2>1, <3>1, <3>2, <3>3 DEF TypesOK, FilesTyped
    <3>5. "journal_published" \in Steps
      BY DEF Steps, BeforePointer
    <3>6. QED
      BY <1>7, <2>1, <3>1, <3>4, <3>5
  <2>5. QED
    BY <2>3, <2>4
<1>13. CASE PublishUnit(p)
  <2>1. CASE Refuse(p)
    BY <1>6, <2>1 DEF Refuse
  <2>2. CASE ~Refuse(p)
    <3>1. PICK n : n = Units[CHOOSE i \in Pending(t) : \A k \in Pending(t) : i <= k]
      OBVIOUS
    <3>2. PICK N : N = InUnit(staging[t], n)
      OBVIOUS
    <3>3. /\ SetVault("local", vault["local"] \cup N) /\ staging' = [staging EXCEPT ![t] = @ \ N]
          /\ UNCHANGED <<dirs, pointer, journal, lock, operator, moves>>
      BY <1>4, <1>13, <2>2, <3>1, <3>2 DEF PublishUnit
    <3>4. N \in SUBSET Files /\ "local" \in Places
      BY <1>4, <3>2 DEF InUnit, Places
    <3>5. vault' \in [Places -> SUBSET Files] /\ staging' \in [Txs -> SUBSET Files]
      <4>1. vault["local"] \cup N \in SUBSET Files
        BY <1>4, <3>4
      <4>2. vault' \in [Places -> SUBSET Files]
        BY <1>1, <3>3, <3>4, <4>1, VaultTyped
      <4>3. staging[t] \ N \in SUBSET Files /\ staging' = [staging EXCEPT ![t] = staging[t] \ N]
        BY <1>4, <3>3
      <4>4. QED
        BY <1>1, <4>2, <4>3 DEF TypesOK, FilesTyped
    <3>6. FilesTyped' /\ ProcessesTyped'
      BY <1>1, <3>3, <3>5 DEF TypesOK, FilesTyped, ProcessesTyped, operator, writer
    <3>7. QED
      BY <1>1, <3>3, <3>6, SameTyped DEF Typed
  <2>3. QED
    BY <2>1, <2>2
<1>14. CASE PublishedUnits(p)
  <2>1. FilesTyped'
    BY <1>1, <1>9, <1>14 DEF PublishedUnits, TypesOK, FilesTyped
  <2>2. "journal_published" \in Steps
    BY DEF Steps, BeforePointer
  <2>3. QED
    BY <1>7, <1>14, <2>1, <2>2 DEF PublishedUnits
<1>15. CASE MovePointer(p)
  <2>1. CASE Refuse(p)
    BY <1>6, <2>1 DEF Refuse
  <2>2. CASE ~Refuse(p)
    <3>1. /\ pointer' = PointerAfter(p) /\ moves' = IF pointer' # pointer THEN Append(moves, t) ELSE moves
          /\ Goto(p, "journal_pointer") /\ UNCHANGED <<vault, dirs, staging, journal, cmd>>
      BY <1>4, <1>15, <2>2 DEF MovePointer
    <3>2. pointer' \in Pointers
      BY <1>1, <1>3, <1>4, <3>1
         DEF PointerAfter, Out, AtWork, PlanOK, Pointers, TypesOK, FilesTyped
    <3>3. moves' \in Seq(Txs)
      BY <1>1, <3>1 DEF TypesOK, MovesTyped
    <3>4. "journal_pointer" \in Steps
      BY DEF Steps, BehindPointer
    <3>5. ProcessesTyped'
      BY <1>1, <3>1, <3>4, SameTyped, GotoTyped
    <3>6. QED
      BY <1>1, <3>1, <3>2, <3>3, <3>5 DEF Typed, TypesOK, FilesTyped, MovesTyped
  <2>3. QED
    BY <2>1, <2>2
<1>16. CASE Cleanup(p)
  <2>1. vault' \in [Places -> SUBSET Files]
    BY <1>1, <1>4, <1>16, VaultTyped DEF Cleanup
  <2>2. FilesTyped'
    BY <1>1, <1>16, <2>1 DEF Cleanup, TypesOK, FilesTyped
  <2>3. "journal_cleaned" \in Steps
    BY DEF Steps, BehindPointer
  <2>4. QED
    BY <1>7, <1>16, <2>2, <2>3 DEF Cleanup
<1>17. CASE ReconcileOutStaging(p)
  <2>1. pc[p] # "commit_lock" /\ J(p).stage # "absent"
    BY <1>17 DEF ReconcileOutStaging, At
  <2>2. CASE DestinationIsCopy(t)
    <3>1. /\ WriteJournal(p, [J(p) EXCEPT !.stage = "published", !.receipt = TRUE])
          /\ Goto(p, "reconcile") /\ UNCHANGED files /\ UNCHANGED moves
      BY <1>4, <1>17, <2>2 DEF ReconcileOutStaging, files
    <3>2. MovesTyped' /\ cmd' \in [Operators -> Commands \cup {Idle}]
      BY <1>1, <1>3, <1>5, <2>1, <3>1, JournalUpdate, JournalTyped
    <3>3. "reconcile" \in Steps
      BY DEF Steps
    <3>4. QED
      BY <1>1, <3>1, <3>2, <3>3, SameTyped, GotoTyped DEF Typed
  <2>3. CASE ~DestinationIsCopy(t)
    <3>1. DiscardStaging(p) /\ CloseJournal(p, "aborted") /\ UNCHANGED <<vault, dirs, pointer, moves>>
      BY <1>4, <1>17, <2>3 DEF ReconcileOutStaging
    <3>2. FilesTyped'
      BY <1>1, <1>9, <3>1 DEF TypesOK, FilesTyped
    <3>3. QED
      BY <1>8, <2>1, <3>1, <3>2
  <2>4. QED
    BY <2>2, <2>3
<1>18. CASE Remove(p)
  <2>1. CASE Refuse(p)
    BY <1>6, <2>1 DEF Refuse
  <2>2. CASE ~Refuse(p)
    <3>1. /\ SetVault(plan[t].dest, vault[plan[t].dest] \ Removable(p))
          /\ dirs' = dirs \ {plan[t].dest} /\ DiscardStaging(p) /\ Goto(p, "journal_aborted")
          /\ UNCHANGED <<pointer, journal, cmd, moves>>
      BY <1>4, <1>18, <2>2 DEF Remove
    <3>2. vault' \in [Places -> SUBSET Files]
      BY <1>1, <1>4, <3>1, VaultTyped
    <3>3. FilesTyped'
      BY <1>1, <1>9, <3>1, <3>2 DEF TypesOK, FilesTyped
    <3>4. "journal_aborted" \in Steps
      BY DEF Steps
    <3>5. QED
      BY <1>7, <3>1, <3>3, <3>4
  <2>3. QED
    BY <2>1, <2>2
<1>19. CASE StageFails(p)
  <2>1. FilesTyped'
    BY <1>1, <1>9, <1>19 DEF StageFails, TypesOK, FilesTyped
  <2>2. pc[p] # "commit_lock" /\ CloseJournal(p, "aborted") /\ UNCHANGED moves
    BY <1>19 DEF StageFails
  <2>3. QED
    BY <1>8, <2>1, <2>2
<1>20. CASE Crash(p)
  <2>1. Release(p) /\ UNCHANGED <<journal, moves>> /\ Partial(p)
    BY <1>20 DEF Crash
  <2>2. ASSUME FilesTyped' PROVE Typed'
    BY <1>1, <2>1, <2>2, SameTyped, ReleaseTyped DEF Typed
  <2>3. CASE UNCHANGED files
    BY <1>1, <2>2, <2>3, SameTyped
  <2>4. CASE /\ UNCHANGED <<vault, dirs, pointer>>
             /\ \E S \in SUBSET Plan(p).entries : staging' = [staging EXCEPT ![Tx(p)] = S]
    <3>1. PICK S \in SUBSET plan[t].entries : staging' = [staging EXCEPT ![t] = S]
      BY <1>4, <2>4
    <3>2. S \in SUBSET Files
      BY <1>4, <3>1 DEF Copy
    <3>3. staging' \in [Txs -> SUBSET Files]
      BY <1>1, <3>1, <3>2, StagingTyped
    <3>4. FilesTyped'
      BY <1>1, <2>4, <3>3 DEF TypesOK, FilesTyped
    <3>5. QED
      BY <2>2, <3>4
  <2>5. CASE /\ UNCHANGED <<dirs, staging, pointer>>
             /\ \E l \in Places, S \in SUBSET Files : SetVault(l, S)
    <3>1. vault' \in [Places -> SUBSET Files]
      BY <1>1, <2>5, VaultTyped
    <3>2. FilesTyped'
      BY <1>1, <2>5, <3>1 DEF TypesOK, FilesTyped
    <3>3. QED
      BY <2>2, <3>2
  <2>6. CASE pointer' = "torn" /\ UNCHANGED <<vault, dirs, staging>>
    <3>1. FilesTyped'
      BY <1>1, <2>6 DEF TypesOK, FilesTyped, Pointers
    <3>2. QED
      BY <2>2, <3>1
  <2>7. \A l \in Places : \A S : vault[l] \ S \in SUBSET Files
    BY <1>4
  <2>8. QED
    BY <1>4, <2>1, <2>3, <2>4, <2>5, <2>6, <2>7 DEF Partial
<1>21. QED
  BY <1>10, <1>11, <1>12, <1>13, <1>14, <1>15, <1>16, <1>17, <1>18, <1>19, <1>20

LEMMA WriterTyped ==
  ASSUME Alone, IndInv, NEW w \in Writers, WriterStep(w), OperatorsStay
  PROVE  TypesOK'
<1>1. TypesOK
  BY DEF IndInv
<1>2. MovesTyped'
  BY <1>1, SameTyped DEF OperatorsStay
<1>3. ASSUME UNCHANGED <<vault, written>>, ProcessesTyped' PROVE TypesOK'
  BY <1>1, <1>2, <1>3 DEF TypesOK, FilesTyped, CountsTyped, OperatorsStay
<1>4. sess[w].loc \in Places
  BY <1>1 DEF TypesOK, ProcessesTyped
<1>5. CASE Open(w) \/ OpenAndPreflight(w)
  <2>1. PICK l \in Places : sess' = [sess EXCEPT ![w] = [loc |-> l, under |-> pointer = l]]
    <3>1. Home \in Places
      BY <1>1, HomePlace
    <3>2. QED
      BY <1>5, <3>1 DEF Open, OpenAndPreflight, Alone
  <2>2. PICK u \in BOOLEAN : u = (pointer = l)
    OBVIOUS
  <2>3. [loc |-> l, under |-> u] \in [loc : Places, under : BOOLEAN]
    OBVIOUS
  <2>4. sess' = [sess EXCEPT ![w] = [loc |-> l, under |-> u]]
    BY <2>1, <2>2
  <2>5. sess' \in [Writers -> [loc : Places, under : BOOLEAN]]
    BY <1>1, <2>3, <2>4 DEF TypesOK, ProcessesTyped
  <2>6. wpc' \in [Writers -> {"closed", "open", "ready", "write"}] /\ UNCHANGED <<lock, vault, written>>
    BY <1>1, <1>5 DEF Open, OpenAndPreflight, TypesOK, ProcessesTyped
  <2>7. ProcessesTyped'
    BY <1>1, <2>5, <2>6 DEF TypesOK, ProcessesTyped, OperatorsStay, operator
  <2>8. QED
    BY <1>3, <2>6, <2>7
<1>6. CASE Preflight(w) \/ LockAndCheck(w) \/ GiveUp(w)
  <2>1. ProcessesTyped'
    BY <1>1, <1>4, <1>6
       DEF Preflight, LockAndCheck, GiveUp, TypesOK, ProcessesTyped, OperatorsStay, operator
  <2>2. UNCHANGED <<vault, written>>
    BY <1>6 DEF Preflight, LockAndCheck, GiveUp
  <2>3. QED
    BY <1>3, <2>1, <2>2
<1>7. CASE Write(w)
  <2>1. PICK l \in Places : l = sess[w].loc
    BY <1>4
  <2>2. /\ written < MaxRevision /\ written' = written + 1
        /\ SetVault(l, (vault[l] \ InUnit(vault[l], "refs"))
                       \cup {Object(written + 1), Current(written + 1)})
        /\ lock' = [lock EXCEPT ![l] = Nobody] /\ wpc' = [wpc EXCEPT ![w] = "open"]
        /\ sess' = sess
    BY <1>7, <2>1 DEF Write
  <2>3. written + 1 \in 1 .. MaxRevision
    BY <1>1, <2>2, RelocationAssumption DEF TypesOK, CountsTyped
  <2>4. Object(written + 1) \in Files /\ Current(written + 1) \in Files
    BY <2>3 DEF Files
  <2>5. vault[l] \in SUBSET Files
    BY <1>1 DEF TypesOK, FilesTyped
  <2>6. vault' \in [Places -> SUBSET Files]
    BY <1>1, <2>2, <2>4, <2>5, VaultTyped
  <2>7. FilesTyped' /\ CountsTyped'
    BY <1>1, <2>2, <2>3, <2>6 DEF TypesOK, FilesTyped, CountsTyped, OperatorsStay
  <2>8. ProcessesTyped'
    BY <1>1, <2>2 DEF TypesOK, ProcessesTyped, OperatorsStay, operator
  <2>9. QED
    BY <1>2, <2>7, <2>8 DEF TypesOK
<1>8. QED
  BY <1>5, <1>6, <1>7 DEF WriterStep

LEMMA PlanTyped ==
  ASSUME Alone, IndInv, NEW t \in Txs, NEW e \in Externals, PlanOut(t, e) \/ PlanBack(t, e)
  PROVE  TypesOK'
<1>1. TypesOK
  BY DEF IndInv
<1>2. CurrentOf(Home) = written /\ written \in 1 .. MaxRevision
  BY <1>1, HomeVault DEF IndInv, StoreInv, TypesOK, CountsTyped
<1>3. \A l \in Places : vault[l] \in SUBSET Files
  BY <1>1 DEF TypesOK, FilesTyped
<1>4. PICK P \in Plans : plan' = [plan EXCEPT ![t] = P]
  <2>1. CASE PlanOut(t, e)
    <3>1. Home = "local" /\ "local" \in Places /\ e \in Places
      BY <2>1, NamesAssumption DEF PlanOut, Home, Places
    <3>2. [dir |-> "out", source |-> "local", dest |-> e,
           base |-> CurrentOf("local"), entries |-> vault["local"]] \in Plans
      BY <1>2, <1>3, <3>1 DEF Plans
    <3>3. QED
      BY <2>1, <3>2 DEF PlanOut
  <2>2. CASE PlanBack(t, e)
    <3>1. check_custody(e) /\ e \in Places /\ "local" \in Places
      BY <2>2 DEF PlanBack, Places
    <3>2. Home = e
      BY <1>1, <3>1, CustodyIsHome DEF IndInv, StoreInv
    <3>3. [dir |-> "back", source |-> e, dest |-> "local",
           base |-> CurrentOf(e), entries |-> vault[e]] \in Plans
      BY <1>2, <1>3, <3>1, <3>2 DEF Plans
    <3>4. QED
      BY <2>2, <3>3 DEF PlanBack
  <2>3. QED
    BY <2>1, <2>2
<1>5. plan' \in [Txs -> Plans]
  BY <1>1, <1>4 DEF TypesOK, MovesTyped
<1>6. UNCHANGED <<files, journal, lock, operator, writer, moves, failures>>
  BY DEF PlanOut, PlanBack
<1>7. QED
  BY <1>1, <1>5, <1>6
     DEF TypesOK, FilesTyped, MovesTyped, ProcessesTyped, CountsTyped, files, operator, writer

-----------------------------------------------------------------------------
(* The invariant.                                                          *)

LEMMA InitOK ==
  ASSUME Init
  PROVE  IndInv
<1> USE DEF Init
<1>1. "local" \in Places /\ Home = "local" /\ Whole(1) \subseteq Files
  <2>1. 1 \in 1 .. MaxRevision
    BY RelocationAssumption
  <2>2. \A i \in 1 .. 1 : i = 1
    OBVIOUS
  <2>3. Whole(1) \subseteq Files
    BY <2>1, <2>2 DEF Whole, Files
  <2>4. QED
    BY <2>3, NamesAssumption DEF Places, Home
<1>2. FilesTyped
  BY <1>1 DEF FilesTyped, Pointers
<1>3. MovesTyped
  BY DEF MovesTyped, Plans, Journals
<1>4. ProcessesTyped
  BY <1>1 DEF ProcessesTyped, Steps
<1>5. CountsTyped
  BY RelocationAssumption DEF CountsTyped
<1>6. HomeOK
  BY <1>1, FileNames DEF HomeOK, InUnit, Whole
<1>7. \A t \in Txs : journal[t].stage = "absent" /\ plan[t] = NoPlan
  BY DEF NoJournal
<1>8. \A t \in Txs : Finished(t) /\ ~Uncommitted(t) /\ ~Committed(t) /\ t \notin Moved
  BY <1>7 DEF Finished, Uncommitted, Committed, Moved
<1>9. PlansOK /\ StagesOK /\ MovesOK /\ LastOK
  BY <1>7, <1>8 DEF PlansOK, StagesOK, MovesOK, LastOK
<1>10. DirsOK
  BY NamesAssumption DEF DirsOK, Places
<1>11. ReceiptsOK
  <2>1. \A t \in Txs, l \in Places : Receipt(t) \notin vault[l]
    BY <1>1, FileNames DEF Whole
  <2>2. QED
    BY <1>7, <2>1 DEF ReceiptsOK
<1>12. OperatorsOK /\ WritersOK
  BY NamesAssumption DEF OperatorsOK, WritersOK
<1>13. QED
  BY <1>2, <1>3, <1>4, <1>5, <1>6, <1>9, <1>10, <1>11, <1>12 DEF IndInv, TypesOK, StoreInv

LEMMA StepSafe ==
  ASSUME Alone, IndInv, NEW p \in Operators, Step(p), UNCHANGED <<plan, writer>>
  PROVE  Safe' /\ Typed'
<1>1. Typed'
  BY FilesStepTyped, GoingTyped, Zenon DEF Step
<1>2. Safe'
  <2>1. CASE CommitLock(p) \/ Stage(p) \/ JournalReceipt(p) \/ PublishOut(p) \/ PublishUnit(p)
    BY <2>1, CommitLockSafe, StageSafe, JournalReceiptSafe, PublishOutSafe, PublishUnitSafe
  <2>2. CASE PublishedUnits(p) \/ JournalPublished(p) \/ Mark(p) \/ MovePointer(p)
             \/ JournalPointer(p)
    BY <2>2, PublishedUnitsSafe, JournalPublishedSafe, MarkSafe, MovePointerSafe,
       JournalPointerSafe
  <2>3. CASE VerifyLocal(p) \/ Cleanup(p) \/ CleanupBlocked(p) \/ JournalCleaned(p)
             \/ ReconcileLock(p)
    BY <2>3, VerifyLocalSafe, CleanupSafe, Refusing, JournalCleanedSafe, ReconcileLockSafe
       DEF CleanupBlocked
  <2>4. CASE ReconcileOutStaging(p) \/ ReconcileOutPointed(p) \/ ReconcileOutPublished(p)
             \/ ReconcileBackStaging(p) \/ ReconcileBackRemoved(p)
    BY <2>4, ReconcileOutStagingSafe, ReconcileOutPointedSafe, ReconcileOutPublishedSafe,
       ReconcileBackStagingSafe, ReconcileBackRemovedSafe
  <2>5. CASE ReconcileBackPublished(p) \/ ReconcileMoved(p) \/ Remove(p) \/ JournalAborted(p)
    BY <2>5, ReconcileBackPublishedSafe, ReconcileMovedSafe, RemoveSafe, JournalAbortedSafe
  <2>6. QED
    BY <2>1, <2>2, <2>3, <2>4, <2>5 DEF Step
<1>3. QED
  BY <1>1, <1>2

LEMMA FailSafe ==
  ASSUME Alone, IndInv, NEW p \in Operators, Fail(p), UNCHANGED <<plan, writer>>
  PROVE  Safe' /\ Typed' /\ failures < MaxFailures
<1>1. Typed'
  BY FilesStepTyped DEF Fail
<1>2. Safe'
  BY StageFailsSafe, CrashSafe DEF Fail
<1>3. QED
  BY <1>1, <1>2 DEF Fail, StageFails, Crash

LEMMA NextKeeps ==
  ASSUME Alone, IndInv, [Next]_vars
  PROVE  IndInv'
<1>1. TypesOK
  BY DEF IndInv
<1>2. ASSUME TypesOK', Safe' PROVE IndInv'
  BY <1>2 DEF Safe, IndInv
<1>3. CASE UNCHANGED vars
  <2>1. QuietStep /\ Home' = Home /\ UNCHANGED vars
    BY <1>3 DEF vars, QuietStep, Home
  <2>2. StoreInv'
    BY <2>1, QuietKeeps DEF IndInv
  <2>3. TypesOK'
    BY <1>1, <1>3 DEF vars, TypesOK, FilesTyped, MovesTyped, ProcessesTyped, CountsTyped
  <2>4. WritersOK'
    BY <1>3, <2>1 DEF vars, IndInv, WritersOK
  <2>5. OperatorsStay
    BY <1>3 DEF vars, OperatorsStay, operator
  <2>6. OperatorsOK'
    BY <1>3, <2>5, OperatorsKept DEF vars
  <2>7. QED
    BY <2>2, <2>3, <2>4, <2>6 DEF IndInv
<1>4. CASE \E t \in Txs, e \in Externals : PlanOut(t, e) \/ PlanBack(t, e)
  BY <1>2, <1>4, PlanSafe, PlanTyped
<1>5. CASE \E p \in Operators :
             /\ \/ (Call(p) \/ Step(p)) /\ UNCHANGED failures
                \/ Fail(p) /\ failures' = failures + 1
             /\ UNCHANGED <<plan, writer>>
  <2>1. PICK p \in Operators :
          /\ \/ (Call(p) \/ Step(p)) /\ UNCHANGED failures
             \/ Fail(p) /\ failures' = failures + 1
          /\ UNCHANGED <<plan, writer>>
    BY <1>5
  <2>2. Safe' /\ Typed' /\ (failures' = failures \/ (failures' = failures + 1 /\ failures < MaxFailures))
    BY <2>1, CallSafe, CallTyped, StepSafe, FailSafe
  <2>3. CountsTyped'
    BY <1>1, <2>1, <2>2, RelocationAssumption DEF TypesOK, CountsTyped, writer
  <2>4. QED
    BY <1>2, <2>2, <2>3 DEF Typed, TypesOK
<1>6. CASE \E w \in Writers :
             /\ WriterStep(w)
             /\ UNCHANGED <<dirs, staging, pointer, plan, journal, operator, moves, failures>>
  BY <1>2, <1>6, WriterSafe, WriterTyped DEF OperatorsStay
<1>7. QED
  BY <1>3, <1>4, <1>5, <1>6 DEF Next

\* At every moment, in every crash window, the moves are where their journals and
\* the pointer say, and every process holds the locks that its next step relies on.
THEOREM RelocationInvariant ==
  ASSUME Alone
  PROVE  Spec => []IndInv
<1>1. Init => IndInv
  BY InitOK
<1>2. IndInv /\ [Next]_vars => IndInv'
  BY NextKeeps
<1>3. QED
  BY <1>1, <1>2, PTL DEF Spec

\* The root a bare command resolves to (resolve_store_root) holds every committed
\* revision, through every move, crash and reconciliation.
THEOREM AuthorityAlwaysComplete ==
  ASSUME Alone
  PROVE  Spec => []AuthorityComplete
<1>1. IndInv => AuthorityComplete
  BY DEF IndInv, StoreInv, HomeOK, AuthorityComplete
<1>2. QED
  BY <1>1, RelocationInvariant, PTL

\* A move that commit_relocation, commit_back or a reconciliation aborts leaves
\* neither its staging directory nor its copy.
THEOREM AbortsLeaveNothing ==
  ASSUME Alone
  PROVE  Spec => []AbortLeavesNothing
<1>1. IndInv => AbortLeavesNothing
  <2> SUFFICES ASSUME IndInv, NEW t \in Txs, journal[t].stage = "aborted"
               PROVE  staging[t] = {} /\ \A l \in Places : Receipt(t) \notin vault[l]
    BY DEF AbortLeavesNothing
  <2>1. Finished(t) /\ t \notin Moved
    BY DEF IndInv, StoreInv, StagesOK, Finished
  <2>2. QED
    BY <2>1 DEF IndInv, StoreInv, ReceiptsOK
<1>2. QED
  BY <1>1, RelocationInvariant, PTL

\* _cleanup has emptied the source of the last move when no move is under way.
THEOREM OriginsEmptied ==
  ASSUME Alone
  PROVE  Spec => []OriginEmptied
<1>1. IndInv => OriginEmptied
  <2> SUFFICES ASSUME IndInv, moves # <<>>, \A t \in Txs : Finished(t)
               PROVE  ~vault_present(plan[Last].source)
    BY DEF OriginEmptied, Last
  <2>1. Last \in Txs /\ \A t \in Txs : ~Uncommitted(t)
    BY LastIs DEF IndInv, Finished, Uncommitted
  <2>2. vault[plan[Last].source] = {}
    BY <2>1 DEF IndInv, StoreInv, LastOK
  <2>3. QED
    BY <2>2 DEF vault_present, CurrentOf, InUnit
<1>2. QED
  BY <1>1, RelocationInvariant, PTL

-----------------------------------------------------------------------------
(* One vault that moves and advances.                                      *)

LEMMA CustodyStep ==
  ASSUME Alone, IndInv, IndInv', [Next]_vars
  PROVE  [C!CustodyNext]_(C!custodyVars)
<1>1. CurrentOf(Home) = written /\ CurrentOf(Home)' = written' /\ Home' \in Places
  <2>1. CurrentOf(Home) = written
    BY HomeVault DEF IndInv, StoreInv
  <2>2. PICK h \in Places : h = Home'
    BY DEF IndInv, TypesOK, FilesTyped, Home, Places
  <2>3. InUnit(vault'[h], "refs") = {Current(written')} /\ written' \in Nat \ {0}
    <3>1. written' \in 1 .. MaxRevision
      BY DEF IndInv, TypesOK, CountsTyped
    <3>2. written' \in Nat \ {0}
      BY <3>1, RelocationAssumption
    <3>3. QED
      BY <2>2, <3>2 DEF IndInv, StoreInv, HomeOK, InUnit
  <2>4. CurrentOf(Home)' = written'
    <3>1. (CHOOSE f \in InUnit(vault'[h], "refs") : TRUE) = Current(written')
      BY <2>3
    <3>2. Current(written')[2] = written'
      BY FileNames
    <3>3. QED
      BY <2>2, <2>3, <3>1, <3>2 DEF CurrentOf, InUnit
  <2>5. QED
    BY <2>1, <2>2, <2>4
<1>2. CASE written' = written
  BY <1>1, <1>2 DEF C!CustodyNext, C!Move
<1>3. CASE written' # written
  <2>1. PICK w \in Writers : Write(w) /\ OperatorsStay
    BY <1>3 DEF Next, vars, WriterStep, writer, PlanOut, PlanBack, Open, Preflight,
       OpenAndPreflight, LockAndCheck, GiveUp, OperatorsStay
  <2>2. written' = written + 1 /\ Home' = Home
    BY <2>1 DEF Write, OperatorsStay, Home
  <2>3. QED
    BY <1>1, <2>2 DEF C!CustodyNext, C!Advance
<1>4. QED
  BY <1>2, <1>3

\* The moves and the writers together implement one vault: it is at one place, a
\* write advances it where it is, and a move changes the place alone.
THEOREM RelocationImplementsCustody ==
  ASSUME Alone
  PROVE  Spec => ImplementsCustody
<1>1. Init => C!CustodyInit
  <2> SUFFICES ASSUME Init PROVE Home = "local" /\ CurrentOf(Home) = 1
    BY DEF C!CustodyInit
  <2>1. IndInv
    BY InitOK
  <2>2. CurrentOf(Home) = written
    BY <2>1, HomeVault DEF IndInv, StoreInv
  <2>3. QED
    BY <2>2, NamesAssumption DEF Init, Home
<1>2. IndInv /\ IndInv' /\ [Next]_vars => [C!CustodyNext]_(C!custodyVars)
  BY CustodyStep
<1>3. QED
  BY <1>1, <1>2, RelocationInvariant, PTL DEF Spec, ImplementsCustody, C!CustodySpec
=============================================================================

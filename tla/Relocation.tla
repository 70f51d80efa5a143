----------------------------- MODULE Relocation -----------------------------
(***************************************************************************)
(* Moving the vault of a project: relocate.py (project to external root),  *)
(* relocate_back.py (external root to project), the pointer and the custody *)
(* checks of custody.py, and the writers that must never write to a vault  *)
(* that is no longer, or not yet, the authority.                           *)
(*                                                                         *)
(* A vault is the set of its files, and a file is <<subtree, content>>, so *)
(* "the planned file with its planned bytes" is membership.  The commits   *)
(* of Transactions are one step here: they add an object and replace       *)
(* CURRENT.  Revisions are numbered in the order they were written,        *)
(* wherever they were written.                                             *)
(*                                                                         *)
(* Processes die and calls raise at every step; a power loss is left to    *)
(* Transactions.                                                           *)
(***************************************************************************)
EXTENDS Naturals, Sequences

CONSTANTS Operators,    \* processes that run relocate commands
          Writers,      \* processes that write to the store
          Externals,    \* directories a vault can be moved to
          Txs,          \* transaction ids of moves
          Nobody, NoPointer,
          OneAtATime,   \* operators finish a move before they start another
          KeepNamed,    \* a process may keep a store it opened by flag or env
          MaxRevision,  \* bound: revisions written
          MaxFailures   \* bound: process deaths and exceptions

ASSUME RelocationAssumption ==
    /\ OneAtATime \in BOOLEAN
    /\ KeepNamed \in BOOLEAN
    /\ MaxRevision \in Nat \ {0}
    /\ MaxFailures \in Nat

\* The names of processes, places and pointers are different things.
ASSUME NamesAssumption ==
    /\ Nobody \notin Operators \cup Writers /\ Operators \cap Writers = {}
    /\ NoPointer \notin Externals \cup {"torn"} /\ {"local", "torn"} \cap Externals = {}

VARIABLES
    vault,     \* the files under each root
    dirs,      \* the external roots that exist
    staging,   \* the files in the staging directory of each move
    pointer,   \* .an-kla/store-root.txt
    plan,      \* the plan of each move
    journal,   \* .an-kla/relocations/<txid>.json
    lock,      \* who holds the identity and write locks of each root
    pc, cmd,   \* where each operator is, and its command
    wpc, sess, \* where each writer is, and the store it opened
    written,   \* the last revision written
    moves,     \* history: the moves whose commit point has passed, in order
    failures

files == <<vault, dirs, staging, pointer>>
operator == <<pc, cmd>>
writer == <<wpc, sess, written>>
vars == <<vault, dirs, staging, pointer, plan, journal, lock, pc, cmd, wpc, sess,
          written, moves, failures>>

-----------------------------------------------------------------------------
(* Files, subtrees, vaults.                                                *)

Places == Externals \cup {"local"}

Current(r) == <<"refs", r>>
Object(r) == <<"objects", r>>
Receipt(t) == <<"receipts", t>>
Identity == <<"identity", 0>>

\* _units: the subtrees of a vault, in the order they are published.
Units == <<"refs", "objects", "identity", "receipts">>

UnitNames == {Units[i] : i \in DOMAIN Units}

InUnit(S, u) == {f \in S : f[1] = u}

Files == {Current(r) : r \in 1..MaxRevision} \cup {Object(r) : r \in 1..MaxRevision}
         \cup {Receipt(t) : t \in Txs} \cup {Identity}

\* What a verified vault at revision r holds.
Whole(r) == {Identity, Current(r)} \cup {Object(i) : i \in 1..r}

\* _raw_current: the revision CURRENT names, 0 when there is none.
CurrentOf(l) ==
    IF InUnit(vault[l], "refs") = {} THEN 0
    ELSE (CHOOSE f \in InUnit(vault[l], "refs") : TRUE)[2]

\* store.verify.
Verified(l) == CurrentOf(l) # 0 /\ Whole(CurrentOf(l)) \subseteq vault[l]

vault_present(l) == Identity \in vault[l] \/ CurrentOf(l) # 0

-----------------------------------------------------------------------------
(* Custody.                                                                *)

\* read_pointer: none, a root, or "torn" (store_root_pointer_invalid).
Pointers == Externals \cup {NoPointer, "torn"}

\* resolve_store_root without flag or environment.
Home == IF pointer \in Externals THEN pointer ELSE "local"

\* check_custody, for a store opened at l whose identity can be read.
check_custody(l) ==
    \/ pointer = NoPointer /\ (l = "local" \/ ~vault_present("local"))
    \/ /\ pointer \in Externals /\ l \in Externals
       /\ pointer = l \/ ~vault_present(pointer)

\* custody_pointer_present, for a store opened at l; "under" says whether the
\* pointer named l when it was opened.
custody_pointer_present(l, under) ==
    IF l = "local" THEN pointer # NoPointer ELSE under /\ pointer # l

-----------------------------------------------------------------------------
(* Plans and journals.                                                     *)

NoPlan == [dir |-> "none"]

Plans == {NoPlan} \cup [dir : {"out", "back"}, source : Places, dest : Places,
                        base : 1..MaxRevision, entries : SUBSET Files]

Stages == {"staging", "published", "pointer_moved", "cleaned", "aborted"}

\* removing is pointer_removal_started; pointer_moved stands for
\* pointer_written on the way out and pointer_removed on the way back.
NoJournal == [stage |-> "absent", receipt |-> FALSE, removing |-> FALSE]

Journals == {NoJournal} \cup [stage : Stages, receipt : BOOLEAN, removing : BOOLEAN]

Finished(t) == journal[t].stage \in {"absent", "cleaned", "aborted"}

\* The copy a move publishes: the planned files and its own receipt.
Copy(t) == plan[t].entries \cup {Receipt(t)}

\* _destination_receipt is this move's: the vault at the destination is
\* exactly the planned copy.
DestinationIsCopy(t) == plan[t].dest \in dirs /\ vault[plan[t].dest] = Copy(t)

\* _published_matches.
PublishedMatches(t) == Copy(t) \subseteq vault["local"]

\* plan_relocation, from a verified project-local vault to a free directory.
PlanOut(t, e) ==
    /\ plan[t] = NoPlan
    /\ pointer = NoPointer /\ e \notin dirs
    /\ lock["local"] = Nobody /\ Verified("local")
    /\ plan' = [plan EXCEPT ![t] =
         [dir |-> "out", source |-> "local", dest |-> e,
          base |-> CurrentOf("local"), entries |-> vault["local"]]]
    /\ UNCHANGED <<files, journal, lock, operator, writer, moves, failures>>

\* plan_back, from a verified external vault to a project with none of its
\* subtrees.
PlanBack(t, e) ==
    /\ plan[t] = NoPlan
    /\ pointer # NoPointer /\ check_custody(e)
    /\ lock[e] = Nobody /\ Verified(e)
    /\ vault["local"] = {}
    /\ plan' = [plan EXCEPT ![t] =
         [dir |-> "back", source |-> e, dest |-> "local",
          base |-> CurrentOf(e), entries |-> vault[e]]]
    /\ UNCHANGED <<files, journal, lock, operator, writer, moves, failures>>

-----------------------------------------------------------------------------
(* The command an operator runs.                                           *)

Idle == [tx |-> "none"]

Commands == [tx : Txs, mode : {"commit", "reconcile"}, abort : BOOLEAN, j : Journals]

Tx(p) == cmd[p].tx
Plan(p) == plan[Tx(p)]
Out(p) == Plan(p).dir = "out"
J(p) == cmd[p].j

Goto(p, next) == pc' = [pc EXCEPT ![p] = next] /\ UNCHANGED lock

\* The call returns or raises: its locks are free and nothing else changes.
Release(p) ==
    /\ pc' = [pc EXCEPT ![p] = "idle"]
    /\ lock' = [l \in Places |-> IF lock[l] = p THEN Nobody ELSE lock[l]]
    /\ cmd' = [cmd EXCEPT ![p] = Idle]

Refuse(p) == Release(p) /\ UNCHANGED <<files, journal, moves>>

\* _write_journal: the journal in memory reaches the disk.
WriteJournal(p, j) ==
    /\ journal' = [journal EXCEPT ![Tx(p)] = j]
    /\ cmd' = [cmd EXCEPT ![p].j = j]

\* The last write of a call.
CloseJournal(p, stage) ==
    /\ journal' = [journal EXCEPT ![Tx(p)] = [J(p) EXCEPT !.stage = stage]]
    /\ Release(p)

\* _discard_staging.
DiscardStaging(p) == staging' = [staging EXCEPT ![Tx(p)] = {}]

SetVault(l, S) == vault' = [vault EXCEPT ![l] = S]

-----------------------------------------------------------------------------
(* commit_relocation and commit_back.                                      *)

\* The first _replay, before the locks: a move with a journal is answered
\* from it.
Commit(p, t) ==
    /\ pc[p] = "idle" /\ plan[t] # NoPlan /\ journal[t] = NoJournal
    /\ OneAtATime => \A u \in Txs : Finished(u)
    /\ cmd' = [cmd EXCEPT ![p] =
         [tx |-> t, mode |-> "commit", abort |-> FALSE, j |-> NoJournal]]
    /\ Goto(p, "commit_lock")
    /\ UNCHANGED <<files, journal, moves>>

\* Mutant: the planned files are not compared with the source again.
CommitAcceptedUnchecked(p) ==
    LET P == Plan(p)
    IN  /\ journal[Tx(p)] = NoJournal
        /\ check_custody(P.source)
        /\ IF P.dir = "out" THEN pointer = NoPointer /\ P.dest \notin dirs
           ELSE pointer # NoPointer /\ vault["local"] = {}

\* What is asked again under the locks.
CommitAccepted(p) ==
    LET P == Plan(p)
    IN  /\ journal[Tx(p)] = NoJournal
        /\ check_custody(P.source)
        /\ vault[P.source] = P.entries
        /\ IF P.dir = "out" THEN pointer = NoPointer /\ P.dest \notin dirs
           ELSE pointer # NoPointer /\ vault["local"] = {}

CommitLock(p) ==
    /\ pc[p] = "commit_lock" /\ lock[Plan(p).source] = Nobody
    /\ \/ /\ CommitAccepted(p)
          /\ lock' = [lock EXCEPT ![Plan(p).source] = p]
          /\ pc' = [pc EXCEPT ![p] = "stage"]
          /\ WriteJournal(p, [NoJournal EXCEPT !.stage = "staging"])
          /\ UNCHANGED <<files, moves>>
       \/ ~CommitAccepted(p) /\ Refuse(p)

\* _copy_to_staging and the receipt, then verify; the way back journals the
\* receipt before it publishes anything.
Stage(p) ==
    /\ pc[p] = "stage"
    /\ staging' = [staging EXCEPT ![Tx(p)] = Copy(Tx(p))]
    /\ cmd' = [cmd EXCEPT ![p].j.receipt = TRUE]
    /\ Goto(p, IF Out(p) THEN "publish" ELSE "journal_receipt")
    /\ UNCHANGED <<vault, dirs, pointer, journal, moves>>

JournalReceipt(p) ==
    /\ pc[p] = "journal_receipt"
    /\ WriteJournal(p, J(p))
    /\ Goto(p, "publish")
    /\ UNCHANGED <<files, moves>>

\* Mutant: a failed move is aborted and its staging directory stays.
StageFailsKeeps(p) ==
    /\ pc[p] \in {"stage", "journal_receipt"} \/ (pc[p] = "publish" /\ Out(p))
    /\ failures < MaxFailures
    /\ CloseJournal(p, "aborted")
    /\ UNCHANGED <<files, moves>>

\* An exception before anything is published: the staging directory goes and
\* the move is aborted.
StageFails(p) ==
    /\ pc[p] \in {"stage", "journal_receipt"} \/ (pc[p] = "publish" /\ Out(p))
    /\ failures < MaxFailures
    /\ DiscardStaging(p)
    /\ CloseJournal(p, "aborted")
    /\ UNCHANGED <<vault, dirs, pointer, moves>>

\* _publish: one rename that never replaces.
PublishOut(p) ==
    /\ pc[p] = "publish" /\ Out(p)
    /\ IF Plan(p).dest \in dirs
       THEN CloseJournal(p, "aborted") /\ UNCHANGED <<vault, dirs>>
       ELSE /\ SetVault(Plan(p).dest, staging[Tx(p)])
            /\ dirs' = dirs \cup {Plan(p).dest}
            /\ Goto(p, "journal_published")
            /\ UNCHANGED <<journal, cmd>>
    /\ DiscardStaging(p)
    /\ UNCHANGED <<pointer, moves>>

\* _publish_units: the first subtree that is not yet only at the destination
\* is renamed there; a subtree that is at both places, or at neither, raises.
Pending(t) ==
    {i \in DOMAIN Units :
        /\ InUnit(Copy(t), Units[i]) # {}
        /\ InUnit(staging[t], Units[i]) # {} \/ InUnit(vault["local"], Units[i]) = {}}

PublishUnit(p) ==
    /\ pc[p] = "publish" /\ ~Out(p) /\ Pending(Tx(p)) # {}
    /\ LET first == CHOOSE i \in Pending(Tx(p)) : \A k \in Pending(Tx(p)) : i <= k
           u     == Units[first]
           moved == InUnit(staging[Tx(p)], u)
       IN  IF moved = {} \/ InUnit(vault["local"], u) # {}
           THEN Refuse(p)
           ELSE /\ SetVault("local", vault["local"] \cup moved)
                /\ staging' = [staging EXCEPT ![Tx(p)] = @ \ moved]
                /\ UNCHANGED <<dirs, pointer, journal, lock, operator, moves>>

PublishedUnits(p) ==
    /\ pc[p] = "publish" /\ ~Out(p) /\ Pending(Tx(p)) = {}
    /\ DiscardStaging(p)
    /\ Goto(p, "journal_published")
    /\ UNCHANGED <<vault, dirs, pointer, journal, cmd, moves>>

JournalPublished(p) ==
    /\ pc[p] = "journal_published"
    /\ WriteJournal(p, [J(p) EXCEPT !.stage = "published"])
    /\ Goto(p, IF cmd[p].mode = "reconcile" THEN "reconcile"
               ELSE IF Out(p) THEN "pointer" ELSE "mark")
    /\ UNCHANGED <<files, moves>>

-----------------------------------------------------------------------------
(* The commit point and what follows it: the end of commit_relocation, and *)
(* _finish of relocate_back.                                               *)

\* The intent to remove the pointer is journaled first.
Mark(p) ==
    /\ pc[p] = "mark"
    /\ IF PublishedMatches(Tx(p))
       THEN /\ WriteJournal(p, [J(p) EXCEPT !.removing = TRUE])
            /\ Goto(p, "pointer")
            /\ UNCHANGED <<files, moves>>
       ELSE Refuse(p)

\* write_pointer keeps a pointer of the same custody; _remove_pointer removes
\* only the pointer to its own source.
PointerAfter(p) ==
    IF Out(p) THEN IF pointer = NoPointer THEN Plan(p).dest ELSE pointer
    ELSE NoPointer

MovePointer(p) ==
    /\ pc[p] = "pointer"
    /\ IF pointer = "torn" \/ (~Out(p) /\ pointer \notin {NoPointer, Plan(p).source})
       THEN Refuse(p)
       ELSE /\ pointer' = PointerAfter(p)
            /\ moves' = IF pointer' # pointer THEN Append(moves, Tx(p)) ELSE moves
            /\ Goto(p, "journal_pointer")
            /\ UNCHANGED <<vault, dirs, staging, journal, cmd>>

JournalPointer(p) ==
    /\ pc[p] = "journal_pointer"
    /\ WriteJournal(p, [J(p) EXCEPT !.stage = "pointer_moved"])
    /\ Goto(p, IF Out(p) THEN "cleanup" ELSE "verify")
    /\ UNCHANGED <<files, moves>>

\* The project-local vault is verified before the external one is emptied;
\* it may have advanced when the commit point was passed by an earlier call.
VerifyLocal(p) ==
    /\ pc[p] \in {"verify", "verify_moved"}
    /\ IF /\ pointer = NoPointer /\ Verified("local")
          /\ pc[p] = "verify" => CurrentOf("local") = Plan(p).base
       THEN Goto(p, "cleanup") /\ UNCHANGED <<files, journal, cmd, moves>>
       ELSE Refuse(p)

\* _cleanup under the exclusive reader gate: the planned files whose bytes
\* still match are deleted.
Cleanup(p) ==
    /\ pc[p] = "cleanup"
    /\ SetVault(Plan(p).source, vault[Plan(p).source] \ Plan(p).entries)
    /\ Goto(p, "journal_cleaned")
    /\ UNCHANGED <<dirs, staging, pointer, journal, cmd, moves>>

\* relocate_cleanup_readers_active: readers held the gate until the deadline.
CleanupBlocked(p) == pc[p] = "cleanup" /\ Refuse(p)

JournalCleaned(p) ==
    /\ pc[p] = "journal_cleaned"
    /\ CloseJournal(p, "cleaned")
    /\ UNCHANGED <<files, moves>>

-----------------------------------------------------------------------------
(* reconcile_relocation and reconcile_back.                                *)

\* The journal is read before the locks are taken, and not again.
Reconcile(p, t) ==
    /\ pc[p] = "idle" /\ ~Finished(t)
    /\ \E abort \in BOOLEAN :
         cmd' = [cmd EXCEPT ![p] =
           [tx |-> t, mode |-> "reconcile", abort |-> abort, j |-> journal[t]]]
    /\ Goto(p, "reconcile_lock")
    /\ UNCHANGED <<files, journal, moves>>

ReconcileLock(p) ==
    /\ pc[p] = "reconcile_lock" /\ lock[Plan(p).source] = Nobody
    /\ lock' = [lock EXCEPT ![Plan(p).source] = p]
    /\ pc' = [pc EXCEPT ![p] = "reconcile"]
    /\ UNCHANGED <<files, journal, cmd, moves>>

At(p, stage) == pc[p] = "reconcile" /\ J(p).stage = stage

\* Nothing recognizable was published: the move is aborted.
ReconcileOutStaging(p) ==
    /\ At(p, "staging") /\ Out(p)
    /\ IF DestinationIsCopy(Tx(p))
       THEN /\ WriteJournal(p, [J(p) EXCEPT !.stage = "published", !.receipt = TRUE])
            /\ Goto(p, "reconcile")
            /\ UNCHANGED staging
       ELSE DiscardStaging(p) /\ CloseJournal(p, "aborted")
    /\ UNCHANGED <<vault, dirs, pointer, moves>>

\* The pointer of this move is there: its commit point has passed.
ReconcileOutPointed(p) ==
    /\ At(p, "published") /\ Out(p) /\ pointer = Plan(p).dest
    /\ WriteJournal(p, [J(p) EXCEPT !.stage = "pointer_moved"])
    /\ Goto(p, "reconcile")
    /\ UNCHANGED <<files, moves>>

\* Mutant: the copy is published although the source has advanced.
ReconcileOutPublishedStale(p) ==
    /\ At(p, "published") /\ Out(p) /\ pointer # Plan(p).dest
    /\ IF pointer # NoPointer \/ ~(DestinationIsCopy(Tx(p)) /\ J(p).receipt)
       THEN Refuse(p)
       ELSE /\ Goto(p, IF cmd[p].abort THEN "remove" ELSE "pointer")
            /\ UNCHANGED <<files, journal, cmd, moves>>

ReconcileOutPublished(p) ==
    /\ At(p, "published") /\ Out(p) /\ pointer # Plan(p).dest
    /\ IF \/ pointer # NoPointer
          \/ ~(DestinationIsCopy(Tx(p)) /\ J(p).receipt)
          \/ ~cmd[p].abort /\ CurrentOf("local") # Plan(p).base
       THEN Refuse(p)
       ELSE /\ Goto(p, IF cmd[p].abort THEN "remove" ELSE "pointer")
            /\ UNCHANGED <<files, journal, cmd, moves>>

\* The subtrees of this move that are only at the destination.
UnitsPublished(t) ==
    {u \in UnitNames : InUnit(vault["local"], u) # {} /\ InUnit(staging[t], u) = {}
                          /\ InUnit(Copy(t), u) # {}}

ReconcileBackStaging(p) ==
    /\ At(p, "staging") /\ ~Out(p)
    /\ Goto(p, IF ~J(p).receipt \/ cmd[p].abort \/ UnitsPublished(Tx(p)) = {}
               THEN "remove" ELSE "publish")
    /\ UNCHANGED <<files, journal, cmd, moves>>

\* The pointer is gone and this move had said it would remove it.
ReconcileBackRemoved(p) ==
    /\ At(p, "published") /\ ~Out(p) /\ pointer = NoPointer
    /\ IF ~J(p).removing
       THEN Refuse(p)
       ELSE /\ journal' = [journal EXCEPT ![Tx(p)] = [J(p) EXCEPT !.stage = "pointer_moved"]]
            /\ IF cmd[p].abort THEN Release(p)
               ELSE /\ Goto(p, "verify_moved")
                    /\ cmd' = [cmd EXCEPT ![p].j.stage = "pointer_moved"]
            /\ UNCHANGED <<files, moves>>

ReconcileBackPublished(p) ==
    /\ At(p, "published") /\ ~Out(p) /\ pointer # NoPointer
    /\ IF \/ pointer = "torn"
          \/ cmd[p].abort /\ ~PublishedMatches(Tx(p))
          \/ ~cmd[p].abort /\ CurrentOf(Plan(p).source) # Plan(p).base
       THEN Refuse(p)
       ELSE /\ Goto(p, IF cmd[p].abort THEN "remove" ELSE "mark")
            /\ UNCHANGED <<files, journal, cmd, moves>>

\* Mutant: an interrupted cleanup is taken as done.
ReconcileMovedCloses(p) ==
    /\ At(p, "pointer_moved")
    /\ CloseJournal(p, "cleaned")
    /\ UNCHANGED <<files, moves>>

\* Past the commit point a move only goes forward.
ReconcileMoved(p) ==
    /\ At(p, "pointer_moved")
    /\ IF cmd[p].abort THEN Refuse(p)
       ELSE /\ Goto(p, IF Out(p) THEN "cleanup" ELSE "verify_moved")
            /\ UNCHANGED <<files, journal, cmd, moves>>

\* An abort removes the published copy: the whole destination on the way out;
\* on the way back the subtrees, when each of them is a planned copy
\* (_remove_units), and the staging directory.
Removable(p) ==
    IF Out(p) THEN vault[Plan(p).dest]
    ELSE {f \in vault["local"] :
            f[1] \in IF J(p).stage = "staging" THEN UnitsPublished(Tx(p))
                     ELSE UnitNames}

PlannedCopy(p) ==
    Removable(p) \subseteq IF J(p).receipt THEN Copy(Tx(p)) ELSE Plan(p).entries

Remove(p) ==
    /\ pc[p] = "remove"
    /\ IF PlannedCopy(p)
       THEN /\ SetVault(Plan(p).dest, vault[Plan(p).dest] \ Removable(p))
            /\ dirs' = dirs \ {Plan(p).dest}
            /\ DiscardStaging(p)
            /\ Goto(p, "journal_aborted")
            /\ UNCHANGED <<pointer, journal, cmd, moves>>
       ELSE Refuse(p)

JournalAborted(p) ==
    /\ pc[p] = "journal_aborted"
    /\ CloseJournal(p, "aborted")
    /\ UNCHANGED <<files, moves>>

-----------------------------------------------------------------------------
(* A command dies, or an exception ends it, between two steps or inside a  *)
(* step that touches several files.                                        *)

Partial(p) ==
    \/ UNCHANGED files
    \/ /\ pc[p] = "stage"
       /\ \E S \in SUBSET Plan(p).entries : staging' = [staging EXCEPT ![Tx(p)] = S]
       /\ UNCHANGED <<vault, dirs, pointer>>
    \/ /\ pc[p] = "cleanup"
       /\ \E S \in SUBSET Plan(p).entries :
            SetVault(Plan(p).source, vault[Plan(p).source] \ S)
       /\ UNCHANGED <<dirs, staging, pointer>>
    \/ /\ pc[p] = "remove" /\ PlannedCopy(p)
       /\ \E S \in SUBSET Removable(p) :
            SetVault(Plan(p).dest, vault[Plan(p).dest] \ S)
       /\ UNCHANGED <<dirs, staging, pointer>>
    \/ /\ pc[p] = "pointer" /\ Out(p) /\ pointer = NoPointer
       /\ pointer' = "torn"
       /\ UNCHANGED <<vault, dirs, staging>>

Crash(p) ==
    /\ pc[p] # "idle" /\ failures < MaxFailures
    /\ Partial(p)
    /\ Release(p)
    /\ UNCHANGED <<journal, moves>>

-----------------------------------------------------------------------------
(* A writer: MemoryStore(...), then any number of commits through it.      *)

\* A long-lived process opens the store at the root the pointer gives, or at
\* a root named by the flag or the environment.
Open(w) ==
    /\ wpc[w] \in {"closed", "open"}
    /\ \E l \in IF KeepNamed THEN Places ELSE {Home} :
         sess' = [sess EXCEPT ![w] = [loc |-> l, under |-> pointer = l]]
    /\ wpc' = [wpc EXCEPT ![w] = "open"]
    /\ UNCHANGED <<lock, vault, written>>

\* mutation_preflight, before the lock.
Accepted(s) ==
    /\ Verified(s.loc) /\ check_custody(s.loc)
    /\ ~custody_pointer_present(s.loc, s.under)

Preflight(w) ==
    /\ wpc[w] = "open" /\ Accepted(sess[w])
    /\ wpc' = [wpc EXCEPT ![w] = "ready"]
    /\ UNCHANGED <<lock, vault, sess, written>>

\* A single command opens the store at any root and passes the preflight.
OpenAndPreflight(w) ==
    /\ wpc[w] \in {"closed", "open"}
    /\ \E l \in Places :
         LET s == [loc |-> l, under |-> pointer = l]
         IN  Accepted(s) /\ sess' = [sess EXCEPT ![w] = s]
    /\ wpc' = [wpc EXCEPT ![w] = "ready"]
    /\ UNCHANGED <<lock, vault, written>>

\* write_lock, then read_current and assert_unchanged.
LockAndCheck(w) ==
    LET l == sess[w].loc
    IN  /\ wpc[w] = "ready" /\ lock[l] = Nobody
        /\ IF Verified(l) /\ ~custody_pointer_present(l, sess[w].under)
           THEN /\ lock' = [lock EXCEPT ![l] = w]
                /\ wpc' = [wpc EXCEPT ![w] = "write"]
           ELSE wpc' = [wpc EXCEPT ![w] = "open"] /\ UNCHANGED lock
        /\ UNCHANGED <<vault, sess, written>>

\* commit_write_plan: the new object and the new CURRENT.
Write(w) ==
    LET l == sess[w].loc
    IN  /\ wpc[w] = "write" /\ written < MaxRevision
        /\ written' = written + 1
        /\ SetVault(l, (vault[l] \ InUnit(vault[l], "refs"))
                       \cup {Object(written + 1), Current(written + 1)})
        /\ lock' = [lock EXCEPT ![l] = Nobody]
        /\ wpc' = [wpc EXCEPT ![w] = "open"]
        /\ UNCHANGED sess

\* The commit is refused or its process dies: the lock is free.
GiveUp(w) ==
    /\ wpc[w] \in {"ready", "write"}
    /\ lock' = [l \in Places |-> IF lock[l] = w THEN Nobody ELSE lock[l]]
    /\ wpc' = [wpc EXCEPT ![w] = "closed"]
    /\ UNCHANGED <<vault, sess, written>>

-----------------------------------------------------------------------------
\* A store that was initialized in the project, with one revision.
Init ==
    /\ vault = [l \in Places |-> IF l = "local" THEN Whole(1) ELSE {}]
    /\ dirs = {}
    /\ staging = [t \in Txs |-> {}]
    /\ pointer = NoPointer
    /\ plan = [t \in Txs |-> NoPlan]
    /\ journal = [t \in Txs |-> NoJournal]
    /\ lock = [l \in Places |-> Nobody]
    /\ pc = [p \in Operators |-> "idle"]
    /\ cmd = [p \in Operators |-> Idle]
    /\ wpc = [w \in Writers |-> "closed"]
    /\ sess = [w \in Writers |-> [loc |-> "local", under |-> FALSE]]
    /\ written = 1
    /\ moves = <<>>
    /\ failures = 0

Call(p) == \E t \in Txs : Commit(p, t) \/ Reconcile(p, t)

Step(p) ==
    \/ CommitLock(p) \/ Stage(p) \/ JournalReceipt(p)
    \/ PublishOut(p) \/ PublishUnit(p) \/ PublishedUnits(p) \/ JournalPublished(p)
    \/ Mark(p) \/ MovePointer(p) \/ JournalPointer(p)
    \/ VerifyLocal(p) \/ Cleanup(p) \/ CleanupBlocked(p) \/ JournalCleaned(p)
    \/ ReconcileLock(p) \/ ReconcileOutStaging(p) \/ ReconcileOutPointed(p)
    \/ ReconcileOutPublished(p) \/ ReconcileBackStaging(p)
    \/ ReconcileBackRemoved(p) \/ ReconcileBackPublished(p)
    \/ ReconcileMoved(p) \/ Remove(p) \/ JournalAborted(p)

Fail(p) == StageFails(p) \/ Crash(p)

WriterStep(w) ==
    Open(w) \/ Preflight(w) \/ OpenAndPreflight(w) \/ LockAndCheck(w) \/ Write(w) \/ GiveUp(w)

Next ==
    \/ \E t \in Txs, e \in Externals : PlanOut(t, e) \/ PlanBack(t, e)
    \/ \E p \in Operators :
         /\ \/ (Call(p) \/ Step(p)) /\ UNCHANGED failures
            \/ Fail(p) /\ failures' = failures + 1
         /\ UNCHANGED <<plan, writer>>
    \/ \E w \in Writers :
         /\ WriterStep(w)
         /\ UNCHANGED <<dirs, staging, pointer, plan, journal, operator, moves, failures>>

Spec == Init /\ [][Next]_vars

-----------------------------------------------------------------------------
(* What makes a move correct.                                              *)

\* Every variable has its type.
TypeOK ==
    /\ vault \in [Places -> SUBSET Files]
    /\ dirs \subseteq Externals
    /\ staging \in [Txs -> SUBSET Files]
    /\ pointer \in Pointers
    /\ plan \in [Txs -> Plans]
    /\ journal \in [Txs -> Journals]
    /\ lock \in [Places -> Operators \cup Writers \cup {Nobody}]
    /\ cmd \in [Operators -> Commands \cup {Idle}]
    /\ sess \in [Writers -> [loc : Places, under : BOOLEAN]]
    /\ written \in 1..MaxRevision
    /\ moves \in Seq(Txs)
    /\ failures \in 0..MaxFailures

\* An operator past its lock step holds the locks of the source of its move,
\* and a writer inside a commit those of the root it writes to.
LocksHeld ==
    /\ \A p \in Operators :
         pc[p] \notin {"idle", "commit_lock", "reconcile_lock"} => lock[Plan(p).source] = p
    /\ \A w \in Writers : wpc[w] = "write" => lock[sess[w].loc] = w

\* The types of the variables, and the lock discipline.
Exclusive == TypeOK /\ LocksHeld

\* At every moment, in every crash window, the root a bare command resolves
\* to (resolve_store_root) holds every committed revision: nobody wrote to
\* another copy, and nothing of it was deleted.
AuthorityComplete == Whole(written) \subseteq vault[Home]

\* An aborted move leaves neither a staging directory nor its copy.
AbortLeavesNothing ==
    \A t \in Txs : journal[t].stage = "aborted" =>
        staging[t] = {} /\ \A l \in Places : Receipt(t) \notin vault[l]

\* When every move is finished, the source of the last one holds no vault:
\* nothing there that a flag could open, or that a later move back would find
\* in its way.
OriginEmptied ==
    moves # <<>> /\ (\A t \in Txs : Finished(t))
        => ~vault_present(plan[moves[Len(moves)]].source)

\* One vault that moves and advances, and never forks.
C == INSTANCE Custody WITH FirstPlace <- "local", home <- Home, revision <- CurrentOf(Home)

ImplementsCustody == C!CustodySpec
=============================================================================

------------------------------ MODULE Identity ------------------------------
(***************************************************************************)
(* The identity of a store: identity.py, identity_evidence.py and          *)
(* initialization.py.  init creates identity and root revision, adopt      *)
(* gives an identity to a store that has a CURRENT and none, repair        *)
(* resumes either, and ordinary writers are let in once status says        *)
(* complete.                                                               *)
(*                                                                         *)
(* An identity is the pair of UUIDs that _new_objects draws; the           *)
(* transaction id of its root is drawn with it.  A revision is the         *)
(* sequence of the store_identity links of its chain, oldest first, and    *)
(* the empty sequence is a missing CURRENT.  A write of identity.json or   *)
(* project-identity.json with identity i is the object <<"store", i>> or   *)
(* <<"project", i>> of the disk of StoragePrimitives.                      *)
(* Compacted stores, symlinks and the custody pointer are left out.        *)
(***************************************************************************)
EXTENDS StoragePrimitives, Sequences

CONSTANTS Operators,    \* processes that run init, adopt or repair
          Writers,      \* processes that run an ordinary mutation
          Identities,   \* what uuid4 can draw
          Unlinked,     \* a revision without store_identity
          Absent, Torn, \* an intent file that is missing or cannot be parsed
          Nobody,
          MaxRevision,  \* bound: length of a chain
          MaxFaults,    \* bound: writes that fail or are cut short
          MaxOutages    \* bound: power losses

ASSUME IdentityAssumption ==
    /\ MaxRevision \in Nat \ {0}
    /\ MaxFaults \in Nat
    /\ MaxOutages \in Nat

Revs == Seq(Identities \cup {Unlinked})

\* An intent: its operation, identity, CURRENT as captured, and stage.
Intents == [op : {"initialize", "adopt"}, id : Identities, base : Revs,
            stage : {"intent_only", "identities_ready_root_pending", "complete"}]

\* The names of different things are different.
ASSUME NamesAssumption ==
    /\ Unlinked \notin Identities /\ Nobody \notin Operators \cup Identities
    /\ Absent # Torn /\ Absent \notin Intents /\ Torn \notin Intents

VARIABLES
    intent,     \* cell: identity-intent.json
    disk,       \* immutable intents, identity objects and files, receipts, roots
    current,    \* cell: CURRENT
    drawn,      \* identities that were drawn
    plan,       \* the adoption plans that were made: [id, base]
    idlock, wlock,
    pc, mode, job,   \* each operator: step, operation, the intent it works on
    bound,      \* the binding each writer read in its preflight
    acked,      \* history: identities a call reported complete after publishing it
    faults, outages

files == <<intent, disk, current>>
locks == <<idlock, wlock>>
calls == <<pc, mode, job>>
counts == <<faults, outages>>
vars == <<intent, disk, current, drawn, plan, idlock, wlock, pc, mode, job, bound,
          acked, faults, outages>>

-----------------------------------------------------------------------------
(* The state on disk, as the code reads it.                                *)

Core(i) == <<"intent", i>>
Object(i) == <<"identity", i>>
Store(i) == <<"store", i>>
Project(i) == <<"project", i>>
Root(i) == <<"root", i>>
Receipt(op, i, base, again) == <<"receipt", i, op, base, again>>

Present(kind) == {o \in disk.intact \cup disk.torn : o[1] = kind}
Receipts == {o \in disk.intact : o[1] = "receipt"}

HasCurrent == current.seen # <<>>
HasIntent == intent.seen \notin {Absent, Torn}

\* read_binding: the identity whose two files and object agree.
Bound(i) == {Store(i), Project(i), Object(i)} \subseteq disk.intact

\* validate_bound_descendants and _LineageSummary.bound: every revision from
\* the captured one on is linked to i; an adoption captures an unlinked one.
BoundSince(chain, base, i, legacy) ==
    /\ base # <<>> /\ Len(base) <= Len(chain) /\ SubSeq(chain, 1, Len(base)) = base
    /\ \A k \in Len(base) + 1 .. Len(chain) : chain[k] = i
    /\ base[Len(base)] = i \/ (legacy /\ base[Len(base)] = Unlinked)

Protected(i) == {Core(i), Object(i), Store(i), Project(i)}

\* valid_identity_receipt.
ValidReceipts(v, chain) ==
    {r \in Receipts : r[2] = v.id /\ Protected(v.id) \subseteq disk.intact
       /\ BoundSince(chain, r[4], v.id, v.op = "adopt" /\ r[4] = v.base)}

\* The link of CURRENT is the identity, or CURRENT is the adopted base.
Linked(i) ==
    \/ current.seen[Len(current.seen)] = i
    \/ /\ current.seen[Len(current.seen)] = Unlinked
       /\ HasIntent /\ intent.seen.op = "adopt" /\ intent.seen.base = current.seen
       /\ ValidReceipts(intent.seen, current.seen) # {}

identity_status ==
    LET store == Present("store") # {}
        project == Present("project") # {}
        present == intent.seen # Absent
    IN  CASE ~store /\ ~project /\ HasCurrent /\ ~present -> "legacy_unadopted"
          [] ~store /\ ~project /\ present -> "intent_only"
          [] store /\ ~project -> "store_only"
          [] ~store /\ project -> "project_only"
          [] store /\ project ->
               IF \/ intent.seen = Torn \/ ~\E i \in Identities : Bound(i)
                  \/ HasCurrent /\ ~\E i \in Identities : Bound(i) /\ Linked(i)
               THEN "conflict"
               ELSE IF ~HasCurrent THEN "identities_ready_root_pending"
               ELSE IF /\ HasIntent /\ intent.seen.stage = "complete"
                       /\ ValidReceipts(intent.seen, current.seen) # {}
               THEN "complete" ELSE "partial_consistent"
          [] OTHER -> "absent"

-----------------------------------------------------------------------------
(* How a call goes on, returns or raises.                                  *)

Goto(p, next) == pc' = [pc EXCEPT ![p] = next] /\ UNCHANGED <<mode, job, locks>>

\* The call ends: what it held is free.
End(p) ==
    /\ pc' = [pc EXCEPT ![p] = "idle"]
    /\ idlock' = IF idlock = p THEN Nobody ELSE idlock
    /\ wlock' = IF wlock = p THEN Nobody ELSE wlock
    /\ UNCHANGED <<mode, job>>

Fault == faults < MaxFaults /\ faults' = faults + 1 /\ UNCHANGED outages

\* The end of one write: go on, raise OSError, or raise a conflict.
After(p, end, next) ==
    \/ end = "ok" /\ Goto(p, next) /\ UNCHANGED counts
    \/ end = "oserror" /\ End(p) /\ Fault
    \/ end \notin {"ok", "oserror"} /\ End(p) /\ UNCHANGED counts

\* _write_create_or_match and _write_create: other bytes under the name are a
\* conflict, never replaced.
Rivals(o) ==
    IF o[1] \in {"store", "project"} THEN {<<o[1], i>> : i \in Identities \ {o[2]}} ELSE {}

\* Mutant: a file with other bytes is replaced.
CreateOrReplace(o) ==
    IF o \in disk.intact
    THEN {[disk |-> disk, end |-> "ok"], [disk |-> disk, end |-> "oserror"]}
    ELSE Create([disk EXCEPT !.intact = @ \ Rivals(o), !.durable = @ \ Rivals(o),
                             !.torn = @ \ ({o} \cup Rivals(o))], o)

Blocked(o) == o \in disk.torn \/ Rivals(o) \cap (disk.intact \cup disk.torn) # {}
CreateOrMatch(o) ==
    IF o \in disk.intact
    THEN {[disk |-> disk, end |-> "ok"], [disk |-> disk, end |-> "oserror"]}
    ELSE IF Blocked(o)
    THEN {[disk |-> disk, end |-> "identity_bootstrap_conflict"]}
    ELSE Create(disk, o)

Write(p, o, next) ==
    /\ \E r \in CreateOrMatch(o) : disk' = r.disk /\ After(p, r.end, next)
    /\ UNCHANGED <<intent, current, drawn, plan, bound, acked>>

-----------------------------------------------------------------------------
(* The entry of each operation.                                            *)

NewIntent(op, i, base) == [op |-> op, id |-> i, base |-> base, stage |-> "intent_only"]

Begin(p, m, v, next) ==
    /\ mode' = [mode EXCEPT ![p] = m]
    /\ job' = [job EXCEPT ![p] = v]
    /\ pc' = [pc EXCEPT ![p] = next]

\* The intent says complete: init answers from what it reads.
Finished == HasIntent /\ intent.seen.stage = "complete" /\ HasCurrent

\* bootstrap_initialize before its lock: a complete store answers at once, a
\* legacy one is refused.
InitializeCall(p) ==
    /\ pc[p] = "idle" /\ identity_status \notin {"legacy_unadopted", "complete"}
    /\ Begin(p, "initialize", Absent, "lock")
    /\ UNCHANGED <<files, drawn, plan, locks, bound, acked, counts>>

\* bootstrap_initialize under identity_lock: the intent is read again.  A
\* complete one answers, another operation's or an unreadable one raises.
InitializeLock(p) ==
    /\ pc[p] = "lock" /\ idlock = Nobody
    /\ \/ /\ intent.seen = Absent
          /\ \E i \in Identities \ drawn :
               /\ drawn' = drawn \cup {i}
               /\ Begin(p, "initialize", NewIntent("initialize", i, <<>>), "intent")
          /\ idlock' = p
          /\ UNCHANGED wlock
       \/ /\ HasIntent /\ intent.seen.op = "initialize"
          /\ ~Finished
          /\ Begin(p, "initialize", intent.seen, "object")
          /\ idlock' = p
          /\ UNCHANGED <<drawn, wlock>>
       \/ /\ Finished \/ intent.seen = Torn \/ (HasIntent /\ intent.seen.op # "initialize")
          /\ End(p)
          /\ UNCHANGED drawn
    /\ UNCHANGED <<files, plan, bound, acked, counts>>

plan_adoption ==
    /\ identity_status = "legacy_unadopted"
    /\ \E i \in Identities \ drawn :
         /\ drawn' = drawn \cup {i}
         /\ plan' = plan \cup {[id |-> i, base |-> current.seen]}
    /\ UNCHANGED <<files, locks, calls, bound, acked, counts>>

\* adopt under both locks: CURRENT is still the base of the plan, and the
\* intent is new or the one of this very plan.
Adopt(p) ==
    /\ pc[p] = "idle" /\ idlock = Nobody /\ wlock = Nobody
    /\ \E q \in plan :
         /\ current.seen = q.base
         /\ \/ /\ intent.seen = Absent /\ identity_status = "legacy_unadopted"
               /\ Begin(p, "adopt", NewIntent("adopt", q.id, q.base), "intent")
            \/ /\ HasIntent /\ intent.seen.op = "adopt"
               /\ intent.seen.id = q.id /\ intent.seen.base = q.base
               /\ Begin(p, "adopt", intent.seen, "object")
    /\ idlock' = p /\ wlock' = p
    /\ UNCHANGED <<files, drawn, plan, bound, acked, counts>>

\* The operator reads the intent file that it hands to repair.
RepairCall(p) ==
    /\ pc[p] = "idle" /\ HasIntent
    /\ Begin(p, "repair", intent.seen, "repair_lock")
    /\ UNCHANGED <<files, drawn, plan, locks, bound, acked, counts>>

\* repair under identity_lock: only the exact intent that is on disk.
RepairLock(p) ==
    /\ pc[p] = "repair_lock" /\ idlock = Nobody
    /\ IF intent.seen = job[p]
       THEN /\ idlock' = p
            /\ pc' = [pc EXCEPT ![p] = "object"]
            /\ UNCHANGED <<mode, job, wlock>>
       ELSE End(p)
    /\ UNCHANGED <<files, drawn, plan, bound, acked, counts>>

-----------------------------------------------------------------------------
(* _publish_intent and _write_identities.                                  *)

\* write_immutable of the intent on a free name, in place.
CreateIntent(v) ==
    { [cell |-> Cell(v), end |-> "ok"],
      [cell |-> intent, end |-> "oserror"],
      [cell |-> [intent EXCEPT !.seen = Torn], end |-> "oserror"],
      [cell |-> [intent EXCEPT !.seen = v], end |-> "oserror"] }

\* The step after the immutable intent of each stage.
AfterCore == [intent_only |-> "object", identities_ready_root_pending |-> "root",
              complete |-> "return"]

\* Mutant: the replaced intent is not flushed.
PublishUnsynced(p, v) ==
    /\ intent' = [intent EXCEPT !.seen = v]
    /\ job' = [job EXCEPT ![p] = v]
    /\ pc' = [pc EXCEPT ![p] = "core"]
    /\ UNCHANGED <<disk, current, drawn, plan, bound, acked, mode, locks, counts>>

PublishAs(p, v) ==
    /\ \E r \in (IF intent.seen = Absent THEN CreateIntent(v) ELSE AtomicWrite(intent, v)) :
         /\ intent' = r.cell
         /\ IF r.end = "ok"
            THEN /\ job' = [job EXCEPT ![p] = v]
                 /\ pc' = [pc EXCEPT ![p] = "core"]
                 /\ UNCHANGED <<mode, locks, counts>>
            ELSE End(p) /\ Fault
    /\ UNCHANGED <<disk, current, drawn, plan, bound, acked>>

PublishIntent(p) ==
    \/ pc[p] = "intent" /\ PublishAs(p, job[p])
    \/ /\ pc[p] = "ready"
       /\ PublishAs(p, [job[p] EXCEPT !.stage = "identities_ready_root_pending"])
    \/ pc[p] = "complete" /\ PublishAs(p, [job[p] EXCEPT !.stage = "complete"])

WriteCore(p) ==
    /\ pc[p] = "core"
    /\ Write(p, Core(job[p].id), AfterCore[job[p].stage])

\* What follows the identities: init marks them ready, adopt holds the write
\* lock already, repair takes it.
AfterIdentities == [initialize |-> "ready", adopt |-> "sync", repair |-> "root"]

WriteIdentities(p) ==
    LET i == job[p].id
    IN  \/ pc[p] = "object" /\ Write(p, Object(i), "store")
        \/ pc[p] = "store" /\ Write(p, Store(i), "project")
        \/ pc[p] = "project" /\ Write(p, Project(i), AfterIdentities[mode[p]])

-----------------------------------------------------------------------------
(* The root revision, under the write lock.                                *)

\* Mutant: repair asks of CURRENT what init asks of it.
MayCertifyRootOnly(v, m) ==
    IF v.op = "initialize" THEN current.seen = <<v.id>>
    ELSE BoundSince(current.seen, v.base, v.id, TRUE)

\* init accepts only the root (_validate_initialize_current); repair accepts
\* every bound descendant (_require_bound_descendants).
MayCertify(v, m) ==
    IF m = "initialize" THEN current.seen = <<v.id>>
    ELSE IF v.op = "initialize"
    THEN Root(v.id) \in disk.intact /\ BoundSince(current.seen, <<v.id>>, v.id, FALSE)
    ELSE BoundSince(current.seen, v.base, v.id, TRUE)

TakeWriteLock(p) ==
    /\ pc[p] = "root" /\ wlock = Nobody
    /\ IF HasCurrent
       THEN IF MayCertify(job[p], mode[p])
            THEN /\ wlock' = p
                 /\ pc' = [pc EXCEPT ![p] = "sync"]
                 /\ UNCHANGED <<mode, job, idlock>>
            ELSE End(p)
       ELSE IF job[p].op = "initialize"
            THEN /\ wlock' = p
                 /\ pc' = [pc EXCEPT ![p] = "candidate"]
                 /\ UNCHANGED <<mode, job, idlock>>
            ELSE End(p)
    /\ UNCHANGED <<files, drawn, plan, bound, acked, counts>>

\* initialize_locked up to the candidate receipt.
WriteRoot(p) ==
    LET o == Root(job[p].id)
    IN  /\ pc[p] = "candidate"
        /\ \E r \in WriteImmutable(disk, o) :
             /\ disk' = IF r.end = "ok" THEN SyncProtected(r.disk, {o}) ELSE r.disk
             /\ After(p, r.end, "replace")
        /\ UNCHANGED <<intent, current, drawn, plan, bound, acked>>

\* _replace_current; an OSError behind a visible CURRENT is still a commit.
ReplaceCurrent(p) ==
    /\ pc[p] = "replace"
    /\ \E r \in AtomicWrite(current, <<job[p].id>>) :
         /\ current' = r.cell
         /\ \/ After(p, r.end, "sync")
            \/ /\ r.end = "oserror" /\ r.cell.seen = <<job[p].id>>
               /\ Goto(p, "sync") /\ Fault
    /\ UNCHANGED <<intent, disk, drawn, plan, bound, acked>>

-----------------------------------------------------------------------------
(* The receipt and the end of the operation.                               *)

\* Mutant: the receipt is written without the fsyncs it stands for.
SyncSkipped(p) ==
    /\ pc[p] = "sync"
    /\ Goto(p, "receipt")
    /\ UNCHANGED <<files, drawn, plan, bound, acked, counts>>

\* sync_protected of write_identity_receipt.
Sync(p) ==
    /\ pc[p] = "sync"
    /\ \/ /\ CanSync(disk, Protected(job[p].id))
          /\ disk' = SyncProtected(disk, Protected(job[p].id))
          /\ current' = Cell(current.seen)
          /\ Goto(p, "receipt") /\ UNCHANGED counts
       \/ End(p) /\ Fault /\ UNCHANGED <<disk, current>>
    /\ UNCHANGED <<intent, drawn, plan, bound, acked>>

WriteReceipt(p) ==
    /\ pc[p] = "receipt"
    /\ Write(p, Receipt(mode[p], job[p].id, current.seen,
                        ValidReceipts(job[p], current.seen) # {}), "complete")

Return(p) ==
    /\ pc[p] = "return"
    /\ acked' = acked \cup {job[p].id}
    /\ End(p)
    /\ UNCHANGED <<files, drawn, plan, bound, counts>>

\* The process dies between two steps.
Die(p) ==
    /\ pc[p] # "idle" /\ End(p)
    /\ UNCHANGED <<files, drawn, plan, bound, acked, counts>>

-----------------------------------------------------------------------------
(* Ordinary mutations.                                                     *)

\* mutation_preflight, before the write lock.
Preflight(w) ==
    /\ bound[w] = Nobody /\ identity_status = "complete"
    /\ \E i \in Identities : Bound(i) /\ bound' = [bound EXCEPT ![w] = i]
    /\ UNCHANGED <<files, drawn, plan, locks, calls, acked, counts>>

\* assert_unchanged and _completed_adoption_matches: the binding is the one of
\* the preflight, and an unlinked parent is the base of a finished adoption.
Unchanged(i) ==
    /\ Bound(i) /\ HasCurrent /\ Linked(i)
    /\ current.seen[Len(current.seen)] = Unlinked => intent.seen.stage = "complete"

\* assert_unchanged under the write lock, and the commit it guards, whose own
\* steps are those of Transactions.
Commit(w) ==
    /\ bound[w] # Nobody /\ wlock = Nobody
    /\ bound' = [bound EXCEPT ![w] = Nobody]
    /\ IF Unchanged(bound[w])
       THEN /\ Len(current.seen) < MaxRevision
            /\ current' = Cell(Append(current.seen, bound[w]))
       ELSE UNCHANGED current
    /\ UNCHANGED <<intent, disk, drawn, plan, locks, calls, acked, counts>>

-----------------------------------------------------------------------------
IntentsAfterPowerLoss ==
    CellsAfterPowerLoss(intent)
    \cup (IF intent.safe = Absent /\ intent.seen # Absent THEN {Cell(Torn)} ELSE {})

PowerLoss ==
    /\ outages < MaxOutages /\ outages' = outages + 1
    /\ disk' \in DisksAfterPowerLoss(disk)
    /\ intent' \in IntentsAfterPowerLoss
    /\ current' \in CellsAfterPowerLoss(current)
    /\ pc' = [p \in Operators |-> "idle"]
    /\ bound' = [w \in Writers |-> Nobody]
    /\ idlock' = Nobody /\ wlock' = Nobody
    /\ UNCHANGED <<drawn, plan, mode, job, acked, faults>>

\* A new project, or a store from before identities.
Init ==
    /\ intent = Cell(Absent)
    /\ disk = EmptyDisk
    /\ current \in {Cell(<<>>), Cell(<<Unlinked>>)}
    /\ drawn = {} /\ plan = {}
    /\ idlock = Nobody /\ wlock = Nobody
    /\ pc = [p \in Operators |-> "idle"]
    /\ mode = [p \in Operators |-> "initialize"]
    /\ job = [p \in Operators |-> Absent]
    /\ bound = [w \in Writers |-> Nobody]
    /\ acked = {} /\ faults = 0 /\ outages = 0

Step(p) ==
    \/ InitializeCall(p) \/ InitializeLock(p) \/ Adopt(p) \/ RepairCall(p) \/ RepairLock(p)
    \/ PublishIntent(p) \/ WriteCore(p) \/ WriteIdentities(p)
    \/ TakeWriteLock(p) \/ WriteRoot(p) \/ ReplaceCurrent(p)
    \/ Sync(p) \/ WriteReceipt(p) \/ Return(p) \/ Die(p)

Next ==
    \/ \E p \in Operators : Step(p)
    \/ \E w \in Writers : Preflight(w) \/ Commit(w)
    \/ plan_adoption
    \/ PowerLoss

Spec == Init /\ [][Next]_vars

-----------------------------------------------------------------------------
(* Properties.                                                             *)

\* Identity: what was reported complete stays complete, with the same
\* identity, through every later crash, power loss, retry and write
\* (bootstrap_initialize, adopt and repair return after _publish_intent).
AckedIdentityHolds ==
    \A i \in acked : identity_status = "complete" /\ Bound(i) /\ Linked(i)

\* write_identity_receipt and _preflight_binding: a receipt that can be read is
\* never ahead of the medium, although _write_create_or_match does not fsync a
\* file it finds; and a revision behind the root or the adopted base exists only
\* once a durable receipt certifies the identity it is linked to.
WritesCertified ==
    /\ \A r \in Receipts :
         /\ Protected(r[2]) \subseteq disk.durable
         /\ BoundSince(current.safe, r[4], r[2], TRUE)
    /\ \A k \in 2..Len(current.seen) :
         \E r \in Receipts : r \in disk.durable /\ r[2] = current.seen[k]

\* The files of an identity are those of the intent on disk.
IntentChooses ==
    \A i \in Identities : {Store(i), Project(i)} \cap disk.intact # {} =>
        HasIntent /\ intent.seen.id = i

\* repair: as long as no file is torn and the intent is the one the files
\* were written for, repair with that intent passes every check it makes,
\* wherever init, adopt, a writer or the power stopped.
RepairResumes ==
    (/\ idlock = Nobody /\ wlock = Nobody
     /\ HasIntent /\ disk.torn = {} /\ IntentChooses)
    => /\ HasCurrent => MayCertify(intent.seen, "repair")
       /\ ~HasCurrent => intent.seen.op = "initialize"

\* Once identity.json is on the medium the store has that identity for good,
\* whoever races whom and whatever is lost around it.
A == INSTANCE Assignment WITH Values <- Identities,
        assigned <- {i \in Identities : Store(i) \in disk.durable}
ImplementsAssignment == A!AssignmentSpec
=============================================================================

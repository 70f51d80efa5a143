----------------------------- MODULE Compaction -----------------------------
(***************************************************************************)
(* Compaction: compaction.py with its inventory, projection and catalogs,  *)
(* the reader gate of reader_gate.py, the exports it is bound to, and the  *)
(* writers and readers it must not disturb.                                *)
(*                                                                         *)
(* A revision is named by the transaction that wrote it (Transactions      *)
(* shows that a transaction has one candidate) and a segment by its rows,  *)
(* so objects with the same bytes are the same object.  The checkpoint is  *)
(* an object of its revision and is left out: compaction keeps it.  A      *)
(* commit of a writer is two steps, its objects and its CURRENT.           *)
(***************************************************************************)
EXTENDS Naturals, FiniteSets

CONSTANTS Txs,            \* transactions of writers
          Epochs,         \* compactions: an epoch id is also its transaction id
          Rows,           \* records, named by their bytes
          Compactors,     \* processes that run compact commit
          Readers,        \* processes that read a snapshot
          Root, Nobody,
          ReuseRows,      \* a record compacted away may be written again
          MaxFaults,      \* bound: I/O errors and process deaths
          MaxPowerLosses  \* bound: power losses

ASSUME CompactionAssumption ==
    /\ ReuseRows \in BOOLEAN
    /\ MaxFaults \in Nat
    /\ MaxPowerLosses \in Nat

\* The names of transactions, epochs and processes are different things.
ASSUME NamesAssumption ==
    /\ Root \notin Txs \cup Epochs /\ Txs \cap Epochs = {}
    /\ Txs \cap Compactors = {}
    /\ Nobody \notin {Root} \cup Txs \cup Epochs \cup Compactors

VARIABLES
    files,      \* the objects in the store
    durable,    \* the objects on the medium
    current,    \* CURRENT
    stable,     \* CURRENT on the medium
    manifest,   \* the manifest each revision id stands for
    journal,    \* the journal of each compaction
    bundle,     \* CURRENT in the export each compaction is proposed with
    plan,       \* the planning result of each compaction
    lock,       \* who holds the write lock; compactors hold the gate with it
    pc, job,    \* where each compactor is, and its epoch
    rpc, seen,  \* where each reader is, and the revision it reads
    committed,  \* history: the revisions CURRENT has durably named
    faults, losses

store == <<files, durable, current, stable, manifest, journal, committed>>
proposals == <<bundle, plan>>
compactor == <<pc, job>>
reader == <<rpc, seen>>
counts == <<faults, losses>>
vars == <<files, durable, current, stable, manifest, journal, bundle, plan, lock,
          pc, job, rpc, seen, committed, faults, losses>>

-----------------------------------------------------------------------------
(* Objects and manifests.                                                  *)

Ids == {Root} \cup Txs \cup Epochs

Revision(x) == <<"revision", x>>
Segment(S) == <<"segment", S>>
Stage(x) == <<"stage", x>>
Journal(x) == <<"transaction", x>>
Intent(x) == <<"ref-log", x, "intent">>
Observed(x) == <<"ref-log", x, "observed_commit">>
Catalog(e) == <<"catalog", e>>

\* _RULES: the kinds a compaction may delete, in the order of their paths.  The
\* journal of a transaction comes right before its stage.
Kinds == <<{"ref-log"}, {"revision"}, {"segment"}, {"transaction", "stage"}>>

Kind(f) == CHOOSE i \in DOMAIN Kinds : f[1] \in Kinds[i]
Deletable(f) == \E i \in DOMAIN Kinds : f[1] \in Kinds[i]

\* What the deletion of D, in path order, may have removed when it stops.
Prefixes(D) ==
    UNION {{{f \in D : Kind(f) < k} \cup S : S \in SUBSET {f \in D : Kind(f) = k}}
             : k \in DOMAIN Kinds}
Interrupted(D) ==
    {P \in Prefixes(D) :
       \A f \in P : f[1] = "stage" /\ Journal(f[2]) \in D => Journal(f[2]) \in P}

\* parent: the base that its journal names.  line: the revisions that
\* walk_revisions visits.  dead: the superseded and
\* refuted rows.  epochs: the epochs of the catalog chain, none before the
\* first compaction.
NoManifest == [parent |-> Root, line |-> {}, segs |-> {}, dead |-> {}, epochs |-> {}]

Genesis == [NoManifest EXCEPT !.line = {Root}]

Known(x) == manifest[x] # NoManifest

Line(x) == manifest[x].line
RowsOf(x) == UNION manifest[x].segs
Active(x) == RowsOf(x) \ manifest[x].dead

\* What _snapshot_under_gate reads of a revision.
Needed(x) ==
    {Revision(i) : i \in Line(x)}
    \cup {Segment(S) : S \in manifest[x].segs}
    \cup {Catalog(e) : e \in manifest[x].epochs}
    \cup IF manifest[x].epochs = {} THEN {} ELSE {Stage(i) : i \in Line(x)}

Readable(x) == Needed(x) \subseteq files

NoJournal == [stage |-> "absent", candidate |-> FALSE, current |-> FALSE,
              observed |-> FALSE, cleaned |-> FALSE]

-----------------------------------------------------------------------------
(* Writers.                                                                *)

\* The candidate of a transaction, with its stage and journal.
Objects(t) == {Revision(t), Stage(t), Journal(t)} \cup {Segment(S) : S \in manifest[t].segs}

\* commit_write_plan up to CURRENT.  A row that is in the snapshot is refused
\* (duplicate id); superseding needs an active target.
Prepare(t) ==
    /\ lock = Nobody /\ ~Known(t)
    /\ \E r \in Rows \ RowsOf(current), retired \in {{}} \cup {{d} : d \in Active(current)} :
         LET m == manifest[current]
         IN  /\ ReuseRows \/ \A x \in Ids : r \notin RowsOf(x)
             /\ manifest' = [manifest EXCEPT ![t] =
                  [parent |-> current, line |-> m.line \cup {t},
                   segs |-> m.segs \cup {{r}},
                   dead |-> m.dead \cup retired, epochs |-> m.epochs]]
             /\ files' = files \cup {Revision(t), Stage(t), Journal(t), Segment({r})}
    /\ lock' = t
    /\ UNCHANGED <<durable, current, stable, journal, committed>>

\* The same transaction again, while its base is still CURRENT.
Retry(t) ==
    /\ lock = Nobody /\ Known(t) /\ t \notin Line(current)
    /\ manifest[t].parent = current
    /\ files' = files \cup Objects(t)
    /\ lock' = t
    /\ UNCHANGED <<durable, current, stable, manifest, journal, committed>>

\* CURRENT, after the fsyncs of the candidate receipt.
Publish(t) ==
    /\ lock = t
    /\ durable' = durable \cup Objects(t)
    /\ current' = t /\ stable' = t
    /\ committed' = committed \cup {t}
    /\ lock' = Nobody
    /\ UNCHANGED <<files, manifest, journal>>

\* An error or a death before CURRENT.
Abandon(t) ==
    /\ lock = t /\ faults < MaxFaults
    /\ lock' = Nobody
    /\ UNCHANGED store

-----------------------------------------------------------------------------
(* Readers.  The gate is exclusive while a compactor works.                *)

GateExclusive == lock \in Compactors

\* Mutant: a reader does not take the gate.
ReadCurrentUngated(r) ==
    /\ rpc[r] = "out"
    /\ seen' = [seen EXCEPT ![r] = current]
    /\ rpc' = [rpc EXCEPT ![r] = "chain"]

\* shared_reader_gate, then read_current.
ReadCurrent(r) ==
    /\ rpc[r] = "out" /\ ~GateExclusive
    /\ seen' = [seen EXCEPT ![r] = current]
    /\ rpc' = [rpc EXCEPT ![r] = "chain"]

\* The chain, its stages and catalogs; then the segments.
ReadChain(r) ==
    /\ rpc[r] = "chain"
    /\ rpc' = [rpc EXCEPT ![r] =
         IF {f \in Needed(seen[r]) : f[1] # "segment"} \subseteq files
         THEN "segments" ELSE "broken"]
    /\ UNCHANGED seen

ReadSegments(r) ==
    /\ rpc[r] = "segments"
    /\ rpc' = [rpc EXCEPT ![r] =
         IF {f \in Needed(seen[r]) : f[1] = "segment"} \subseteq files
         THEN "out" ELSE "broken"]
    /\ UNCHANGED seen

-----------------------------------------------------------------------------
(* Export and plan.                                                        *)

NoPlan == [base |-> Nobody, segs |-> {}, delete |-> {}, archived |-> {}, prev |-> {}]

\* create_export under the identity and write locks, of a verified store.
\* Bound: the export for an epoch is taken again only when CURRENT has moved.
Export(e) ==
    /\ lock = Nobody /\ plan[e] = NoPlan /\ Readable(current)
    /\ bundle[e] # current
    /\ bundle' = [bundle EXCEPT ![e] = current]
    /\ UNCHANGED plan

\* Mutant: superseded and refuted rows are copied too.
project_snapshotPhysical(b) ==
    IF RowsOf(b) = {} THEN {} ELSE {RowsOf(b)}

\* One segment with the active rows.
project_snapshot(b) ==
    IF Active(b) = {} THEN {} ELSE {Active(b)}

\* _protected_paths: what the inventory leaves out.
Protected(e, b) ==
    {Segment(S) : S \in project_snapshot(b)} \cup {Journal(e), Stage(e)}

\* inventory_deletable: each object with its bytes; only a journal changes.
Inventory(e, b) ==
    {[file |-> f, bytes |-> IF \E x \in Epochs : f = Journal(x) THEN journal[f[2]]
                            ELSE NoJournal]
       : f \in {g \in files : Deletable(g)} \ Protected(e, b)}

\* Mutant: the catalog forgets the epochs before it.
ArchivedByOwn(b) == Line(b)

\* _prior_catalog and _live_revision_ids: every revision the new root leaves
\* behind, with those of the catalogs before it.
Archived(b) == Line(b) \cup UNION {plan[x].archived : x \in manifest[b].epochs}

\* _build_under_gate.
Built(e, b) ==
    [base |-> b, segs |-> project_snapshot(b), delete |-> Inventory(e, b),
     archived |-> Archived(b), prev |-> manifest[b].epochs]

\* plan_compaction; the line of the candidate it fixes starts with itself.
PlanCompaction(e) ==
    /\ plan[e] = NoPlan /\ ~GateExclusive
    /\ bundle[e] = current /\ Readable(current)
    /\ plan' = [plan EXCEPT ![e] = Built(e, current)]
    /\ manifest' = [manifest EXCEPT ![e] =
         [parent |-> current, line |-> {e}, segs |-> project_snapshot(current), dead |-> {},
          epochs |-> manifest[current].epochs \cup {e}]]
    /\ UNCHANGED <<files, durable, current, stable, journal, committed, bundle>>

-----------------------------------------------------------------------------
(* commit_compaction.                                                      *)

DeleteFiles(e) == {d.file : d \in plan[e].delete}

Goto(c, next) == pc' = [pc EXCEPT ![c] = next] /\ UNCHANGED <<job, lock>>

\* The call returns or raises: lock and gate are free.
Release(c) ==
    /\ pc' = [pc EXCEPT ![c] = "idle"]
    /\ lock' = Nobody
    /\ UNCHANGED job

\* The plan is new: CURRENT is its base and nothing it lists has changed.
CommitNew(e) ==
    /\ e \notin Line(current) /\ current = plan[e].base
    /\ Readable(current) /\ Built(e, current) = plan[e]

\* identity_lock, write_lock and exclusive_reader_gate in one poll; a plan
\* that is neither committed nor new is refused.
CommitLock(c, e) ==
    /\ pc[c] = "idle" /\ plan[e] # NoPlan /\ lock = Nobody
    /\ \A r \in Readers : rpc[r] \in {"out", "broken"}
    /\ lock' = c /\ job' = [job EXCEPT ![c] = e]
    /\ pc' = [pc EXCEPT ![c] = IF e \in Line(current) THEN "reconcile" ELSE "segments"]
    /\ e \in Line(current) \/ CommitNew(e)
    /\ UNCHANGED store

\* The objects of the candidate, one after the other.
WriteObjects(c) ==
    LET e == job[c]
        Add(S, next) == files' = files \cup S /\ Goto(c, next)
    IN  /\ \/ pc[c] = "segments" /\ Add({Segment(S) : S \in plan[e].segs}, "catalog")
           \/ pc[c] = "catalog" /\ Add({Catalog(e)}, "revision")
           \/ pc[c] = "revision" /\ Add({Revision(e)}, "intent")
           \/ pc[c] = "intent" /\ Add({Intent(e)}, "stage")
           \/ pc[c] = "stage" /\ Add({Stage(e)}, "journal")
        /\ UNCHANGED <<durable, current, stable, manifest, journal, committed>>

\* _write_transaction: an atomic write.
WriteJournal(e, j) ==
    /\ journal' = [journal EXCEPT ![e] = j]
    /\ files' = files \cup {Journal(e)}

JournalPrepared(c) ==
    /\ pc[c] = "journal"
    /\ WriteJournal(job[c], [NoJournal EXCEPT !.stage = "candidate_prepared"])
    /\ durable' = durable \cup {Journal(job[c])}
    /\ Goto(c, "receipt")
    /\ UNCHANGED <<current, stable, manifest, committed>>

\* _candidate_protected is fsynced, the receipt written and journaled.
CandidateReceipt(c) ==
    LET e == job[c]
    IN  /\ pc[c] = "receipt"
        /\ durable' = durable \cup Needed(e) \cup {Intent(e)}
        /\ WriteJournal(e, [journal[e] EXCEPT !.candidate = TRUE])
        /\ Goto(c, "replace")
        /\ UNCHANGED <<current, stable, manifest, committed>>

ReplaceCurrent(c) ==
    /\ pc[c] = "replace"
    /\ current' = job[c]
    /\ Goto(c, "sync")
    /\ UNCHANGED <<files, durable, stable, manifest, journal, committed>>

\* The directory fsync of _replace_current.
SyncCurrent(c) ==
    /\ pc[c] = "sync"
    /\ stable' = current
    /\ committed' = committed \cup {current}
    /\ Goto(c, "current_receipt")
    /\ UNCHANGED <<files, durable, current, manifest, journal>>

\* The receipt of CURRENT, and the journal that says committed.
CurrentReceipt(c) ==
    LET e == job[c]
    IN  /\ pc[c] = "current_receipt"
        /\ WriteJournal(e, [journal[e] EXCEPT !.stage = "committed", !.current = TRUE])
        /\ Goto(c, "reconcile")
        /\ UNCHANGED <<durable, current, stable, manifest, committed>>

\* The ref-log entry observed_commit, and the journal that names it.
JournalObserved(e) ==
    /\ journal' = [journal EXCEPT ![e].stage = "committed", ![e].observed = TRUE]
    /\ files' = files \cup {Journal(e), Observed(e)}

\* Mutant: a replay cleans up without the receipt of CURRENT.
ReconcileUnchecked(c) ==
    LET e == job[c]
    IN  /\ pc[c] = "reconcile"
        /\ Readable(current) /\ Journal(e) \in files
        /\ JournalObserved(e)
        /\ Goto(c, "delete")
        /\ UNCHANGED <<durable, current, stable, manifest, committed>>

\* _reconcile_committed_journal, then _validate_cleanup_evidence: without both
\* receipts the call ends as committed_cleanup_incomplete.
Reconcile(c) ==
    LET e == job[c]
    IN  /\ pc[c] = "reconcile"
        /\ IF Readable(current) /\ Journal(e) \in files
           THEN /\ JournalObserved(e)
                /\ IF journal[e].candidate /\ journal[e].current
                   THEN Goto(c, "delete") ELSE Release(c)
           ELSE Release(c) /\ UNCHANGED <<files, journal>>
        /\ UNCHANGED <<durable, current, stable, manifest, committed>>

\* delete_exact of every tombstone.
Delete(c) ==
    /\ pc[c] = "delete"
    /\ files' = files \ DeleteFiles(job[c])
    /\ Goto(c, "sync_parents")
    /\ UNCHANGED <<durable, current, stable, manifest, journal, committed>>

\* Mutant: the cleanup receipt is written before the directories are fsynced.
SyncParentsSkipped(c) ==
    /\ pc[c] = "sync_parents"
    /\ Goto(c, "cleanup_receipt")
    /\ UNCHANGED store

\* sync_cleanup_parents.
SyncParents(c) ==
    /\ pc[c] = "sync_parents"
    /\ durable' = durable \ DeleteFiles(job[c])
    /\ Goto(c, "cleanup_receipt")
    /\ UNCHANGED <<files, current, stable, manifest, journal, committed>>

CleanupReceipt(c) ==
    LET e == job[c]
    IN  /\ pc[c] = "cleanup_receipt"
        /\ WriteJournal(e, [journal[e] EXCEPT !.cleaned = TRUE])
        /\ Release(c)
        /\ UNCHANGED <<durable, current, stable, manifest, committed>>

\* An error or a death between two steps, or between two deletes, which go by
\* path.
Fail(c) ==
    /\ pc[c] # "idle" /\ faults < MaxFaults
    /\ \/ UNCHANGED files
       \/ /\ pc[c] = "delete"
          /\ \E gone \in Interrupted(DeleteFiles(job[c])) : files' = files \ gone
    /\ Release(c)
    /\ UNCHANGED <<durable, current, stable, manifest, journal, committed>>

-----------------------------------------------------------------------------
(* What the store answers, under the shared gate.                          *)

\* The epoch of the catalog that a manifest names.
Newest(x) == CHOOSE e \in manifest[x].epochs : manifest[x].epochs = plan[e].prev \cup {e}

verify_revision(x) ==
    IF manifest[current].epochs # {} /\ x \in plan[Newest(current)].archived THEN "archived"
    ELSE IF Revision(x) \notin files THEN "unknown"
    ELSE IF Readable(x) THEN "present" ELSE "invalid"

\* archived_transaction_link_under_gate: the whole chain of catalogs.
Tombstoned(x) == \E e \in manifest[current].epochs : Journal(x) \in DeleteFiles(e)

\* The attempt is read from the journal, or from the stage of the one manifest.
Evidence(x) == Journal(x) \in files \/ {Revision(x), Stage(x)} \subseteq files

\* inspect_transaction of the store.
inspect_transaction(x) ==
    CASE ~Evidence(x) -> IF Tombstoned(x) THEN "archived" ELSE "missing"
      [] Evidence(x) /\ x \in Line(current) -> "committed"
      [] Evidence(x) /\ x \notin Line(current) ->
           IF current = manifest[x].parent THEN "not_committed" ELSE "outcome_unknown"

-----------------------------------------------------------------------------
\* Every process dies; what was not fsynced, written or deleted, may or may
\* not have happened.
PowerLoss ==
    /\ losses < MaxPowerLosses
    /\ losses' = losses + 1
    /\ \E S \in SUBSET ((files \ durable) \cup (durable \ files)) :
         files' = (files \cap durable) \cup S
    /\ durable' = files'
    /\ current' \in {current, stable}
    /\ stable' = current'
    /\ committed' = committed \cup {current'}
    /\ lock' = Nobody
    /\ pc' = [c \in Compactors |-> "idle"]
    /\ rpc' = [r \in Readers |-> "out"]
    /\ UNCHANGED <<manifest, journal, bundle, plan, job, seen, faults>>

Init ==
    /\ files = {Revision(Root)} /\ durable = files
    /\ current = Root /\ stable = Root
    /\ manifest = [x \in Ids |-> IF x = Root THEN Genesis ELSE NoManifest]
    /\ journal = [e \in Epochs |-> NoJournal]
    /\ bundle = [e \in Epochs |-> Nobody]
    /\ plan = [e \in Epochs |-> NoPlan]
    /\ lock = Nobody
    /\ pc = [c \in Compactors |-> "idle"]
    /\ job \in [Compactors -> Epochs]
    /\ rpc = [r \in Readers |-> "out"]
    /\ seen = [r \in Readers |-> Root]
    /\ committed = {Root}
    /\ faults = 0 /\ losses = 0

Write(t) == Prepare(t) \/ Retry(t) \/ Publish(t)

Read(r) == ReadCurrent(r) \/ ReadChain(r) \/ ReadSegments(r)

Step(c) ==
    \/ WriteObjects(c) \/ JournalPrepared(c) \/ CandidateReceipt(c)
    \/ ReplaceCurrent(c) \/ SyncCurrent(c) \/ CurrentReceipt(c)
    \/ Reconcile(c) \/ Delete(c) \/ SyncParents(c) \/ CleanupReceipt(c)

Next ==
    \/ \E t \in Txs :
         /\ \/ Write(t) /\ UNCHANGED faults
            \/ Abandon(t) /\ faults' = faults + 1
         /\ UNCHANGED <<proposals, compactor, reader, losses>>
    \/ \E r \in Readers : Read(r) /\ UNCHANGED <<store, proposals, lock, compactor, counts>>
    \/ \E e \in Epochs :
         \/ Export(e) /\ UNCHANGED <<store, lock, compactor, reader, counts>>
         \/ PlanCompaction(e) /\ UNCHANGED <<lock, compactor, reader, counts>>
         \/ \E c \in Compactors :
              CommitLock(c, e) /\ UNCHANGED <<proposals, reader, counts>>
    \/ \E c \in Compactors :
         /\ \/ Step(c) /\ UNCHANGED faults
            \/ Fail(c) /\ faults' = faults + 1
         /\ UNCHANGED <<proposals, reader, losses>>
    \/ PowerLoss

Spec == Init /\ [][Next]_vars

-----------------------------------------------------------------------------
(* Properties.                                                             *)

\* The types; and a running compaction holds the write lock and, since it
\* took the gate exclusively, no reader is inside a snapshot.
TypeOK ==
    /\ {current, stable} \subseteq Ids /\ committed \subseteq Ids
    /\ \A x \in Ids : manifest[x].dead \subseteq Rows /\ RowsOf(x) \subseteq Rows
    /\ lock \in {Nobody} \cup Txs \cup Compactors
    /\ job \in [Compactors -> Epochs] /\ seen \in [Readers -> Ids]
    /\ \A c \in Compactors : pc[c] # "idle" =>
         lock = c /\ \A r \in Readers : rpc[r] \in {"out", "broken"}

\* The snapshot of CURRENT, and of the CURRENT a power loss would leave, is
\* complete: no cleanup, first or replayed, removes what a reader still needs.
CurrentReadable ==
    /\ Readable(current) /\ Readable(stable)
    /\ Needed(stable) \subseteq durable

\* A reader that took the gate finishes the snapshot of the revision it began
\* with, whatever is committed or compacted meanwhile.
ReadersIntact == \A r \in Readers : rpc[r] # "broken"

\* Once CURRENT has named a revision, verify_revision answers that it is
\* present and readable or archived, and its transaction is never reported as not
\* committed or unknown, although compactions delete the evidence.
Available ==
    GateExclusive \/ \A x \in committed :
        /\ verify_revision(x) \in {"archived", "present"}
        /\ x # Root => inspect_transaction(x) \notin {"not_committed", "missing"}

\* The cleanup receipt is true: nothing it covers is in the store, nor comes
\* back with a power loss.
CleanedHolds ==
    \A e \in Epochs : journal[e].cleaned => DeleteFiles(e) \cap (files \cup durable) = {}

\* What is visible of the active records changes with writes only: compaction,
\* its failures and replays leave it as it is.
M == INSTANCE Memory WITH active <- Active(current), Records <- Rows
ImplementsMemory == M!MemorySpec

=============================================================================

# TLA+ models of an-kla-memory

an-kla keeps the memory of a project as a content-addressed store on a file
system: immutable segments, checkpoints and manifests under
`memory/<kind>/sha256/`, one mutable reference `memory/refs/CURRENT`, and a
journal per transaction.  Every command is a short process; what makes the
store correct is the order in which it writes, fsyncs and renames, and what it
makes of the leftovers of processes that died.  This directory models that.

## The system

| component | state it keeps | operations | what makes it correct |
|---|---|---|---|
| storage primitives (`storage_primitives.py`) | files | `atomic_write`, `write_immutable`, `sync_protected`, `fsync_*` | what is reported durable survives a power loss |
| commit protocol (`write_commit.py`, `transactions.py`, `receipt_validation.py`, ...) | CURRENT, objects, journals, receipts, watermark | `plan_write`, `commit_write_plan`, `inspect_transaction` | a transaction id commits at most once; a reported commit stays; outcomes and receipts tell the truth |
| repair (`transaction_repair.py`) | repair receipts | `repair_durability` | certifies only what it fsynced |
| write lock, reader gate (`store_locks.py`, `reader_gate.py`) | lock files | `write_lock`, `shared_reader_gate`, `exclusive_reader_gate` | one writer; cleanup waits for readers; no wait without a deadline |
| custody and relocation (`custody.py`, `relocate*.py`) | pointer `store-root.txt`, journals of moves, vaults | `relocate plan/commit/reconcile`, `relocate back` | one authoritative vault at every moment, complete |
| identity, initialization (`identity*.py`, `initialization.py`) | identity files, intents, receipts | `init`, `adopt`, `repair` | one identity per store, crash at every stage recoverable, writers let in only after it is certified |
| compaction, export, restore (`compaction*.py`, `export_*.py`) | archived history, bundles | `plan/commit_compaction`, `export`, `restore` | nothing deleted that is not archived or still needed |
| records (`write_policy.py`, `supersede.py`, `vigency.py`, `refut*.py`, `checkpoint*.py`) | supersession and refutation maps, checkpoints | `plan_write`, `refute`, `checkpoint`, their commits and retries | nothing silenced without authority or revived; the chain stays readable |
| host hooks, attestation (`hook_runs.py`, `attest.py`) | key, whitelist, run entries, receipts, tombstones | `attest init/mint`, `mint_hook_run`, `hook_runs` | a receipt is spent once; a run is recorded once and stays |
| context package (`context_package.py`, `baseline_adoption.py`, `upgrade.py`) | block in `AGENTS.md`, `AN-KLA.md`, manifest, backups | plan and apply of install, update, uninstall, adopt, upgrade; status | the user's text survives; no silent absorption of drift; no dead end |
| derived index, retrieval (`index*.py`, `retrieval.py`) | an index file and a reference per revision | build, refresh, prune, verify, retrieve | a cache and never an authority |
| views, CLI, MCP, evaluation, sealed export | none | read and format | not state |

Components share the file system only: there is no memory between processes.
A command takes `flock` locks in the order identity, write, reader gate, and
the system releases them when its process dies.  The hard behaviours are
interleavings of processes between a check and its lock, the leftovers of a
process that died or met an I/O error between two writes, a power loss that
keeps some of the writes, and retries of calls whose answer was lost.

## The modules

| module | models | composed with |
|---|---|---|
| `StoragePrimitives` | the file system as `storage_primitives.py` uses it: what a write, an fsync, an interrupted create and a power loss leave | extended by `Transactions` |
| `Transactions` | planning, commit, inspect, repair, receipts, watermark | implements `Ledger` |
| `Ledger` | abstract: an append-only log with a part that survives power losses | |
| `TransactionsProofs`, `CompactionProofs`, `RelocationProofs`, `IdentityProofs`, `HostEvidenceProofs`, `LifecycleProofs`, `ContextPackageProofs`, `DerivedIndexProofs` | the theorems about the module of that name | each extends its module |
| `Relocation` | moves of the vault out of the project and back, their journals, the pointer, the writers they must keep out | implements `Custody` |
| `Custody` | abstract: one vault, at one place, that moves or advances | |
| `Compaction` | exports, compaction plans and commits, cleanup and its replay, the reader gate, catalogs | implements `Memory` |
| `Memory` | abstract: the set of active records a reader sees | |
| `Identity` | init, adopt, repair, intents, receipts, the writers they let in; extends `StoragePrimitives` | implements `Assignment` |
| `HostEvidence` | attestation key, receipts, tombstones, hook runs and their status; extends `StoragePrimitives` | implements `Assignment` |
| `Assignment` | abstract: a value assigned once and never taken back | |
| `Lifecycle` | writes, supersessions, refutations, checkpoints, the policies that decide them, the validators of readers | |
| `ContextPackage` | the managed context and its commands, against a user who edits the same files | |
| `DerivedIndex` | index builders, pruners, refresh, and the retrieval that narrows with the index | |
| `MC*` | symmetry sets and small constants for TLC | |

Each module abstracts from what another one shows.  `Transactions` shows that
a transaction id has one candidate revision and that a commit is durable or
not there at all; so `Compaction` names a revision by its transaction and takes
a commit in two steps (its objects, its CURRENT), and `Relocation` takes it in
one.  `Lifecycle` and `DerivedIndex` take a commit in one step too, `Lifecycle`
with what its callers see of the protocol: a commit that leaves evidence and
dies, and one that lands without its caller hearing of it.

### Transactions

A digest names its bytes, and a manifest names its parent, so a revision is the
sequence of the entries from the root to it.  Everything that an attempt
(transaction id, base, plan) writes under a digest is determined by the attempt,
so an object is its kind with its attempt; a segment is named by its records and
shared.

| variable | code |
|---|---|
| `disk` | the objects: `intact` (readable), `torn` (an interrupted create), `durable` (fsynced with their directory), and the use of the quarantine |
| `current`, `journal[t]`, `watermark` | `refs/CURRENT`, `transactions/<txid>.json`, `watermarks/CURRENT`: the value a reader sees and the one on the medium |
| `lock` | `.write.lock` |
| `pc`, `req` | where a call is, and its plan with its transaction id |
| `acks` | history: what callers were told |

There is one action per write of `commit_locked`, in its order: the journal that
says prepared, segment, manifest, intent, stage, candidate journal, fsyncs,
receipt, journal, CURRENT, watermark, fsync, receipt, committed journal,
observed log, journal.  Each may fail (the outcome of the `except OSError` branch
is computed by the same `inspect_transaction` the code calls), its process may
die, a create may be torn, and the power may go.  `Objection` is the sequence of
early returns before the first write.  `repair_durability` has a begin, an
fsync, a receipt and an answer.

### Relocation

A vault is a set of files, and a file is its subtree with its content, so that
"the planned file with the planned bytes" is membership.  `vault`, `dirs`,
`staging` and `pointer` are what is on disk; `journal[t]` is the journal of a
move; an operator runs `commit` or `reconcile` (with or without `--abort`) and
may die or raise at every step, also inside a step that touches several files.
A writer opens the store (by the pointer, or by flag), passes
`mutation_preflight`, waits for the lock, and commits after `assert_unchanged`.
Two constants are assumptions about operators and not about the code:
`OneAtATime` (a move is finished before the next is started, which
`unfinished_relocations` reports and nothing enforces) and `KeepNamed` (a process
may keep a store it opened by flag).

### Compaction

`files` and `durable` are the objects in the store and on the medium, `current`
and `stable` the two values of CURRENT.  `plan[e]` is the planning result of an
epoch: base, projected segments, delete set with the bytes of each object,
archived revisions, previous epochs.  A commit takes the identity lock, the write
lock and the gate in one poll, rebuilds the plan and compares it, writes its
objects one by one, replaces CURRENT, and cleans up under both receipts.
`Fail` may stop it between any two steps and between any two deletes, in the
order of the paths.  Readers hold the shared gate over three reads.
`ReuseRows` says whether a record that compaction dropped may be written again
with the same bytes; the code allows it, and the runs that pass are the ones
where it does not happen (see Findings).

### Identity

The files are objects and cells of `StoragePrimitives`: `intent` is
`identity-intent.json`, `disk` holds the immutable intents, the identity object,
`identity.json`, `project-identity.json`, the root and the receipts, `current` is
the sequence of `store_identity` links of CURRENT's chain.  Init starts from an
empty project or from a store without identity.  Each operator is at one write of
`bootstrap_initialize`, `adopt` or `repair`, may fail there, leave
a torn file or an unsynced one, and hands over to any other that reads the intent.
A writer reads its binding, waits for the lock, and commits after the check of
`assert_unchanged`.

### HostEvidence

`key` and `whitelist` are cells; entries, receipts and tombstones are objects with
the key that signed them.  An agent creates the key, mints and verifies receipts,
spends one under the write lock (tombstone, then CURRENT), and records hook runs
by the engine's path or under a run id of the host; `NeverWronglyPending` reads the
status from the same scan as `hook_runs`, with its limit.

### Lifecycle

A revision is its records with their overlays and its checkpoint.  Planning
evaluates a policy at the base; the plan, altered or not, is committed later
against the CURRENT of that moment, under the checks of `write_commit.py`,
`refutations.py` and `checkpoints.py`, with the policy run again.  `Readable` is
`revision_validation.py` as a predicate over the chain.

### ContextPackage

A document is the user's text and the block; a hash is the bytes it is the hash
of.  `job[c]` is the plan a caller holds or the command it runs, with what it has
read.  `ApplyPlan` builds the plan again under the lock and compares; `ReadFiles` reads
the files again, and the writes use these bytes: the user may edit in each gap.
`raced` remembers that it did, for the properties that hold without such a race.

### DerivedIndex

`dir[n]` is the index directory of revision n: its file (absent, being written by
a process, intact, torn), whether a file of the earlier layout is there, and the
reference.  The file name is the digest of the bytes, which builders of one
revision are taken to produce alike.  A retrieval looks at the index three times
(resolve, hash, query), each a step.  `alone` names the builders nobody crossed.

## What the runs check

`tlc -workers 2 -config <cfg> <module>` in this directory; the names are those
of `PROJECT.json`.

| run | instance | states | shows |
|---|---|---|---|
| `commit_safety` | 2 writers, 2 ids, 2 contents, 1 failure, 1 power loss | 1,092,039 | the history implements `Ledger`; an id commits once and has one candidate; "base changed" is only said of plans that are not in the history; the inductive invariant of the proofs |
| `commit_retry` | 1 writer, 2 ids, 2 contents, 2 failures, 1 power loss | 1,243,994 | an acknowledged commit stays; receipts, journals, watermark and `inspect_transaction` never claim more than the medium holds, over retries and repairs |
| `commit_live` | 2 writers, 1 id, 1 failure, 1 power loss | 14,720 | every call is answered or its process dies |
| `relocation_moves` | 1 operator, 1 writer, 3 moves, 2 roots, 2 revisions, 2 failures | 506,012 | the root a bare command resolves to is complete in every crash window; the vault never forks; an aborted move leaves nothing; a finished one leaves an empty origin |
| `compaction_epochs` | 3 writes, 2 epochs, 3 records, 1 reader, 1 fault | 501,198 | no reader loses a file; every committed revision and transaction is present or archived over both epochs; the active records change with writes only |
| `compaction_power` | 2 writes, 1 epoch, 2 records, 1 reader, 2 faults, 1 power loss | 1,160,047 | whichever CURRENT survives is readable; the cleanup receipt stays true |
| `identity_bootstrap` | 2 operators, 1 writer, 2 identities, 1 failed write, 1 power loss | 815,204 | the store has one identity for good; what was reported complete stays; receipts are true; writers wait for the certificate; repair resumes |
| `host_evidence` | 2 agents, 1 run id, 2 keys, 1 receipt, 1 failed write, 1 power loss | 2,753,592 | a receipt stands behind one revision; a run id has one entry, which stays; the key is assigned once; a recorded run is not called pending |
| `lifecycle` | 3 callers, 2 record ids, 4 revisions, batches of 2 | 1,540,232 | no order of commits makes a store unreadable, revives a record, silences one without authority, or overwrites an unseen checkpoint; inspection agrees with the snapshot |
| `context_package` | 2 callers, 2 runtimes, 1 edit, 1 crash, 4 applied commands | 6,405,098 | edits, modified contract and original survive; baseline by consent; no downgrade; an upgrade is possible after every crash; a clean status is true |
| `derived_index` | 2 processes, 2 records of 4 kinds, 2 revisions, 1 crash or rot, quarantine of 1 | 7,133,386 | an answer with the index is the answer of a scan; the budget leaves out what does not fit; an undisturbed rebuild verifies |

Bounds.  Two ids and two contents are what a conflict needs (one id for two
plans, one plan under two ids); two failures are a failed attempt and a failed
recovery of it; with one power loss every order of a crash before and after it
occurs.  Three moves are out, back and out again, so that a journal of an earlier
move can meet the vault of a later one.  Two epochs are what a chain of
catalogs needs, and three writes leave one before, between and after them.
Two identities, two keys and two operators are what a race to assign needs.  In
`lifecycle` two records and three changes make a chain of supersessions and a
refutation that meets one; the requests are the two classes a supersession tells
apart, and the claim is one that the resolver can accept or not.  In
`context_package` one crash and four applied commands allow an installation, a
crashed update, its repair and one command more; an instance with a single
caller and three edits (13,960,000 states) was also checked.  In `derived_index`
the kinds are a dear record, a cheap one that SQLite does not match, one that
scores nothing and one without text; a quarantine of one file reaches its quota.
Only the commit runs check for deadlock: elsewhere a system without further
moves, epochs, records or edits has nothing left to do.

The type invariants that modules state (`TypeOK`; `Exclusive` of `Relocation`, with the lock discipline)
hold on the same instances and are not listed as runs, except the one of
`Transactions`, which is part of `IndInv`.

Fairness.  `commit_live` assumes weak fairness of the steps of every running
call.  The code justifies it: a call does a bounded number of file operations,
and `write_lock` polls with a deadline after which the call ends with
`write_lock_busy`.  Nothing is assumed about when failures stop, beyond their
bound.

### Findings

`reuse` is a run that TLC ends with a violation; the counterexample is a behaviour
of the code.  Segments are content addressed, and the delete set of a compaction is
replayed by every later `commit_compaction` of the same plan.  When a dropped
record is written again with the same bytes (`ReuseRows = TRUE`), the replay deletes
the segment CURRENT needs.

Seen while modelling and reachable in the models, without a run of their own.

Transactions, Relocation, Compaction:

- a stage object torn by an interrupted create makes every retry of its
  transaction end in `transaction_evidence_missing_or_invalid`
  (`transactions.py:261`), before the write that would heal it;
- of two repair receipts the one with the larger digest wins, not the later one
  (`transactions.py:432`): a repair that fsynced everything may leave inspect at
  durability pending;
- a move out whose last journal write was lost deletes the only vault when it is
  reconciled after a move back (`relocate.py:719`): set `OneAtATime` to FALSE and
  `AuthorityComplete` fails;
- `reconcile --abort` acts on a journal it read before the locks and removes a
  vault that was published meanwhile (`relocate.py:660`): with two operators
  `AuthorityComplete` fails, and a reconcile may journal `aborted` after the commit
  point (`relocate.py:683`);
- `assert_unchanged` does not repeat the custody check, so a store opened by flag
  commits to a copy that is no longer the authority (`identity.py:183`): set
  `KeepNamed` to TRUE and `AuthorityComplete` fails, against ADR-0048;
- `write_pointer` creates the pointer in place; a crash inside it leaves a file
  that stops every reconcile (`custody.py:249`);
- a `reconcile --abort` that dies before it journals `aborted` can be neither
  repeated nor finished (`relocate.py:701`);
- after a failure between the candidate revision and CURRENT the same compaction
  plan is refused, since its own leftovers are in the new inventory
  (`compaction.py:512`; ADR-0028 says a fault at any object converges);
- between CURRENT and the end of the cleanup, inspect answers `outcome_unknown`
  for a tombstoned transaction (`compaction_store_mixin.py:43`);
- what a failed transaction leaves between export and plan is deleted and in no
  export (`compaction.py:191`).

Identity:

- an intent that is visible and not flushed when a retry takes it up can be lost
  to the power after identity files were written behind it
  (`identity.py:349`); `init` then draws another identity and meets them as a
  conflict.  `RepairResumes` is stated for the states without this;
- the answer of an `init` that finds a visible and unsynced `complete` can be taken
  back by a power loss; `acked` counts the calls that published;
- a torn intent or identity file is `identity_bootstrap_conflict` for good; a torn
  receipt stops a retry of init, while repair uses another name;
- with two failed directory fsyncs a third attempt may match an unsynced receipt:
  `MaxFaults` is 1;
- ADR-0022 says that init looks for a legacy store again under the lock; the code
  does not.

HostEvidence:

- a key that is visible and unsynced counts as existing; a power loss takes it and
  with it all that it signed.  A key file left empty by a crash counts as existing
  for init while `_load_key` says not initialized;
- one torn entry, one of a lost key, or more than 2000 entries make every mint with
  a run id fail for good;
- `base_revision` of a receipt is not compared when it is verified, and the
  whitelist may be edited between the verification and the commit;
- the retry of a committed transaction whose authority is `tool_observed` is refused
  by the command line as `receipt_replayed`, although the engine would replay it
  (ADR-0024).

Lifecycle:

- the branch `checkpoint_unchanged` (`checkpoints.py:92`, ADR-0030:123) is never
  taken: the candidate holds the link to the checkpoint before it and so always
  differs; a checkpoint that says the same is committed again;
- the records a refutation names as evidence may be refuted or superseded
  themselves;
- every write appends an audit event, which can be superseded or refuted as any
  record.

ContextPackage:

- a context installed by one runtime and uninstalled by a later one leaves the
  earlier `AN-KLA.md` without a block: status calls it `managed_contract_modified`
  (`context_package.py:776`) and the later runtime refuses to install, although
  `docs/context-package.md:123` says of this code that the contract is no known one;
- a crash of a first installation between document and manifest: the next
  installation records the document with the block as the original, and an
  uninstallation leaves an empty file; the true original is in the backups;
- a crash of an update between document and manifest: status warns of a change
  outside the block, update is refused as drift, adoption is refused too, and only
  `upgrade --confirm-target-drift` recovers (ADR-0040 §4 says adopt then update
  does).  The same holds for a crash of an uninstallation.  After a crashed update
  the newest runtime may refuse and the one in between recover: `Recoverable`
  asks for some runtime;
- an edit between the comparison and the second read is taken into the baseline,
  and one between the read and the replacement is lost (a non-goal of ADR-0009).

DerivedIndex:

- a builder may quarantine the file another one is writing and die; the other then
  writes the reference to a torn file.  Retrieval falls back to the scan until a
  rebuild;
- pruning reads the revision to keep before a commit and may remove the index of
  the new CURRENT; the refresh after a commit builds only where the parent has an
  index, so the chain stays broken until a rebuild.

## What is proved

Each theorem holds for every value of the constants: any number of processes,
transactions, records, revisions, failures and power losses.  The assumptions are the
named ones of the modules: bounds are natural numbers, flags are Boolean, and the names
of different things (a lock nobody holds, an absent file, an id given by the code and
one given by a caller) are different.  Every inductive invariant was model-checked on
the instances of the runs before it was proved.

Three modules have hypotheses of their own, stated in their theorems.  Each is needed,
since without it TLC finds a counterexample that the code can reach (see Findings).

- `CompactionProofs`: `~ReuseRows`, no record is written with the bytes of one that was
  there before.
- `RelocationProofs`: `Alone`, one operator runs the commands of a project, finishes
  each move before the next (`OneAtATime`), and no writer keeps a store that it opened
  by flag (`~KeepNamed`).  Writers, places, moves and failures are any number.
- `IdentityProofs`: `OneFailure`, at most one write fails, in the theorems about receipts
  and answers.  `IdentityTypes` and `OneIdentityForGood` do without it.

| module | theorem | what it states |
|---|---|---|
| `TransactionsProofs` | `Inductive`, `TypeCorrect`, `HistoryIsDurable` | `IndInv`; the types; the manifests and segments of CURRENT's history are on the medium |
| | `CommittedOnce`, `CandidateUnique` | `ExactlyOnce`, `OneCandidate` |
| | `Refinement` | `Spec => ImplementsLedger` |
| | `EvidenceHolds` | the second invariant, `Evidence` |
| | `AckedCommitsStay`, `InspectionIsTrue`, `JournalsAreTrue`, `WatermarkIsDurable`, `RefusalIsSafe` | `AckedWritesHold`, `InspectTruthful`, `JournalTruthful`, `WatermarkOnHistory`, `BaseChangedIsTrue` |
| `CompactionProofs` | `CompactionInvariant` | `IndInv`, when `~ReuseRows` |
| | `SnapshotComplete`, `GateProtects`, `CleanupIsFinal`, `HistoryStaysKnown` | `CurrentReadable`, `ReadersIntact`, `CleanedHolds`, `Available` |
| | `MemoryRefinement` | `Spec => ImplementsMemory` |
| `RelocationProofs` | `RelocationInvariant` | `IndInv`, when `Alone` |
| | `AuthorityAlwaysComplete`, `AbortsLeaveNothing`, `OriginsEmptied` | `AuthorityComplete`, `AbortLeavesNothing`, `OriginEmptied` |
| | `RelocationImplementsCustody` | `Spec => ImplementsCustody` |
| `IdentityProofs` | `IdentityTypes` | the types, and that the files of two identities are never there together |
| | `OneIdentityForGood` | `Spec => ImplementsAssignment` |
| | `IdentityInvariant` | `IndInv`, when `OneFailure` |
| | `AckedIdentity`, `ReceiptsNeverAhead`, `RepairAlwaysResumes` | `AckedIdentityHolds`, `WritesCertified`, `RepairResumes` |
| `HostEvidenceProofs` | `ReceiptUsedOnce`, `RunsRecordedOnce`, `RecentRunCounts`, `KeyNeverReplaced` | `SingleUse`, `AckedRunHolds`, `NeverWronglyPending`, `KeyAssigned` |
| `LifecycleProofs` | `EveryLinkAccepted` | every revision passes the checks of its manifest, checkpoint and transition: the part of `Readable` without the chains of supersessions |
| | `OnlyAuthoritySilences`, `AnswersStayTrue`, `NoCheckpointLost`, `SilenceIsFinal` | `SilencedByAuthority`, `AnswersHold`, `CheckpointsChain`, `NeverRevived` |
| `ContextPackageProofs` | `TextIsTheUsers`, `AlwaysAWayOn`, `CleanStatusIsTrue`, `VersionsOnlyRise`, `DriftNeedsConsent` | `EditsSurvive`, `Recoverable`, `StatusTruthful`, `ContractRespected`, `BaselineByConsent` |
| `DerivedIndexProofs` | `IndexNeverAuthority`, `BuildersKnown`, `UndisturbedBuildHeals` | `ScanParity`; the types and jobs of the builders; `RebuildHeals` |

A proof has a lemma for each kind of step, one for each action, and a step for each
action in the theorem of the invariant; the properties follow from the invariant.

### Why the protocols work

**Transactions.**  A process inside `commit_locked` holds the lock (`LockHeld`).  The
durable journal of an id names the same attempt as the visible one (`JournalsAgree`),
and a candidate exists only after its journal is durable (`CandidatesBound`): the
journal that says prepared is written before any other object, and this order is what
makes the binding survive a power loss.  A writer past that point owns its journal,
and from its receipt on all its objects are durable (`WritersBound`).  Durable objects
are readable (`DiskSound`) and the durable CURRENT is an ancestor of the visible one
(`SafeOnHistory`).  Neither `OneCandidate` nor `ExactlyOnce` is inductive without
these: a second candidate is excluded because its writer would have met the journal of
the first, also after the power took the candidate and left the journal.

**The evidence of a commit.**  `Evidence` stands on that invariant.  A receipt was
earned when what it certifies was on the medium, and what is on the medium stays
(`ReceiptsTrue`); behind a replaced CURRENT its writer knows that CURRENT is its own on
the medium too, and a repair past its fsyncs that the part of the history it is about
is durable (`HoldersKnow`).  So the journal that says committed (`JournalsTrue`) and the
watermark (`MarksTrue`), in sight and on the medium, are about the durable history.
What inspect answers follows from the receipts, since the chain of CURRENT is always
readable and the walk of `candidate_relation` never stops short.

**Compaction.**  `Graph` is about the revisions and plans, which never change once
they are fixed: along a line everything accumulates, the catalogs of a revision chain
back from a newest one that archives what they all do, and the past of a revision is
closed and does not hold it.  `Cleanup` is what makes a replayed delete safe: a revision
behind an epoch holds none of what the epoch deletes, because all it adds is new to every
plan.  The active rows form a single segment after a compaction, and that segment is
in a plan only if the epoch showed the same rows, in which case it was protected
(`Spared`).  `HeadsOK` keeps the snapshots of CURRENT and of its copy on the medium
complete, and says that they differ only between the replacement of CURRENT and its
receipt, when nothing has been deleted; `Traced`, that each journal is there or
tombstoned; `JournalsOK`, that cleanup receipts are true.

The hypothesis `~ReuseRows` is used in one place, the freshness of a
written row, and it is needed: the run `reuse` is the counterexample without it.

What `verify_revision` and `inspect_transaction` answer follows: an archived revision is in the newest catalog, one in the line of
CURRENT is read with the objects of CURRENT, and CURRENT is never the parent of a
revision that is behind it.

**Relocation.**  A move is uncommitted until the step that moves the pointer, and
committed from there (`Uncommitted`, `Committed`); the journal lags behind that step and
tells the two apart together with the pointer.  Before it the source is the authority
and still what was planned, unless it has advanced, and the destination holds a part of
the copy and nothing else (`BeforeOK`): so an abort may remove the destination, and a
commit that finds the source advanced does not move the pointer.  Behind it the source
holds at most what was planned (second part of `MovesOK`): so the cleanup may remove all
of it.  `LastOK` ties the two: the authority is where the last move took it, and a
finished move has left its source empty.  The operator holds the locks of the source
from the check of the plan to the end (`OperatorsOK`), and a writer inside a commit the
locks of the authority (`WritersOK`), which is why no commit falls between the check and
the pointer.  `Alone` is what makes the journal an operator read before the locks the
one that is there behind them.

**Identity.**  `OneIdentity` needs no lock and no receipt: `_write_create_or_match`
refuses a file with other bytes, and a power loss only takes files away.  Receipts are
different, because the same function takes a file it finds for written without
flushing it.  What saves them is the order of the fsyncs.  A receipt is about what is on
the medium when it is written (`ReceiptsOK`), since the holder of the lock flushes
everything it is about in the step before.  The one failure can leave one thing
visible and not flushed; where that is the intent, nothing else is loose (`LooseAlone`),
and where nothing has failed nothing is (`NothingLoose`).  A receipt that a retry
meets unflushed therefore is certified by an earlier one (last part of `ReceiptOK`).
The root belongs to the identity of the intent, or to the one on the medium
(`RootOwned`), and the intent that says complete is flushed behind its receipt
(`IntentShape`, `AckedOK`): this is what `RepairResumes` and `AckedIdentityHolds` rest on.
With two failures the argument breaks where Findings says it does.

**HostEvidence.**  Each receipt in the history of CURRENT, in sight or on the medium,
has its tombstone on the medium, and no two are the same (`Burned`); the process that
is about to commit has written the tombstone and found none before (`Justified`).  A
run id of the host has one entry (`RunsOK`), and acknowledged entries are durable
(`AckedOK`).  The key on the medium is the one in sight or there is none (`KeyOK`).

**Lifecycle.**  Every entry of an overlay was put there by a plan with the authority
for it (`OverlaysEarned`), a transaction id lands once (`LandsOnce`), and an answer names
the revision of its plan, or none where the base of the plan has passed (`ToldOK`):
this is why a caller that was told no is never contradicted.

**ContextPackage.**  A command past its comparison knows what it read as long as nobody
edited it (`Fresh`), and that what it writes is not older than what is there
(`Raising`); the contract is written before the block (`PairOrdered`); a manifest, on
disk or in the hands of a command, names an original that is backed up
(`ManifestsSound`).  `raced` marks the edits inside that window, and the
properties except what the user put there.

**DerivedIndex.**  `ScanParity` needs no invariant of the index at all, and that is the
point: the narrowed answer is used only when it holds all that the scan ranks.  For
`RebuildHeals` a file is named by the process that writes it, and a builder that no
other disturbed finds its own file (`Undisturbed`).

### What is only model-checked

- Liveness (`Answered`): the prover does not reason about fairness.
- What needs induction over data: `BudgetExact`, whose sums are a fold, and the part of
  `Readable` that follows chains of supersessions and finds no cycle.

Every other property of the passing runs is a theorem.  Outside the hypotheses above
nothing is claimed: `CurrentReadable` is false where records are reused (`reuse`),
`AuthorityComplete` with two operators, with two moves at a time or with a store kept by
flag, and a receipt may certify what a power loss takes away after two failed fsyncs.

## What is not modelled

- Field by field validation, canonical JSON, digests: a digest is taken to name
  its bytes, and an object that does not match its digest is torn.
- New directories: a file fsynced with its directory is taken as durable, as the
  receipts of the code do, although the parents of a new directory are not fsynced.
- Reads of the public commands that interleave with a commit, except the snapshot
  reader of `Compaction`.
- The reentrant depth of locks and gate inside one process.
- `Identity`: the branch for compacted stores, symbolic links, the pointer of an
  external init, `record_project_relocation` and attach.
- `HostEvidence`: how prefixes and denied flags match a command (a whitelist is the
  set of commands it admits), and reads of a key file while it is written.
- `Lifecycle`: the shapes of proposals, authorities and refutation contracts (a
  refusal of shape leaves no state behind); refusals of the subject namespace.
- `ContextPackage`: separators and newline style, labels of unknown templates, manifests
  edited by hand, `verify_upgrade`, power loss (the unlinks are not fsynced).
- `DerivedIndex`: streams, freshness, records without id, a SQLite without FTS5, the
  gate that keeps compaction out (`Compaction`).
- Restore of a bundle; context views, evaluation, command line, MCP server,
  diagnostics, subjects: they read and format.  The update check is advisory, with
  a cache that may be lost.  Sealed exports: cryptography and an external process.

## Plan

Restore of a bundle and attach, over `Compaction` and `Relocation`; then the public
`inspect` against a running commit, its reads one by one.

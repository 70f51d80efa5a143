---------------------------- MODULE Transactions ----------------------------
(***************************************************************************)
(* The commit protocol of an_kla: commit_write_plan (write_commit.py) and  *)
(* commit_locked, inspect_transaction (transactions.py), with              *)
(* repair_durability (transaction_repair.py), over the disk of             *)
(* StoragePrimitives.                                                      *)
(*                                                                         *)
(* Content addressing.  A revision id is the digest of a manifest that     *)
(* names its parent's id, so an id stands for a whole history: here a      *)
(* revision IS the sequence of the entries committed from the root, which  *)
(* is <<>>.  Everything one attempt writes under a digest is determined by *)
(* the attempt (transaction id, base revision, plan), so an object is      *)
(* <<its kind, the attempt>>; a segment is named by its records alone and  *)
(* is shared by the attempts that write the same records.                  *)
(*                                                                         *)
(* A caller keeps its plan when a call ends, fails or dies, and may submit *)
(* it again under any transaction id.                                      *)
(***************************************************************************)
EXTENDS Sequences, StoragePrimitives

CONSTANTS Writers,               \* processes that commit and repair
          Txs,                   \* caller-chosen transaction ids
          Contents,              \* the records of a plan
          NoWriter,              \* nobody holds the write lock
          CandidateRepairLast,   \* digest order of the two repair receipts
          MaxFailures,           \* bound: I/O errors and process deaths
          MaxOutages             \* bound: power losses

ASSUME TransactionsAssumption ==
    /\ NoWriter \notin Writers
    /\ CandidateRepairLast \in BOOLEAN
    /\ MaxFailures \in Nat
    /\ MaxOutages \in Nat

VARIABLES
    disk,       \* the content-addressed objects
    current,    \* refs/CURRENT, a cell
    journal,    \* transactions/<txid>.json, a cell for each transaction id
    watermark,  \* watermarks/CURRENT, a cell
    lock,       \* who holds .write.lock
    pc,         \* where each writer is
    req,        \* the attempt each writer has in hand
    acks,       \* history: the commits callers were told of
    failures, outages

medium == <<disk, current, journal, watermark>>
process == <<lock, pc, req>>
bounds == <<failures, outages>>
vars == <<disk, current, journal, watermark, lock, pc, req, acks,
          failures, outages>>

-----------------------------------------------------------------------------
(* Revisions, attempts and the objects of an attempt.                      *)

Entries == [tx : Txs, content : Contents]
Revs == Seq(Entries)
Attempts == [tx : Txs, base : Revs, content : Contents]

\* A writer that has not planned yet.
NoPlan == [base |-> <<>>]

\* build_child_manifest: the revision an attempt builds on its base.
Child(a) == Append(a.base, [tx |-> a.tx, content |-> a.content])

Prefix(r, s) == Len(r) <= Len(s) /\ \A i \in 1..Len(r) : r[i] = s[i]

\* The attempt that wrote the i-th revision of a history.
AttemptAt(r, i) ==
    [tx |-> r[i].tx, base |-> SubSeq(r, 1, i - 1), content |-> r[i].content]

\* walk_revisions: the manifests from a revision down to the root.
ChainManifests(r) == {<<"revisions", AttemptAt(r, i)>> : i \in 1..Len(r)}

ChainSegments(r) == {<<"segments", r[i].content>> : i \in 1..Len(r)}

UsedContents(r) == {r[i].content : i \in 1..Len(r)}

\* The files a candidate-data-durable receipt protects; the checkpoint is
\* the base's and was protected with it.
Protected(a) == { <<"revisions", a>>, <<"intent", a>>, <<"stages", a>>,
                  <<"segments", a.content>> }

AttemptKinds == { "revisions", "intent", "stages", "observed_commit",
                  "candidate-data-durable", "current-durable",
                  "repair_candidate", "repair_current" }

Objects == (AttemptKinds \X Attempts) \cup ({"segments"} \X Contents)

-----------------------------------------------------------------------------
(* Journals.  The receipts and logs a journal names are determined by its  *)
(* attempt, so its stage says which of them it names:                      *)
(*   prepared           no candidate yet                                   *)
(*   candidate_prepared the candidate                                      *)
(*   candidate_durable  candidate_prepared with candidate_receipt          *)
(*   committed          both receipts, observed_log null                   *)
(*   observed           committed with observed_log                        *)

Stages == {"prepared", "candidate_prepared", "candidate_durable",
           "committed", "observed"}

NoJournal == [stage |-> "absent"]

Journals == {NoJournal} \cup [stage : Stages, attempt : Attempts]

Bound(t) == journal[t].seen # NoJournal

-----------------------------------------------------------------------------
(* Reading the evidence of a transaction.                                  *)

\* _manifest_candidates: the readable manifests that carry the id.
Candidates(t) == {a \in {o[2] : o \in {x \in disk.intact : x[1] = "revisions"}} :
                    a.tx = t}

\* _stage_attempts: the attempts of the readable stage objects, and whether
\* some stage object of the transaction is unreadable.
StageAttempts(t) == {a \in {o[2] : o \in {x \in disk.intact : x[1] = "stages"}} :
                       a.tx = t}

StageTorn(t) == \E o \in disk.torn : o[1] = "stages" /\ o[2].tx = t

\* candidate_relation, for the candidate of attempt a.
Relation(a, cur) ==
    IF Child(a) = cur THEN "current"
    ELSE IF ~(ChainManifests(cur) \subseteq disk.intact) THEN "unknown"
    ELSE IF Prefix(Child(a), cur) THEN "ancestor"
    ELSE "orphan"

Authoritative == {"current", "ancestor"}

\* make_outcome: authority, and the state by its precedence.
Outcome(rel, cur, parent, durable, audited) ==
    LET committed == IF rel \in Authoritative THEN "true"
                     ELSE IF cur = parent THEN "false"
                     ELSE "null"
    IN  [committed |-> committed,
         durable   |-> durable,
         state     |-> IF committed = "null" THEN "outcome_unknown"
                       ELSE IF ~durable THEN "durability_incomplete"
                       ELSE IF committed = "false" THEN "not_committed"
                       ELSE IF audited THEN "committed"
                       ELSE "committed_audit_incomplete"]

\* A call that ends with an error code and no outcome.
Refused(code) == [committed |-> "null", durable |-> FALSE, state |-> code]

\* _valid_receipt: the receipt is readable, binds the attempt, and every file
\* it protects still has its bytes; CURRENT's bytes are compared unless the
\* candidate is an ancestor.
CandidateReceiptValid(a) ==
    /\ <<"candidate-data-durable", a>> \in disk.intact
    /\ Protected(a) \subseteq disk.intact

CurrentReceiptValid(a, rel) ==
    /\ <<"current-durable", a>> \in disk.intact
    /\ rel = "ancestor" \/ current.seen = Child(a)

RepairValid(a, rel, kind) ==
    /\ <<kind, a>> \in disk.intact
    /\ Protected(a) \subseteq disk.intact
    /\ kind = "repair_current" => rel = "ancestor" \/ current.seen = Child(a)

\* The repair receipt inspect keeps: the last valid one in digest order.
RepairKind(a, rel) ==
    LET last  == IF CandidateRepairLast THEN "repair_candidate" ELSE "repair_current"
        first == IF CandidateRepairLast THEN "repair_current" ELSE "repair_candidate"
    IN  IF RepairValid(a, rel, last) THEN last
        ELSE IF RepairValid(a, rel, first) THEN first
        ELSE "none"

\* The durability axis of inspect_transaction.  Repair receipts are looked
\* for only when one of the two regular receipts is not valid, and the
\* current-durable receipt counts only with the candidate receipt it links.
Durable(a, rel) ==
    LET cand   == CandidateReceiptValid(a)
        cur    == CurrentReceiptValid(a, rel)
        repair == IF cand /\ cur THEN "none" ELSE RepairKind(a, rel)
    IN  IF rel \in Authoritative
        THEN (cur /\ cand) \/ repair = "repair_current"
        ELSE cand \/ repair = "repair_candidate"

\* observed_log_complete.
Audited(a) == /\ journal[a.tx].seen # NoJournal
              /\ journal[a.tx].seen.stage = "observed"
              /\ {<<"observed_commit", a>>, <<"intent", a>>} \subseteq disk.intact

\* inspect_transaction on a journal or a stage object that gives the attempt
\* a, with candidate c.
Verdict(a, c) ==
    LET rel == Relation(c, current.seen)
    IN  Outcome(rel, current.seen, a.base, Durable(c, rel), Audited(a))

\* The attempt with no candidate: relation unknown, no receipt can bind it.
NoCandidateVerdict(a) == Outcome("unknown", current.seen, a.base, FALSE, FALSE)

TheCandidate(t) == CHOOSE a \in Candidates(t) : TRUE

inspect_transaction(t) ==
    IF Cardinality(Candidates(t)) > 1
    THEN Refused("transaction_candidate_ambiguous")
    ELSE IF Bound(t)
    THEN LET a == journal[t].seen.attempt
         IN  IF journal[t].seen.stage # "prepared" THEN Verdict(a, a)
             ELSE IF Candidates(t) # {} THEN Verdict(a, TheCandidate(t))
             ELSE NoCandidateVerdict(a)
    ELSE IF Candidates(t) # {} /\ TheCandidate(t) \in StageAttempts(t)
    THEN Verdict(TheCandidate(t), TheCandidate(t))
    ELSE Refused("transaction_evidence_missing_or_invalid")

-----------------------------------------------------------------------------
(* The gates of a commit, in the order commit_write_plan and commit_locked *)
(* ask them.                                                               *)

\* Mutant: the moved base is refused without looking for a replay.
ObjectionNoReplay(a) ==
    IF current.seen # a.base THEN "write_plan_base_changed"
    ELSE IF Cardinality(Candidates(a.tx)) > 1 THEN "transaction_candidate_ambiguous"
    ELSE IF StageTorn(a.tx) THEN "transaction_evidence_missing_or_invalid"
    ELSE IF \/ Bound(a.tx) /\ journal[a.tx].seen.attempt # a
            \/ \E p \in StageAttempts(a.tx) : p # a
    THEN "transaction_binding_conflict"
    ELSE "none"

\* Mutant: nothing binds a transaction id to its attempt.
ObjectionNoBinding(a) ==
    IF current.seen # a.base /\ inspect_transaction(a.tx).committed # "true"
    THEN "write_plan_base_changed"
    ELSE IF Cardinality(Candidates(a.tx)) > 1 THEN "transaction_candidate_ambiguous"
    ELSE "none"

\* Mutant: only the base is asked about.
ObjectionBaseOnly(a) ==
    IF current.seen # a.base /\ inspect_transaction(a.tx).committed # "true"
    THEN "write_plan_base_changed"
    ELSE "none"

\* The first objection to submitting attempt a, or "none".
Objection(a) ==
    IF current.seen # a.base /\ inspect_transaction(a.tx).committed # "true"
    THEN "write_plan_base_changed"
    ELSE IF Cardinality(Candidates(a.tx)) > 1
    THEN "transaction_candidate_ambiguous"
    ELSE IF StageTorn(a.tx)
    THEN "transaction_evidence_missing_or_invalid"
    ELSE IF \/ Bound(a.tx) /\ journal[a.tx].seen.attempt # a
            \/ \E p \in StageAttempts(a.tx) : p # a
    THEN "transaction_binding_conflict"
    ELSE IF Candidates(a.tx) # {} /\ ~Bound(a.tx) /\ StageAttempts(a.tx) = {}
    THEN "transaction_evidence_missing_or_invalid"
    ELSE "none"

\* The attempt is already committed: the recorded outcome is returned.
AlreadyCommitted(a) ==
    Candidates(a.tx) # {} /\ inspect_transaction(a.tx).committed = "true"

-----------------------------------------------------------------------------
(* How a call ends.                                                        *)

Busy == {"locking", "prepare", "segment", "manifest", "intent", "stage",
         "journal_candidate", "sync_candidate", "receipt_candidate",
         "journal_receipt", "replace", "watermark", "sync_current",
         "receipt_current", "journal_committed", "observed_log",
         "journal_observed", "repair_sync", "repair_receipt", "repair_answer"}

Locked == Busy \ {"locking"}

Goto(w, next) ==
    /\ pc' = [pc EXCEPT ![w] = next]
    /\ UNCHANGED <<lock, req, acks>>

\* The call returns: the lock is released, the caller keeps its plan, and a
\* commit it was told of is remembered.
Finish(w, answer) ==
    /\ pc' = [pc EXCEPT ![w] = "planned"]
    /\ lock' = NoWriter
    /\ acks' = IF answer.committed = "true"
               THEN acks \cup {[rev |-> Child(req[w]), durable |-> answer.durable]}
               ELSE acks
    /\ UNCHANGED req

Fault == failures < MaxFailures /\ failures' = failures + 1 /\ UNCHANGED outages

\* The process is killed: the system releases the lock, nobody is told.
Die(w) ==
    /\ Fault
    /\ pc' = [pc EXCEPT ![w] = "planned"]
    /\ lock' = NoWriter
    /\ UNCHANGED <<req, acks>>

\* The except OSError clause of commit_locked, reached from step "at" with the
\* disk and CURRENT as the failed call left them.
AfterCandidateReceipt == {"journal_receipt", "replace", "watermark",
                          "sync_current", "receipt_current", "journal_committed"}

\* Mutant: the candidate receipt vouches for CURRENT too.
OSErrorOutcomeOptimistic(w, at, cur) ==
    LET a   == req[w]
        rel == IF at \in {"prepare", "segment", "manifest"} THEN "unknown"
               ELSE Relation(a, cur)
    IN  Outcome(rel, cur, a.base, at \in AfterCandidateReceipt, FALSE)

OSErrorOutcome(w, at, cur) ==
    LET a     == req[w]
        seen  == IF at = "prepare" THEN a.base ELSE cur
        rel   == IF at \in {"prepare", "segment", "manifest"} THEN "unknown"
                 ELSE Relation(a, seen)
        known == \/ rel \in Authoritative /\ at = "journal_committed"
                 \/ rel \notin Authoritative /\ at \in AfterCandidateReceipt
    IN  Outcome(rel, seen, a.base, known, FALSE)

\* A primitive of step "at" ended: go on, answer, or die with its effect.
EndStep(w, at, end, next, cur) ==
    \/ end = "ok" /\ Goto(w, next) /\ UNCHANGED bounds
    \/ end = "oserror" /\ Fault /\ Finish(w, OSErrorOutcome(w, at, cur))
    \/ end = "quarantine_quota_exceeded" /\ Finish(w, Refused(end)) /\ UNCHANGED bounds
    \/ Die(w)

WriteObject(w, at, kind, next) ==
    /\ pc[w] = at
    /\ \E r \in WriteImmutable(disk, <<kind, req[w]>>) :
         disk' = r.disk /\ EndStep(w, at, r.end, next, current.seen)
    /\ UNCHANGED <<current, journal, watermark>>

WriteJournal(w, at, stage, next) ==
    /\ pc[w] = at
    /\ \E r \in AtomicWrite(journal[req[w].tx], [stage |-> stage, attempt |-> req[w]]) :
         /\ journal' = [journal EXCEPT ![req[w].tx] = r.cell]
         /\ EndStep(w, at, r.end, next, current.seen)
    /\ UNCHANGED <<disk, current, watermark>>

-----------------------------------------------------------------------------
(* A caller: plan_write, then any number of commit_write_plan calls.       *)

\* plan_write reads CURRENT and its snapshot under the reader gate; a record
\* id the base already holds is refused (plan_duplicate_id).
PlanWrite(w) ==
    /\ pc[w] \in {"idle", "planned"}
    /\ \E t \in Txs, c \in Contents \ UsedContents(current.seen) :
         req' = [req EXCEPT ![w] = [tx |-> t, base |-> current.seen, content |-> c]]
    /\ pc' = [pc EXCEPT ![w] = "planned"]
    /\ UNCHANGED <<medium, lock, acks, bounds>>

\* The plan is submitted, or submitted again, under some transaction id.
Submit(w) ==
    /\ pc[w] = "planned"
    /\ \E t \in Txs : req' = [req EXCEPT ![w].tx = t]
    /\ pc' = [pc EXCEPT ![w] = "locking"]
    /\ UNCHANGED <<medium, lock, acks, bounds>>

\* Mutant: the lock is waited for without a deadline.
LockBusyNever(w) == pc[w] = "locking" /\ lock # NoWriter /\ FALSE /\ UNCHANGED vars

\* write_lock gives up: another process held the lock until the deadline.
LockBusy(w) ==
    /\ pc[w] = "locking"
    /\ lock # NoWriter
    /\ pc' = [pc EXCEPT ![w] = "planned"]
    /\ UNCHANGED <<medium, lock, req, acks, bounds>>

\* The lock is taken and the gates are asked; nothing is written before the
\* last of them, so a refusal or a replay leaves the medium alone.
Refuse(w) ==
    /\ pc[w] = "locking" /\ lock = NoWriter
    /\ Objection(req[w]) # "none"
    /\ Finish(w, Refused(Objection(req[w])))
    /\ UNCHANGED <<medium, bounds>>

Replay(w) ==
    /\ pc[w] = "locking" /\ lock = NoWriter
    /\ Objection(req[w]) = "none" /\ AlreadyCommitted(req[w])
    /\ Finish(w, inspect_transaction(req[w].tx))
    /\ UNCHANGED <<medium, bounds>>

\* Mutant: commit_locked runs without write_lock.
BeginUnlocked(w) ==
    /\ pc[w] = "locking"
    /\ Objection(req[w]) = "none" /\ ~AlreadyCommitted(req[w])
    /\ lock' = w
    /\ pc' = [pc EXCEPT ![w] = "prepare"]
    /\ UNCHANGED <<medium, req, acks, bounds>>

\* snapshot(observed) reads every manifest and segment of the base.
Begin(w) ==
    /\ pc[w] = "locking" /\ lock = NoWriter
    /\ Objection(req[w]) = "none" /\ ~AlreadyCommitted(req[w])
    /\ ChainManifests(req[w].base) \cup ChainSegments(req[w].base) \subseteq disk.intact
    /\ lock' = w
    /\ pc' = [pc EXCEPT ![w] = "prepare"]
    /\ UNCHANGED <<medium, req, acks, bounds>>

-----------------------------------------------------------------------------
(* The steps of commit_locked, in its order.                               *)

WritePrepared(w) == WriteJournal(w, "prepare", "prepared", "segment")

WriteSegment(w) ==
    /\ pc[w] = "segment"
    /\ \E r \in WriteImmutable(disk, <<"segments", req[w].content>>) :
         disk' = r.disk /\ EndStep(w, "segment", r.end, "manifest", current.seen)
    /\ UNCHANGED <<current, journal, watermark>>

WriteManifest(w) == WriteObject(w, "manifest", "revisions", "intent")

WriteIntent(w) == WriteObject(w, "intent", "intent", "stage")

WriteStage(w) == WriteObject(w, "stage", "stages", "journal_candidate")

WriteCandidateJournal(w) ==
    WriteJournal(w, "journal_candidate", "candidate_prepared", "sync_candidate")

\* write_receipt first syncs and rehashes what the receipt will protect.
SyncCandidate(w) ==
    /\ pc[w] = "sync_candidate"
    /\ \/ /\ CanSync(disk, Protected(req[w]))
          /\ disk' = SyncProtected(disk, Protected(req[w]))
          /\ EndStep(w, "sync_candidate", "ok", "receipt_candidate", current.seen)
       \/ /\ UNCHANGED disk
          /\ EndStep(w, "sync_candidate", "oserror", "receipt_candidate", current.seen)
    /\ UNCHANGED <<current, journal, watermark>>

WriteCandidateReceipt(w) ==
    WriteObject(w, "receipt_candidate", "candidate-data-durable", "journal_receipt")

\* Mutant: the journal says committed before CURRENT is replaced.
WriteReceiptJournalEarly(w) ==
    WriteJournal(w, "journal_receipt", "committed", "replace")

WriteReceiptJournal(w) ==
    WriteJournal(w, "journal_receipt", "candidate_durable", "replace")

\* Mutant: a failing fsync of the directory of CURRENT is swallowed.
ReplaceCurrentSwallows(w) ==
    /\ pc[w] = "replace" /\ current.seen = req[w].base
    /\ \E r \in AtomicWrite(current, Child(req[w])) :
         /\ current' = r.cell
         /\ EndStep(w, "replace", IF r.cell.seen = Child(req[w]) THEN "ok" ELSE r.end,
                    "watermark", r.cell.seen)
    /\ UNCHANGED <<disk, journal, watermark>>

\* CURRENT is read once more, then replaced.  A CURRENT that moved is an
\* OSError (current_changed_before_commit).
ReplaceCurrent(w) ==
    /\ pc[w] = "replace"
    /\ \E r \in IF current.seen = req[w].base THEN AtomicWrite(current, Child(req[w]))
                ELSE {[cell |-> current, end |-> "oserror"]} :
         /\ current' = r.cell
         /\ EndStep(w, "replace", r.end, "watermark", r.cell.seen)
    /\ UNCHANGED <<disk, journal, watermark>>

WriteWatermark(w) ==
    /\ pc[w] = "watermark"
    /\ \E r \in AtomicWrite(watermark, Child(req[w])) :
         /\ watermark' = r.cell
         /\ EndStep(w, "watermark", r.end, "sync_current", current.seen)
    /\ UNCHANGED <<disk, current, journal>>

\* The current-durable receipt protects CURRENT and its directory.
SyncCurrent(w) ==
    /\ pc[w] = "sync_current"
    /\ \/ /\ current.seen = Child(req[w])
          /\ current' = Cell(current.seen)
          /\ EndStep(w, "sync_current", "ok", "receipt_current", current.seen)
       \/ /\ UNCHANGED current
          /\ EndStep(w, "sync_current", "oserror", "receipt_current", current.seen)
    /\ UNCHANGED <<disk, journal, watermark>>

WriteCurrentReceipt(w) ==
    WriteObject(w, "receipt_current", "current-durable", "journal_committed")

\* CURRENT is confirmed (current_reread_mismatch is an OSError) and the
\* journal says committed.
WriteCommittedJournal(w) ==
    /\ pc[w] = "journal_committed"
    /\ IF current.seen = Child(req[w])
       THEN WriteJournal(w, "journal_committed", "committed", "observed_log")
       ELSE /\ EndStep(w, "journal_committed", "oserror", "observed_log", current.seen)
            /\ UNCHANGED medium

\* The outcome of a commit that reached its receipts, and the inner except
\* OSError: from here on a failure costs the audit axis only.
CommittedOutcome(w, audited) ==
    Outcome("current", Child(req[w]), req[w].base, TRUE, audited)

WriteObservedLog(w) ==
    /\ pc[w] = "observed_log"
    /\ \E r \in WriteImmutable(disk, <<"observed_commit", req[w]>>) :
         /\ disk' = r.disk
         /\ \/ r.end = "ok" /\ Goto(w, "journal_observed") /\ UNCHANGED bounds
            \/ r.end = "oserror" /\ Fault /\ Finish(w, CommittedOutcome(w, FALSE))
            \/ /\ r.end = "quarantine_quota_exceeded"
               /\ Finish(w, Refused(r.end)) /\ UNCHANGED bounds
            \/ Die(w)
    /\ UNCHANGED <<current, journal, watermark>>

WriteObservedJournal(w) ==
    /\ pc[w] = "journal_observed"
    /\ \E r \in AtomicWrite(journal[req[w].tx], [stage |-> "observed", attempt |-> req[w]]) :
         /\ journal' = [journal EXCEPT ![req[w].tx] = r.cell]
         /\ \/ r.end = "ok" /\ Finish(w, CommittedOutcome(w, TRUE)) /\ UNCHANGED bounds
            \/ r.end = "oserror" /\ Fault /\ Finish(w, CommittedOutcome(w, FALSE))
            \/ Die(w)
    /\ UNCHANGED <<disk, current, watermark>>

-----------------------------------------------------------------------------
(* repair_durability, under the write lock.                                *)

\* Exactly one candidate, its attempt, a known relation, and every required
\* file readable; anything less raises and changes nothing.
Repairable(a) ==
    /\ Candidates(a.tx) = {a}
    /\ IF Bound(a.tx) THEN journal[a.tx].seen.attempt = a ELSE a \in StageAttempts(a.tx)
    /\ Relation(a, current.seen) # "unknown"
    /\ Protected(a) \subseteq disk.intact

RepairBegin(w) ==
    /\ pc[w] \in {"idle", "planned"} /\ lock = NoWriter
    /\ \E t \in Txs : \E a \in Candidates(t) :
         Repairable(a) /\ req' = [req EXCEPT ![w] = a]
    /\ lock' = w
    /\ pc' = [pc EXCEPT ![w] = "repair_sync"]
    /\ UNCHANGED <<medium, acks, bounds>>

RepairEnd(w, end, next) ==
    \/ end = "ok" /\ Goto(w, next) /\ UNCHANGED bounds
    \/ end = "oserror" /\ Fault /\ Finish(w, Refused("storage_io_failed"))
    \/ end = "quarantine_quota_exceeded" /\ Finish(w, Refused(end)) /\ UNCHANGED bounds
    \/ Die(w)

\* Mutant: the repair certifies CURRENT without an fsync of it.
RepairSyncFilesOnly(w) ==
    /\ pc[w] = "repair_sync" /\ CanSync(disk, Protected(req[w]))
    /\ disk' = SyncProtected(disk, Protected(req[w]))
    /\ RepairEnd(w, "ok", "repair_receipt")
    /\ UNCHANGED <<current, journal, watermark>>

\* Mutant: the repair puts CURRENT back to the revision it repairs.
RepairSyncRewinds(w) ==
    /\ pc[w] = "repair_sync" /\ CanSync(disk, Protected(req[w]))
    /\ disk' = SyncProtected(disk, Protected(req[w]))
    /\ current' = IF Relation(req[w], current.seen) \in Authoritative
                  THEN Cell(Child(req[w])) ELSE current
    /\ RepairEnd(w, "ok", "repair_receipt")
    /\ UNCHANGED <<journal, watermark>>

\* fsync every required file, and CURRENT when the candidate is in its chain.
RepairSync(w) ==
    /\ pc[w] = "repair_sync"
    /\ \/ /\ CanSync(disk, Protected(req[w]))
          /\ disk' = SyncProtected(disk, Protected(req[w]))
          /\ current' = IF Relation(req[w], current.seen) \in Authoritative
                        THEN Cell(current.seen) ELSE current
          /\ RepairEnd(w, "ok", "repair_receipt")
       \/ /\ UNCHANGED <<disk, current>>
          /\ RepairEnd(w, "oserror", "repair_receipt")
    /\ UNCHANGED <<journal, watermark>>

RepairReceipt(w) ==
    /\ pc[w] = "repair_receipt"
    /\ \E r \in WriteImmutable(disk,
              IF Relation(req[w], current.seen) \in Authoritative
              THEN <<"repair_current", req[w]>> ELSE <<"repair_candidate", req[w]>>) :
         disk' = r.disk /\ RepairEnd(w, r.end, "repair_answer")
    /\ UNCHANGED <<current, journal, watermark>>

RepairAnswer(w) ==
    /\ pc[w] = "repair_answer"
    /\ Finish(w, inspect_transaction(req[w].tx))
    /\ UNCHANGED <<medium, bounds>>

-----------------------------------------------------------------------------
(* The machine.                                                            *)

\* The kernel writes back on its own something nobody fsynced.
Writeback ==
    /\ \/ \E o \in disk.intact \ disk.durable :
            /\ disk' = [disk EXCEPT !.durable = @ \cup {o}]
            /\ UNCHANGED <<current, journal>>
       \/ /\ current.safe # current.seen
          /\ current' = Cell(current.seen)
          /\ UNCHANGED <<disk, journal>>
       \/ \E t \in Txs :
            /\ journal[t].safe # journal[t].seen
            /\ journal' = [journal EXCEPT ![t] = Cell(journal[t].seen)]
            /\ UNCHANGED <<disk, current>>
    /\ UNCHANGED <<watermark, process, acks, bounds>>

\* Power fails: every process dies, and commits that were only reported as
\* not durable are no longer promised.
PowerLoss ==
    /\ outages < MaxOutages /\ outages' = outages + 1
    /\ disk' \in DisksAfterPowerLoss(disk)
    /\ current' \in CellsAfterPowerLoss(current)
    /\ watermark' \in CellsAfterPowerLoss(watermark)
    /\ journal' \in [Txs -> UNION {CellsAfterPowerLoss(journal[t]) : t \in Txs}]
    /\ \A t \in Txs : journal'[t] \in CellsAfterPowerLoss(journal[t])
    /\ pc' = [w \in Writers |-> IF pc[w] = "idle" THEN "idle" ELSE "planned"]
    /\ lock' = NoWriter
    /\ acks' = {k \in acks : k.durable}
    /\ UNCHANGED <<req, failures>>

-----------------------------------------------------------------------------
\* A store that was initialized: the root revision is current and durable.
Init ==
    /\ disk = EmptyDisk
    /\ current = Cell(<<>>)
    /\ journal = [t \in Txs |-> Cell(NoJournal)]
    /\ watermark = Cell(<<>>)
    /\ lock = NoWriter
    /\ pc = [w \in Writers |-> "idle"]
    /\ req = [w \in Writers |-> NoPlan]
    /\ acks = {}
    /\ failures = 0 /\ outages = 0

Step(w) ==
    \/ LockBusy(w) \/ Refuse(w) \/ Replay(w) \/ Begin(w)
    \/ WritePrepared(w) \/ WriteSegment(w) \/ WriteManifest(w)
    \/ WriteIntent(w) \/ WriteStage(w) \/ WriteCandidateJournal(w)
    \/ SyncCandidate(w) \/ WriteCandidateReceipt(w) \/ WriteReceiptJournal(w)
    \/ ReplaceCurrent(w) \/ WriteWatermark(w) \/ SyncCurrent(w)
    \/ WriteCurrentReceipt(w) \/ WriteCommittedJournal(w)
    \/ WriteObservedLog(w) \/ WriteObservedJournal(w)
    \/ RepairSync(w) \/ RepairReceipt(w) \/ RepairAnswer(w)

Next ==
    \/ \E w \in Writers : PlanWrite(w) \/ Submit(w) \/ RepairBegin(w) \/ Step(w)
    \/ Writeback
    \/ PowerLoss

Spec == Init /\ [][Next]_vars

\* A process that is running keeps running, and a process that waits for the
\* lock either gets it or reaches its deadline.
FairSpec == Spec /\ \A w \in Writers : WF_vars(Step(w))
-----------------------------------------------------------------------------
(* What makes the protocol correct.                                        *)

MediumOK ==
    /\ disk \in DiskOf(Objects)
    /\ current \in CellOf(Revs)
    /\ journal \in [Txs -> CellOf(Journals)]
    /\ watermark \in CellOf(Revs)

ProcessOK ==
    /\ lock \in Writers \cup {NoWriter}
    /\ pc \in [Writers -> {"idle", "planned"} \cup Busy]
    /\ req \in [Writers -> Attempts \cup {NoPlan}]
    /\ \A w \in Writers : pc[w] # "idle" => req[w] \in Attempts
    /\ acks \subseteq [rev : Revs, durable : BOOLEAN]
    /\ failures \in Nat /\ outages \in Nat

\* Every variable has its type; a writer past planning has an attempt.
TypeOK == MediumOK /\ ProcessOK

\* However often a caller retries a transaction id, across crashes, power
\* losses, lost replies and other writers, CURRENT's history holds it at most
\* once (the reconciliation of commit_locked, transactions.py).
ExactlyOnce ==
    \A i, j \in 1..Len(current.seen) :
        current.seen[i].tx = current.seen[j].tx => i = j

\* CURRENT never names a history with a manifest or a segment a power loss
\* could still take away, also when an identical object was already there
\* and write_immutable returned without an fsync: sync_protected runs before
\* _replace_current.
HistoryDurable ==
    ChainManifests(current.seen) \cup ChainSegments(current.seen) \subseteq disk.durable

\* A transaction id never has two candidate revisions, so inspect never
\* answers transaction_candidate_ambiguous about the store's own writes.
OneCandidate ==
    \A a, b \in UNION {Candidates(t) : t \in Txs} : a.tx = b.tx => a = b

\* A commit a caller was told of (by commit, by a replay or by repair) stays
\* in CURRENT's history until a power loss, and across power losses when it
\* was reported with durability complete.
AckedWritesHold ==
    \A k \in acks : /\ Prefix(k.rev, current.seen)
                    /\ k.durable => Prefix(k.rev, current.safe)

\* What inspect_transaction says about a readable candidate is the truth at
\* any moment, whatever receipts and journals earlier attempts, crashes and
\* repairs left: committed says whether CURRENT's history holds it, and a
\* complete durability is complete on the medium.
InspectTruthful ==
    \A a \in UNION {Candidates(t) : t \in Txs} :
        LET v == inspect_transaction(a.tx)
        IN  /\ (v.committed = "true") = Prefix(Child(a), current.seen)
            /\ v.durable => /\ Protected(a) \subseteq disk.durable
                            /\ v.committed = "true" => Prefix(Child(a), current.safe)

\* A journal that says committed is never about a commit that a power loss
\* took or can take away.
JournalTruthful ==
    \A t \in Txs :
        Bound(t) /\ journal[t].seen.stage \in {"committed", "observed"}
            => Prefix(Child(journal[t].seen.attempt), current.safe)

\* The watermark, which lets a reader stop validating early, only ever names
\* a revision of the durable history.
WatermarkOnHistory == Prefix(watermark.seen, current.safe)

\* A caller told write_plan_base_changed can plan again without writing its
\* records twice: the attempt it submitted is not in the history.
BaseChangedIsTrue ==
    \A w \in Writers :
        pc[w] = "locking" /\ Objection(req[w]) = "write_plan_base_changed"
            => ~Prefix(Child(req[w]), current.seen)

\* CURRENT moves from a revision to a child of it; the only other change is
\* the return to the durable value after a power loss.
L == INSTANCE Ledger WITH log <- current.seen, stable <- current.safe

ImplementsLedger == L!LedgerSpec

\* Every submission and every repair is answered, or its process dies.
Answered == \A w \in Writers : pc[w] \in Busy ~> pc[w] = "planned"

-----------------------------------------------------------------------------
(* The inductive invariant behind these properties.                        *)

\* Only the holder of the lock is inside the protocol.
LockHeld == \A w \in Writers : pc[w] \in Locked => lock = w

\* A journal is about its own transaction, and the attempt that is durable in
\* it is the attempt a reader sees.
JournalsAgree ==
    \A t \in Txs :
        /\ journal[t].seen # NoJournal => journal[t].seen.attempt.tx = t
        /\ journal[t].safe # NoJournal =>
             /\ journal[t].seen # NoJournal
             /\ journal[t].seen.attempt = journal[t].safe.attempt

\* A candidate exists only once its journal is durable.
CandidatesBound ==
    \A t \in Txs : \A a \in Candidates(t) :
        journal[t].safe # NoJournal /\ journal[t].safe.attempt = a

\* A writer inside commit_locked owns the journal of its transaction id, and
\* from the receipt on everything CURRENT will need is durable.
AfterPrepare == {"segment", "manifest", "intent", "stage", "journal_candidate",
                 "sync_candidate", "receipt_candidate", "journal_receipt",
                 "replace", "watermark", "sync_current", "receipt_current",
                 "journal_committed", "observed_log", "journal_observed"}

WritersBound ==
    \A w \in Writers :
        /\ pc[w] = "prepare" /\ Bound(req[w].tx)
             => journal[req[w].tx].seen.attempt = req[w]
        /\ pc[w] \in AfterPrepare
             => /\ journal[req[w].tx].safe # NoJournal
                /\ journal[req[w].tx].safe.attempt = req[w]
        /\ pc[w] \in {"receipt_candidate", "journal_receipt", "replace"}
             => Protected(req[w]) \subseteq disk.durable

\* Durable objects are readable, and the durable CURRENT is in the history
\* of the visible one.
DiskSound == disk.durable \subseteq disk.intact

SafeOnHistory == Prefix(current.safe, current.seen)

IndInv == /\ TypeOK /\ LockHeld /\ JournalsAgree /\ CandidatesBound
          /\ WritersBound /\ DiskSound /\ SafeOnHistory /\ HistoryDurable
=============================================================================

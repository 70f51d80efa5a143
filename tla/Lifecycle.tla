----------------------------- MODULE Lifecycle -----------------------------
(***************************************************************************)
(* How records come to be and cease to be current: the governed write,     *)
(* refute and checkpoint operations (store.plan_write, write_commit,       *)
(* refutations, checkpoints), the policies that decide them (write_policy, *)
(* write_batch, refute_policy, checkpoint_policy), the overlay a snapshot  *)
(* lays over the immutable segments, and the validators every reader runs  *)
(* (revision_validation).                                                  *)
(*                                                                         *)
(* A commit is one step here: the write lock and the commit protocol under *)
(* it are the subject of Transactions.  What stays of them is what the     *)
(* operations above see: a commit may die leaving evidence of its attempt, *)
(* and may land without its caller hearing of it.  A digest is the value   *)
(* it is the digest of; a revision and a checkpoint are known by the       *)
(* position in the history at which they were made.                        *)
(***************************************************************************)
EXTENDS Naturals, FiniteSets, Sequences

CONSTANTS
  Ids,          \* record ids callers choose
  Callers,      \* callers: each plans once and commits under a transaction id
                \* of its own; a process that plans again is another caller
  Contents,     \* working states, apart from their link to the one before
  Resolvers,    \* refute authority resolvers a host may configure
  Requests,     \* [full, class, scoped, verified]: the representation a caller
                \* asks for and the authority it brings
  Operations,   \* operations proposals ask for; add and supersede are supported
  Claims,       \* [class, scoped, found]: the authority claimed for a refutation,
                \* and whether the base holds the evidence it names
  Statuses,     \* physical statuses of new records; "vigente" is the current one
  None,         \* no plan, no resolver, no answer
  MaxRevisions, \* bound on the length of the history
  MaxBatch      \* bound on the records of one proposal (the code's is 1000)

ASSUME BoundsAssumption == MaxRevisions \in Nat \ {0}

\* The ids of the audit rows are no ids of callers.
ASSUME IdsAssumption == \A i \in Ids, n \in 1 .. MaxRevisions : i # <<"policy", n>>

VARIABLES
  history,  \* the manifests CURRENT has pointed at, oldest first
  held,     \* held[c]: the planning result caller c keeps
  bound,    \* bound[c]: the attempt whose evidence c's transaction left behind
  told      \* told[c]: the plan and the revision c was last answered, 0 for none

vars == <<history, held, bound, told>>

Streams == {"facts", "events"}

CURRENT == Len(history)

(***************************************************************************)
(* Policies.  A plan is the planning result its caller keeps: proposal,    *)
(* authority and decision.  They are pure, and run again at commit.        *)
(***************************************************************************)
Privileged == {"tool_observed", "channel_confirmed"}

Derived == {"model_derived", "derived_from_retrieval"}

WriteProposal(s, op, rows, targets, request) ==
  [kind |-> "write", base |-> CURRENT, stream |-> s, op |-> op, rows |-> rows,
   targets |-> targets, request |-> request, decision |-> "skip"]

RefuteProposal(r, claim) ==
  [kind |-> "refute", base |-> CURRENT, target |-> r, claim |-> claim,
   attestation |-> None, decision |-> "skip"]

\* replaces is supersedes_checkpoint, the link of the working state.
CheckpointProposal(working, replaces, request) ==
  [kind |-> "checkpoint", base |-> CURRENT, working |-> working,
   replaces |-> replaces, request |-> request, decision |-> "skip"]

\* The ids of a batch are distinct because rows is a function.
ValidateBatchProposal(p) ==
  /\ DOMAIN p.targets = (IF p.op = "supersede" THEN DOMAIN p.rows ELSE {})
  /\ \A i \in DOMAIN p.targets :
       /\ p.targets[i] \notin DOMAIN p.rows
       /\ \A j \in DOMAIN p.targets : p.targets[i] = p.targets[j] => i = j

\* No host adapter exists for channel_confirmed.
ValidateWriteAuthority(a) == a.class # "channel_confirmed"

ValidateCheckpointAuthority(a) == a.class \in {"model_derived", "unresolved"}

EvaluateWrite_SilencedByDerived(p) ==
  LET a == p.request IN
  IF /\ a.scoped
     /\ p.op \in {"add", "supersede"}
     /\ \/ a.class = "tool_observed" /\ a.verified
        \/ a.class \in Derived /\ ~a.full
  THEN "commit" ELSE "skip"

EvaluateWrite(p) ==
  LET a == p.request IN
  IF /\ a.scoped
     /\ p.op \in {"add", "supersede"}
     /\ \/ a.class = "tool_observed" /\ a.verified
        \/ /\ a.class \in Derived /\ ~a.full
           /\ ~(p.op = "supersede" /\ a.class = "derived_from_retrieval")
  THEN "commit" ELSE "skip"

VerifyWritePlan(p) ==
  /\ ValidateBatchProposal(p) /\ ValidateWriteAuthority(p.request)
  /\ p.decision = EvaluateWrite(p)

Attestation(p, resolver) ==
  [resolver |-> resolver, base |-> p.base, target |-> p.target, claim |-> p.claim]

\* The base is immutable, so the observations of a plan never change.
Observed(p) == p.claim.found

EvaluateRefute(p, resolver, attests) ==
  IF /\ p.claim.scoped /\ p.claim.class \in Privileged
     /\ resolver # None /\ Observed(p) /\ attests
  THEN "commit" ELSE "skip"

VerifyRefutePlan(p) == (p.decision = "commit") = (p.attestation # None)

\* A working state equals the current checkpoint's only if its link does too.
EvaluateCheckpoint(p) ==
  LET m == history[p.base] IN
  IF /\ p.request.scoped /\ p.request.class # "unresolved"
     /\ ~(m.checkpoint > 1 /\ [working |-> m.working, replaces |-> m.replaces]
                            = [working |-> p.working, replaces |-> p.replaces])
  THEN "commit" ELSE "skip"

VerifyCheckpointPlan(p) ==
  /\ ValidateCheckpointAuthority(p.request)
  /\ p.replaces = history[p.base].checkpoint
  /\ p.decision = EvaluateCheckpoint(p)

(***************************************************************************)
(* The snapshot: the rows of the segments under the two overlays.          *)
(***************************************************************************)
Refuted_LastEntry(m, r) ==
  \E e \in m.refuted : e.target = r /\ \A f \in m.refuted : f.base <= e.base

Refuted(m, r) == \E e \in m.refuted : e.target = r

Superseded(m, r) ==
  \E e \in m.superseded : e.stream = r.stream /\ e.target = r.id

Status(m, r) ==
  IF Refuted(m, r) THEN "refutada"
  ELSE IF Superseded(m, r) THEN "sustituida" ELSE r.status

IsActive(status) == status = "vigente"

IdsIn(m, s) == {r.id : r \in {q \in m.rows : q.stream = s}}

Vigente(m, s, i) ==
  \E r \in m.rows : r.stream = s /\ r.id = i /\ IsActive(Status(m, r))

AssignRecords(m, p) == DOMAIN p.rows \cap IdsIn(m, p.stream) = {}

ResolveSupersedeTargets(m, p) ==
  \A i \in DOMAIN p.targets :
    p.targets[i] # i /\ Vigente(m, p.stream, p.targets[i])

\* The same two checks ahead of the lock, for an early answer only.
GuardPlanAgainstSnapshot(m, p) == AssignRecords(m, p) /\ ResolveSupersedeTargets(m, p)

\* The refute guard reads the raw rows and the two maps.
TargetGuard_IgnoresSupersedes(m, r) ==
  r \in m.rows /\ ~Refuted(m, r) /\ IsActive(r.status)

TargetGuard(m, r) ==
  r \in m.rows /\ ~Superseded(m, r) /\ ~Refuted(m, r) /\ IsActive(r.status)

\* What inspect_refute answers of a row.
InspectState(m, r) ==
  IF Refuted(m, r) THEN "refuted"
  ELSE IF Superseded(m, r) THEN "superseded"
  ELSE IF IsActive(r.status) THEN "active" ELSE "inactive"

Successors(m, s, i) ==
  {e.by : e \in {f \in m.superseded : f.stream = s /\ f.target = i}}

\* The records of a stream reachable from a set of them in n hops.
Hops(m, s, from) ==
  LET hop[n \in 0 .. Cardinality(m.superseded)] ==
        IF n = 0 THEN from ELSE UNION {Successors(m, s, i) : i \in hop[n - 1]}
  IN  hop

InspectChain(m, r) ==
  LET hop == Hops(m, r.stream, {r.id})
  IN  {q \in m.rows : q.stream = r.stream /\ \E n \in DOMAIN hop : q.id \in hop[n]}

(***************************************************************************)
(* The validators of revision_validation, which every snapshot runs.       *)
(***************************************************************************)
ValidateManifest(m) ==
  /\ m.schema = "v1" => m.refuted = {}
  /\ m.schema = "v2" => m.refuted # {}
  /\ \A e, f \in m.refuted : e.target = f.target => e = f

ValidateCheckpoint(n) == history[n].checkpoint \in 1 .. n

ValidTransition(n) ==
  LET m == history[n]
      parent == history[n - 1]
      new == m.refuted \ parent.refuted
  IN
  /\ parent.superseded \subseteq m.superseded
  /\ parent.refuted \subseteq m.refuted
  /\ parent.schema # "v1" => m.schema = parent.schema
  /\ Cardinality(new) <= 1
  /\ parent.schema = "v1" /\ m.schema = "v2" => Cardinality(new) = 1
  /\ m.schema # "v1" => (m.attempt.kind = "refute") = (new # {})
  /\ \A e \in new : e.base = n - 1

\* The attestation kept with a refutation is of that refutation.
ValidateRefutationStorage(e) ==
  e.attestation # None /\ e.attestation.target = e.target /\ e.attestation.base = e.base

\* The overlays name records there are, one successor for each superseded
\* record, and no record in both.
ValidateOverlays(m) ==
  /\ \A e \in m.superseded :
       /\ {e.target, e.by} \subseteq IdsIn(m, e.stream)
       /\ \A f \in m.superseded :
            e.stream = f.stream /\ e.target = f.target => e = f
  /\ \A e \in m.refuted :
       /\ e.target \in m.rows
       /\ ~Superseded(m, e.target)
       /\ ValidateRefutationStorage(e)

ValidateLifecycle(m) ==
  /\ ValidateOverlays(m)
  /\ \A e \in m.superseded :
       LET hop == Hops(m, e.stream, {e.target})
       IN  \A n \in DOMAIN hop : n > 0 => e.target \notin hop[n]

(***************************************************************************)
(* Planning.                                                               *)
(***************************************************************************)
Genesis ==
  [schema |-> "v1", rows |-> {}, superseded |-> {}, refuted |-> {},
   checkpoint |-> 1, working |-> None, replaces |-> 0, attempt |-> None,
   tx |-> None]

\* The root a compaction leaves: no overlays, only current rows.
CompactedRoot(i) ==
  [Genesis EXCEPT !.schema = "v3",
                  !.rows = {[stream |-> "facts", id |-> i, status |-> "vigente"]}]

Init ==
  /\ history \in {<<Genesis>>} \cup {<<CompactedRoot(i)>> : i \in Ids}
  /\ held = [c \in Callers |-> None]
  /\ bound = [c \in Callers |-> None]
  /\ told = [c \in Callers |-> None]

Batches == UNION {[N -> Statuses] :
                    N \in {M \in SUBSET Ids : Cardinality(M) \in 1 .. MaxBatch}}

PlanWrite(c) ==
  /\ held[c] = None
  /\ \E s \in Streams, op \in Operations, rows \in Batches,
        a \in Requests :
       \E targets \in [IF op = "supersede" THEN DOMAIN rows ELSE {}
                         -> IdsIn(history[CURRENT], s)] :
         LET p == WriteProposal(s, op, rows, targets, a)
         IN  /\ ValidateBatchProposal(p) /\ ValidateWriteAuthority(a)
             /\ EvaluateWrite(p) = "commit" =>
                  GuardPlanAgainstSnapshot(history[CURRENT], p)
             /\ held' = [held EXCEPT ![c] = [p EXCEPT !.decision = EvaluateWrite(p)]]
  /\ UNCHANGED <<history, bound, told>>

\* The digest a refutation names is of some row, whether the store has it or
\* not: planning does not look.  Evidence outside the store counts as found.  An
\* attestation carries a proof its resolver alone can make, so one in hand is one
\* it gave.
PlanRefute(c) ==
  /\ held[c] = None
  /\ \E r \in history[CURRENT].rows \cup
               [stream : {"facts"}, id : Ids, status : {"vigente"}],
        claim \in Claims, attests \in BOOLEAN, resolver \in Resolvers \cup {None} :
       LET p == RefuteProposal(r, claim)
       IN  held' = [held EXCEPT ![c] =
                      IF EvaluateRefute(p, resolver, attests) = "commit"
                      THEN [p EXCEPT !.decision = "commit",
                                     !.attestation = Attestation(p, resolver)]
                      ELSE p]
  /\ UNCHANGED <<history, bound, told>>

\* A working state that does not link to the current checkpoint is refused, and
\* so are the authority classes that need an adapter.
PlanCheckpoint(c) ==
  /\ held[c] = None
  /\ \E w \in Contents, k \in 1 .. CURRENT, a \in Requests :
       LET p == CheckpointProposal(w, k, a)
       IN  /\ k = history[CURRENT].checkpoint /\ ValidateCheckpointAuthority(a)
           /\ held' = [held EXCEPT ![c] = [p EXCEPT !.decision = EvaluateCheckpoint(p)]]
  /\ UNCHANGED <<history, bound, told>>

\* The planning result is a document its caller keeps, and may come back
\* changed: another decision, or an attested refutation aimed at another row.
Alter(c) ==
  /\ held[c] # None
  /\ \/ held' = [held EXCEPT ![c].decision = "commit"]
     \/ /\ held[c].kind = "refute" /\ held[c].attestation # None
        /\ \E r \in history[CURRENT].rows : held' = [held EXCEPT ![c].target = r]
  /\ UNCHANGED <<history, bound, told>>

(***************************************************************************)
(* Committing, under the write lock.                                       *)
(***************************************************************************)
Landed(c) == {n \in 2 .. CURRENT : history[n].tx = c}

Reconciles_AnyAttempt(c, p) == TRUE

\* reconcile_attempt, and the same lines of _commit_locked: the evidence the
\* transaction has left, if any, is of this very attempt.
Reconciles(c, p) ==
  /\ bound[c] \in {None, p}
  /\ \A n \in Landed(c) : history[n].attempt = p

AuditRow(p) == [stream |-> "events", id |-> <<"policy", p.base>>, status |-> "vigente"]

Child(c, p) ==
  LET m == history[CURRENT]
      new == CURRENT + 1
  IN  [schema |-> IF m.schema = "v1" /\ p.kind = "refute" THEN "v2" ELSE m.schema,
       rows |-> m.rows \cup
         (IF p.kind # "write" THEN {}
          ELSE {AuditRow(p)} \cup
               {[stream |-> p.stream, id |-> i, status |-> p.rows[i]] : i \in DOMAIN p.rows}),
       superseded |-> m.superseded \cup
         (IF p.kind # "write" THEN {}
          ELSE {[stream |-> p.stream, target |-> p.targets[i], by |-> i] :
                  i \in DOMAIN p.targets}),
       refuted |-> m.refuted \cup
         (IF p.kind # "refute" THEN {}
          ELSE {[target |-> p.target, base |-> p.base, attestation |-> p.attestation]}),
       checkpoint |-> IF p.kind = "checkpoint" THEN new ELSE m.checkpoint,
       working |-> IF p.kind = "checkpoint" THEN p.working ELSE m.working,
       replaces |-> IF p.kind = "checkpoint" THEN p.replaces ELSE m.replaces,
       attempt |-> p, tx |-> c]

\* The commit lands and is answered, lands unheard, or dies leaving evidence.
CommitLocked(c, p) ==
  /\ CURRENT < MaxRevisions
  /\ Reconciles(c, p) /\ Landed(c) = {}
  /\ \/ /\ history' = Append(history, Child(c, p))
        /\ \/ told' = [told EXCEPT ![c] = [plan |-> p, revision |-> CURRENT + 1]]
           \/ UNCHANGED told
        /\ UNCHANGED bound
     \/ /\ bound' = [bound EXCEPT ![c] = p]
        /\ UNCHANGED <<history, told>>
  /\ UNCHANGED held

Answer(c, p, n) ==
  /\ told' = [told EXCEPT ![c] = [plan |-> p, revision |-> n]]
  /\ UNCHANGED <<history, held, bound>>

\* The base must still be current; otherwise only a transaction that has
\* already committed this plan is answered again.
CommitWritePlan(c) ==
  LET p == held[c] IN
  /\ p # None /\ p.kind = "write"
  /\ \/ /\ p.base = CURRENT
        /\ VerifyWritePlan(p) /\ p.decision = "commit"
        /\ ResolveSupersedeTargets(history[CURRENT], p)
        /\ AssignRecords(history[CURRENT], p)
        /\ CommitLocked(c, p)
     \/ /\ p.base # CURRENT /\ Reconciles(c, p)
        /\ \E n \in Landed(c) : Answer(c, p, n)

\* The resolver configured now must be the one that attested, and stand by it.
VerifyCommitAuthority(p, resolver) ==
  /\ resolver # None
  /\ p.attestation = Attestation(p, resolver)
  /\ p.claim.class \in Privileged /\ Observed(p)

\* Evidence of the attempt is looked up first: a committed one is answered
\* again, and one whose base has moved on is answered as not committed.
CommitRefute(c) ==
  LET p == held[c] IN
  /\ p # None /\ p.kind = "refute"
  /\ VerifyRefutePlan(p) /\ p.decision = "commit"
  /\ Reconciles(c, p)
  /\ \/ \E n \in Landed(c) : Answer(c, p, n)
     \/ /\ Landed(c) = {} /\ p.base # CURRENT /\ bound[c] = p
        /\ Answer(c, p, 0)
     \/ /\ p.base = CURRENT
        /\ \E resolver \in Resolvers \cup {None} : VerifyCommitAuthority(p, resolver)
        /\ TargetGuard(history[CURRENT], p.target)
        /\ CommitLocked(c, p)

CommitCheckpoint_CheckedBeforeLock(c) ==
  LET p == held[c] IN
  /\ p # None /\ p.kind = "checkpoint"
  /\ VerifyCheckpointPlan(p) /\ p.decision = "commit"
  /\ \/ CommitLocked(c, p)
     \/ /\ p.base # CURRENT /\ Reconciles(c, p)
        /\ \E n \in Landed(c) : Answer(c, p, n)

CommitCheckpoint(c) ==
  LET p == held[c] IN
  /\ p # None /\ p.kind = "checkpoint"
  /\ VerifyCheckpointPlan(p) /\ p.decision = "commit"
  /\ \/ p.base = CURRENT /\ CommitLocked(c, p)
     \/ /\ p.base # CURRENT /\ Reconciles(c, p)
        /\ \E n \in Landed(c) : Answer(c, p, n)

Next ==
  \E c \in Callers :
    \/ PlanWrite(c) \/ PlanRefute(c) \/ PlanCheckpoint(c) \/ Alter(c)
    \/ CommitWritePlan(c) \/ CommitRefute(c) \/ CommitCheckpoint(c)

Spec == Init /\ [][Next]_vars

-----------------------------------------------------------------------------
(* Properties.                                                             *)

TypeOK ==
  /\ CURRENT \in 1 .. MaxRevisions
  /\ \A n \in 1 .. CURRENT :
       history[n].schema \in {"v1", "v2", "v3"} /\ history[n].tx \in Callers \cup {None}
  /\ \A c \in Callers : told[c] # None => told[c].revision \in 0 .. CURRENT

\* The part of Readable that is about the chain of manifests: each is accepted,
\* and so is each step from one to the next.
ChainAccepted ==
  /\ \A n \in 1 .. CURRENT : ValidateManifest(history[n]) /\ ValidateCheckpoint(n)
  /\ \A n \in 2 .. CURRENT : ValidTransition(n)

\* No order of commits leads to a CURRENT the validators of the readers turn
\* away: the chain of manifests is accepted link by link, supersessions have one
\* successor each and no cycle, and no record is both superseded and refuted.
\* inspect_refute and the snapshot, which read the overlays separately, agree on
\* what is current, and the chain inspect_refute follows from a record comes to
\* one that is not superseded.
Readable ==
  /\ ChainAccepted
  /\ LET m == history[CURRENT]
     IN /\ ValidateLifecycle(m)
        /\ \A r \in m.rows :
             /\ (InspectState(m, r) = "active") = IsActive(Status(m, r))
             /\ \E q \in InspectChain(m, r) : InspectState(m, q) # "superseded"

\* A record that has ceased to be current never becomes current again.
NeverRevived ==
  [][\A r \in history[CURRENT].rows :
       ~IsActive(Status(history[CURRENT], r)) =>
         /\ r \in history'[CURRENT'].rows
         /\ ~IsActive(Status(history'[CURRENT'], r))]_vars

\* A record written as current is silenced only by what may silence it: a
\* supersession in its own stream by an authority that is not retrieval, with
\* the decision the policy gives, or a refutation a resolver attested for this
\* very record.
SilencedByAuthority ==
  \A r \in history[CURRENT].rows :
    IsActive(r.status) /\ ~IsActive(Status(history[CURRENT], r)) =>
      \E n \in 2 .. CURRENT :
        LET p == history[n].attempt IN
        \/ /\ p.kind = "write" /\ p.stream = r.stream
           /\ \E i \in DOMAIN p.targets : p.targets[i] = r.id
           /\ p.request.scoped
           /\ p.request.class \notin {"derived_from_retrieval", "unresolved"}
        \/ /\ p.kind = "refute" /\ p.attestation # None
           /\ p.attestation.target = r /\ p.attestation.base = n - 1

\* What a commit answered stays so: the revision named holds the plan it was
\* asked to commit, a transaction lands at most once, and one
\* answered as not committed never lands.
AnswersHold ==
  \A c \in Callers :
    /\ Cardinality(Landed(c)) <= 1
    /\ told[c] # None =>
         IF told[c].revision = 0 THEN Landed(c) = {}
         ELSE /\ Landed(c) = {told[c].revision}
              /\ history[told[c].revision].attempt = told[c].plan

\* No checkpoint overwrites one its author had not seen: each links to the
\* checkpoint that was current when it landed.
CheckpointsChain ==
  \A n \in 2 .. CURRENT :
    history[n].checkpoint # history[n - 1].checkpoint =>
      /\ history[n].checkpoint = n
      /\ history[n].replaces = history[n - 1].checkpoint

============================================================================

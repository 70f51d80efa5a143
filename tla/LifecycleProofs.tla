-------------------------- MODULE LifecycleProofs --------------------------
(***************************************************************************)
(* Proofs about Lifecycle, for any number of callers, records, resolvers,  *)
(* working states and revisions.                                           *)
(***************************************************************************)
EXTENDS Lifecycle, FiniteSetTheorems, SequenceTheorems, TLAPS

\* The three shapes of a plan.
WriteShape(p) ==
  /\ p.kind = "write"
  /\ p = [kind |-> "write", base |-> p.base, stream |-> p.stream, op |-> p.op,
          rows |-> p.rows, targets |-> p.targets, request |-> p.request,
          decision |-> p.decision]
  /\ DOMAIN p.rows \subseteq Ids

RefuteShape(p) ==
  /\ p.kind = "refute"
  /\ p = [kind |-> "refute", base |-> p.base, target |-> p.target, claim |-> p.claim,
          attestation |-> p.attestation, decision |-> p.decision]

CheckpointShape(p) ==
  /\ p.kind = "checkpoint"
  /\ p = [kind |-> "checkpoint", base |-> p.base, working |-> p.working,
          replaces |-> p.replaces, request |-> p.request, decision |-> p.decision]

\* What callers keep: plans of revisions there are.
HeldOK ==
  /\ DOMAIN held = Callers /\ DOMAIN bound = Callers /\ DOMAIN told = Callers
  /\ \A c \in Callers :
       held[c] # None =>
         /\ held[c].base \in 1 .. CURRENT
         /\ WriteShape(held[c]) \/ RefuteShape(held[c]) \/ CheckpointShape(held[c])

HistoryOK ==
  /\ history \in Seq({history[n] : n \in 1 .. CURRENT})
  /\ CURRENT \in 1 .. MaxRevisions

\* A transaction id lands once.
LandsOnce ==
  \A i, j \in 2 .. CURRENT : history[i].tx = history[j].tx => i = j

\* An answer names the revision of its plan; an answer of no revision binds the
\* transaction to a plan whose base has passed.
ToldOK ==
  \A c \in Callers :
    told[c] # None =>
      \/ /\ told[c].revision = 0 /\ Landed(c) = {}
         /\ bound[c] = told[c].plan /\ told[c].plan # None
         /\ told[c].plan.base \in 1 .. CURRENT - 1
      \/ /\ told[c].revision \in Landed(c)
         /\ history[told[c].revision].attempt = told[c].plan

\* Every entry of an overlay was put there by a plan that was allowed to.
SupersededBy(e, n) ==
  LET p == history[n].attempt
  IN /\ p.kind = "write" /\ p.stream = e.stream
     /\ \E i \in DOMAIN p.targets : p.targets[i] = e.target
     /\ p.request.scoped
     /\ p.request.class \notin {"derived_from_retrieval", "unresolved"}

RefutedBy(e, n) ==
  LET p == history[n].attempt
  IN /\ p.kind = "refute" /\ p.attestation # None
     /\ p.attestation.target = e.target /\ p.attestation.base = n - 1

OverlaysEarned ==
  /\ \A e \in history[CURRENT].superseded : \E n \in 2 .. CURRENT : SupersededBy(e, n)
  /\ \A e \in history[CURRENT].refuted : \E n \in 2 .. CURRENT : RefutedBy(e, n)

\* The rows: one for each id of a stream, and audit rows of past revisions only.
RowsSound(m, k) ==
  \A r \in m.rows :
    /\ \A q \in m.rows : q.stream = r.stream /\ q.id = r.id => q = r
    /\ r.id \in Ids \/ \E n \in 1 .. k : r.id = <<"policy", n>>

RowsOK == RowsSound(history[CURRENT], CURRENT - 1)

SchemasKnown == \A n \in 1 .. CURRENT : history[n].schema \in {"v1", "v2", "v3"}

IndInv ==
  /\ HistoryOK /\ HeldOK /\ LandsOnce /\ ToldOK /\ OverlaysEarned /\ RowsOK
  /\ SchemasKnown /\ ChainAccepted /\ ValidateOverlays(history[CURRENT])
  /\ CheckpointsChain

-----------------------------------------------------------------------------
(* Planning.                                                               *)

\* What depends on the history alone stays while the history does.
LEMMA FrameStep ==
    ASSUME IndInv, UNCHANGED history, HeldOK', ToldOK'
    PROVE  IndInv'
<1>1. CURRENT' = CURRENT
  BY DEF CURRENT
<1>2. HistoryOK' /\ LandsOnce' /\ SchemasKnown' /\ RowsOK'
  BY <1>1 DEF IndInv, HistoryOK, LandsOnce, SchemasKnown, RowsOK, RowsSound
<1>3. OverlaysEarned' /\ CheckpointsChain'
  BY <1>1 DEF IndInv, OverlaysEarned, SupersededBy, RefutedBy, CheckpointsChain
<1>4. ChainAccepted'
  <2>1. ASSUME NEW n PROVE /\ ValidateManifest(history[n])' <=> ValidateManifest(history[n])
                           /\ ValidateCheckpoint(n)' <=> ValidateCheckpoint(n)
                           /\ ValidTransition(n)' <=> ValidTransition(n)
    BY DEF ValidateManifest, ValidateCheckpoint, ValidTransition
  <2>2. QED
    BY <1>1, <2>1 DEF IndInv, ChainAccepted
<1>5. ValidateOverlays(history[CURRENT])'
  BY <1>1 DEF IndInv, ValidateOverlays, IdsIn, Superseded, ValidateRefutationStorage
<1>6. QED
  BY <1>2, <1>3, <1>4, <1>5 DEF IndInv

\* A caller takes up a plan of a revision there is.
LEMMA HoldStep ==
    ASSUME IndInv, NEW c \in Callers, NEW p, held' = [held EXCEPT ![c] = p],
           UNCHANGED <<history, bound, told>>,
           p.base \in 1 .. CURRENT,
           WriteShape(p) \/ RefuteShape(p) \/ CheckpointShape(p)
    PROVE  IndInv'
<1>1. HeldOK'
  BY DEF IndInv, HeldOK, CURRENT, WriteShape, RefuteShape, CheckpointShape
<1>2. ToldOK'
  BY DEF IndInv, ToldOK, Landed, CURRENT
<1>3. QED
  BY <1>1, <1>2, FrameStep

LEMMA PlanWriteStep ==
    ASSUME IndInv, NEW c \in Callers, PlanWrite(c)
    PROVE  IndInv'
<1>0. CURRENT \in 1 .. CURRENT
  BY DEF IndInv, HistoryOK
<1>1. PICK s \in Streams, op \in Operations, rows \in Batches, a \in Requests :
        \E targets \in [IF op = "supersede" THEN DOMAIN rows ELSE {}
                          -> IdsIn(history[CURRENT], s)] :
          LET p == WriteProposal(s, op, rows, targets, a)
          IN  /\ ValidateBatchProposal(p) /\ ValidateWriteAuthority(a)
              /\ EvaluateWrite(p) = "commit" =>
                   GuardPlanAgainstSnapshot(history[CURRENT], p)
              /\ held' = [held EXCEPT ![c] = [p EXCEPT !.decision = EvaluateWrite(p)]]
  BY Zenon DEF PlanWrite
<1>2. PICK targets :
          held' = [held EXCEPT ![c] =
                     [WriteProposal(s, op, rows, targets, a) EXCEPT !.decision =
                        EvaluateWrite(WriteProposal(s, op, rows, targets, a))]]
  BY <1>1
<1>3. PICK d : d = EvaluateWrite(WriteProposal(s, op, rows, targets, a))
  OBVIOUS
<1>4. PICK p : p = [WriteProposal(s, op, rows, targets, a) EXCEPT !.decision = d]
  OBVIOUS
<1>5. p = [kind |-> "write", base |-> CURRENT, stream |-> s, op |-> op, rows |-> rows,
           targets |-> targets, request |-> a, decision |-> d]
  BY <1>4 DEF WriteProposal
<1>6. DOMAIN rows \subseteq Ids
  BY DEF Batches
<1>7. WriteShape(p) /\ p.base \in 1 .. CURRENT
  BY <1>0, <1>5, <1>6 DEF WriteShape
<1>8. UNCHANGED <<history, bound, told>>
  BY DEF PlanWrite
<1>9. held' = [held EXCEPT ![c] = p]
  BY <1>2, <1>3, <1>4
<1>10. QED
  BY <1>7, <1>8, <1>9, HoldStep

LEMMA PlanRefuteStep ==
    ASSUME IndInv, NEW c \in Callers, PlanRefute(c)
    PROVE  IndInv'
<1>0. CURRENT \in 1 .. CURRENT
  BY DEF IndInv, HistoryOK
<1>1. PICK r \in history[CURRENT].rows \cup
               [stream : {"facts"}, id : Ids, status : {"vigente"}],
           claim \in Claims, attests \in BOOLEAN, resolver \in Resolvers \cup {None} :
         LET p == RefuteProposal(r, claim)
         IN  held' = [held EXCEPT ![c] =
                        IF EvaluateRefute(p, resolver, attests) = "commit"
                        THEN [p EXCEPT !.decision = "commit",
                                       !.attestation = Attestation(p, resolver)]
                        ELSE p]
  BY Zenon DEF PlanRefute
<1>2. UNCHANGED <<history, bound, told>>
  BY DEF PlanRefute
<1>3. CASE held' = [held EXCEPT ![c] = RefuteProposal(r, claim)]
  <2>1. PICK p : p = RefuteProposal(r, claim)
    OBVIOUS
  <2>2. RefuteShape(p) /\ p.base \in 1 .. CURRENT
    BY <1>0, <2>1 DEF RefuteShape, RefuteProposal
  <2>3. QED
    BY <1>2, <1>3, <2>1, <2>2, HoldStep
<1>4. CASE held' = [held EXCEPT ![c] =
              [RefuteProposal(r, claim) EXCEPT !.decision = "commit",
                 !.attestation = Attestation(RefuteProposal(r, claim), resolver)]]
  <2>1. PICK t : t = Attestation(RefuteProposal(r, claim), resolver)
    OBVIOUS
  <2>2. PICK q : q = [RefuteProposal(r, claim) EXCEPT !.decision = "commit"]
    OBVIOUS
  <2>3. q = [kind |-> "refute", base |-> CURRENT, target |-> r, claim |-> claim,
             attestation |-> None, decision |-> "commit"]
    BY <2>2 DEF RefuteProposal
  <2>4. PICK p : p = [q EXCEPT !.attestation = t]
    OBVIOUS
  <2>5. p = [kind |-> "refute", base |-> CURRENT, target |-> r, claim |-> claim,
             attestation |-> t, decision |-> "commit"]
    BY <2>3, <2>4
  <2>6. RefuteShape(p) /\ p.base \in 1 .. CURRENT
    BY <1>0, <2>5 DEF RefuteShape
  <2>7. held' = [held EXCEPT ![c] = p]
    BY <1>4, <2>1, <2>2, <2>4
  <2>8. QED
    BY <1>2, <2>6, <2>7, HoldStep
<1>5. QED
  BY <1>1, <1>3, <1>4

LEMMA PlanCheckpointStep ==
    ASSUME IndInv, NEW c \in Callers, PlanCheckpoint(c)
    PROVE  IndInv'
<1>0. CURRENT \in 1 .. CURRENT
  BY DEF IndInv, HistoryOK
<1>1. PICK w \in Contents, k \in 1 .. CURRENT, a \in Requests :
        held' = [held EXCEPT ![c] =
                   [CheckpointProposal(w, k, a) EXCEPT !.decision =
                      EvaluateCheckpoint(CheckpointProposal(w, k, a))]]
  BY DEF PlanCheckpoint
<1>2. PICK d : d = EvaluateCheckpoint(CheckpointProposal(w, k, a))
  OBVIOUS
<1>3. PICK p : p = [CheckpointProposal(w, k, a) EXCEPT !.decision = d]
  OBVIOUS
<1>4. p = [kind |-> "checkpoint", base |-> CURRENT, working |-> w, replaces |-> k,
           request |-> a, decision |-> d]
  BY <1>3 DEF CheckpointProposal
<1>5. CheckpointShape(p) /\ p.base \in 1 .. CURRENT
  BY <1>0, <1>4 DEF CheckpointShape
<1>6. UNCHANGED <<history, bound, told>> /\ held' = [held EXCEPT ![c] = p]
  BY <1>1, <1>2, <1>3 DEF PlanCheckpoint
<1>7. QED
  BY <1>5, <1>6, HoldStep

\* A plan that comes back altered is still a plan of its kind and base.
LEMMA AlterStep ==
    ASSUME IndInv, NEW c \in Callers, Alter(c)
    PROVE  IndInv'
<1>1. PICK q : q = held[c]
  OBVIOUS
<1>2. /\ q.base \in 1 .. CURRENT /\ UNCHANGED <<history, bound, told>>
      /\ WriteShape(q) \/ RefuteShape(q) \/ CheckpointShape(q)
      /\ DOMAIN held = Callers
  BY <1>1 DEF Alter, IndInv, HeldOK
<1>3. CASE held' = [held EXCEPT ![c].decision = "commit"]
  <2>1. PICK p : p = [q EXCEPT !.decision = "commit"]
    OBVIOUS
  <2>2. held' = [held EXCEPT ![c] = p]
    BY <1>1, <1>2, <1>3, <2>1
  <2>3. CASE WriteShape(q)
    <3>1. p = [kind |-> "write", base |-> q.base, stream |-> q.stream, op |-> q.op,
               rows |-> q.rows, targets |-> q.targets, request |-> q.request,
               decision |-> "commit"]
      BY <2>1, <2>3 DEF WriteShape
    <3>2. WriteShape(p) /\ p.base \in 1 .. CURRENT
      BY <1>2, <2>3, <3>1 DEF WriteShape
    <3>3. QED
      BY <1>2, <2>2, <3>2, HoldStep
  <2>4. CASE RefuteShape(q)
    <3>1. p = [kind |-> "refute", base |-> q.base, target |-> q.target, claim |-> q.claim,
               attestation |-> q.attestation, decision |-> "commit"]
      BY <2>1, <2>4 DEF RefuteShape
    <3>2. RefuteShape(p) /\ p.base \in 1 .. CURRENT
      BY <1>2, <3>1 DEF RefuteShape
    <3>3. QED
      BY <1>2, <2>2, <3>2, HoldStep
  <2>5. CASE CheckpointShape(q)
    <3>1. p = [kind |-> "checkpoint", base |-> q.base, working |-> q.working,
               replaces |-> q.replaces, request |-> q.request, decision |-> "commit"]
      BY <2>1, <2>5 DEF CheckpointShape
    <3>2. CheckpointShape(p) /\ p.base \in 1 .. CURRENT
      BY <1>2, <3>1 DEF CheckpointShape
    <3>3. QED
      BY <1>2, <2>2, <3>2, HoldStep
  <2>6. QED
    BY <1>2, <2>3, <2>4, <2>5
<1>4. CASE q.kind = "refute" /\ \E r \in history[CURRENT].rows :
             held' = [held EXCEPT ![c].target = r]
  <2>1. PICK r : held' = [held EXCEPT ![c].target = r]
    BY <1>4
  <2>2. PICK p : p = [q EXCEPT !.target = r]
    OBVIOUS
  <2>3. held' = [held EXCEPT ![c] = p]
    BY <1>1, <1>2, <2>1, <2>2
  <2>4. RefuteShape(q)
    BY <1>2, <1>4 DEF WriteShape, CheckpointShape
  <2>5. p = [kind |-> "refute", base |-> q.base, target |-> r, claim |-> q.claim,
             attestation |-> q.attestation, decision |-> q.decision]
    BY <2>2, <2>4 DEF RefuteShape
  <2>6. RefuteShape(p) /\ p.base \in 1 .. CURRENT
    BY <1>2, <2>5 DEF RefuteShape
  <2>7. QED
    BY <1>2, <2>3, <2>6, HoldStep
<1>5. QED
  BY <1>1, <1>3, <1>4 DEF Alter

-----------------------------------------------------------------------------
(* Committing.                                                             *)

\* What the three commit operations have checked of a plan they let land.
AllowedWrite(p) ==
  /\ p.kind = "write" /\ VerifyWritePlan(p)
  /\ ResolveSupersedeTargets(history[CURRENT], p) /\ AssignRecords(history[CURRENT], p)

AllowedRefute(p) ==
  /\ p.kind = "refute" /\ VerifyRefutePlan(p)
  /\ \E resolver \in Resolvers \cup {None} : VerifyCommitAuthority(p, resolver)
  /\ TargetGuard(history[CURRENT], p.target)

AllowedCheckpoint(p) == p.kind = "checkpoint" /\ VerifyCheckpointPlan(p)

Allowed(p) ==
  /\ p.base = CURRENT /\ p.decision = "commit"
  /\ AllowedWrite(p) \/ AllowedRefute(p) \/ AllowedCheckpoint(p)

LEMMA CommitCases ==
    ASSUME NEW c \in Callers, NEW p, p = held[c],
           CommitWritePlan(c) \/ CommitRefute(c) \/ CommitCheckpoint(c)
    PROVE  /\ p # None
           /\ \/ Allowed(p) /\ CommitLocked(c, p)
              \/ Reconciles(c, p) /\ \E n \in Landed(c) : Answer(c, p, n)
              \/ Landed(c) = {} /\ p.base # CURRENT /\ bound[c] = p /\ Answer(c, p, 0)
<1>1. CASE CommitWritePlan(c)
  BY <1>1 DEF CommitWritePlan, Allowed, AllowedWrite
<1>2. CASE CommitRefute(c)
  BY <1>2 DEF CommitRefute, Allowed, AllowedRefute
<1>3. CASE CommitCheckpoint(c)
  BY <1>3 DEF CommitCheckpoint, Allowed, AllowedCheckpoint
<1>4. QED
  BY <1>1, <1>2, <1>3

\* A commit makes the history one manifest longer.
LEMMA Appended ==
    ASSUME HistoryOK, NEW x, history' = Append(history, x)
    PROVE  /\ CURRENT \in Nat /\ CURRENT >= 1 /\ CURRENT' = CURRENT + 1
           /\ \A n \in 1 .. CURRENT : history'[n] = history[n]
           /\ history'[CURRENT + 1] = x
           /\ history' \in Seq({history'[n] : n \in 1 .. CURRENT'})
<1> DEFINE S == {history[n] : n \in 1 .. CURRENT}
<1>1. history \in Seq(S) /\ CURRENT = Len(history) /\ CURRENT \in Nat /\ CURRENT >= 1
  BY DEF HistoryOK, CURRENT
<1> HIDE DEF S
<1>2. /\ Len(history') = CURRENT + 1
      /\ \A n \in 1 .. CURRENT : history'[n] = history[n]
      /\ history'[CURRENT + 1] = x
  BY <1>1
<1>3. history' \in Seq(S \cup {x})
  BY <1>1
<1>4. history' \in Seq({history'[n] : n \in 1 .. CURRENT + 1})
  <2> DEFINE T == {history'[n] : n \in 1 .. CURRENT + 1}
  <2>1. \A n \in 1 .. Len(history') : history'[n] \in T
    BY <1>2
  <2> HIDE DEF T
  <2>2. history' = [n \in 1 .. Len(history') |-> history'[n]] /\ Len(history') \in Nat
    BY <1>3, LenProperties
  <2>3. history' \in [1 .. Len(history') -> T]
    BY <2>1, <2>2
  <2>4. history' \in Seq(T)
    BY <2>2, <2>3, SeqDef
  <2>5. QED
    BY <2>4 DEF T
<1>5. QED
  BY <1>1, <1>2, <1>4 DEF CURRENT

LEMMA ChildFields ==
    ASSUME NEW c, NEW p, NEW m, m = history[CURRENT], NEW k, k = Child(c, p)
    PROVE  /\ k.attempt = p /\ k.tx = c
           /\ k.schema = (IF m.schema = "v1" /\ p.kind = "refute" THEN "v2" ELSE m.schema)
           /\ p.kind # "write" => k.rows = m.rows /\ k.superseded = m.superseded
           /\ p.kind # "refute" => k.refuted = m.refuted
           /\ p.kind # "checkpoint" =>
                /\ k.checkpoint = m.checkpoint /\ k.replaces = m.replaces
           /\ p.kind = "write" =>
                /\ k.rows = m.rows \cup {AuditRow(p)} \cup
                     {[stream |-> p.stream, id |-> i, status |-> p.rows[i]] : i \in DOMAIN p.rows}
                /\ k.superseded = m.superseded \cup
                     {[stream |-> p.stream, target |-> p.targets[i], by |-> i] :
                        i \in DOMAIN p.targets}
           /\ p.kind = "refute" =>
                k.refuted = m.refuted \cup
                  {[target |-> p.target, base |-> p.base, attestation |-> p.attestation]}
           /\ p.kind = "checkpoint" =>
                k.checkpoint = CURRENT + 1 /\ k.replaces = p.replaces
<1>1. /\ k.attempt = p /\ k.tx = c
      /\ k.schema = (IF m.schema = "v1" /\ p.kind = "refute" THEN "v2" ELSE m.schema)
      /\ k.checkpoint = (IF p.kind = "checkpoint" THEN CURRENT + 1 ELSE m.checkpoint)
      /\ k.replaces = (IF p.kind = "checkpoint" THEN p.replaces ELSE m.replaces)
  BY DEF Child
<1>2. k.rows = m.rows \cup
         (IF p.kind # "write" THEN {}
          ELSE {AuditRow(p)} \cup
               {[stream |-> p.stream, id |-> i, status |-> p.rows[i]] : i \in DOMAIN p.rows})
  BY DEF Child
<1>3. k.superseded = m.superseded \cup
         (IF p.kind # "write" THEN {}
          ELSE {[stream |-> p.stream, target |-> p.targets[i], by |-> i] :
                  i \in DOMAIN p.targets})
  BY DEF Child
<1>4. k.refuted = m.refuted \cup
         (IF p.kind # "refute" THEN {}
          ELSE {[target |-> p.target, base |-> p.base, attestation |-> p.attestation]})
  BY DEF Child
<1>5. p.kind # "write" => k.rows = m.rows /\ k.superseded = m.superseded
  <2> SUFFICES ASSUME p.kind # "write" PROVE k.rows = m.rows /\ k.superseded = m.superseded
    OBVIOUS
  <2>1. k.rows = m.rows \cup {} /\ k.superseded = m.superseded \cup {}
    BY <1>2, <1>3
  <2>2. QED
    BY <2>1
<1>6. p.kind # "refute" => k.refuted = m.refuted
  <2> SUFFICES ASSUME p.kind # "refute" PROVE k.refuted = m.refuted
    OBVIOUS
  <2>1. k.refuted = m.refuted \cup {}
    BY <1>4
  <2>2. QED
    BY <2>1
<1>7. p.kind = "write" =>
        k.rows = m.rows \cup {AuditRow(p)} \cup
          {[stream |-> p.stream, id |-> i, status |-> p.rows[i]] : i \in DOMAIN p.rows}
  <2> DEFINE new == {[stream |-> p.stream, id |-> i, status |-> p.rows[i]] : i \in DOMAIN p.rows}
  <2> SUFFICES ASSUME p.kind = "write" PROVE k.rows = m.rows \cup {AuditRow(p)} \cup new
    OBVIOUS
  <2>1. k.rows = m.rows \cup ({AuditRow(p)} \cup new)
    BY <1>2
  <2> HIDE DEF new
  <2>2. QED
    BY <2>1
<1>8. p.kind = "write" =>
        k.superseded = m.superseded \cup
          {[stream |-> p.stream, target |-> p.targets[i], by |-> i] : i \in DOMAIN p.targets}
  BY <1>3
<1>9. p.kind = "refute" =>
        k.refuted = m.refuted \cup
          {[target |-> p.target, base |-> p.base, attestation |-> p.attestation]}
  BY <1>4
<1>10. QED
  BY <1>1, <1>5, <1>6, <1>7, <1>8, <1>9

\* A plan lands: it may, and the history grows by its child.
Lands(c, p) ==
  /\ p = held[c] /\ p # None /\ Allowed(p)
  /\ Landed(c) = {} /\ bound[c] \in {None, p}
  /\ CURRENT < MaxRevisions
  /\ history' = Append(history, Child(c, p))
  /\ told' = [told EXCEPT ![c] = [plan |-> p, revision |-> CURRENT + 1]] \/ UNCHANGED told
  /\ UNCHANGED <<held, bound>>

LEMMA LandCallers ==
    ASSUME IndInv, NEW c \in Callers, NEW p, Lands(c, p)
    PROVE  HistoryOK' /\ HeldOK' /\ LandsOnce' /\ ToldOK'
<1>0. HistoryOK /\ HeldOK /\ LandsOnce /\ ToldOK /\ history' = Append(history, Child(c, p))
  BY DEF IndInv, Lands
<1>1. /\ CURRENT \in Nat /\ CURRENT >= 1 /\ CURRENT' = CURRENT + 1
      /\ \A n \in 1 .. CURRENT : history'[n] = history[n]
      /\ history'[CURRENT + 1] = Child(c, p)
      /\ history' \in Seq({history'[n] : n \in 1 .. CURRENT'})
  BY <1>0, Appended
<1>2. Child(c, p).tx = c /\ Child(c, p).attempt = p
  BY DEF Child
<1>3. HistoryOK'
  <2>1. CURRENT' \in 1 .. MaxRevisions
    BY <1>1, BoundsAssumption DEF Lands
  <2>2. QED
    BY <1>1, <2>1 DEF HistoryOK
<1>4. HeldOK'
  BY <1>0, <1>1 DEF HeldOK, Lands, WriteShape, RefuteShape, CheckpointShape
<1>5. \A n \in 2 .. CURRENT : history[n].tx # c
  BY DEF Lands, Landed
<1>6. LandsOnce'
  <2> SUFFICES ASSUME NEW i \in 2 .. CURRENT + 1, NEW j \in 2 .. CURRENT + 1,
                      history'[i].tx = history'[j].tx
               PROVE  i = j
    BY <1>1 DEF LandsOnce
  <2>1. \A n \in 2 .. CURRENT + 1 :
          \/ n \in 2 .. CURRENT /\ history'[n].tx = history[n].tx
          \/ n = CURRENT + 1 /\ history'[n].tx = c
    <3>1. \A n \in 2 .. CURRENT + 1 : (n \in 2 .. CURRENT /\ n \in 1 .. CURRENT) \/ n = CURRENT + 1
      BY <1>1
    <3>2. QED
      BY <1>1, <1>2, <3>1
  <2>2. QED
    BY <1>0, <1>5, <2>1 DEF LandsOnce
<1>7. Landed(c)' = {CURRENT + 1} /\ \A d \in Callers : d # c => Landed(d)' = Landed(d)
  <2>1. \A n \in 2 .. CURRENT' :
          \/ n \in 2 .. CURRENT /\ history'[n].tx = history[n].tx
          \/ n = CURRENT + 1 /\ history'[n].tx = c
    <3>1. \A n \in 2 .. CURRENT' : (n \in 2 .. CURRENT /\ n \in 1 .. CURRENT) \/ n = CURRENT + 1
      BY <1>1
    <3>2. QED
      BY <1>1, <1>2, <3>1
  <2>2. /\ CURRENT + 1 \in 2 .. CURRENT' /\ history'[CURRENT + 1].tx = c
        /\ \A n \in 2 .. CURRENT : n \in 2 .. CURRENT' /\ history'[n].tx = history[n].tx
    BY <1>1, <1>2
  <2>3. Landed(c)' = {CURRENT + 1}
    BY <1>5, <2>1, <2>2 DEF Landed
  <2>4. ASSUME NEW d \in Callers, d # c PROVE Landed(d)' = Landed(d)
    BY <2>1, <2>2, <2>4 DEF Landed
  <2>5. QED
    BY <2>3, <2>4
<1>8. ToldOK'
  <2> SUFFICES ASSUME NEW d \in Callers, told'[d] # None
               PROVE \/ /\ told'[d].revision = 0 /\ Landed(d)' = {}
                        /\ bound'[d] = told'[d].plan /\ told'[d].plan # None
                        /\ told'[d].plan.base \in 1 .. CURRENT' - 1
                     \/ /\ told'[d].revision \in Landed(d)'
                        /\ history'[told'[d].revision].attempt = told'[d].plan
    BY DEF ToldOK
  <2>1. CASE told'[d] = told[d]
    <3>1. CASE told[d].revision \in Landed(d) /\ history[told[d].revision].attempt = told[d].plan
      <4>1. d # c /\ told[d].revision \in 1 .. CURRENT
        BY <3>1, <1>1 DEF Lands, Landed
      <4>2. QED
        BY <1>1, <1>7, <2>1, <3>1, <4>1
    <3>2. CASE /\ told[d].revision = 0 /\ Landed(d) = {}
               /\ bound[d] = told[d].plan /\ told[d].plan # None
               /\ told[d].plan.base \in 1 .. CURRENT - 1
      <4>1. d # c
        BY <3>2, <1>1 DEF Lands, Allowed
      <4>2. told[d].plan.base \in 1 .. CURRENT' - 1
        BY <1>1, <3>2
      <4>3. QED
        BY <1>1, <1>7, <2>1, <3>2, <4>1, <4>2 DEF Lands
    <3>3. QED
      BY <1>0, <2>1, <3>1, <3>2 DEF ToldOK
  <2>2. CASE told'[d] # told[d]
    <3>1. d = c /\ told'[d] = [plan |-> p, revision |-> CURRENT + 1]
      BY <1>0, <2>2 DEF Lands, HeldOK
    <3>2. QED
      BY <1>1, <1>2, <1>7, <3>1
  <2>3. QED
    BY <2>1, <2>2
<1>9. QED
  BY <1>3, <1>4, <1>6, <1>8

\* The rows of a child: the new ids are of no row of their stream, and no id of
\* a caller is the id of an audit row.
LEMMA ChildRows ==
    ASSUME IndInv, NEW c, NEW p, Allowed(p), CURRENT < MaxRevisions,
           WriteShape(p) \/ RefuteShape(p) \/ CheckpointShape(p)
    PROVE  /\ RowsSound(Child(c, p), CURRENT)
           /\ history[CURRENT].rows \subseteq Child(c, p).rows
<1>1. PICK m : m = history[CURRENT]
  OBVIOUS
<1>2. CURRENT \in Nat /\ CURRENT >= 1 /\ CURRENT \in 1 .. MaxRevisions /\ RowsSound(m, CURRENT - 1)
  BY <1>1 DEF IndInv, HistoryOK, RowsOK
<1>3. RowsSound(m, CURRENT)
  BY <1>2 DEF RowsSound
<1>4. CASE p.kind # "write"
  <2>1. Child(c, p).rows = m.rows
    BY <1>1, <1>4, ChildFields
  <2>2. QED
    BY <1>1, <1>3, <2>1 DEF RowsSound
<1>5. CASE p.kind = "write"
  <2> DEFINE new == {[stream |-> p.stream, id |-> i, status |-> p.rows[i]] : i \in DOMAIN p.rows}
  <2>1. Child(c, p).rows = m.rows \cup {AuditRow(p)} \cup new
    BY <1>1, <1>5, ChildFields
  <2>2. p.base = CURRENT /\ AssignRecords(m, p) /\ DOMAIN p.rows \subseteq Ids
    BY <1>1, <1>5 DEF Allowed, AllowedWrite, AllowedRefute, AllowedCheckpoint,
                      WriteShape, RefuteShape, CheckpointShape
  <2>3. /\ AuditRow(p).id = <<"policy", CURRENT>> /\ AuditRow(p).stream = "events"
        /\ <<"policy", CURRENT>> \notin Ids
    BY <1>2, <2>2, IdsAssumption DEF AuditRow
  <2>4. \A r \in new : r.id \in DOMAIN p.rows /\ r.id \in Ids /\ r.stream = p.stream
    BY <2>2
  <2>5. \A r, q \in new : r.id = q.id => r = q
    OBVIOUS
  <2>6. \A r \in m.rows, q \in new : ~(q.stream = r.stream /\ q.id = r.id)
    BY <2>2, <2>4 DEF AssignRecords, IdsIn
  <2>7. \A r \in m.rows : r.id # <<"policy", CURRENT>>
    <3>1. \A n \in 1 .. CURRENT - 1 : <<"policy", n>> # <<"policy", CURRENT>>
      BY <1>2
    <3>2. QED
      BY <1>2, <2>3, <3>1 DEF RowsSound
  <2>8. \A r \in new : r.id # <<"policy", CURRENT>>
    BY <2>3, <2>4
  <2> HIDE DEF new
  <2>9. ASSUME NEW r \in Child(c, p).rows, NEW q \in Child(c, p).rows,
               q.stream = r.stream, q.id = r.id
        PROVE  q = r
    <3>1. r \in m.rows /\ q \in m.rows => q = r
      BY <1>2, <2>9 DEF RowsSound
    <3>2. QED
      BY <2>1, <2>3, <2>5, <2>6, <2>7, <2>8, <2>9, <3>1
  <2>10. ASSUME NEW r \in Child(c, p).rows
         PROVE  r.id \in Ids \/ \E n \in 1 .. CURRENT : r.id = <<"policy", n>>
    <3>1. CASE r \in m.rows
      BY <1>3, <3>1 DEF RowsSound
    <3>2. CASE r \in new
      BY <3>2, <2>4
    <3>3. CASE r = AuditRow(p)
      <4>1. CURRENT \in 1 .. CURRENT
        BY <1>2
      <4>2. QED
        BY <2>3, <3>3, <4>1
    <3>4. QED
      BY <2>1, <3>1, <3>2, <3>3
  <2>11. QED
    BY <1>1, <2>1, <2>9, <2>10 DEF RowsSound
<1>6. QED
  BY <1>4, <1>5

\* A row that is superseded or refuted is not current.
LEMMA VigenteFree ==
    ASSUME NEW m, NEW s, NEW i, Vigente(m, s, i)
    PROVE  \E r \in m.rows : r.stream = s /\ r.id = i /\ ~Superseded(m, r) /\ ~Refuted(m, r)
                             /\ IsActive(r.status)
  BY DEF Vigente, IsActive, Status

\* The overlays of a child of a write: what it supersedes was current, so it was
\* in neither overlay.
LEMMA ChildOverlaysWrite ==
    ASSUME IndInv, NEW c, NEW p, Allowed(p), CURRENT < MaxRevisions, WriteShape(p)
    PROVE  ValidateOverlays(Child(c, p))
<1>1. PICK m : m = history[CURRENT]
  OBVIOUS
<1>2. PICK k : k = Child(c, p)
  OBVIOUS
<1> DEFINE new == {[stream |-> p.stream, target |-> p.targets[i], by |-> i] : i \in DOMAIN p.targets}
<1>3. /\ ValidateOverlays(m) /\ RowsSound(m, CURRENT - 1) /\ RowsSound(k, CURRENT)
      /\ m.rows \subseteq k.rows
  BY <1>1, <1>2, ChildRows DEF IndInv, RowsOK
<1>4. p.kind = "write"
  BY DEF WriteShape
<1>5. /\ k.superseded = m.superseded \cup new /\ k.refuted = m.refuted
      /\ k.rows = m.rows \cup {AuditRow(p)} \cup
              {[stream |-> p.stream, id |-> i, status |-> p.rows[i]] : i \in DOMAIN p.rows}
  BY <1>1, <1>2, <1>4, ChildFields
<1>6. /\ ValidateBatchProposal(p) /\ ResolveSupersedeTargets(m, p)
  BY <1>1, <1>4 DEF Allowed, AllowedWrite, AllowedRefute, AllowedCheckpoint, VerifyWritePlan
<1>7. \A s : IdsIn(m, s) \subseteq IdsIn(k, s)
  BY <1>3 DEF IdsIn
<1>8. \A i \in DOMAIN p.targets :
        /\ i \in IdsIn(k, p.stream) /\ p.targets[i] \in IdsIn(k, p.stream)
        /\ \A e \in m.superseded : ~(e.stream = p.stream /\ e.target = p.targets[i])
        /\ \A r \in m.rows : r.stream = p.stream /\ r.id = p.targets[i] => ~Refuted(m, r)
  <2> SUFFICES ASSUME NEW i \in DOMAIN p.targets
               PROVE  /\ i \in IdsIn(k, p.stream) /\ p.targets[i] \in IdsIn(k, p.stream)
                      /\ \A e \in m.superseded : ~(e.stream = p.stream /\ e.target = p.targets[i])
                      /\ \A r \in m.rows : r.stream = p.stream /\ r.id = p.targets[i] => ~Refuted(m, r)
    OBVIOUS
  <2>1. Vigente(m, p.stream, p.targets[i]) /\ i \in DOMAIN p.rows
    BY <1>6 DEF ResolveSupersedeTargets, ValidateBatchProposal
  <2>2. PICK r \in m.rows : /\ r.stream = p.stream /\ r.id = p.targets[i]
                            /\ ~Superseded(m, r) /\ ~Refuted(m, r)
    BY <2>1, VigenteFree
  <2>3. p.targets[i] \in IdsIn(k, p.stream)
    BY <1>7, <2>2 DEF IdsIn
  <2>4. [stream |-> p.stream, id |-> i, status |-> p.rows[i]] \in k.rows
    BY <1>5, <2>1
  <2>5. i \in IdsIn(k, p.stream)
    BY <2>4 DEF IdsIn
  <2>6. \A q \in m.rows : q.stream = p.stream /\ q.id = p.targets[i] => q = r
    BY <1>3, <2>2 DEF RowsSound
  <2>7. QED
    BY <2>2, <2>3, <2>5, <2>6 DEF Superseded
<1>9. ASSUME NEW e \in k.superseded
      PROVE  {e.target, e.by} \subseteq IdsIn(k, e.stream)
  BY <1>3, <1>5, <1>7, <1>8 DEF ValidateOverlays
<1>10. ASSUME NEW e \in k.superseded, NEW f \in k.superseded,
              e.stream = f.stream, e.target = f.target
       PROVE  e = f
  <2>1. CASE e \in m.superseded /\ f \in m.superseded
    BY <1>3, <1>10, <2>1 DEF ValidateOverlays
  <2>2. CASE e \in new /\ f \in new
    BY <1>6, <1>10, <2>2 DEF ValidateBatchProposal
  <2>3. ~(e \in m.superseded /\ f \in new) /\ ~(f \in m.superseded /\ e \in new)
    BY <1>8, <1>10
  <2>4. QED
    BY <1>5, <2>1, <2>2, <2>3
<1>11. ASSUME NEW e \in k.refuted
       PROVE  e.target \in k.rows /\ ~Superseded(k, e.target) /\ ValidateRefutationStorage(e)
  <2>1. /\ e \in m.refuted /\ e.target \in m.rows /\ ~Superseded(m, e.target)
        /\ ValidateRefutationStorage(e)
    BY <1>3, <1>5 DEF ValidateOverlays
  <2>2. Refuted(m, e.target)
    BY <2>1 DEF Refuted
  <2>3. \A f \in new : ~(f.stream = e.target.stream /\ f.target = e.target.id)
    BY <1>8, <2>1, <2>2
  <2>4. QED
    BY <1>3, <1>5, <2>1, <2>3 DEF Superseded
<1>12. QED
  BY <1>2, <1>9, <1>10, <1>11 DEF ValidateOverlays

\* The overlays of any other child: a refutation names a row that was current.
LEMMA ChildOverlays ==
    ASSUME IndInv, NEW c, NEW p, Allowed(p), CURRENT < MaxRevisions,
           WriteShape(p) \/ RefuteShape(p) \/ CheckpointShape(p)
    PROVE  ValidateOverlays(Child(c, p))
<1>1. CASE WriteShape(p)
  BY <1>1, ChildOverlaysWrite
<1>2. CASE p.kind # "write"
  <2>1. PICK m : m = history[CURRENT]
    OBVIOUS
  <2>2. PICK k : k = Child(c, p)
    OBVIOUS
  <2>3. ValidateOverlays(m)
    BY <2>1 DEF IndInv
  <2>4. k.superseded = m.superseded /\ k.rows = m.rows
    BY <1>2, <2>1, <2>2, ChildFields
  <2>5. \A s : IdsIn(k, s) = IdsIn(m, s)
    BY <2>4 DEF IdsIn
  <2>6. \A r : Superseded(k, r) <=> Superseded(m, r)
    BY <2>4 DEF Superseded
  <2>7. CASE p.kind # "refute"
    <3>1. k.refuted = m.refuted
      BY <2>1, <2>2, <2>7, ChildFields
    <3>2. QED
      BY <2>2, <2>3, <2>4, <2>5, <2>6, <3>1 DEF ValidateOverlays
  <2>8. CASE p.kind = "refute"
    <3>1. PICK e : e = [target |-> p.target, base |-> p.base, attestation |-> p.attestation]
      OBVIOUS
    <3>2. k.refuted = m.refuted \cup {e}
      BY <2>1, <2>2, <2>8, <3>1, ChildFields
    <3>3. /\ VerifyRefutePlan(p) /\ p.decision = "commit" /\ TargetGuard(m, p.target)
          /\ \E resolver \in Resolvers \cup {None} : VerifyCommitAuthority(p, resolver)
      BY <2>1, <2>8 DEF Allowed, AllowedWrite, AllowedRefute, AllowedCheckpoint
    <3>4. p.attestation # None /\ p.attestation.target = p.target /\ p.attestation.base = p.base
      BY <3>3 DEF VerifyRefutePlan, VerifyCommitAuthority, Attestation
    <3>5. ValidateRefutationStorage(e)
      BY <3>1, <3>4 DEF ValidateRefutationStorage
    <3>6. e.target \in m.rows /\ ~Superseded(m, e.target)
      BY <3>1, <3>3 DEF TargetGuard
    <3>7. QED
      BY <2>2, <2>3, <2>4, <2>5, <2>6, <3>2, <3>5, <3>6 DEF ValidateOverlays
  <2>9. QED
    BY <2>7, <2>8
<1>3. QED
  BY <1>1, <1>2 DEF RefuteShape, CheckpointShape

\* A manifest the validators accept after another.
AcceptedAfter(m, k) ==
  /\ k.schema \in {"v1", "v2", "v3"} /\ ValidateManifest(k)
  /\ k.checkpoint \in 1 .. CURRENT + 1
  /\ m.superseded \subseteq k.superseded /\ m.refuted \subseteq k.refuted
  /\ m.schema # "v1" => k.schema = m.schema
  /\ Cardinality(k.refuted \ m.refuted) <= 1
  /\ m.schema = "v1" /\ k.schema = "v2" => Cardinality(k.refuted \ m.refuted) = 1
  /\ k.schema # "v1" => (k.attempt.kind = "refute") = (k.refuted \ m.refuted # {})
  /\ \A e \in k.refuted \ m.refuted : e.base = CURRENT
  /\ k.checkpoint # m.checkpoint =>
       k.checkpoint = CURRENT + 1 /\ k.replaces = m.checkpoint

\* The manifest of a child and its step from the parent pass the validators.
LEMMA ChildAccepted ==
    ASSUME IndInv, NEW c, NEW p, Allowed(p), NEW m, m = history[CURRENT],
           NEW k, k = Child(c, p)
    PROVE  AcceptedAfter(m, k)
<1>1. CURRENT \in Nat /\ CURRENT >= 1 /\ CURRENT \in 1 .. CURRENT
  BY DEF IndInv, HistoryOK
<1>2. /\ m.schema \in {"v1", "v2", "v3"} /\ ValidateManifest(m)
      /\ m.checkpoint \in 1 .. CURRENT
  BY <1>1 DEF IndInv, SchemasKnown, ChainAccepted, ValidateCheckpoint
<1>3. /\ k.schema = (IF m.schema = "v1" /\ p.kind = "refute" THEN "v2" ELSE m.schema)
      /\ k.attempt = p
  BY ChildFields
<1>4. m.superseded \subseteq k.superseded
  BY ChildFields
<1>5. /\ k.checkpoint \in 1 .. CURRENT + 1
      /\ k.checkpoint # m.checkpoint =>
           k.checkpoint = CURRENT + 1 /\ k.replaces = m.checkpoint
  <2>1. CASE p.kind # "checkpoint"
    BY <1>1, <1>2, <2>1, ChildFields
  <2>2. CASE p.kind = "checkpoint"
    <3>1. p.replaces = m.checkpoint
      BY <2>2 DEF Allowed, AllowedWrite, AllowedRefute, AllowedCheckpoint, VerifyCheckpointPlan
    <3>2. k.checkpoint = CURRENT + 1 /\ k.replaces = p.replaces
      BY <2>2, ChildFields
    <3>3. QED
      BY <1>1, <3>1, <3>2
  <2>3. QED
    BY <2>1, <2>2
<1>6. CASE p.kind # "refute"
  <2>1. k.refuted = m.refuted /\ k.schema = m.schema
    BY <1>3, <1>6, ChildFields
  <2>2. k.refuted \ m.refuted = {}
    BY <2>1
  <2>3. Cardinality(k.refuted \ m.refuted) = 0
    BY <2>2, FS_EmptySet
  <2>4. ValidateManifest(k)
    BY <1>2, <2>1 DEF ValidateManifest
  <2>5. QED
    BY <1>2, <1>3, <1>4, <1>5, <1>6, <2>1, <2>2, <2>3, <2>4 DEF AcceptedAfter
<1>7. CASE p.kind = "refute"
  <2>1. PICK e : e = [target |-> p.target, base |-> p.base, attestation |-> p.attestation]
    OBVIOUS
  <2>2. k.refuted = m.refuted \cup {e}
    BY <1>7, <2>1, ChildFields
  <2>3. TargetGuard(m, p.target) /\ p.base = CURRENT
    BY <1>7 DEF Allowed, AllowedWrite, AllowedRefute, AllowedCheckpoint
  <2>4. e.base = CURRENT /\ \A f \in m.refuted : f.target # e.target
    BY <2>1, <2>3 DEF TargetGuard, Refuted
  <2>5. k.refuted \ m.refuted = {e}
    BY <2>2, <2>4
  <2>6. Cardinality(k.refuted \ m.refuted) = 1
    BY <2>5, FS_Singleton
  <2>7. k.schema # "v1" /\ (m.schema # "v1" => k.schema = m.schema)
        /\ k.schema \in {"v1", "v2", "v3"}
    BY <1>2, <1>3, <1>7
  <2>8. k.refuted # {} /\ \A f, g \in k.refuted : f.target = g.target => f = g
    BY <1>2, <2>2, <2>4 DEF ValidateManifest
  <2>9. ValidateManifest(k)
    BY <2>7, <2>8 DEF ValidateManifest
  <2>10. QED
    BY <1>3, <1>4, <1>5, <1>7, <2>2, <2>4, <2>5, <2>6, <2>7, <2>9 DEF AcceptedAfter
<1>8. QED
  BY <1>6, <1>7

\* Every entry a child adds to an overlay was put there by a plan allowed to.
LEMMA ChildEarned ==
    ASSUME NEW c, NEW p, Allowed(p), NEW m, m = history[CURRENT], NEW k, k = Child(c, p)
    PROVE  /\ k.attempt = p
           /\ \A e \in k.superseded \ m.superseded :
                /\ p.kind = "write" /\ p.stream = e.stream
                /\ \E i \in DOMAIN p.targets : p.targets[i] = e.target
                /\ p.request.scoped
                /\ p.request.class \notin {"derived_from_retrieval", "unresolved"}
           /\ \A e \in k.refuted \ m.refuted :
                /\ p.kind = "refute" /\ p.attestation # None
                /\ p.attestation.target = e.target /\ p.attestation.base = CURRENT
<1>1. k.attempt = p
  BY ChildFields
<1>2. ASSUME NEW e \in k.superseded \ m.superseded
      PROVE  /\ p.kind = "write" /\ p.stream = e.stream
             /\ \E i \in DOMAIN p.targets : p.targets[i] = e.target
             /\ p.request.scoped
             /\ p.request.class \notin {"derived_from_retrieval", "unresolved"}
  <2>1. p.kind = "write"
    BY ChildFields
  <2>2. k.superseded = m.superseded \cup
          {[stream |-> p.stream, target |-> p.targets[i], by |-> i] : i \in DOMAIN p.targets}
    BY <2>1, ChildFields
  <2>3. PICK i \in DOMAIN p.targets : e = [stream |-> p.stream, target |-> p.targets[i], by |-> i]
    BY <2>2
  <2>4. VerifyWritePlan(p) /\ p.decision = "commit"
    BY <2>1 DEF Allowed, AllowedWrite, AllowedRefute, AllowedCheckpoint
  <2>5. p.op = "supersede" /\ EvaluateWrite(p) = "commit"
    BY <2>3, <2>4 DEF VerifyWritePlan, ValidateBatchProposal
  <2>6. p.request.scoped /\ p.request.class \notin {"derived_from_retrieval", "unresolved"}
    BY <2>5 DEF EvaluateWrite, Derived
  <2>7. QED
    BY <2>1, <2>3, <2>6
<1>3. ASSUME NEW e \in k.refuted \ m.refuted
      PROVE  /\ p.kind = "refute" /\ p.attestation # None
             /\ p.attestation.target = e.target /\ p.attestation.base = CURRENT
  <2>1. p.kind = "refute"
    BY ChildFields
  <2>2. k.refuted = m.refuted \cup
          {[target |-> p.target, base |-> p.base, attestation |-> p.attestation]}
    BY <2>1, ChildFields
  <2>3. e.target = p.target
    BY <2>2
  <2>4. /\ VerifyRefutePlan(p) /\ p.decision = "commit" /\ p.base = CURRENT
        /\ \E resolver \in Resolvers \cup {None} : VerifyCommitAuthority(p, resolver)
    BY <2>1 DEF Allowed, AllowedWrite, AllowedRefute, AllowedCheckpoint
  <2>5. p.attestation # None /\ p.attestation.target = p.target /\ p.attestation.base = p.base
    BY <2>4 DEF VerifyRefutePlan, VerifyCommitAuthority, Attestation
  <2>6. QED
    BY <2>1, <2>3, <2>4, <2>5
<1>4. QED
  BY <1>1, <1>2, <1>3

\* A landing keeps the invariant.
LEMMA LandStep ==
    ASSUME IndInv, NEW c \in Callers, NEW p, Lands(c, p)
    PROVE  IndInv'
<1>1. HistoryOK' /\ HeldOK' /\ LandsOnce' /\ ToldOK'
  BY LandCallers
<1>2. PICK m : m = history[CURRENT]
  OBVIOUS
<1>3. PICK k : k = Child(c, p)
  OBVIOUS
<1>4. /\ Allowed(p) /\ CURRENT < MaxRevisions
      /\ WriteShape(p) \/ RefuteShape(p) \/ CheckpointShape(p)
  BY DEF Lands, IndInv, HeldOK
<1>5. /\ CURRENT \in Nat /\ CURRENT >= 1 /\ CURRENT' = CURRENT + 1
      /\ \A n \in 1 .. CURRENT : history'[n] = history[n]
      /\ history'[CURRENT + 1] = k
  BY <1>3, Appended DEF IndInv, Lands
<1>6. /\ \A n \in 1 .. CURRENT' : n \in 1 .. CURRENT \/ n = CURRENT + 1
      /\ \A n \in 2 .. CURRENT' : \/ n \in 2 .. CURRENT /\ n \in 1 .. CURRENT /\ n - 1 \in 1 .. CURRENT
                                  \/ n = CURRENT + 1
      /\ CURRENT \in 1 .. CURRENT /\ CURRENT + 1 - 1 = CURRENT /\ CURRENT + 1 \in 2 .. CURRENT'
      /\ \A n \in 2 .. CURRENT : n \in 2 .. CURRENT' /\ n \in 1 .. CURRENT
  BY <1>5
<1>7. history'[CURRENT'] = k /\ history'[CURRENT] = m
  BY <1>2, <1>5, <1>6
<1>8. RowsOK'
  <2>1. RowsSound(k, CURRENT)
    BY <1>3, <1>4, ChildRows
  <2>2. CURRENT' - 1 = CURRENT
    BY <1>5
  <2>3. QED
    BY <1>7, <2>1, <2>2 DEF RowsOK, RowsSound
<1>9. ValidateOverlays(history[CURRENT])'
  <2>1. ValidateOverlays(k)
    BY <1>3, <1>4, ChildOverlays
  <2>2. QED
    BY <1>7, <2>1 DEF ValidateOverlays, IdsIn, Superseded, ValidateRefutationStorage
<1>10. AcceptedAfter(m, k)
  BY <1>2, <1>3, <1>4, ChildAccepted
<1>11. SchemasKnown'
  BY <1>5, <1>6, <1>10 DEF SchemasKnown, IndInv, AcceptedAfter
<1>12. CheckpointsChain'
  <2> SUFFICES ASSUME NEW n \in 2 .. CURRENT',
                      history'[n].checkpoint # history'[n - 1].checkpoint
               PROVE  history'[n].checkpoint = n /\ history'[n].replaces = history'[n - 1].checkpoint
    BY DEF CheckpointsChain
  <2>1. CASE n \in 2 .. CURRENT /\ n \in 1 .. CURRENT /\ n - 1 \in 1 .. CURRENT
    <3>1. history'[n] = history[n] /\ history'[n - 1] = history[n - 1]
      BY <1>5, <2>1
    <3>2. QED
      BY <2>1, <3>1 DEF IndInv, CheckpointsChain
  <2>2. CASE n = CURRENT + 1
    <3>1. history'[n] = k /\ history'[n - 1] = m
      BY <1>5, <1>6, <1>7, <2>2
    <3>2. QED
      BY <1>10, <2>2, <3>1 DEF AcceptedAfter
  <2>3. QED
    BY <1>6, <2>1, <2>2
<1>13. ChainAccepted'
  <2>1. ASSUME NEW n \in 1 .. CURRENT' PROVE (ValidateManifest(history[n]) /\ ValidateCheckpoint(n))'
    <3>1. CASE n \in 1 .. CURRENT
      <4>1. ValidateManifest(history[n]) /\ ValidateCheckpoint(n) /\ history'[n] = history[n]
        BY <1>5, <3>1 DEF IndInv, ChainAccepted
      <4>2. QED
        BY <4>1 DEF ValidateManifest, ValidateCheckpoint
    <3>2. CASE n = CURRENT + 1
      <4>1. history'[n] = k
        BY <1>5, <3>2
      <4>2. QED
        BY <1>10, <3>2, <4>1 DEF AcceptedAfter, ValidateManifest, ValidateCheckpoint
    <3>3. QED
      BY <1>6, <3>1, <3>2
  <2>2. ASSUME NEW n \in 2 .. CURRENT' PROVE ValidTransition(n)'
    <3>1. CASE n \in 2 .. CURRENT /\ n \in 1 .. CURRENT /\ n - 1 \in 1 .. CURRENT
      <4>1. ValidTransition(n) /\ history'[n] = history[n] /\ history'[n - 1] = history[n - 1]
        BY <1>5, <3>1 DEF IndInv, ChainAccepted
      <4>2. QED
        BY <4>1 DEF ValidTransition
    <3>2. CASE n = CURRENT + 1
      <4>1. history'[n] = k /\ history'[n - 1] = m /\ n - 1 = CURRENT
        BY <1>5, <1>6, <1>7, <3>2
      <4>2. QED
        BY <1>10, <4>1 DEF AcceptedAfter, ValidTransition
    <3>3. QED
      BY <1>6, <3>1, <3>2
  <2>3. QED
    BY <2>1, <2>2 DEF ChainAccepted
<1>14. OverlaysEarned'
  <2>1. /\ k.attempt = p
        /\ \A e \in k.superseded \ m.superseded :
             /\ p.kind = "write" /\ p.stream = e.stream
             /\ \E i \in DOMAIN p.targets : p.targets[i] = e.target
             /\ p.request.scoped
             /\ p.request.class \notin {"derived_from_retrieval", "unresolved"}
        /\ \A e \in k.refuted \ m.refuted :
             /\ p.kind = "refute" /\ p.attestation # None
             /\ p.attestation.target = e.target /\ p.attestation.base = CURRENT
    BY <1>2, <1>3, <1>4, ChildEarned
  <2>2. ASSUME NEW e \in k.superseded PROVE \E n \in 2 .. CURRENT' : SupersededBy(e, n)'
    <3>1. CASE e \in m.superseded
      <4>1. PICK n \in 2 .. CURRENT : SupersededBy(e, n)
        BY <1>2, <3>1 DEF IndInv, OverlaysEarned
      <4>2. n \in 2 .. CURRENT' /\ history'[n] = history[n]
        BY <1>5, <1>6
      <4>3. SupersededBy(e, n)'
        BY <4>1, <4>2 DEF SupersededBy
      <4>4. QED
        BY <4>2, <4>3
    <3>2. CASE e \notin m.superseded
      <4>1. PICK n : n = CURRENT + 1
        OBVIOUS
      <4>2. history'[n].attempt = p
        BY <1>5, <2>1, <4>1
      <4>3. SupersededBy(e, n)'
        BY <2>1, <3>2, <4>2 DEF SupersededBy
      <4>4. QED
        BY <1>6, <4>1, <4>3
    <3>3. QED
      BY <3>1, <3>2
  <2>3. ASSUME NEW e \in k.refuted PROVE \E n \in 2 .. CURRENT' : RefutedBy(e, n)'
    <3>1. CASE e \in m.refuted
      <4>1. PICK n \in 2 .. CURRENT : RefutedBy(e, n)
        BY <1>2, <3>1 DEF IndInv, OverlaysEarned
      <4>2. n \in 2 .. CURRENT' /\ history'[n] = history[n]
        BY <1>5, <1>6
      <4>3. RefutedBy(e, n)'
        BY <4>1, <4>2 DEF RefutedBy
      <4>4. QED
        BY <4>2, <4>3
    <3>2. CASE e \notin m.refuted
      <4>1. PICK n : n = CURRENT + 1
        OBVIOUS
      <4>2. history'[n].attempt = p /\ n - 1 = CURRENT
        BY <1>5, <2>1, <4>1
      <4>3. RefutedBy(e, n)'
        BY <2>1, <3>2, <4>2 DEF RefutedBy
      <4>4. QED
        BY <1>6, <4>1, <4>3
    <3>3. QED
      BY <3>1, <3>2
  <2>4. QED
    BY <1>7, <2>2, <2>3 DEF OverlaysEarned
<1>15. QED
  BY <1>1, <1>8, <1>9, <1>11, <1>12, <1>13, <1>14 DEF IndInv

\* The three ways a commit ends: it lands, leaves evidence of its attempt, or is
\* answered from what there is.
LEMMA CommitStep ==
    ASSUME IndInv, NEW c \in Callers,
           CommitWritePlan(c) \/ CommitRefute(c) \/ CommitCheckpoint(c)
    PROVE  IndInv'
<1>1. PICK p : p = held[c]
  OBVIOUS
<1>2. /\ p # None
      /\ \/ Allowed(p) /\ CommitLocked(c, p)
         \/ Reconciles(c, p) /\ \E n \in Landed(c) : Answer(c, p, n)
         \/ Landed(c) = {} /\ p.base # CURRENT /\ bound[c] = p /\ Answer(c, p, 0)
  BY <1>1, CommitCases
<1>3. /\ HeldOK /\ ToldOK /\ p.base \in 1 .. CURRENT
      /\ CURRENT \in Nat /\ CURRENT >= 1
  BY <1>1, <1>2 DEF IndInv, HeldOK, HistoryOK
<1>4. CASE Allowed(p) /\ CommitLocked(c, p) /\ history' = Append(history, Child(c, p))
           /\ (told' = [told EXCEPT ![c] = [plan |-> p, revision |-> CURRENT + 1]] \/ UNCHANGED told)
           /\ UNCHANGED bound
  <2>1. Lands(c, p)
    BY <1>1, <1>2, <1>4 DEF Lands, CommitLocked, Reconciles
  <2>2. QED
    BY <2>1, LandStep
<1>5. CASE Allowed(p) /\ CommitLocked(c, p) /\ bound' = [bound EXCEPT ![c] = p]
           /\ UNCHANGED <<history, told>>
  <2>1. UNCHANGED held /\ bound[c] \in {None, p}
    BY <1>5 DEF CommitLocked, Reconciles
  <2>2. HeldOK'
    BY <1>3, <1>5, <2>1 DEF HeldOK, CURRENT, WriteShape, RefuteShape, CheckpointShape
  <2>3. \A d \in Callers : Landed(d)' = Landed(d)
    BY <1>5 DEF Landed, CURRENT
  <2>4. ToldOK'
    <3> SUFFICES ASSUME NEW d \in Callers, told[d] # None
                 PROVE  \/ /\ told[d].revision = 0 /\ Landed(d) = {}
                           /\ bound'[d] = told[d].plan /\ told[d].plan # None
                           /\ told[d].plan.base \in 1 .. CURRENT - 1
                        \/ /\ told[d].revision \in Landed(d)
                           /\ history[told[d].revision].attempt = told[d].plan
      BY <1>5, <2>3 DEF ToldOK, CURRENT
    <3>1. bound'[d] = bound[d] \/ (bound[d] = None /\ d = c)
      BY <1>3, <1>5, <2>1 DEF HeldOK
    <3>2. QED
      BY <1>3, <3>1 DEF ToldOK
  <2>5. QED
    BY <1>5, <2>2, <2>4, FrameStep
<1>6. ASSUME NEW n, Answer(c, p, n),
             \/ n \in Landed(c) /\ Reconciles(c, p)
             \/ n = 0 /\ Landed(c) = {} /\ p.base # CURRENT /\ bound[c] = p
      PROVE  IndInv'
  <2>1. UNCHANGED <<history, held, bound>>
        /\ told' = [told EXCEPT ![c] = [plan |-> p, revision |-> n]]
    BY <1>6 DEF Answer
  <2>2. HeldOK'
    BY <1>3, <2>1 DEF HeldOK, CURRENT, WriteShape, RefuteShape, CheckpointShape
  <2>3. \A d \in Callers : Landed(d)' = Landed(d)
    BY <2>1 DEF Landed, CURRENT
  <2>4. ToldOK'
    <3> SUFFICES ASSUME NEW d \in Callers, told'[d] # None
                 PROVE  \/ /\ told'[d].revision = 0 /\ Landed(d) = {}
                           /\ bound[d] = told'[d].plan /\ told'[d].plan # None
                           /\ told'[d].plan.base \in 1 .. CURRENT - 1
                        \/ /\ told'[d].revision \in Landed(d)
                           /\ history[told'[d].revision].attempt = told'[d].plan
      BY <2>1, <2>3 DEF ToldOK, CURRENT
    <3>1. CASE d # c
      <4>1. told'[d] = told[d]
        BY <1>3, <2>1, <3>1 DEF HeldOK
      <4>2. QED
        BY <1>3, <4>1 DEF ToldOK
    <3>2. CASE d = c
      <4>1. told'[d].plan = p /\ told'[d].revision = n
        BY <1>3, <2>1, <3>2 DEF HeldOK
      <4>2. n \in Landed(c) /\ Reconciles(c, p) => history[n].attempt = p
        BY DEF Reconciles
      <4>3. p.base # CURRENT => p.base \in 1 .. CURRENT - 1
        BY <1>3
      <4>4. QED
        BY <1>2, <1>6, <3>2, <4>1, <4>2, <4>3
    <3>3. QED
      BY <3>1, <3>2
  <2>5. QED
    BY <2>1, <2>2, <2>4, FrameStep
<1>7. QED
  BY <1>2, <1>4, <1>5, <1>6 DEF CommitLocked

LEMMA InitHolds ==
    ASSUME Init
    PROVE  IndInv
<1>1. PICK m : history = <<m>> /\ (m = Genesis \/ \E i \in Ids : m = CompactedRoot(i))
  BY DEF Init
<1>2. CURRENT = 1 /\ history[1] = m /\ history = <<m>>
  BY <1>1 DEF CURRENT
<1>3. \A n \in 1 .. 1 : n = 1
  OBVIOUS
<1>4. \A n \in 2 .. 1 : FALSE
  OBVIOUS
<1>5. /\ m.superseded = {} /\ m.refuted = {} /\ m.checkpoint = 1
      /\ m.schema \in {"v1", "v3"}
      /\ m.rows = {} \/ \E i \in Ids : m.rows = {[stream |-> "facts", id |-> i, status |-> "vigente"]}
  <2>1. CASE m = Genesis
    BY <2>1 DEF Genesis
  <2>2. ASSUME NEW i \in Ids, m = CompactedRoot(i)
        PROVE  /\ m.superseded = {} /\ m.refuted = {} /\ m.checkpoint = 1 /\ m.schema = "v3"
               /\ m.rows = {[stream |-> "facts", id |-> i, status |-> "vigente"]}
    <3>1. PICK g : g = [Genesis EXCEPT !.schema = "v3"]
      OBVIOUS
    <3>2. g = [schema |-> "v3", rows |-> {}, superseded |-> {}, refuted |-> {},
               checkpoint |-> 1, working |-> None, replaces |-> 0, attempt |-> None,
               tx |-> None]
      BY <3>1 DEF Genesis
    <3>3. PICK rows : rows = {[stream |-> "facts", id |-> i, status |-> "vigente"]}
      OBVIOUS
    <3>4. m = [g EXCEPT !.rows = rows]
      BY <2>2, <3>1, <3>3 DEF CompactedRoot
    <3>5. QED
      BY <3>2, <3>3, <3>4
  <2>3. QED
    BY <1>1, <2>1, <2>2
<1>6. HistoryOK
  <2>1. history \in Seq({m}) /\ {history[n] : n \in 1 .. 1} = {m}
    BY <1>2, <1>3
  <2>2. QED
    BY <1>2, <2>1, BoundsAssumption DEF HistoryOK
<1>7. HeldOK /\ ToldOK
  BY DEF Init, HeldOK, ToldOK
<1>8. LandsOnce /\ CheckpointsChain
  BY <1>2, <1>4 DEF LandsOnce, CheckpointsChain
<1>9. OverlaysEarned
  BY <1>2, <1>5 DEF OverlaysEarned
<1>10. RowsOK
  <2>1. CASE m.rows = {}
    BY <1>2, <2>1 DEF RowsOK, RowsSound
  <2>2. CASE \E i \in Ids : m.rows = {[stream |-> "facts", id |-> i, status |-> "vigente"]}
    <3>1. PICK i \in Ids : m.rows = {[stream |-> "facts", id |-> i, status |-> "vigente"]}
      BY <2>2
    <3>2. \A r \in m.rows : r.id = i /\ \A q \in m.rows : q = r
      BY <3>1
    <3>3. QED
      BY <1>2, <3>2 DEF RowsOK, RowsSound
  <2>3. QED
    BY <1>5, <2>1, <2>2
<1>11. SchemasKnown
  BY <1>2, <1>3, <1>5 DEF SchemasKnown
<1>12. ChainAccepted
  BY <1>2, <1>3, <1>4, <1>5 DEF ChainAccepted, ValidateManifest, ValidateCheckpoint
<1>13. ValidateOverlays(history[CURRENT])
  BY <1>2, <1>5 DEF ValidateOverlays
<1>14. QED
  BY <1>6, <1>7, <1>8, <1>9, <1>10, <1>11, <1>12, <1>13 DEF IndInv

LEMMA StepHolds ==
    ASSUME IndInv, [Next]_vars
    PROVE  IndInv'
<1>1. CASE UNCHANGED vars
  <2>1. UNCHANGED <<history, held, bound, told>>
    BY <1>1 DEF vars
  <2>2. HeldOK' /\ ToldOK'
    BY <2>1 DEF IndInv, HeldOK, ToldOK, Landed, CURRENT, WriteShape, RefuteShape, CheckpointShape
  <2>3. QED
    BY <2>1, <2>2, FrameStep
<1>2. ASSUME NEW c \in Callers,
             \/ PlanWrite(c) \/ PlanRefute(c) \/ PlanCheckpoint(c) \/ Alter(c)
             \/ CommitWritePlan(c) \/ CommitRefute(c) \/ CommitCheckpoint(c)
      PROVE  IndInv'
  BY <1>2, PlanWriteStep, PlanRefuteStep, PlanCheckpointStep, AlterStep, CommitStep
<1>3. QED
  BY <1>1, <1>2 DEF Next

-----------------------------------------------------------------------------
(* Theorems.                                                               *)

LEMMA Reached == Spec => []IndInv
  BY InitHolds, StepHolds, PTL DEF Spec

\* The history stays as it is, or a plan that may lands on it.
LEMMA HistorySteps ==
    ASSUME IndInv, [Next]_vars
    PROVE  UNCHANGED history \/ \E c \in Callers : \E p : Lands(c, p)
<1>1. ASSUME NEW c \in Callers,
             CommitWritePlan(c) \/ CommitRefute(c) \/ CommitCheckpoint(c)
      PROVE  UNCHANGED history \/ \E p : Lands(c, p)
  <2>1. PICK p : p = held[c]
    OBVIOUS
  <2>2. /\ p # None
        /\ \/ Allowed(p) /\ CommitLocked(c, p)
           \/ Reconciles(c, p) /\ \E n \in Landed(c) : Answer(c, p, n)
           \/ Landed(c) = {} /\ p.base # CURRENT /\ bound[c] = p /\ Answer(c, p, 0)
    BY <1>1, <2>1, CommitCases
  <2>3. CASE Allowed(p) /\ CommitLocked(c, p)
    BY <2>1, <2>2, <2>3 DEF Lands, CommitLocked, Reconciles
  <2>4. QED
    BY <2>2, <2>3 DEF Answer
<1>2. QED
  BY <1>1 DEF Next, vars, PlanWrite, PlanRefute, PlanCheckpoint, Alter

\* The chain of manifests a reader walks from CURRENT is accepted link by link
\* (read_history, validate_transition), and the overlays of CURRENT name records
\* there are, with one successor each and none in both (validate_lifecycle),
\* whatever order the commits come in.
THEOREM EveryLinkAccepted == Spec => [](ChainAccepted /\ ValidateOverlays(history[CURRENT]))
<1>1. IndInv => ChainAccepted /\ ValidateOverlays(history[CURRENT])
  BY DEF IndInv
<1>2. QED
  BY <1>1, Reached, PTL

\* A record written as current is silenced only by a supersession of an
\* authority that is not retrieval, or by a refutation attested for it
\* (write_policy.evaluate_write, refutations.commit_refute), for any number of
\* callers whose planning results may come back changed.
THEOREM OnlyAuthoritySilences == Spec => []SilencedByAuthority
<1>1. ASSUME IndInv PROVE SilencedByAuthority
  <2> SUFFICES ASSUME NEW r \in history[CURRENT].rows, IsActive(r.status),
                      ~IsActive(Status(history[CURRENT], r))
               PROVE  \E n \in 2 .. CURRENT :
                        LET p == history[n].attempt IN
                        \/ /\ p.kind = "write" /\ p.stream = r.stream
                           /\ \E i \in DOMAIN p.targets : p.targets[i] = r.id
                           /\ p.request.scoped
                           /\ p.request.class \notin {"derived_from_retrieval", "unresolved"}
                        \/ /\ p.kind = "refute" /\ p.attestation # None
                           /\ p.attestation.target = r /\ p.attestation.base = n - 1
    BY DEF SilencedByAuthority
  <2>1. Superseded(history[CURRENT], r) \/ Refuted(history[CURRENT], r)
    BY DEF Status
  <2>2. CASE Superseded(history[CURRENT], r)
    <3>1. PICK e \in history[CURRENT].superseded : e.stream = r.stream /\ e.target = r.id
      BY <2>2 DEF Superseded
    <3>2. PICK n \in 2 .. CURRENT : SupersededBy(e, n)
      BY <1>1 DEF IndInv, OverlaysEarned
    <3>3. QED
      BY <3>1, <3>2 DEF SupersededBy
  <2>3. CASE Refuted(history[CURRENT], r)
    <3>1. PICK e \in history[CURRENT].refuted : e.target = r
      BY <2>3 DEF Refuted
    <3>2. PICK n \in 2 .. CURRENT : RefutedBy(e, n)
      BY <1>1 DEF IndInv, OverlaysEarned
    <3>3. QED
      BY <3>1, <3>2 DEF RefutedBy
  <2>4. QED
    BY <2>1, <2>2, <2>3
<1>2. QED
  BY <1>1, Reached, PTL

\* A transaction lands at most once, at the revision its caller is told, with the
\* plan it was asked to commit; one answered as not committed never lands
\* (write_commit.reconcile_attempt, refutations).
THEOREM AnswersStayTrue == Spec => []AnswersHold
<1>1. ASSUME IndInv PROVE AnswersHold
  <2> SUFFICES ASSUME NEW c \in Callers
               PROVE  /\ Cardinality(Landed(c)) <= 1
                      /\ told[c] # None =>
                           IF told[c].revision = 0 THEN Landed(c) = {}
                           ELSE /\ Landed(c) = {told[c].revision}
                                /\ history[told[c].revision].attempt = told[c].plan
    BY DEF AnswersHold
  <2>1. \A i, j \in Landed(c) : i = j
    BY <1>1 DEF IndInv, LandsOnce, Landed
  <2>2. Cardinality(Landed(c)) <= 1
    <3>1. CASE Landed(c) = {}
      BY <3>1, FS_EmptySet
    <3>2. CASE Landed(c) # {}
      <4>1. PICK n : Landed(c) = {n}
        BY <2>1, <3>2
      <4>2. QED
        BY <4>1, FS_Singleton
    <3>3. QED
      BY <3>1, <3>2
  <2>3. \A n \in Landed(c) : n # 0
    <3>1. CURRENT \in Nat
      BY <1>1 DEF IndInv, HistoryOK
    <3>2. QED
      BY <3>1 DEF Landed
  <2>4. ASSUME told[c] # None
        PROVE  IF told[c].revision = 0 THEN Landed(c) = {}
               ELSE /\ Landed(c) = {told[c].revision}
                    /\ history[told[c].revision].attempt = told[c].plan
    <3>1. \/ told[c].revision = 0 /\ Landed(c) = {}
          \/ /\ told[c].revision \in Landed(c)
             /\ history[told[c].revision].attempt = told[c].plan
      BY <1>1, <2>4 DEF IndInv, ToldOK
    <3>2. QED
      BY <2>1, <2>3, <3>1
  <2>5. QED
    BY <2>2, <2>4
<1>2. QED
  BY <1>1, Reached, PTL

\* Each checkpoint links to the one that was current when it landed
\* (checkpoints.commit_checkpoint), so none overwrites one its author had not
\* seen.
THEOREM NoCheckpointLost == Spec => []CheckpointsChain
<1>1. IndInv => CheckpointsChain
  BY DEF IndInv
<1>2. QED
  BY <1>1, Reached, PTL

\* A record that has ceased to be current never becomes current again: rows and
\* overlays only grow (validate_transition).
THEOREM SilenceIsFinal == Spec => NeverRevived
<1>1. ASSUME IndInv, [Next]_vars,
             NEW r \in history[CURRENT].rows, ~IsActive(Status(history[CURRENT], r))
      PROVE  /\ r \in history'[CURRENT'].rows
             /\ ~IsActive(Status(history'[CURRENT'], r))
  <2>1. CASE UNCHANGED history
    BY <1>1, <2>1 DEF CURRENT, Status, Superseded, Refuted
  <2>2. ASSUME NEW c \in Callers, NEW p, Lands(c, p)
        PROVE  /\ r \in history'[CURRENT'].rows
               /\ ~IsActive(Status(history'[CURRENT'], r))
    <3>1. PICK m : m = history[CURRENT]
      OBVIOUS
    <3>2. PICK k : k = Child(c, p)
      OBVIOUS
    <3>3. history'[CURRENT'] = k
      BY <1>1, <2>2, <3>2, Appended DEF IndInv, Lands
    <3>4. m.rows \subseteq k.rows /\ m.superseded \subseteq k.superseded /\ m.refuted \subseteq k.refuted
      BY <3>1, <3>2, ChildFields
    <3>5. (Superseded(m, r) => Superseded(k, r)) /\ (Refuted(m, r) => Refuted(k, r))
      BY <3>4 DEF Superseded, Refuted
    <3>6. ~IsActive(Status(k, r))
      BY <1>1, <3>1, <3>5 DEF Status, IsActive
    <3>7. r \in k.rows
      BY <3>1, <3>4
    <3>8. QED
      BY <3>3, <3>6, <3>7
  <2>3. QED
    BY <1>1, <2>1, <2>2, HistorySteps
<1>2. ASSUME IndInv, [Next]_vars
      PROVE  [\A r \in history[CURRENT].rows :
                ~IsActive(Status(history[CURRENT], r)) =>
                  /\ r \in history'[CURRENT'].rows
                  /\ ~IsActive(Status(history'[CURRENT'], r))]_vars
  BY <1>1, <1>2
<1>3. QED
  BY <1>2, Reached, PTL DEF Spec, NeverRevived
=============================================================================

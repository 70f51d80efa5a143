------------------------- MODULE TransactionsProofs -------------------------
(***************************************************************************)
(* Proofs about Transactions, for any number of writers, transaction ids,  *)
(* contents and failures.                                                  *)
(***************************************************************************)
EXTENDS Transactions, TLAPS, SequenceTheorems, FiniteSetTheorems

-----------------------------------------------------------------------------
(* The results of the storage primitives, for any objects and values.      *)

\* The create on a free name, or on a name whose torn file was moved aside.
LEMMA CreateEffect ==
    ASSUME NEW O, NEW d \in DiskOf(O), NEW o \in O, NEW r \in Create(d, o)
    PROVE  /\ r.disk \in DiskOf(O)
           /\ d.intact \subseteq r.disk.intact
           /\ r.disk.intact \subseteq d.intact \cup {o}
           /\ d.durable \subseteq r.disk.durable
           /\ r.disk.durable \subseteq d.durable \cup {o}
           /\ d.durable \subseteq d.intact => r.disk.durable \subseteq r.disk.intact
           /\ r.end = "ok" => o \in r.disk.intact
           /\ r.end = "ok" => o \in r.disk.durable
<1> USE DEF DiskOf
<1>1. CASE r = [disk |-> [d EXCEPT !.intact = @ \cup {o}, !.durable = @ \cup {o}],
                end |-> "ok"]
  <2>1. /\ r.disk.intact = d.intact \cup {o} /\ r.disk.durable = d.durable \cup {o}
        /\ r.disk \in DiskOf(O)
    BY <1>1
  <2>2. QED
    BY <2>1
<1>2. CASE r = [disk |-> d, end |-> "oserror"]
  BY <1>2
<1>3. CASE r = [disk |-> [d EXCEPT !.torn = @ \cup {o}], end |-> "oserror"]
  BY <1>3
<1>4. CASE r = [disk |-> [d EXCEPT !.intact = @ \cup {o}], end |-> "oserror"]
  BY <1>4
<1>5. QED
  BY <1>1, <1>2, <1>3, <1>4 DEF Create

\* storage_primitives.write_immutable: whatever way the call ends, objects
\* that were intact or durable stay so, at most the written object appears,
\* and it is there when the call returned.
LEMMA WriteImmutableEffect ==
    ASSUME NEW O, NEW d \in DiskOf(O), NEW o \in O,
           NEW r \in WriteImmutable(d, o)
    PROVE  /\ r.disk \in DiskOf(O)
           /\ d.intact \subseteq r.disk.intact
           /\ r.disk.intact \subseteq d.intact \cup {o}
           /\ d.durable \subseteq r.disk.durable
           /\ r.disk.durable \subseteq d.durable \cup {o}
           /\ d.durable \subseteq d.intact => r.disk.durable \subseteq r.disk.intact
           /\ r.end = "ok" => o \in r.disk.intact
<1>1. CASE o \in d.intact
  BY <1>1 DEF WriteImmutable, DiskOf
<1>2. CASE o \notin d.intact /\ o \notin d.torn
  <2>1. r \in Create(d, o)
    BY <1>2 DEF WriteImmutable
  <2>2. QED
    BY <2>1, CreateEffect
<1>3. CASE o \notin d.intact /\ o \in d.torn /\ d.quarantined >= QuarantineQuota
  BY <1>3 DEF WriteImmutable, DiskOf
<1>4. CASE o \notin d.intact /\ o \in d.torn /\ ~(d.quarantined >= QuarantineQuota)
  <2> DEFINE q == Quarantine(d, o)
  <2>1. /\ q \in DiskOf(O)
        /\ q.intact = d.intact /\ q.durable = d.durable
    <3>1. d.quarantined + 1 \in 0..QuarantineQuota
      BY <1>4, QuotaAssumption DEF DiskOf
    <3>2. QED
      BY <3>1 DEF Quarantine, DiskOf
  <2>2. r \in {[disk |-> d, end |-> "oserror"]} \cup Create(q, o)
    BY <1>4 DEF WriteImmutable
  <2> HIDE DEF q
  <2>3. CASE r = [disk |-> d, end |-> "oserror"]
    BY <2>3
  <2>4. CASE r \in Create(q, o)
    BY <2>4, <2>1, CreateEffect
  <2>5. QED
    BY <2>2, <2>3, <2>4
<1>5. QED
  BY <1>1, <1>2, <1>3, <1>4

\* storage_primitives.atomic_write: each copy of the file is the old one or
\* the new value, and both are new when the call returned.
LEMMA AtomicWriteEffect ==
    ASSUME NEW V, NEW cell \in CellOf(V), NEW v \in V,
           NEW r \in AtomicWrite(cell, v)
    PROVE  /\ r.cell \in CellOf(V)
           /\ r.cell.seen \in {cell.seen, v}
           /\ r.cell.safe \in {cell.safe, v}
           /\ r.cell.seen = cell.seen => r.cell.safe = cell.safe \/ v = cell.seen
           /\ r.cell.safe # cell.safe => r.cell.seen = v /\ r.cell.safe = v
           /\ r.end = "ok" => r.cell.seen = v /\ r.cell.safe = v
<1> USE DEF CellOf
<1>1. CASE r = [cell |-> Cell(v), end |-> "ok"]
  BY <1>1 DEF Cell
<1>2. CASE r = [cell |-> cell, end |-> "oserror"]
  BY <1>2
<1>3. CASE r = [cell |-> [cell EXCEPT !.seen = v], end |-> "oserror"]
  BY <1>3
<1>4. QED
  BY <1>1, <1>2, <1>3 DEF AtomicWrite

\* A power loss keeps the durable objects and invents none.
LEMMA PowerLossEffect ==
    ASSUME NEW O, NEW d \in DiskOf(O), d.durable \subseteq d.intact,
           NEW after \in DisksAfterPowerLoss(d)
    PROVE  /\ after \in DiskOf(O)
           /\ d.durable \subseteq after.durable
           /\ after.durable = after.intact
           /\ after.intact \subseteq d.intact
<1>1. PICK kept \in SUBSET (d.intact \ d.durable) :
        \E bad \in SUBSET (d.torn \cup ((d.intact \ d.durable) \ kept)) :
           after = [intact |-> d.durable \cup kept, durable |-> d.durable \cup kept,
                    torn |-> bad, quarantined |-> d.quarantined]
  BY DEF DisksAfterPowerLoss
<1>2. PICK bad \in SUBSET (d.torn \cup ((d.intact \ d.durable) \ kept)) :
        after = [intact |-> d.durable \cup kept, durable |-> d.durable \cup kept,
                 torn |-> bad, quarantined |-> d.quarantined]
  BY <1>1
<1>3. QED
  BY <1>2 DEF DiskOf

-----------------------------------------------------------------------------
(* Histories.                                                              *)

LEMMA AttemptFields ==
    ASSUME NEW a \in Attempts
    PROVE  /\ a.tx \in Txs /\ a.base \in Revs /\ a.content \in Contents
           /\ a.base \in Seq(Entries) /\ Len(a.base) \in Nat
           /\ [tx |-> a.tx, content |-> a.content] \in Entries
  BY DEF Attempts, Entries, Revs

\* build_child_manifest makes a revision that extends its base by one entry.
LEMMA ChildType ==
    ASSUME NEW a \in Attempts
    PROVE  /\ Child(a) \in Revs /\ Child(a) \in Seq(Entries)
           /\ Len(Child(a)) = Len(a.base) + 1
           /\ \A i \in 1..Len(a.base) : Child(a)[i] = a.base[i]
           /\ \A i \in 1..Len(a.base) : Child(a)[i] \in Entries
           /\ Child(a)[Len(a.base) + 1] = [tx |-> a.tx, content |-> a.content]
<1> DEFINE e == [tx |-> a.tx, content |-> a.content]
<1>1. e \in Entries /\ a.base \in Seq(Entries)
  BY AttemptFields
<1> HIDE DEF e
<1>2. /\ Append(a.base, e) \in Seq(Entries)
      /\ Len(Append(a.base, e)) = Len(a.base) + 1
      /\ \A i \in 1..Len(a.base) : Append(a.base, e)[i] = a.base[i]
      /\ Append(a.base, e)[Len(a.base) + 1] = e
  BY <1>1, AppendProperties
<1>3. \A i \in 1..Len(a.base) : a.base[i] \in Entries
  BY <1>1
<1>4. Child(a) = Append(a.base, e)
  BY DEF Child, e
<1>5. QED
  BY <1>2, <1>3, <1>4 DEF Revs, e

\* The attempt that wrote a revision of a history.
LEMMA AttemptAtType ==
    ASSUME NEW r \in Revs, NEW i \in 1..Len(r)
    PROVE  /\ AttemptAt(r, i) \in Attempts
           /\ AttemptAt(r, i).tx = r[i].tx
           /\ Len(AttemptAt(r, i).base) = i - 1
<1>1. r[i] \in Entries
  BY DEF Revs
<1>2. \A k \in 1..(i - 1) : r[k] \in Entries
  BY DEF Revs
<1>3. i - 1 \in Int
  BY DEF Revs
<1>4. /\ SubSeq(r, 1, i - 1) \in Seq(Entries)
      /\ Len(SubSeq(r, 1, i - 1)) = IF 1 <= i - 1 THEN (i - 1) - 1 + 1 ELSE 0
  BY <1>2, <1>3, SubSeqProperties
<1>5. QED
  BY <1>1, <1>4 DEF AttemptAt, Attempts, Entries, Revs
LEMMA PrefixReflexive ==
    ASSUME NEW r \in Revs
    PROVE  Prefix(r, r)
  BY DEF Prefix, Revs

LEMMA PrefixTransitive ==
    ASSUME NEW r \in Revs, NEW s \in Revs, NEW u \in Revs, Prefix(r, s), Prefix(s, u)
    PROVE  Prefix(r, u)
  BY DEF Prefix, Revs

LEMMA PrefixOfChild ==
    ASSUME NEW a \in Attempts
    PROVE  Prefix(a.base, Child(a))
<1>1. Len(a.base) \in Nat /\ Len(Child(a)) = Len(a.base) + 1
  BY AttemptFields, ChildType
<1>2. \A i \in 1..Len(a.base) : Child(a)[i] = a.base[i]
  BY ChildType
<1>3. QED
  BY <1>1, <1>2 DEF Prefix

\* Histories that share a prefix share the attempts that wrote it.
LEMMA PrefixAttempt ==
    ASSUME NEW r \in Revs, NEW q \in Revs, Prefix(r, q), NEW i \in 1..Len(r)
    PROVE  AttemptAt(q, i) = AttemptAt(r, i)
<1>1. r \in Seq(Entries) /\ q \in Seq(Entries) /\ Len(r) \in Nat /\ Len(q) \in Nat
  BY DEF Revs
<1>2. q[i] = r[i]
  BY DEF Prefix
<1>3. /\ \A k \in 1..(i - 1) : q[k] = r[k]
      /\ \A k \in 1..(i - 1) : q[k] \in Entries
      /\ \A k \in 1..(i - 1) : r[k] \in Entries
  BY <1>1 DEF Prefix
<1>4. i - 1 \in Int /\ i - 1 >= 0
  BY <1>1
<1> DEFINE s == SubSeq(q, 1, i - 1)
           t == SubSeq(r, 1, i - 1)
<1>5. /\ s \in Seq(Entries) /\ Len(s) = i - 1
      /\ \A k \in 1..(i - 1) : s[k] = q[k]
  <2>1. /\ s \in Seq(Entries)
        /\ Len(s) = IF 1 <= i - 1 THEN (i - 1) - 1 + 1 ELSE 0
        /\ \A k \in 1..((i - 1) - 1 + 1) : s[k] = q[1 + k - 1]
    BY <1>3, <1>4, SubSeqProperties
  <2>2. QED
    BY <2>1, <1>4
<1>6. /\ t \in Seq(Entries) /\ Len(t) = i - 1
      /\ \A k \in 1..(i - 1) : t[k] = r[k]
  <2>1. /\ t \in Seq(Entries)
        /\ Len(t) = IF 1 <= i - 1 THEN (i - 1) - 1 + 1 ELSE 0
        /\ \A k \in 1..((i - 1) - 1 + 1) : t[k] = r[1 + k - 1]
    BY <1>3, <1>4, SubSeqProperties
  <2>2. QED
    BY <2>1, <1>4
<1>7. s = t
  <2>1. \A k \in 1..Len(s) : s[k] = t[k]
    BY <1>3, <1>5, <1>6
  <2> HIDE DEF s, t
  <2>2. QED
    BY <2>1, <1>5, <1>6, SeqEqual
<1>8. QED
  BY <1>2, <1>7 DEF AttemptAt

\* What a history needs, a prefix of it does not need more of.
LEMMA PrefixHistory ==
    ASSUME NEW r \in Revs, NEW q \in Revs, Prefix(r, q)
    PROVE  /\ ChainManifests(r) \subseteq ChainManifests(q)
           /\ ChainSegments(r) \subseteq ChainSegments(q)
<1>1. 1..Len(r) \subseteq 1..Len(q)
  BY DEF Prefix, Revs
<1>2. \A i \in 1..Len(r) : AttemptAt(q, i) = AttemptAt(r, i)
  BY PrefixAttempt
<1>3. \A i \in 1..Len(r) : q[i] = r[i]
  BY DEF Prefix
<1>4. QED
  BY <1>1, <1>2, <1>3 DEF ChainManifests, ChainSegments

LEMMA LastAttempt ==
    ASSUME NEW a \in Attempts
    PROVE  AttemptAt(Child(a), Len(a.base) + 1) = a
<1>1. a.base \in Seq(Entries) /\ Child(a) \in Seq(Entries) /\ Len(a.base) \in Nat
  BY ChildType, AttemptFields
<1> DEFINE n == Len(a.base)
           s == SubSeq(Child(a), 1, n)
<1>2. \A k \in 1..n : Child(a)[k] = a.base[k] /\ Child(a)[k] \in Entries
  BY ChildType
<1>3. /\ s \in Seq(Entries) /\ Len(s) = n
      /\ \A k \in 1..n : s[k] = Child(a)[k]
  <2>1. /\ s \in Seq(Entries)
        /\ Len(s) = IF 1 <= n THEN n - 1 + 1 ELSE 0
        /\ \A k \in 1..(n - 1 + 1) : s[k] = Child(a)[1 + k - 1]
    BY <1>1, <1>2, SubSeqProperties
  <2>2. QED
    BY <2>1, <1>1
<1>4. s = a.base
  <2>1. \A k \in 1..Len(s) : s[k] = a.base[k]
    BY <1>2, <1>3
  <2> HIDE DEF s
  <2>2. QED
    BY <2>1, <1>1, <1>3, SeqEqual
<1>5. (n + 1) - 1 = n
  BY <1>1
<1>6. Child(a)[n + 1] = [tx |-> a.tx, content |-> a.content]
  BY ChildType
<1>7. AttemptAt(Child(a), n + 1) = [tx |-> a.tx, base |-> a.base, content |-> a.content]
  BY <1>4, <1>5, <1>6 DEF AttemptAt
<1>8. QED
  BY <1>7 DEF Attempts

\* The objects a child's history needs are its base's and its own.
LEMMA HistoryOfChild ==
    ASSUME NEW a \in Attempts
    PROVE  /\ ChainManifests(Child(a)) = ChainManifests(a.base) \cup {<<"revisions", a>>}
           /\ ChainSegments(Child(a)) = ChainSegments(a.base) \cup {<<"segments", a.content>>}
<1>1. /\ Len(a.base) \in Nat
      /\ Len(Child(a)) = Len(a.base) + 1
      /\ 1..Len(Child(a)) = 1..Len(a.base) \cup {Len(a.base) + 1}
  <2>1. Len(a.base) \in Nat /\ Len(Child(a)) = Len(a.base) + 1
    BY ChildType, AttemptFields
  <2>2. QED
    BY <2>1
<1>2. \A i \in 1..Len(a.base) : Child(a)[i] = a.base[i]
  BY ChildType
<1>3. Child(a)[Len(a.base) + 1].content = a.content
  <2>1. Child(a)[Len(a.base) + 1] = [tx |-> a.tx, content |-> a.content]
    BY ChildType
  <2>2. QED
    BY <2>1
<1>4. \A i \in 1..Len(a.base) : AttemptAt(Child(a), i) = AttemptAt(a.base, i)
  BY PrefixAttempt, PrefixOfChild, AttemptFields, ChildType
<1>5. AttemptAt(Child(a), Len(a.base) + 1) = a
  BY LastAttempt
<1>6. ChainManifests(Child(a)) = ChainManifests(a.base) \cup {<<"revisions", a>>}
  BY <1>1, <1>4, <1>5 DEF ChainManifests
<1>7. ChainSegments(Child(a)) = ChainSegments(a.base) \cup {<<"segments", a.content>>}
  BY <1>1, <1>2, <1>3 DEF ChainSegments
<1>8. QED
  BY <1>6, <1>7
-----------------------------------------------------------------------------
(* How a step ends.                                                        *)

\* An outcome carries the durability it was given.
LEMMA OutcomeDurable ==
    ASSUME NEW rel, NEW cur, NEW parent, NEW d \in BOOLEAN, NEW audited
    PROVE  Outcome(rel, cur, parent, d, audited).durable \in BOOLEAN
  BY DEF Outcome

LEMMA InspectDurable ==
    ASSUME NEW t
    PROVE  inspect_transaction(t).durable \in BOOLEAN
<1>1. \A c : Refused(c).durable \in BOOLEAN
  BY DEF Refused
<1>2. \A a, c : Verdict(a, c).durable \in BOOLEAN
  <2> TAKE a, c
  <2>1. Durable(c, Relation(c, current.seen)) \in BOOLEAN
    BY DEF Durable
  <2>2. QED
    BY <2>1, OutcomeDurable DEF Verdict
<1>3. \A a : NoCandidateVerdict(a).durable \in BOOLEAN
  BY OutcomeDurable DEF NoCandidateVerdict
<1>4. QED
  BY <1>1, <1>2, <1>3 DEF inspect_transaction

LEMMA OSErrorDurable ==
    ASSUME NEW w, NEW at, NEW cur
    PROVE  OSErrorOutcome(w, at, cur).durable \in BOOLEAN
  BY OutcomeDurable DEF OSErrorOutcome

\* Where a process is, and who holds the lock, after it goes on or returns.
Moved(w, next) == pc' = [pc EXCEPT ![w] = next] /\ lock' = lock /\ req' = req

Returned(w) == pc' = [pc EXCEPT ![w] = "planned"] /\ lock' = NoWriter /\ req' = req

LEMMA GotoControl ==
    ASSUME ProcessOK, NEW w \in Writers, req[w] \in Attempts, NEW next \in Busy,
           Goto(w, next), UNCHANGED bounds
    PROVE  ProcessOK' /\ Moved(w, next)
<1>1. pc' = [pc EXCEPT ![w] = next] /\ UNCHANGED <<lock, req, acks, failures, outages>>
  BY DEF Goto, bounds
<1>2. \A v \in Writers : pc'[v] # "idle" => req'[v] \in Attempts
  BY <1>1 DEF ProcessOK
<1>3. QED
  BY <1>1, <1>2 DEF ProcessOK, Moved

LEMMA FinishControl ==
    ASSUME ProcessOK, NEW w \in Writers, req[w] \in Attempts, NEW answer,
           answer.durable \in BOOLEAN, Finish(w, answer)
    PROVE  /\ Returned(w)
           /\ failures' \in Nat /\ outages' \in Nat => ProcessOK'
<1>1. /\ pc' = [pc EXCEPT ![w] = "planned"] /\ lock' = NoWriter /\ req' = req
      /\ acks' \subseteq acks \cup {[rev |-> Child(req[w]), durable |-> answer.durable]}
  BY DEF Finish
<1>2. \A v \in Writers : pc'[v] # "idle" => req'[v] \in Attempts
  BY <1>1 DEF ProcessOK
<1>3. [rev |-> Child(req[w]), durable |-> answer.durable] \in [rev : Revs, durable : BOOLEAN]
  BY ChildType
<1>4. acks' \subseteq [rev : Revs, durable : BOOLEAN]
  BY <1>1, <1>3 DEF ProcessOK
<1>5. QED
  BY <1>1, <1>2, <1>4 DEF ProcessOK, Returned

LEMMA DieControl ==
    ASSUME ProcessOK, NEW w \in Writers, req[w] \in Attempts, Die(w)
    PROVE  ProcessOK' /\ Returned(w)
<1>1. /\ pc' = [pc EXCEPT ![w] = "planned"] /\ lock' = NoWriter
      /\ UNCHANGED <<req, acks, outages>> /\ failures' = failures + 1
  BY DEF Die, Fault
<1>2. \A v \in Writers : pc'[v] # "idle" => req'[v] \in Attempts
  BY <1>1 DEF ProcessOK
<1>3. QED
  BY <1>1, <1>2 DEF ProcessOK, Returned

LEMMA FaultBounds ==
    ASSUME ProcessOK, Fault
    PROVE  failures' \in Nat /\ outages' \in Nat
  BY DEF ProcessOK, Fault

LEMMA EndStepControl ==
    ASSUME ProcessOK, NEW w \in Writers, req[w] \in Attempts, NEW next \in Busy,
           NEW at, NEW end, NEW cur, EndStep(w, at, end, next, cur)
    PROVE  /\ ProcessOK'
           /\ (end = "ok" /\ Moved(w, next)) \/ Returned(w)
<1>1. CASE end = "ok" /\ Goto(w, next) /\ UNCHANGED bounds
  BY <1>1, GotoControl
<1>2. CASE end = "oserror" /\ Fault /\ Finish(w, OSErrorOutcome(w, at, cur))
  BY <1>2, FinishControl, FaultBounds, OSErrorDurable
<1>3. CASE /\ end = "quarantine_quota_exceeded"
           /\ Finish(w, Refused(end)) /\ UNCHANGED bounds
  <2>1. Refused(end).durable \in BOOLEAN
    BY DEF Refused
  <2>2. failures' \in Nat /\ outages' \in Nat
    BY <1>3 DEF bounds, ProcessOK
  <2>3. QED
    BY <1>3, <2>1, <2>2, FinishControl
<1>4. CASE Die(w)
  BY <1>4, DieControl
<1>5. QED
  BY <1>1, <1>2, <1>3, <1>4 DEF EndStep
-----------------------------------------------------------------------------
(* Inside the lock.                                                        *)

\* _manifest_candidates finds exactly the readable manifests.
LEMMA CandidateSet ==
    ASSUME NEW d \in DiskOf(Objects), NEW t
    PROVE  {a \in {o[2] : o \in {x \in d.intact : x[1] = "revisions"}} : a.tx = t}
             = {a \in Attempts : a.tx = t /\ <<"revisions", a>> \in d.intact}
<1>1. d.intact \subseteq Objects
  BY DEF DiskOf
<1>2. \A o \in Objects : o[1] = "revisions" => o[2] \in Attempts /\ o = <<"revisions", o[2]>>
  BY DEF Objects, AttemptKinds
<1>3. QED
  BY <1>1, <1>2

\* While one writer is inside, no other writer is, and the step it takes
\* leaves at most itself inside.
LEMMA ControlStep ==
    ASSUME ProcessOK, LockHeld, NEW w \in Writers, pc[w] \in Locked,
           NEW next \in Locked, Moved(w, next) \/ Returned(w)
    PROVE  /\ LockHeld'
           /\ \A v \in Writers : pc'[v] \in Locked => v = w
           /\ \A v \in Writers : pc'[v] \in Locked =>
                Moved(w, next) /\ pc'[v] = next /\ req'[v] = req[v]
<1>1. lock = w
  BY DEF LockHeld
<1>2. \A v \in Writers : v # w => pc[v] \notin Locked
  BY <1>1 DEF LockHeld
<1>3. pc \in [Writers -> {"idle", "planned"} \cup Busy]
  BY DEF ProcessOK
<1>4. "planned" \notin Locked
  BY DEF Locked, Busy
<1>5. CASE Moved(w, next)
  BY <1>1, <1>2, <1>3, <1>5 DEF Moved, LockHeld
<1>6. CASE Returned(w)
  BY <1>2, <1>3, <1>4, <1>6 DEF Returned, LockHeld
<1>7. QED
  BY <1>5, <1>6

\* A step that writes one immutable object.
ReceiptSteps == {"receipt_candidate", "journal_receipt", "replace"}

LEMMA ObjectStep ==
    ASSUME IndInv, NEW w \in Writers, pc[w] \in Locked, NEW next \in Locked,
           NEW o \in Objects, NEW r \in WriteImmutable(disk, o), disk' = r.disk,
           UNCHANGED <<current, journal, watermark>>,
           ProcessOK', Moved(w, next) \/ Returned(w),
           o[1] = "revisions" => o[2] = req[w] /\ pc[w] \in AfterPrepare,
           next # "prepare",
           next \in AfterPrepare => pc[w] \in AfterPrepare,
           next \in ReceiptSteps => pc[w] \in ReceiptSteps
    PROVE  IndInv'
<1>1. /\ ProcessOK /\ MediumOK /\ LockHeld /\ JournalsAgree /\ CandidatesBound
      /\ WritersBound /\ DiskSound /\ SafeOnHistory /\ HistoryDurable
  BY DEF IndInv, TypeOK
<1>2. /\ disk' \in DiskOf(Objects) /\ disk \in DiskOf(Objects)
      /\ disk'.intact \subseteq disk.intact \cup {o}
      /\ disk.durable \subseteq disk'.durable
      /\ disk'.durable \subseteq disk'.intact
  BY <1>1, WriteImmutableEffect DEF MediumOK, DiskSound
<1>3. /\ LockHeld'
      /\ \A v \in Writers : pc'[v] \in Locked =>
           v = w /\ pc'[v] = next /\ req'[v] = req[v]
  BY <1>1, ControlStep
<1>4. MediumOK'
  BY <1>1, <1>2 DEF MediumOK
<1>5. JournalsAgree' /\ SafeOnHistory' /\ DiskSound' /\ HistoryDurable'
  BY <1>1, <1>2 DEF JournalsAgree, SafeOnHistory, DiskSound, HistoryDurable
<1>6. CandidatesBound'
  <2>0. \A t : Candidates(t)' = {a \in Attempts : a.tx = t /\ <<"revisions", a>> \in disk'.intact}
    BY <1>2, CandidateSet DEF Candidates
  <2> SUFFICES ASSUME NEW t \in Txs, NEW a \in Attempts, a.tx = t,
                      <<"revisions", a>> \in disk'.intact
               PROVE  journal[t].safe # NoJournal /\ journal[t].safe.attempt = a
    BY <2>0 DEF CandidatesBound
  <2>1. CASE <<"revisions", a>> \in disk.intact
    BY <2>1, <1>1, <1>2, CandidateSet DEF CandidatesBound, Candidates
  <2>2. CASE <<"revisions", a>> = o
    <3>1. a = req[w] /\ pc[w] \in AfterPrepare
      BY <2>2
    <3>2. QED
      BY <3>1, <1>1 DEF WritersBound
  <2>3. QED
    BY <2>1, <2>2, <1>2
<1>7. WritersBound'
  <2>1. \A v \in Writers : pc'[v] \in {"prepare"} \cup AfterPrepare => pc'[v] \in Locked
    BY DEF AfterPrepare, Locked, Busy
  <2>2. ReceiptSteps \subseteq AfterPrepare
    BY DEF ReceiptSteps, AfterPrepare
  <2>3. QED
    BY <1>1, <1>2, <1>3, <2>1, <2>2 DEF WritersBound, ReceiptSteps, Bound
<1>8. QED
  BY <1>3, <1>4, <1>5, <1>6, <1>7 DEF IndInv, TypeOK
\* A step that writes the journal of the writer's transaction.
LEMMA JournalStep ==
    ASSUME IndInv, NEW w \in Writers, req[w] \in Attempts,
           pc[w] = "prepare" \/ pc[w] \in AfterPrepare, NEW next \in Locked,
           NEW stage \in Stages,
           NEW r \in AtomicWrite(journal[req[w].tx], [stage |-> stage, attempt |-> req[w]]),
           journal' = [journal EXCEPT ![req[w].tx] = r.cell],
           UNCHANGED <<disk, current, watermark>>,
           ProcessOK', (r.end = "ok" /\ Moved(w, next)) \/ Returned(w),
           next # "prepare",
           next \in ReceiptSteps => pc[w] \in ReceiptSteps
    PROVE  IndInv'
<1> DEFINE t == req[w].tx
           new == [stage |-> stage, attempt |-> req[w]]
<1>1. /\ ProcessOK /\ MediumOK /\ LockHeld /\ JournalsAgree /\ CandidatesBound
      /\ WritersBound /\ DiskSound /\ SafeOnHistory /\ HistoryDurable
  BY DEF IndInv, TypeOK
<1>2. t \in Txs /\ new \in Journals /\ new # NoJournal /\ new.attempt = req[w]
  BY AttemptFields DEF Journals, NoJournal, Stages
<1>3. journal \in [Txs -> CellOf(Journals)] /\ journal[t] \in CellOf(Journals)
  BY <1>1, <1>2 DEF MediumOK
<1>4. /\ journal[t].seen # NoJournal => journal[t].seen.attempt = req[w]
      /\ journal[t].safe # NoJournal =>
           journal[t].seen # NoJournal /\ journal[t].safe.attempt = req[w]
      /\ pc[w] \in AfterPrepare => journal[t].safe # NoJournal
  BY <1>1, <1>2 DEF WritersBound, JournalsAgree, Bound
<1>5. /\ r.cell \in CellOf(Journals)
      /\ r.cell.seen \in {journal[t].seen, new}
      /\ r.cell.safe \in {journal[t].safe, new}
      /\ r.cell.safe # journal[t].safe => r.cell.seen = new
      /\ r.end = "ok" => r.cell.safe = new
  <2> HIDE DEF t, new
  <2>1. r \in AtomicWrite(journal[t], new)
    BY DEF t, new
  <2>2. QED
    BY <1>2, <1>3, <2>1, AtomicWriteEffect
<1>6. /\ journal' \in [Txs -> CellOf(Journals)]
      /\ journal'[t] = r.cell
      /\ \A u \in Txs : u # t => journal'[u] = journal[u]
  <2> HIDE DEF t
  <2>1. journal' = [journal EXCEPT ![t] = r.cell]
    BY DEF t
  <2>2. QED
    BY <2>1, <1>2, <1>3, <1>5
<1>7. /\ r.cell.seen # NoJournal => r.cell.seen.attempt = req[w]
      /\ r.cell.safe # NoJournal => r.cell.seen # NoJournal /\ r.cell.safe.attempt = req[w]
      /\ journal[t].safe # NoJournal => r.cell.safe # NoJournal
      /\ r.end = "ok" => r.cell.safe # NoJournal
  BY <1>2, <1>4, <1>5
<1> HIDE DEF new
<1>8. pc[w] \in Locked
  BY DEF AfterPrepare, Locked, Busy
<1>9. /\ LockHeld'
      /\ \A v \in Writers : pc'[v] \in Locked =>
           v = w /\ pc'[v] = next /\ req'[v] = req[v]
      /\ \A v \in Writers : pc'[v] \in Locked => Moved(w, next)
  BY <1>1, <1>8, ControlStep
<1>10. MediumOK' /\ SafeOnHistory' /\ DiskSound' /\ HistoryDurable'
  BY <1>1, <1>6 DEF MediumOK, SafeOnHistory, DiskSound, HistoryDurable
<1>11. JournalsAgree'
  <2> SUFFICES ASSUME NEW u \in Txs
               PROVE  /\ journal'[u].seen # NoJournal => journal'[u].seen.attempt.tx = u
                      /\ journal'[u].safe # NoJournal =>
                           /\ journal'[u].seen # NoJournal
                           /\ journal'[u].seen.attempt = journal'[u].safe.attempt
    BY DEF JournalsAgree
  <2>1. CASE u = t
    BY <2>1, <1>6, <1>7
  <2>2. CASE u # t
    BY <2>2, <1>1, <1>6 DEF JournalsAgree
  <2>3. QED
    BY <2>1, <2>2
<1>12. CandidatesBound'
  <2> SUFFICES ASSUME NEW u \in Txs, NEW a \in Candidates(u)
               PROVE  journal'[u].safe # NoJournal /\ journal'[u].safe.attempt = a
    BY DEF CandidatesBound, Candidates
  <2>1. journal[u].safe # NoJournal /\ journal[u].safe.attempt = a
    BY <1>1 DEF CandidatesBound
  <2>2. QED
    BY <2>1, <1>4, <1>6, <1>7
<1>13. WritersBound'
  <2>1. \A v \in Writers : pc'[v] \in {"prepare"} \cup AfterPrepare => pc'[v] \in Locked
    BY DEF AfterPrepare, Locked, Busy
  <2>2. ReceiptSteps \subseteq AfterPrepare
    BY DEF ReceiptSteps, AfterPrepare
  <2>3. \A v \in Writers : pc'[v] \in AfterPrepare => r.end = "ok"
    <3>1. \A v \in Writers : ~(Returned(w) /\ pc'[v] \in Locked)
      <4> SUFFICES ASSUME NEW v \in Writers, Returned(w), pc'[v] \in Locked PROVE FALSE
        OBVIOUS
      <4>1. v = w
        BY <1>9
      <4>2. pc'[w] = "planned"
        BY <1>1 DEF Returned, ProcessOK
      <4>3. QED
        BY <4>1, <4>2 DEF Locked, Busy
    <3>2. QED
      BY <3>1, <2>1
  <2>4. QED
    BY <1>1, <1>6, <1>7, <1>9, <2>1, <2>2, <2>3 DEF WritersBound, ReceiptSteps, Bound
<1>14. QED
  BY <1>9, <1>10, <1>11, <1>12, <1>13 DEF IndInv, TypeOK
\* A step that syncs objects or CURRENT, or moves CURRENT to a child of it
\* whose objects are durable.
LEMMA CurrentStep ==
    ASSUME IndInv, NEW w \in Writers, req[w] \in Attempts, pc[w] \in Locked,
           NEW next \in Locked, ProcessOK', Moved(w, next) \/ Returned(w),
           UNCHANGED journal, watermark' \in CellOf(Revs),
           disk' \in DiskOf(Objects), disk'.intact = disk.intact,
           disk.durable \subseteq disk'.durable, disk'.durable \subseteq disk'.intact,
           current' \in CellOf(Revs),
           current'.safe \in {current.safe, current'.seen},
           \/ current'.seen = current.seen
           \/ /\ pc[w] = "replace" /\ current.seen = req[w].base
              /\ current'.seen = Child(req[w]),
           next # "prepare",
           next \in AfterPrepare => pc[w] \in AfterPrepare,
           next \in ReceiptSteps => (Moved(w, next) => Protected(req[w]) \subseteq disk'.durable)
    PROVE  IndInv'
<1>1. /\ ProcessOK /\ MediumOK /\ LockHeld /\ JournalsAgree /\ CandidatesBound
      /\ WritersBound /\ DiskSound /\ SafeOnHistory /\ HistoryDurable
  BY DEF IndInv, TypeOK
<1>2. /\ LockHeld'
      /\ \A v \in Writers : pc'[v] \in Locked =>
           v = w /\ pc'[v] = next /\ req'[v] = req[v]
      /\ \A v \in Writers : pc'[v] \in Locked => Moved(w, next)
  BY <1>1, ControlStep
<1>3. MediumOK' /\ JournalsAgree' /\ DiskSound'
  BY <1>1 DEF MediumOK, JournalsAgree, DiskSound
<1>4. CandidatesBound'
  BY <1>1 DEF CandidatesBound, Candidates
<1>5. /\ current.seen \in Revs /\ current.safe \in Revs /\ Prefix(current.safe, current.seen)
      /\ current'.seen \in Revs
  BY <1>1 DEF MediumOK, CellOf, SafeOnHistory
<1>6. Prefix(current.seen, current'.seen)
  <2>1. CASE current'.seen = current.seen
    BY <2>1, <1>5, PrefixReflexive
  <2>2. CASE current.seen = req[w].base /\ current'.seen = Child(req[w])
    BY <2>2, PrefixOfChild
  <2>3. QED
    BY <2>1, <2>2
<1>7. SafeOnHistory'
  <2>1. Prefix(current.safe, current'.seen)
    BY <1>5, <1>6, PrefixTransitive
  <2>2. Prefix(current'.seen, current'.seen)
    BY <1>5, PrefixReflexive
  <2>3. QED
    BY <2>1, <2>2 DEF SafeOnHistory
<1>8. HistoryDurable'
  <2>1. ChainManifests(current.seen) \cup ChainSegments(current.seen) \subseteq disk'.durable
    BY <1>1 DEF HistoryDurable
  <2>2. CASE current'.seen = current.seen
    <3>1. ChainManifests(current'.seen) \cup ChainSegments(current'.seen) \subseteq disk'.durable
      BY <2>1, <2>2
    <3>2. QED
      BY <3>1 DEF HistoryDurable, ChainManifests, ChainSegments, AttemptAt
  <2>3. CASE /\ pc[w] = "replace" /\ current.seen = req[w].base
             /\ current'.seen = Child(req[w])
    <3>1. Protected(req[w]) \subseteq disk.durable
      BY <1>1, <2>3 DEF WritersBound
    <3>2. {<<"revisions", req[w]>>, <<"segments", req[w].content>>} \subseteq disk'.durable
      BY <3>1 DEF Protected
    <3>3. /\ ChainManifests(Child(req[w])) = ChainManifests(req[w].base) \cup {<<"revisions", req[w]>>}
          /\ ChainSegments(Child(req[w])) = ChainSegments(req[w].base) \cup {<<"segments", req[w].content>>}
      BY HistoryOfChild
    <3>4. ChainManifests(current'.seen) \cup ChainSegments(current'.seen) \subseteq disk'.durable
      BY <2>1, <2>3, <3>2, <3>3
    <3>5. QED
      BY <3>4 DEF HistoryDurable, ChainManifests, ChainSegments, AttemptAt
  <2>4. QED
    BY <2>2, <2>3
<1>9. WritersBound'
  <2>1. \A v \in Writers : pc'[v] \in {"prepare"} \cup AfterPrepare => pc'[v] \in Locked
    BY DEF AfterPrepare, Locked, Busy
  <2>2. ReceiptSteps \subseteq AfterPrepare
    BY DEF ReceiptSteps, AfterPrepare
  <2>3. QED
    <3> SUFFICES ASSUME NEW v \in Writers, pc'[v] \in Locked
                 PROVE  /\ pc'[v] # "prepare"
                        /\ pc'[v] \in AfterPrepare
                             => /\ journal'[req'[v].tx].safe # NoJournal
                                /\ journal'[req'[v].tx].safe.attempt = req'[v]
                        /\ pc'[v] \in ReceiptSteps => Protected(req'[v]) \subseteq disk'.durable
      BY <2>1, <2>2 DEF WritersBound, ReceiptSteps
    <3>1. v = w /\ pc'[v] = next /\ req'[v] = req[w] /\ Moved(w, next)
      BY <1>2
    <3>2. next \in AfterPrepare => /\ journal[req[w].tx].safe # NoJournal
                                   /\ journal[req[w].tx].safe.attempt = req[w]
      BY <1>1 DEF WritersBound
    <3>3. QED
      BY <3>1, <3>2
<1>10. QED
  BY <1>2, <1>3, <1>4, <1>7, <1>8, <1>9 DEF IndInv, TypeOK

\* A step outside the lock changes no file and lets nobody in.
LEMMA OutsideStep ==
    ASSUME IndInv, UNCHANGED medium, ProcessOK',
           \A v \in Writers : pc'[v] \in Locked => pc[v] \in Locked /\ pc'[v] = pc[v] /\ req'[v] = req[v],
           lock' = lock \/ \A v \in Writers : pc'[v] \notin Locked
    PROVE  IndInv'
<1>1. /\ ProcessOK /\ MediumOK /\ LockHeld /\ JournalsAgree /\ CandidatesBound
      /\ WritersBound /\ DiskSound /\ SafeOnHistory /\ HistoryDurable
  BY DEF IndInv, TypeOK
<1>2. UNCHANGED <<disk, current, journal, watermark>>
  BY DEF medium
<1>3. MediumOK' /\ JournalsAgree' /\ DiskSound' /\ SafeOnHistory' /\ HistoryDurable'
  BY <1>1, <1>2 DEF MediumOK, JournalsAgree, DiskSound, SafeOnHistory, HistoryDurable
<1>4. CandidatesBound'
  BY <1>1, <1>2 DEF CandidatesBound, Candidates
<1>5. LockHeld'
  BY <1>1 DEF LockHeld
<1>6. WritersBound'
  <2>1. \A v \in Writers : pc'[v] \in {"prepare"} \cup AfterPrepare => pc'[v] \in Locked
    BY DEF AfterPrepare, Locked, Busy
  <2>2. ReceiptSteps \subseteq AfterPrepare
    BY DEF ReceiptSteps, AfterPrepare
  <2>3. QED
    BY <1>1, <1>2, <2>1, <2>2 DEF WritersBound, Bound, ReceiptSteps, Protected
<1>7. QED
  BY <1>3, <1>4, <1>5, <1>6 DEF IndInv, TypeOK

-----------------------------------------------------------------------------
(* The actions, one lemma each or one for each group with the same effect. *)

\* A store that was just initialized.
LEMMA InitInv == Init => IndInv
<1> SUFFICES ASSUME Init PROVE IndInv
  OBVIOUS
<1>1. <<>> \in Revs /\ Len(<<>>) = 0
  BY DEF Revs
<1>2. /\ disk = EmptyDisk /\ current = Cell(<<>>)
      /\ journal = [t \in Txs |-> Cell(NoJournal)] /\ watermark = Cell(<<>>)
      /\ lock = NoWriter /\ pc = [w \in Writers |-> "idle"]
      /\ req = [w \in Writers |-> NoPlan] /\ acks = {}
      /\ failures = 0 /\ outages = 0
  BY DEF Init
<1>3. /\ disk \in DiskOf(Objects) /\ disk.intact = {} /\ disk.durable = {}
      /\ current \in CellOf(Revs) /\ current.seen = <<>> /\ current.safe = <<>>
      /\ watermark \in CellOf(Revs)
  BY <1>1, <1>2, QuotaAssumption DEF EmptyDisk, DiskOf, Cell, CellOf
<1>4. /\ journal \in [Txs -> CellOf(Journals)]
      /\ \A t \in Txs : journal[t].seen = NoJournal /\ journal[t].safe = NoJournal
  BY <1>2 DEF Cell, CellOf, Journals
<1>5. \A w \in Writers : pc[w] = "idle"
  BY <1>2
<1>6. ProcessOK
  BY <1>2 DEF ProcessOK
<1>7. LockHeld /\ WritersBound
  BY <1>5 DEF LockHeld, WritersBound, Locked, Busy, AfterPrepare
<1>8. JournalsAgree
  BY <1>4 DEF JournalsAgree
<1>9. CandidatesBound
  BY <1>3 DEF CandidatesBound, Candidates
<1>10. SafeOnHistory
  BY <1>1, <1>3, PrefixReflexive DEF SafeOnHistory
<1>11. HistoryDurable
  <2>1. 1..Len(<<>>) = {}
    BY <1>1
  <2>2. QED
    BY <2>1, <1>3 DEF HistoryDurable, ChainManifests, ChainSegments
<1>12. QED
  BY <1>3, <1>4, <1>6, <1>7, <1>8, <1>9, <1>10, <1>11 DEF IndInv, TypeOK, MediumOK, DiskSound

\* A writer that has something in hand has an attempt.
LEMMA InHand ==
    ASSUME IndInv, NEW w \in Writers, pc[w] # "idle"
    PROVE  /\ req[w] \in Attempts /\ ProcessOK
           /\ req[w].tx \in Txs /\ req[w].content \in Contents
  BY AttemptFields DEF IndInv, TypeOK, ProcessOK

\* plan_write, the submission, and the calls that end at a gate.
LEMMA PlanWriteInv ==
    ASSUME IndInv, NEW w \in Writers, PlanWrite(w)
    PROVE  IndInv'
<1>1. ProcessOK /\ MediumOK
  BY DEF IndInv, TypeOK
<1>2. PICK t \in Txs, c \in Contents :
         req' = [req EXCEPT ![w] = [tx |-> t, base |-> current.seen, content |-> c]]
  BY DEF PlanWrite
<1>3. /\ pc[w] \in {"idle", "planned"} /\ pc' = [pc EXCEPT ![w] = "planned"]
      /\ UNCHANGED medium /\ UNCHANGED <<lock, acks, failures, outages>>
  BY DEF PlanWrite, bounds
<1>4. [tx |-> t, base |-> current.seen, content |-> c] \in Attempts
  BY <1>1 DEF MediumOK, CellOf, Attempts
<1>5. ProcessOK'
  <2>1. \A v \in Writers : pc'[v] # "idle" => req'[v] \in Attempts
    BY <1>1, <1>2, <1>3, <1>4 DEF ProcessOK
  <2>2. QED
    BY <1>1, <1>2, <1>3, <1>4, <2>1 DEF ProcessOK
<1>6. \A v \in Writers : pc'[v] \in Locked =>
        pc[v] \in Locked /\ pc'[v] = pc[v] /\ req'[v] = req[v]
  BY <1>1, <1>2, <1>3 DEF ProcessOK, Locked, Busy
<1>7. QED
  BY <1>3, <1>5, <1>6, OutsideStep

LEMMA SubmitInv ==
    ASSUME IndInv, NEW w \in Writers, Submit(w)
    PROVE  IndInv'
<1>1. /\ pc[w] = "planned" /\ pc' = [pc EXCEPT ![w] = "locking"]
      /\ UNCHANGED medium /\ UNCHANGED <<lock, acks, failures, outages>>
  BY DEF Submit, bounds
<1>2. ProcessOK /\ req[w] \in Attempts
  BY <1>1, InHand
<1>3. PICK t \in Txs : req' = [req EXCEPT ![w].tx = t]
  BY DEF Submit
<1>4. /\ req'[w] \in Attempts
      /\ \A v \in Writers : v # w => req'[v] = req[v]
      /\ req' \in [Writers -> Attempts \cup {NoPlan}]
  <2> DEFINE b == [req[w] EXCEPT !.tx = t]
  <2>1. b \in Attempts
    BY <1>2 DEF Attempts
  <2>2. req' = [req EXCEPT ![w] = b]
    BY <1>3
  <2> HIDE DEF b
  <2>3. QED
    BY <2>1, <2>2, <1>2 DEF ProcessOK
<1>5. ProcessOK'
  <2>1. \A v \in Writers : pc'[v] # "idle" => req'[v] \in Attempts
    BY <1>1, <1>2, <1>4 DEF ProcessOK
  <2>2. QED
    BY <1>1, <1>2, <1>4, <2>1 DEF ProcessOK, Busy
<1>6. \A v \in Writers : pc'[v] \in Locked =>
        pc[v] \in Locked /\ pc'[v] = pc[v] /\ req'[v] = req[v]
  BY <1>1, <1>2, <1>4 DEF ProcessOK, Locked, Busy
<1>7. QED
  BY <1>1, <1>5, <1>6, OutsideStep

LEMMA LockBusyInv ==
    ASSUME IndInv, NEW w \in Writers, LockBusy(w)
    PROVE  IndInv'
<1>1. /\ pc[w] = "locking" /\ pc' = [pc EXCEPT ![w] = "planned"]
      /\ UNCHANGED medium /\ UNCHANGED <<lock, req, acks, failures, outages>>
  BY DEF LockBusy, bounds
<1>2. ProcessOK /\ req[w] \in Attempts
  BY <1>1, InHand
<1>3. ProcessOK'
  <2>1. \A v \in Writers : pc'[v] # "idle" => req'[v] \in Attempts
    BY <1>1, <1>2 DEF ProcessOK
  <2>2. QED
    BY <1>1, <1>2, <2>1 DEF ProcessOK, Busy
<1>4. \A v \in Writers : pc'[v] \in Locked =>
        pc[v] \in Locked /\ pc'[v] = pc[v] /\ req'[v] = req[v]
  BY <1>1, <1>2 DEF ProcessOK, Locked, Busy
<1>5. QED
  BY <1>1, <1>3, <1>4, OutsideStep

\* A call that returns without having changed a file, with the lock free or
\* its own.
LEMMA AnswerInv ==
    ASSUME IndInv, NEW w \in Writers, pc[w] \in Busy, lock = NoWriter \/ pc[w] \in Locked,
           NEW answer, answer.durable \in BOOLEAN, Finish(w, answer),
           UNCHANGED medium, UNCHANGED bounds
    PROVE  IndInv'
<1>1. ProcessOK /\ LockHeld /\ req[w] \in Attempts
  BY InHand DEF IndInv, TypeOK, Busy
<1>2. failures' \in Nat /\ outages' \in Nat
  BY <1>1 DEF bounds, ProcessOK
<1>3. ProcessOK' /\ Returned(w)
  BY <1>1, <1>2, FinishControl
<1>4. \A v \in Writers : v # w => pc[v] \notin Locked
  BY <1>1, TransactionsAssumption DEF LockHeld
<1>5. \A v \in Writers : pc'[v] \notin Locked
  BY <1>1, <1>3, <1>4 DEF Returned, ProcessOK, Locked, Busy
<1>6. QED
  BY <1>3, <1>5, OutsideStep

LEMMA RefuseInv ==
    ASSUME IndInv, NEW w \in Writers, Refuse(w)
    PROVE  IndInv'
<1>1. /\ pc[w] \in Busy /\ lock = NoWriter /\ Finish(w, Refused(Objection(req[w])))
      /\ UNCHANGED medium /\ UNCHANGED bounds
  BY DEF Refuse, Busy
<1>2. Refused(Objection(req[w])).durable \in BOOLEAN
  BY DEF Refused
<1>3. QED
  BY <1>1, <1>2, AnswerInv

LEMMA ReplayInv ==
    ASSUME IndInv, NEW w \in Writers, Replay(w)
    PROVE  IndInv'
<1>1. /\ pc[w] \in Busy /\ lock = NoWriter /\ Finish(w, inspect_transaction(req[w].tx))
      /\ UNCHANGED medium /\ UNCHANGED bounds
  BY DEF Replay, Busy
<1>2. QED
  BY <1>1, InspectDurable, AnswerInv

LEMMA RepairAnswerInv ==
    ASSUME IndInv, NEW w \in Writers, RepairAnswer(w)
    PROVE  IndInv'
<1>1. /\ pc[w] \in Busy /\ pc[w] \in Locked /\ Finish(w, inspect_transaction(req[w].tx))
      /\ UNCHANGED medium /\ UNCHANGED bounds
  BY DEF RepairAnswer, Busy, Locked
<1>2. QED
  BY <1>1, InspectDurable, AnswerInv

\* The lock is taken and nothing else happens: whoever enters is alone.
LEMMA EnterInv ==
    ASSUME IndInv, NEW w \in Writers, lock = NoWriter, lock' = w, UNCHANGED medium,
           ProcessOK', NEW next \in Locked, pc' = [pc EXCEPT ![w] = next],
           next \notin AfterPrepare,
           next = "prepare" /\ Bound(req'[w].tx)
             => journal[req'[w].tx].seen.attempt = req'[w]
    PROVE  IndInv'
<1>1. /\ ProcessOK /\ MediumOK /\ LockHeld /\ JournalsAgree /\ CandidatesBound
      /\ WritersBound /\ DiskSound /\ SafeOnHistory /\ HistoryDurable
  BY DEF IndInv, TypeOK
<1>2. UNCHANGED <<disk, current, journal, watermark>>
  BY DEF medium
<1>3. MediumOK' /\ JournalsAgree' /\ DiskSound' /\ SafeOnHistory' /\ HistoryDurable'
  BY <1>1, <1>2 DEF MediumOK, JournalsAgree, DiskSound, SafeOnHistory, HistoryDurable
<1>4. CandidatesBound'
  BY <1>1, <1>2 DEF CandidatesBound, Candidates
<1>5. \A v \in Writers : pc'[v] \in Locked => v = w /\ pc'[v] = next
  BY <1>1, TransactionsAssumption DEF LockHeld, ProcessOK
<1>6. LockHeld'
  BY <1>5 DEF LockHeld
<1>7. WritersBound'
  <2>1. \A v \in Writers : pc'[v] \in {"prepare"} \cup AfterPrepare => pc'[v] \in Locked
    BY DEF AfterPrepare, Locked, Busy
  <2>2. ReceiptSteps \subseteq AfterPrepare
    BY DEF ReceiptSteps, AfterPrepare
  <2>3. QED
    BY <1>2, <1>5, <2>1, <2>2 DEF WritersBound, Bound, ReceiptSteps
<1>8. QED
  BY <1>3, <1>4, <1>6, <1>7 DEF IndInv, TypeOK

\* commit_locked's binding check: a journal that exists is this attempt's.
LEMMA NoObjection ==
    ASSUME NEW a, Objection(a) = "none", Bound(a.tx)
    PROVE  journal[a.tx].seen.attempt = a
  BY DEF Objection

LEMMA BeginInv ==
    ASSUME IndInv, NEW w \in Writers, Begin(w)
    PROVE  IndInv'
<1>1. /\ pc[w] = "locking" /\ lock = NoWriter /\ Objection(req[w]) = "none"
      /\ lock' = w /\ pc' = [pc EXCEPT ![w] = "prepare"] /\ UNCHANGED medium
      /\ UNCHANGED <<req, acks, failures, outages>>
  BY DEF Begin, bounds
<1>2. ProcessOK /\ req[w] \in Attempts
  BY <1>1, InHand
<1>3. ProcessOK'
  <2>1. \A v \in Writers : pc'[v] # "idle" => req'[v] \in Attempts
    BY <1>1, <1>2 DEF ProcessOK
  <2>2. QED
    BY <1>1, <1>2, <2>1 DEF ProcessOK, Busy
<1>4. "prepare" \in Locked /\ "prepare" \notin AfterPrepare
  BY DEF Locked, Busy, AfterPrepare
<1>5. Bound(req'[w].tx) => journal[req'[w].tx].seen.attempt = req'[w]
  BY <1>1, NoObjection
<1>6. QED
  BY <1>1, <1>3, <1>4, <1>5, EnterInv

LEMMA RepairBeginInv ==
    ASSUME IndInv, NEW w \in Writers, RepairBegin(w)
    PROVE  IndInv'
<1>1. /\ lock = NoWriter /\ lock' = w /\ pc' = [pc EXCEPT ![w] = "repair_sync"]
      /\ UNCHANGED medium /\ UNCHANGED <<acks, failures, outages>>
  BY DEF RepairBegin, bounds
<1>2. ProcessOK /\ disk \in DiskOf(Objects)
  BY DEF IndInv, TypeOK, MediumOK
<1>3. PICK t \in Txs : \E a \in Candidates(t) : req' = [req EXCEPT ![w] = a]
  BY DEF RepairBegin
<1>4. PICK a \in Candidates(t) : req' = [req EXCEPT ![w] = a]
  BY <1>3
<1>5. a \in Attempts
  <2>1. Candidates(t) = {b \in Attempts : b.tx = t /\ <<"revisions", b>> \in disk.intact}
    BY <1>2, CandidateSet DEF Candidates
  <2>2. QED
    BY <2>1
<1>6. ProcessOK'
  <2>1. \A v \in Writers : pc'[v] # "idle" => req'[v] \in Attempts
    BY <1>1, <1>2, <1>4, <1>5 DEF ProcessOK
  <2>2. QED
    BY <1>1, <1>2, <1>4, <1>5, <2>1 DEF ProcessOK, Busy
<1>7. "repair_sync" \in Locked /\ "repair_sync" \notin AfterPrepare
  BY DEF Locked, Busy, AfterPrepare
<1>8. QED
  BY <1>1, <1>6, <1>7, EnterInv

-----------------------------------------------------------------------------
(* The steps that write an immutable object.                               *)

LEMMA WriteObjectInv ==
    ASSUME IndInv, NEW w \in Writers, NEW at \in AfterPrepare, NEW kind \in AttemptKinds,
           NEW next \in AfterPrepare, next \in ReceiptSteps => at \in ReceiptSteps,
           WriteObject(w, at, kind, next)
    PROVE  IndInv'
<1>1. pc[w] = at /\ UNCHANGED <<current, journal, watermark>>
  BY DEF WriteObject
<1>2. at \in Locked /\ next \in Locked /\ next \in Busy /\ next # "prepare" /\ at # "idle"
  BY DEF AfterPrepare, Locked, Busy
<1>3. req[w] \in Attempts /\ ProcessOK
  BY <1>1, <1>2, InHand
<1>4. PICK r \in WriteImmutable(disk, <<kind, req[w]>>) :
         disk' = r.disk /\ EndStep(w, at, r.end, next, current.seen)
  BY DEF WriteObject
<1>5. ProcessOK' /\ (Moved(w, next) \/ Returned(w))
  BY <1>2, <1>3, <1>4, EndStepControl
<1>6. <<kind, req[w]>> \in Objects
  BY <1>3 DEF Objects
<1>7. QED
  BY <1>1, <1>2, <1>4, <1>5, <1>6, ObjectStep

LEMMA WriteSegmentInv ==
    ASSUME IndInv, NEW w \in Writers, WriteSegment(w)
    PROVE  IndInv'
<1>1. pc[w] = "segment" /\ UNCHANGED <<current, journal, watermark>>
  BY DEF WriteSegment
<1>2. /\ "segment" \in Locked /\ "manifest" \in Locked /\ "manifest" \in Busy
      /\ "segment" \in AfterPrepare /\ "manifest" \notin ReceiptSteps
  BY DEF AfterPrepare, Locked, Busy, ReceiptSteps
<1>3. req[w] \in Attempts /\ req[w].content \in Contents /\ ProcessOK
  BY <1>1, InHand
<1>4. PICK r \in WriteImmutable(disk, <<"segments", req[w].content>>) :
         disk' = r.disk /\ EndStep(w, "segment", r.end, "manifest", current.seen)
  BY DEF WriteSegment
<1>5. ProcessOK' /\ (Moved(w, "manifest") \/ Returned(w))
  BY <1>2, <1>3, <1>4, EndStepControl
<1>6. <<"segments", req[w].content>> \in Objects
  BY <1>3 DEF Objects
<1>7. QED
  BY <1>1, <1>2, <1>4, <1>5, <1>6, ObjectStep

\* The ends of the steps after the commit, and of the repair steps.
LEMMA CommittedDurable ==
    ASSUME NEW w, NEW audited
    PROVE  CommittedOutcome(w, audited).durable \in BOOLEAN
  BY OutcomeDurable DEF CommittedOutcome

LEMMA WriteObservedLogInv ==
    ASSUME IndInv, NEW w \in Writers, WriteObservedLog(w)
    PROVE  IndInv'
<1> DEFINE next == "journal_observed"
<1>1. pc[w] = "observed_log" /\ UNCHANGED <<current, journal, watermark>>
  BY DEF WriteObservedLog
<1>2. /\ "observed_log" \in Locked /\ next \in Locked /\ next \in Busy
      /\ "observed_log" \in AfterPrepare /\ next \notin ReceiptSteps
  BY DEF AfterPrepare, Locked, Busy, ReceiptSteps
<1>3. req[w] \in Attempts /\ ProcessOK
  BY <1>1, InHand
<1>4. PICK r \in WriteImmutable(disk, <<"observed_commit", req[w]>>) :
         /\ disk' = r.disk
         /\ \/ r.end = "ok" /\ Goto(w, next) /\ UNCHANGED bounds
            \/ r.end = "oserror" /\ Fault /\ Finish(w, CommittedOutcome(w, FALSE))
            \/ /\ r.end = "quarantine_quota_exceeded"
               /\ Finish(w, Refused(r.end)) /\ UNCHANGED bounds
            \/ Die(w)
  BY DEF WriteObservedLog
<1>5. ProcessOK' /\ (Moved(w, next) \/ Returned(w))
  <2>1. CASE Goto(w, next) /\ UNCHANGED bounds
    BY <2>1, <1>2, <1>3, GotoControl
  <2>2. CASE Fault /\ Finish(w, CommittedOutcome(w, FALSE))
    <3>1. \E answer : Finish(w, answer) /\ answer.durable \in BOOLEAN
      BY <2>2, CommittedDurable, Zenon
    <3>2. QED
      BY <2>2, <3>1, <1>3, FinishControl, FaultBounds
  <2>3. CASE Finish(w, Refused(r.end)) /\ UNCHANGED bounds
    <3>1. Refused(r.end).durable \in BOOLEAN
      BY DEF Refused
    <3>2. failures' \in Nat /\ outages' \in Nat
      BY <2>3, <1>3 DEF bounds, ProcessOK
    <3>3. QED
      BY <2>3, <3>1, <3>2, <1>3, FinishControl
  <2>4. CASE Die(w)
    BY <2>4, <1>3, DieControl
  <2>5. QED
    BY <1>4, <2>1, <2>2, <2>3, <2>4
<1>6. <<"observed_commit", req[w]>> \in Objects
  BY <1>3 DEF Objects, AttemptKinds
<1>7. QED
  BY <1>1, <1>2, <1>4, <1>5, <1>6, ObjectStep

LEMMA RepairEndControl ==
    ASSUME ProcessOK, NEW w \in Writers, req[w] \in Attempts, NEW next \in Busy,
           NEW end, RepairEnd(w, end, next)
    PROVE  ProcessOK' /\ (Moved(w, next) \/ Returned(w))
<1>0. \A c : Refused(c).durable \in BOOLEAN
  BY DEF Refused
<1>1. CASE Goto(w, next) /\ UNCHANGED bounds
  BY <1>1, GotoControl
<1>2. CASE Fault /\ Finish(w, Refused("storage_io_failed"))
  BY <1>0, <1>2, FinishControl, FaultBounds
<1>3. CASE Finish(w, Refused(end)) /\ UNCHANGED bounds
  <2>1. failures' \in Nat /\ outages' \in Nat
    BY <1>3 DEF bounds, ProcessOK
  <2>2. QED
    BY <1>0, <1>3, <2>1, FinishControl
<1>4. CASE Die(w)
  BY <1>4, DieControl
<1>5. QED
  BY <1>1, <1>2, <1>3, <1>4 DEF RepairEnd

LEMMA RepairReceiptInv ==
    ASSUME IndInv, NEW w \in Writers, RepairReceipt(w)
    PROVE  IndInv'
<1> DEFINE o == IF Relation(req[w], current.seen) \in Authoritative
                THEN <<"repair_current", req[w]>> ELSE <<"repair_candidate", req[w]>>
<1>1. pc[w] = "repair_receipt" /\ UNCHANGED <<current, journal, watermark>>
  BY DEF RepairReceipt
<1>2. /\ "repair_receipt" \in Locked /\ "repair_answer" \in Locked /\ "repair_answer" \in Busy
      /\ "repair_answer" \notin AfterPrepare /\ "repair_answer" \notin ReceiptSteps
  BY DEF AfterPrepare, Locked, Busy, ReceiptSteps
<1>3. req[w] \in Attempts /\ ProcessOK
  BY <1>1, InHand
<1>4. PICK r \in WriteImmutable(disk, o) :
         disk' = r.disk /\ RepairEnd(w, r.end, "repair_answer")
  BY DEF RepairReceipt
<1>5. ProcessOK' /\ (Moved(w, "repair_answer") \/ Returned(w))
  BY <1>2, <1>3, <1>4, RepairEndControl
<1>6. o \in Objects /\ o[1] # "revisions"
  BY <1>3 DEF Objects, AttemptKinds
<1> HIDE DEF o
<1>7. QED
  BY <1>1, <1>2, <1>4, <1>5, <1>6, ObjectStep

-----------------------------------------------------------------------------
(* The steps that write the journal.                                       *)

LEMMA WriteJournalInv ==
    ASSUME IndInv, NEW w \in Writers, NEW at \in AfterPrepare \cup {"prepare"},
           NEW stage \in Stages, NEW next \in AfterPrepare,
           next \in ReceiptSteps => at \in ReceiptSteps,
           WriteJournal(w, at, stage, next)
    PROVE  IndInv'
<1>1. pc[w] = at /\ UNCHANGED <<disk, current, watermark>>
  BY DEF WriteJournal
<1>2. next \in Locked /\ next \in Busy /\ next # "prepare" /\ at # "idle"
  BY DEF AfterPrepare, Locked, Busy
<1>3. req[w] \in Attempts /\ ProcessOK
  BY <1>1, <1>2, InHand
<1>4. PICK r \in AtomicWrite(journal[req[w].tx], [stage |-> stage, attempt |-> req[w]]) :
         /\ journal' = [journal EXCEPT ![req[w].tx] = r.cell]
         /\ EndStep(w, at, r.end, next, current.seen)
  BY DEF WriteJournal
<1>5. ProcessOK' /\ ((r.end = "ok" /\ Moved(w, next)) \/ Returned(w))
  BY <1>2, <1>3, <1>4, EndStepControl
<1>6. QED
  BY <1>1, <1>2, <1>3, <1>4, <1>5, JournalStep

LEMMA WriteCommittedJournalInv ==
    ASSUME IndInv, NEW w \in Writers, WriteCommittedJournal(w)
    PROVE  IndInv'
<1>1. /\ "journal_committed" \in AfterPrepare /\ "observed_log" \in AfterPrepare
      /\ "observed_log" \notin ReceiptSteps /\ "committed" \in Stages
      /\ "journal_committed" \in Locked /\ "observed_log" \in Locked /\ "observed_log" \in Busy
  BY DEF AfterPrepare, ReceiptSteps, Stages, Locked, Busy
<1>2. CASE WriteJournal(w, "journal_committed", "committed", "observed_log")
  BY <1>1, <1>2, WriteJournalInv
<1>3. CASE /\ pc[w] = "journal_committed"
           /\ EndStep(w, "journal_committed", "oserror", "observed_log", current.seen)
           /\ UNCHANGED medium
  <2>1. req[w] \in Attempts /\ ProcessOK
    BY <1>3, InHand
  <2>2. ProcessOK' /\ Returned(w)
    BY <1>1, <1>3, <2>1, EndStepControl
  <2>3. LockHeld
    BY DEF IndInv
  <2>4. LockHeld' /\ \A v \in Writers : pc'[v] \in Locked => v = w
    BY <1>1, <1>3, <2>1, <2>2, <2>3, ControlStep
  <2>5. pc'[w] \notin Locked
    BY <2>1, <2>2 DEF Returned, ProcessOK, Locked, Busy
  <2>6. QED
    BY <1>3, <2>2, <2>4, <2>5, OutsideStep
<1>4. QED
  BY <1>2, <1>3 DEF WriteCommittedJournal

LEMMA WriteObservedJournalInv ==
    ASSUME IndInv, NEW w \in Writers, WriteObservedJournal(w)
    PROVE  IndInv'
<1>1. pc[w] = "journal_observed" /\ UNCHANGED <<disk, current, watermark>>
  BY DEF WriteObservedJournal
<1>2. /\ "journal_observed" \in AfterPrepare /\ "observed" \in Stages
      /\ "journal_observed" \in Locked /\ "journal_observed" \notin ReceiptSteps
  BY DEF AfterPrepare, Stages, Locked, Busy, ReceiptSteps
<1>3. req[w] \in Attempts /\ ProcessOK
  BY <1>1, InHand
<1>4. PICK r \in AtomicWrite(journal[req[w].tx], [stage |-> "observed", attempt |-> req[w]]) :
         /\ journal' = [journal EXCEPT ![req[w].tx] = r.cell]
         /\ \/ r.end = "ok" /\ Finish(w, CommittedOutcome(w, TRUE)) /\ UNCHANGED bounds
            \/ r.end = "oserror" /\ Fault /\ Finish(w, CommittedOutcome(w, FALSE))
            \/ Die(w)
  BY DEF WriteObservedJournal
<1>5. ProcessOK' /\ Returned(w)
  <2>1. CASE Finish(w, CommittedOutcome(w, TRUE)) /\ UNCHANGED bounds
    <3>1. \E answer : Finish(w, answer) /\ answer.durable \in BOOLEAN
      BY <2>1, CommittedDurable, Zenon
    <3>2. failures' \in Nat /\ outages' \in Nat
      BY <2>1, <1>3 DEF bounds, ProcessOK
    <3>3. QED
      BY <3>1, <3>2, <1>3, FinishControl
  <2>2. CASE Fault /\ Finish(w, CommittedOutcome(w, FALSE))
    <3>1. \E answer : Finish(w, answer) /\ answer.durable \in BOOLEAN
      BY <2>2, CommittedDurable, Zenon
    <3>2. QED
      BY <2>2, <3>1, <1>3, FinishControl, FaultBounds
  <2>3. CASE Die(w)
    BY <2>3, <1>3, DieControl
  <2>4. QED
    BY <1>4, <2>1, <2>2, <2>3
<1>6. QED
  BY <1>1, <1>2, <1>3, <1>4, <1>5, JournalStep

-----------------------------------------------------------------------------
(* The steps that sync, and the ones that replace CURRENT or the           *)
(* watermark.                                                              *)

\* sync_protected adds durable objects and changes nothing a reader sees.
LEMMA SyncEffect ==
    ASSUME NEW O, NEW d \in DiskOf(O), NEW files, CanSync(d, files), d.durable \subseteq d.intact
    PROVE  LET e == SyncProtected(d, files)
           IN  /\ e \in DiskOf(O) /\ e.intact = d.intact /\ d.durable \subseteq e.durable
               /\ e.durable \subseteq e.intact /\ files \subseteq e.durable
  BY DEF DiskOf, CanSync, SyncProtected

LEMMA MediumTypes ==
    ASSUME IndInv
    PROVE  /\ disk \in DiskOf(Objects) /\ disk.durable \subseteq disk.intact
           /\ current \in CellOf(Revs) /\ current.seen \in Revs /\ current.safe \in Revs
           /\ watermark \in CellOf(Revs)
  BY DEF IndInv, TypeOK, MediumOK, DiskSound, CellOf

LEMMA CellType ==
    ASSUME NEW V, NEW v \in V
    PROVE  Cell(v) \in CellOf(V) /\ Cell(v).seen = v /\ Cell(v).safe = v
  BY DEF Cell, CellOf

LEMMA SyncCandidateInv ==
    ASSUME IndInv, NEW w \in Writers, SyncCandidate(w)
    PROVE  IndInv'
<1> DEFINE files == Protected(req[w])
<1>1. pc[w] = "sync_candidate" /\ UNCHANGED <<current, journal, watermark>>
  BY DEF SyncCandidate
<1>2. /\ "sync_candidate" \in AfterPrepare /\ "receipt_candidate" \in Busy
      /\ "sync_candidate" \in Locked /\ "receipt_candidate" \in Locked
  BY DEF AfterPrepare, Locked, Busy
<1>3. req[w] \in Attempts /\ ProcessOK
  BY <1>1, InHand
<1>4. PICK end : /\ EndStep(w, "sync_candidate", end, "receipt_candidate", current.seen)
                 /\ \/ CanSync(disk, files) /\ disk' = SyncProtected(disk, files)
                    \/ end = "oserror" /\ disk' = disk
  BY DEF SyncCandidate
<1>5. ProcessOK' /\ ((end = "ok" /\ Moved(w, "receipt_candidate")) \/ Returned(w))
  BY <1>2, <1>3, <1>4, EndStepControl
<1>6. /\ disk' \in DiskOf(Objects) /\ disk'.intact = disk.intact
      /\ disk.durable \subseteq disk'.durable /\ disk'.durable \subseteq disk'.intact
      /\ end = "ok" => files \subseteq disk'.durable
  BY <1>4, SyncEffect, MediumTypes
<1>7. ~(Moved(w, "receipt_candidate") /\ Returned(w))
  BY <1>3 DEF Moved, Returned, ProcessOK
<1>8. Moved(w, "receipt_candidate") => Protected(req[w]) \subseteq disk'.durable
  BY <1>5, <1>6, <1>7
<1>9. current' = current /\ watermark' \in CellOf(Revs) /\ current' \in CellOf(Revs)
  BY <1>1, MediumTypes
<1>10. QED
  BY <1>1, <1>2, <1>3, <1>5, <1>6, <1>8, <1>9, CurrentStep

LEMMA ReplaceEffect ==
    ASSUME IndInv, NEW w \in Writers, req[w] \in Attempts,
           NEW r \in IF current.seen = req[w].base THEN AtomicWrite(current, Child(req[w]))
                     ELSE {[cell |-> current, end |-> "oserror"]}
    PROVE  /\ r.cell \in CellOf(Revs) /\ r.cell.safe \in {current.safe, r.cell.seen}
           /\ \/ r.cell.seen = current.seen /\ r.cell.safe = current.safe
              \/ current.seen = req[w].base /\ r.cell.seen = Child(req[w])
<1>1. CASE current.seen = req[w].base
  <2>1. r \in AtomicWrite(current, Child(req[w])) /\ Child(req[w]) \in Revs
    BY <1>1, ChildType
  <2>2. /\ r.cell \in CellOf(Revs)
        /\ r.cell.seen \in {current.seen, Child(req[w])}
        /\ r.cell.seen = current.seen => r.cell.safe = current.safe \/ Child(req[w]) = current.seen
        /\ r.cell.safe # current.safe => r.cell.seen = Child(req[w]) /\ r.cell.safe = Child(req[w])
    BY <2>1, MediumTypes, AtomicWriteEffect
  <2>3. QED
    BY <1>1, <2>2
<1>2. CASE current.seen # req[w].base
  BY <1>2, MediumTypes
<1>3. QED
  BY <1>1, <1>2

LEMMA ReplaceCurrentInv ==
    ASSUME IndInv, NEW w \in Writers, ReplaceCurrent(w)
    PROVE  IndInv'
<1>1. pc[w] = "replace" /\ UNCHANGED <<disk, journal, watermark>>
  BY DEF ReplaceCurrent
<1>2. /\ "replace" \in AfterPrepare /\ "watermark" \in Busy /\ "watermark" \notin ReceiptSteps
      /\ "replace" \in Locked /\ "watermark" \in Locked
  BY DEF AfterPrepare, Locked, Busy, ReceiptSteps
<1>3. req[w] \in Attempts /\ ProcessOK
  BY <1>1, InHand
<1>4. PICK r \in IF current.seen = req[w].base THEN AtomicWrite(current, Child(req[w]))
                 ELSE {[cell |-> current, end |-> "oserror"]} :
         /\ current' = r.cell
         /\ EndStep(w, "replace", r.end, "watermark", r.cell.seen)
  BY DEF ReplaceCurrent
<1>5. ProcessOK' /\ (Moved(w, "watermark") \/ Returned(w))
  BY <1>2, <1>3, <1>4, EndStepControl
<1>6. /\ current' \in CellOf(Revs) /\ current'.safe \in {current.safe, current'.seen}
      /\ \/ current'.seen = current.seen
         \/ current.seen = req[w].base /\ current'.seen = Child(req[w])
  BY <1>3, <1>4, ReplaceEffect
<1>7. /\ disk' \in DiskOf(Objects) /\ disk'.intact = disk.intact
      /\ disk.durable \subseteq disk'.durable /\ disk'.durable \subseteq disk'.intact
      /\ watermark' \in CellOf(Revs)
  BY <1>1, MediumTypes
<1>8. QED
  BY <1>1, <1>2, <1>3, <1>5, <1>6, <1>7, CurrentStep

LEMMA WriteWatermarkInv ==
    ASSUME IndInv, NEW w \in Writers, WriteWatermark(w)
    PROVE  IndInv'
<1>1. pc[w] = "watermark" /\ UNCHANGED <<disk, current, journal>>
  BY DEF WriteWatermark
<1>2. /\ "watermark" \in AfterPrepare /\ "sync_current" \in Busy /\ "sync_current" \notin ReceiptSteps
      /\ "watermark" \in Locked /\ "sync_current" \in Locked
  BY DEF AfterPrepare, Locked, Busy, ReceiptSteps
<1>3. req[w] \in Attempts /\ ProcessOK
  BY <1>1, InHand
<1>4. PICK r \in AtomicWrite(watermark, Child(req[w])) :
         /\ watermark' = r.cell
         /\ EndStep(w, "watermark", r.end, "sync_current", current.seen)
  BY DEF WriteWatermark
<1>5. ProcessOK' /\ (Moved(w, "sync_current") \/ Returned(w))
  BY <1>2, <1>3, <1>4, EndStepControl
<1>6. watermark' \in CellOf(Revs)
  BY <1>3, <1>4, ChildType, MediumTypes, AtomicWriteEffect
<1>7. /\ disk' \in DiskOf(Objects) /\ disk'.intact = disk.intact
      /\ disk.durable \subseteq disk'.durable /\ disk'.durable \subseteq disk'.intact
      /\ current' \in CellOf(Revs) /\ current' = current
  BY <1>1, MediumTypes
<1>8. QED
  BY <1>1, <1>2, <1>3, <1>5, <1>6, <1>7, CurrentStep

LEMMA SyncCurrentInv ==
    ASSUME IndInv, NEW w \in Writers, SyncCurrent(w)
    PROVE  IndInv'
<1>1. pc[w] = "sync_current" /\ UNCHANGED <<disk, journal, watermark>>
  BY DEF SyncCurrent
<1>2. /\ "sync_current" \in AfterPrepare /\ "receipt_current" \in Busy
      /\ "receipt_current" \notin ReceiptSteps
      /\ "sync_current" \in Locked /\ "receipt_current" \in Locked
  BY DEF AfterPrepare, Locked, Busy, ReceiptSteps
<1>3. req[w] \in Attempts /\ ProcessOK
  BY <1>1, InHand
<1>4. PICK end : /\ EndStep(w, "sync_current", end, "receipt_current", current.seen)
                 /\ current' \in {current, Cell(current.seen)}
  BY DEF SyncCurrent
<1>5. ProcessOK' /\ (Moved(w, "receipt_current") \/ Returned(w))
  BY <1>2, <1>3, <1>4, EndStepControl
<1>6. /\ current' \in CellOf(Revs) /\ current'.seen = current.seen
      /\ current'.safe \in {current.safe, current'.seen}
  BY <1>4, CellType, MediumTypes
<1>7. /\ disk' \in DiskOf(Objects) /\ disk'.intact = disk.intact
      /\ disk.durable \subseteq disk'.durable /\ disk'.durable \subseteq disk'.intact
      /\ watermark' \in CellOf(Revs)
  BY <1>1, MediumTypes
<1>8. QED
  BY <1>1, <1>2, <1>3, <1>5, <1>6, <1>7, CurrentStep

LEMMA RepairSyncInv ==
    ASSUME IndInv, NEW w \in Writers, RepairSync(w)
    PROVE  IndInv'
<1> DEFINE files == Protected(req[w])
<1>1. pc[w] = "repair_sync" /\ UNCHANGED <<journal, watermark>>
  BY DEF RepairSync
<1>2. /\ "repair_receipt" \in Busy /\ "repair_receipt" \notin ReceiptSteps
      /\ "repair_receipt" \notin AfterPrepare
      /\ "repair_sync" \in Locked /\ "repair_receipt" \in Locked
  BY DEF AfterPrepare, Locked, Busy, ReceiptSteps
<1>3. req[w] \in Attempts /\ ProcessOK
  BY <1>1, InHand
<1>4. PICK end : /\ RepairEnd(w, end, "repair_receipt")
                 /\ current' \in {current, Cell(current.seen)}
                 /\ \/ CanSync(disk, files) /\ disk' = SyncProtected(disk, files)
                    \/ disk' = disk
  BY DEF RepairSync
<1>5. ProcessOK' /\ (Moved(w, "repair_receipt") \/ Returned(w))
  BY <1>2, <1>3, <1>4, RepairEndControl
<1>6. /\ current' \in CellOf(Revs) /\ current'.seen = current.seen
      /\ current'.safe \in {current.safe, current'.seen}
  BY <1>4, CellType, MediumTypes
<1>7. /\ disk' \in DiskOf(Objects) /\ disk'.intact = disk.intact
      /\ disk.durable \subseteq disk'.durable /\ disk'.durable \subseteq disk'.intact
  BY <1>4, SyncEffect, MediumTypes
<1>8. watermark' \in CellOf(Revs)
  BY <1>1, MediumTypes
<1>9. QED
  BY <1>1, <1>2, <1>3, <1>5, <1>6, <1>7, <1>8, CurrentStep

-----------------------------------------------------------------------------
(* The machine.                                                            *)

LEMMA WritebackInv ==
    ASSUME IndInv, Writeback
    PROVE  IndInv'
<1>1. /\ ProcessOK /\ MediumOK /\ LockHeld /\ JournalsAgree /\ CandidatesBound
      /\ WritersBound /\ DiskSound /\ SafeOnHistory /\ HistoryDurable
  BY DEF IndInv, TypeOK
<1>2. UNCHANGED <<watermark, lock, pc, req, acks, failures, outages>>
  BY DEF Writeback, process, bounds
<1>3. ProcessOK' /\ LockHeld'
  BY <1>1, <1>2 DEF ProcessOK, LockHeld
<1>4. CASE /\ \E o \in disk.intact \ disk.durable :
                disk' = [disk EXCEPT !.durable = @ \cup {o}]
           /\ UNCHANGED <<current, journal>>
  <2>1. /\ disk' \in DiskOf(Objects) /\ disk'.intact = disk.intact
        /\ disk.durable \subseteq disk'.durable /\ disk'.durable \subseteq disk'.intact
    BY <1>1, <1>4 DEF MediumOK, DiskOf, DiskSound
  <2>2. MediumOK' /\ JournalsAgree' /\ DiskSound' /\ SafeOnHistory' /\ HistoryDurable'
    BY <1>1, <1>2, <1>4, <2>1 DEF MediumOK, JournalsAgree, DiskSound, SafeOnHistory, HistoryDurable
  <2>3. CandidatesBound'
    BY <1>1, <1>4, <2>1 DEF CandidatesBound, Candidates
  <2>4. WritersBound'
    BY <1>1, <1>2, <1>4, <2>1 DEF WritersBound, Bound
  <2>5. QED
    BY <1>3, <2>2, <2>3, <2>4 DEF IndInv, TypeOK
<1>5. CASE current' = Cell(current.seen) /\ UNCHANGED <<disk, journal>>
  <2>1. /\ current' \in CellOf(Revs) /\ current'.seen = current.seen
        /\ current'.safe = current.seen /\ current.seen \in Revs
    BY <1>5, CellType, MediumTypes
  <2>2. MediumOK' /\ JournalsAgree' /\ DiskSound'
    BY <1>1, <1>2, <1>5, <2>1 DEF MediumOK, JournalsAgree, DiskSound
  <2>3. SafeOnHistory'
    BY <2>1, PrefixReflexive DEF SafeOnHistory
  <2>4. HistoryDurable'
    BY <1>1, <1>5, <2>1 DEF HistoryDurable, ChainManifests, ChainSegments, AttemptAt
  <2>5. CandidatesBound' /\ WritersBound'
    BY <1>1, <1>2, <1>5 DEF CandidatesBound, Candidates, WritersBound, Bound
  <2>6. QED
    BY <1>3, <2>2, <2>3, <2>4, <2>5 DEF IndInv, TypeOK
<1>6. CASE /\ \E t \in Txs : journal' = [journal EXCEPT ![t] = Cell(journal[t].seen)]
           /\ UNCHANGED <<disk, current>>
  <2>1. PICK t \in Txs : journal' = [journal EXCEPT ![t] = Cell(journal[t].seen)]
    BY <1>6
  <2>2. journal \in [Txs -> CellOf(Journals)] /\ journal[t] \in CellOf(Journals)
    BY <1>1 DEF MediumOK
  <2>3. /\ journal' \in [Txs -> CellOf(Journals)]
        /\ journal'[t].seen = journal[t].seen /\ journal'[t].safe = journal[t].seen
        /\ \A u \in Txs : u # t => journal'[u] = journal[u]
    BY <2>1, <2>2 DEF CellOf, Cell
  <2>4. /\ \A u \in Txs : journal'[u].seen = journal[u].seen
        /\ \A u \in Txs : journal[u].safe # NoJournal =>
             journal'[u].safe # NoJournal /\ journal'[u].safe.attempt = journal[u].safe.attempt
    BY <1>1, <2>3 DEF JournalsAgree
  <2>5. MediumOK' /\ DiskSound' /\ SafeOnHistory' /\ HistoryDurable'
    BY <1>1, <1>2, <1>6, <2>3 DEF MediumOK, DiskSound, SafeOnHistory, HistoryDurable
  <2>6. JournalsAgree'
    BY <1>1, <2>3 DEF JournalsAgree
  <2>7. CandidatesBound'
    BY <1>1, <1>6, <2>4 DEF CandidatesBound, Candidates
  <2>8. WritersBound'
    <3>1. \A v \in Writers : pc[v] \in {"prepare"} \cup AfterPrepare => req[v].tx \in Txs
      <4> SUFFICES ASSUME NEW v \in Writers, pc[v] \in {"prepare"} \cup AfterPrepare
                   PROVE  req[v].tx \in Txs
        OBVIOUS
      <4>1. pc[v] # "idle"
        BY DEF AfterPrepare
      <4>2. QED
        BY <4>1, InHand
    <3>2. QED
      BY <1>1, <1>2, <1>6, <2>4, <3>1 DEF WritersBound, Bound, AfterPrepare
  <2>9. QED
    BY <1>3, <2>5, <2>6, <2>7, <2>8 DEF IndInv, TypeOK
<1>7. QED
  BY <1>4, <1>5, <1>6 DEF Writeback

LEMMA PowerLossInv ==
    ASSUME IndInv, PowerLoss
    PROVE  IndInv'
<1>1. /\ ProcessOK /\ MediumOK /\ LockHeld /\ JournalsAgree /\ CandidatesBound
      /\ WritersBound /\ DiskSound /\ SafeOnHistory /\ HistoryDurable
  BY DEF IndInv, TypeOK
<1>2. /\ disk' \in DiskOf(Objects) /\ disk.durable \subseteq disk'.durable
      /\ disk'.durable = disk'.intact /\ disk'.intact \subseteq disk.intact
  BY MediumTypes, PowerLossEffect DEF PowerLoss
<1>3. /\ current' \in CellOf(Revs) /\ current'.seen = current'.safe
      /\ current'.seen \in {current.seen, current.safe}
  BY MediumTypes, CellType DEF PowerLoss, CellsAfterPowerLoss
<1>4. watermark' \in CellOf(Revs)
  BY MediumTypes DEF PowerLoss, CellsAfterPowerLoss, CellOf, Cell
<1>5. /\ journal' \in [Txs -> CellOf(Journals)]
      /\ \A t \in Txs : /\ journal'[t].seen = journal'[t].safe
                        /\ journal'[t].seen \in {journal[t].seen, journal[t].safe}
  <2>1. \A t \in Txs : journal'[t] \in {Cell(journal[t].seen), Cell(journal[t].safe)}
    BY DEF PowerLoss, CellsAfterPowerLoss
  <2>2. \A t \in Txs : journal[t] \in CellOf(Journals)
    BY <1>1 DEF MediumOK
  <2>3. \A t \in Txs : journal'[t] \in CellOf(Journals)
    BY <2>1, <2>2 DEF Cell, CellOf
  <2>4. \E S : journal' \in [Txs -> S]
    BY DEF PowerLoss
  <2>5. QED
    BY <2>1, <2>3, <2>4 DEF Cell
<1>6. \A v \in Writers : pc'[v] \in {"idle", "planned"}
  BY DEF PowerLoss
<1>7. ProcessOK'
  <2>1. /\ pc' = [w \in Writers |-> IF pc[w] = "idle" THEN "idle" ELSE "planned"]
        /\ lock' = NoWriter /\ acks' \subseteq acks /\ UNCHANGED <<req, failures>>
        /\ outages' = outages + 1
    BY DEF PowerLoss
  <2>2. QED
    BY <1>1, <2>1 DEF ProcessOK
<1>8. LockHeld' /\ WritersBound'
  BY <1>6 DEF LockHeld, WritersBound, Locked, Busy, AfterPrepare
<1>9. MediumOK' /\ DiskSound'
  BY <1>2, <1>3, <1>4, <1>5 DEF MediumOK, DiskSound
<1>10. JournalsAgree'
  BY <1>1, <1>5 DEF JournalsAgree
<1>11. CandidatesBound'
  <2>0. \A t : Candidates(t)' = {a \in Attempts : a.tx = t /\ <<"revisions", a>> \in disk'.intact}
    BY <1>2, CandidateSet DEF Candidates
  <2> SUFFICES ASSUME NEW t \in Txs, NEW a \in Attempts, a.tx = t,
                      <<"revisions", a>> \in disk'.intact
               PROVE  journal'[t].safe # NoJournal /\ journal'[t].safe.attempt = a
    BY <2>0 DEF CandidatesBound
  <2>1. Candidates(t) = {b \in Attempts : b.tx = t /\ <<"revisions", b>> \in disk.intact}
    BY MediumTypes, CandidateSet DEF Candidates
  <2>2. journal[t].safe # NoJournal /\ journal[t].safe.attempt = a
    BY <1>1, <1>2, <2>1 DEF CandidatesBound
  <2>3. QED
    BY <1>1, <1>5, <2>2 DEF JournalsAgree
<1>12. SafeOnHistory'
  <2>1. current'.seen \in Revs
    BY <1>3, MediumTypes
  <2>2. QED
    BY <1>3, <2>1, PrefixReflexive DEF SafeOnHistory
<1>13. HistoryDurable'
  <2>1. /\ ChainManifests(current.safe) \subseteq ChainManifests(current.seen)
        /\ ChainSegments(current.safe) \subseteq ChainSegments(current.seen)
    BY <1>1, MediumTypes, PrefixHistory DEF SafeOnHistory
  <2>2. ChainManifests(current.seen) \cup ChainSegments(current.seen) \subseteq disk'.durable
    BY <1>1, <1>2 DEF HistoryDurable
  <2>3. ChainManifests(current'.seen) \cup ChainSegments(current'.seen) \subseteq disk'.durable
    BY <1>3, <2>1, <2>2
  <2>4. QED
    BY <2>3 DEF HistoryDurable, ChainManifests, ChainSegments, AttemptAt
<1>14. QED
  BY <1>7, <1>8, <1>9, <1>10, <1>11, <1>12, <1>13 DEF IndInv, TypeOK

-----------------------------------------------------------------------------
(* Every step.                                                             *)

LEMMA StepInv ==
    ASSUME IndInv, NEW w \in Writers, Step(w)
    PROVE  IndInv'
<1>0. /\ {"prepare", "segment", "manifest", "intent", "stage", "journal_candidate",
          "sync_candidate", "receipt_candidate", "journal_receipt", "replace",
          "receipt_current", "journal_committed"} \subseteq AfterPrepare \cup {"prepare"}
      /\ {"segment", "manifest", "intent", "stage", "journal_candidate", "sync_candidate",
          "receipt_current", "journal_committed"} \cap ReceiptSteps = {}
      /\ {"receipt_candidate", "journal_receipt", "replace"} = ReceiptSteps
      /\ {"revisions", "intent", "stages", "candidate-data-durable", "current-durable"}
           \subseteq AttemptKinds
      /\ {"prepared", "candidate_prepared", "candidate_durable"} \subseteq Stages
  BY DEF AfterPrepare, ReceiptSteps, AttemptKinds, Stages
<1>1. CASE LockBusy(w)
  BY <1>1, LockBusyInv
<1>2. CASE Refuse(w)
  BY <1>2, RefuseInv
<1>3. CASE Replay(w)
  BY <1>3, ReplayInv
<1>4. CASE Begin(w)
  BY <1>4, BeginInv
<1>5. CASE WritePrepared(w)
  BY <1>0, <1>5, WriteJournalInv DEF WritePrepared
<1>6. CASE WriteSegment(w)
  BY <1>6, WriteSegmentInv
<1>7. CASE WriteManifest(w)
  BY <1>0, <1>7, WriteObjectInv DEF WriteManifest
<1>8. CASE WriteIntent(w)
  BY <1>0, <1>8, WriteObjectInv DEF WriteIntent
<1>9. CASE WriteStage(w)
  BY <1>0, <1>9, WriteObjectInv DEF WriteStage
<1>10. CASE WriteCandidateJournal(w)
  BY <1>0, <1>10, WriteJournalInv DEF WriteCandidateJournal
<1>11. CASE SyncCandidate(w)
  BY <1>11, SyncCandidateInv
<1>12. CASE WriteCandidateReceipt(w)
  BY <1>0, <1>12, WriteObjectInv DEF WriteCandidateReceipt
<1>13. CASE WriteReceiptJournal(w)
  BY <1>0, <1>13, WriteJournalInv DEF WriteReceiptJournal
<1>14. CASE ReplaceCurrent(w)
  BY <1>14, ReplaceCurrentInv
<1>15. CASE WriteWatermark(w)
  BY <1>15, WriteWatermarkInv
<1>16. CASE SyncCurrent(w)
  BY <1>16, SyncCurrentInv
<1>17. CASE WriteCurrentReceipt(w)
  BY <1>0, <1>17, WriteObjectInv DEF WriteCurrentReceipt
<1>18. CASE WriteCommittedJournal(w)
  BY <1>18, WriteCommittedJournalInv
<1>19. CASE WriteObservedLog(w)
  BY <1>19, WriteObservedLogInv
<1>20. CASE WriteObservedJournal(w)
  BY <1>20, WriteObservedJournalInv
<1>21. CASE RepairSync(w)
  BY <1>21, RepairSyncInv
<1>22. CASE RepairReceipt(w)
  BY <1>22, RepairReceiptInv
<1>23. CASE RepairAnswer(w)
  BY <1>23, RepairAnswerInv
<1>24. QED
  BY <1>1, <1>2, <1>3, <1>4, <1>5, <1>6, <1>7, <1>8, <1>9, <1>10, <1>11, <1>12,
     <1>13, <1>14, <1>15, <1>16, <1>17, <1>18, <1>19, <1>20, <1>21, <1>22, <1>23
     DEF Step

LEMMA StutterInv ==
    ASSUME IndInv, UNCHANGED vars
    PROVE  IndInv'
<1>1. UNCHANGED medium /\ UNCHANGED <<lock, pc, req, acks, failures, outages>>
  BY DEF vars, medium
<1>2. ProcessOK'
  BY <1>1 DEF IndInv, TypeOK, ProcessOK
<1>3. QED
  BY <1>1, <1>2, OutsideStep

LEMMA NextInv ==
    ASSUME IndInv, [Next]_vars
    PROVE  IndInv'
<1>1. CASE \E w \in Writers : PlanWrite(w) \/ Submit(w) \/ RepairBegin(w) \/ Step(w)
  BY <1>1, PlanWriteInv, SubmitInv, RepairBeginInv, StepInv
<1>2. CASE Writeback
  BY <1>2, WritebackInv
<1>3. CASE PowerLoss
  BY <1>3, PowerLossInv
<1>4. CASE UNCHANGED vars
  BY <1>4, StutterInv
<1>5. QED
  BY <1>1, <1>2, <1>3, <1>4 DEF Next

\* The inductive invariant holds in every reachable state, whatever the
\* interleaving of writers, I/O errors, deaths and power losses.
THEOREM Inductive == Spec => []IndInv
  BY InitInv, NextInv, PTL DEF Spec

\* Every variable keeps its type, and a writer past planning has an attempt.
THEOREM TypeCorrect == Spec => []TypeOK
<1>1. IndInv => TypeOK
  BY DEF IndInv
<1>2. QED
  BY <1>1, Inductive, PTL

\* commit_locked never lets CURRENT name a manifest or a segment that a power
\* loss could take away.
THEOREM HistoryIsDurable == Spec => []HistoryDurable
<1>1. IndInv => HistoryDurable
  BY DEF IndInv
<1>2. QED
  BY <1>1, Inductive, PTL

-----------------------------------------------------------------------------
(* What the invariant gives: one candidate, and one commit, for each       *)
(* transaction id.                                                         *)

\* Every revision in CURRENT's history was written by the attempt that the
\* durable journal of its transaction id holds.
LEMMA HistoryBound ==
    ASSUME IndInv, NEW i \in 1..Len(current.seen)
    PROVE  LET a == AttemptAt(current.seen, i)
           IN  /\ a \in Attempts /\ a.tx = current.seen[i].tx
               /\ Len(a.base) = i - 1
               /\ journal[a.tx].safe.attempt = a
<1> DEFINE a == AttemptAt(current.seen, i)
<1>1. a \in Attempts /\ a.tx = current.seen[i].tx /\ Len(a.base) = i - 1
  BY MediumTypes, AttemptAtType
<1>2. <<"revisions", a>> \in disk.intact
  BY MediumTypes DEF IndInv, HistoryDurable, ChainManifests
<1>3. a.tx \in Txs
  BY <1>1, AttemptFields
<1>4. Candidates(a.tx) = {b \in Attempts : b.tx = a.tx /\ <<"revisions", b>> \in disk.intact}
  BY MediumTypes, CandidateSet DEF Candidates
<1> HIDE DEF a
<1>5. journal[a.tx].safe.attempt = a
  BY <1>1, <1>2, <1>3, <1>4 DEF IndInv, CandidatesBound
<1>6. QED
  BY <1>1, <1>5 DEF a

\* A transaction id is in CURRENT's history at most once, however often and
\* by whomever it is retried.
THEOREM CommittedOnce == Spec => []ExactlyOnce
<1>1. IndInv => ExactlyOnce
  <2> SUFFICES ASSUME IndInv, NEW i \in 1..Len(current.seen), NEW j \in 1..Len(current.seen),
                      current.seen[i].tx = current.seen[j].tx
               PROVE  i = j
    BY DEF ExactlyOnce
  <2>1. AttemptAt(current.seen, i) = AttemptAt(current.seen, j)
    BY HistoryBound
  <2>2. i - 1 = j - 1 /\ i \in Int /\ j \in Int
    BY <2>1, HistoryBound
  <2>3. QED
    BY <2>2
<1>2. QED
  BY <1>1, Inductive, PTL

\* _manifest_candidates never finds two manifests of one transaction id.
THEOREM CandidateUnique == Spec => []OneCandidate
<1>1. IndInv => OneCandidate
  <2> SUFFICES ASSUME IndInv, NEW t \in Txs, NEW u \in Txs, NEW a \in Candidates(t),
                      NEW b \in Candidates(u), a.tx = b.tx
               PROVE  a = b
    BY DEF OneCandidate
  <2>1. a.tx = t /\ b.tx = u
    BY DEF Candidates
  <2>2. journal[t].safe.attempt = a /\ journal[u].safe.attempt = b
    BY DEF IndInv, CandidatesBound
  <2>3. QED
    BY <2>1, <2>2
<1>2. QED
  BY <1>1, Inductive, PTL

-----------------------------------------------------------------------------
(* The protocol implements the ledger.                                     *)

LedgerStep == [L!LedgerNext]_<<current.seen, current.safe>>

\* The transaction that is about to be committed is new to the history.
LEMMA ReplaceUnused ==
    ASSUME IndInv, NEW w \in Writers, pc[w] = "replace", req[w] \in Attempts,
           current.seen = req[w].base
    PROVE  req[w].tx \notin {current.seen[i].tx : i \in 1..Len(current.seen)}
<1> SUFFICES ASSUME NEW i \in 1..Len(current.seen), current.seen[i].tx = req[w].tx
             PROVE  FALSE
  OBVIOUS
<1>1. journal[req[w].tx].safe.attempt = req[w]
  BY DEF IndInv, WritersBound, AfterPrepare
<1>2. AttemptAt(current.seen, i) = req[w] /\ Len(AttemptAt(current.seen, i).base) = i - 1
  BY <1>1, HistoryBound
<1>3. Len(current.seen) = i - 1 /\ i \in Int /\ i <= Len(current.seen)
  BY <1>2, MediumTypes DEF Revs
<1>4. QED
  BY <1>3

LEMMA ReplaceLedger ==
    ASSUME IndInv, NEW w \in Writers, ReplaceCurrent(w)
    PROVE  LedgerStep
<1>1. pc[w] = "replace"
  BY DEF ReplaceCurrent
<1>2. req[w] \in Attempts
  BY <1>1, InHand
<1>3. PICK r \in IF current.seen = req[w].base THEN AtomicWrite(current, Child(req[w]))
                 ELSE {[cell |-> current, end |-> "oserror"]} : current' = r.cell
  BY DEF ReplaceCurrent
<1>4. /\ current'.safe \in {current.safe, current'.seen}
      /\ \/ current'.seen = current.seen /\ current'.safe = current.safe
         \/ current.seen = req[w].base /\ current'.seen = Child(req[w])
  BY <1>2, <1>3, ReplaceEffect
<1>5. CASE current'.seen = current.seen /\ current'.safe = current.safe
  BY <1>5 DEF LedgerStep
<1>6. CASE current.seen = req[w].base /\ current'.seen = Child(req[w])
  <2> DEFINE e == [tx |-> req[w].tx, content |-> req[w].content]
  <2>1. e \in L!Entry
    BY <1>2, AttemptFields DEF L!Entry
  <2>2. current'.seen = Append(current.seen, e)
    BY <1>6 DEF Child
  <2>3. DOMAIN current.seen = 1..Len(current.seen)
    BY MediumTypes DEF Revs
  <2>4. e.tx \notin L!Used(current.seen)
    BY <1>1, <1>2, <1>6, <2>3, ReplaceUnused DEF L!Used
  <2> HIDE DEF e
  <2>5. L!Commit
    BY <1>4, <2>1, <2>2, <2>4 DEF L!Commit
  <2>6. QED
    BY <2>5 DEF LedgerStep, L!LedgerNext
<1>7. QED
  BY <1>4, <1>5, <1>6

\* CURRENT is fsynced, written back, or comes back from a power loss.
LEMMA SyncLedger ==
    ASSUME IndInv, current' \in {current, Cell(current.seen), Cell(current.safe)}
    PROVE  LedgerStep
<1>1. CASE current' = current
  BY <1>1 DEF LedgerStep
<1>2. CASE current' = Cell(current.seen)
  BY <1>2 DEF LedgerStep, L!LedgerNext, L!Stabilise, Cell
<1>3. CASE current' = Cell(current.safe)
  BY <1>3 DEF LedgerStep, L!LedgerNext, L!Lose, Cell
<1>4. QED
  BY <1>1, <1>2, <1>3

LEMMA NextLedger ==
    ASSUME IndInv, [Next]_vars
    PROVE  LedgerStep
<1>1. ASSUME NEW w \in Writers, Step(w), ~ReplaceCurrent(w)
      PROVE  current' \in {current, Cell(current.seen)}
  <2>1. CASE LockBusy(w) \/ Refuse(w) \/ Replay(w) \/ Begin(w) \/ RepairAnswer(w)
    BY <2>1 DEF LockBusy, Refuse, Replay, Begin, RepairAnswer, medium
  <2>2. CASE WritePrepared(w) \/ WriteCandidateJournal(w) \/ WriteReceiptJournal(w)
    BY <2>2 DEF WritePrepared, WriteCandidateJournal, WriteReceiptJournal, WriteJournal
  <2>3. CASE \/ WriteManifest(w) \/ WriteIntent(w) \/ WriteStage(w)
             \/ WriteCandidateReceipt(w) \/ WriteCurrentReceipt(w)
    BY <2>3 DEF WriteManifest, WriteIntent, WriteStage, WriteCandidateReceipt,
                WriteCurrentReceipt, WriteObject
  <2>4. CASE \/ WriteSegment(w) \/ SyncCandidate(w) \/ WriteWatermark(w)
             \/ WriteObservedLog(w) \/ WriteObservedJournal(w) \/ RepairReceipt(w)
    BY <2>4 DEF WriteSegment, SyncCandidate, WriteWatermark, WriteObservedLog,
                WriteObservedJournal, RepairReceipt
  <2>5. CASE WriteCommittedJournal(w)
    BY <2>5 DEF WriteCommittedJournal, WriteJournal, medium
  <2>6. CASE SyncCurrent(w) \/ RepairSync(w)
    BY <2>6 DEF SyncCurrent, RepairSync
  <2>7. QED
    BY <1>1, <2>1, <2>2, <2>3, <2>4, <2>5, <2>6 DEF Step
<1>2. ASSUME NEW w \in Writers, PlanWrite(w) \/ Submit(w) \/ RepairBegin(w)
      PROVE  current' = current
  BY <1>2 DEF PlanWrite, Submit, RepairBegin, medium
<1>3. Writeback => current' \in {current, Cell(current.seen)}
  BY DEF Writeback
<1>4. PowerLoss => current' \in {Cell(current.seen), Cell(current.safe)}
  BY DEF PowerLoss, CellsAfterPowerLoss
<1>5. UNCHANGED vars => current' = current
  BY DEF vars
<1>6. QED
  BY <1>1, <1>2, <1>3, <1>4, <1>5, ReplaceLedger, SyncLedger DEF Next

\* The store is an append-only ledger: CURRENT moves to a child under an
\* unused transaction id, or back to its durable value after a power loss.
THEOREM Refinement == Spec => ImplementsLedger
<1>1. Init => L!LedgerInit
  BY DEF Init, L!LedgerInit, Cell
<1>2. LedgerStep = [L!LedgerNext]_(L!ledgerVars)
  BY DEF LedgerStep, L!ledgerVars
<1>3. IndInv /\ [Next]_vars => [L!LedgerNext]_(L!ledgerVars)
  BY <1>2, NextLedger
<1>4. QED
  BY <1>1, <1>3, Inductive, PTL DEF Spec, ImplementsLedger, L!LedgerSpec

-----------------------------------------------------------------------------
(* What receipts, journals, the watermark, inspection and the answers may  *)
(* be relied on for.                                                       *)

\* The steps of commit_locked behind a replaced CURRENT, and those of
\* repair_durability.
Published == {"watermark", "sync_current", "receipt_current", "journal_committed",
              "observed_log", "journal_observed"}
RepairSteps == {"repair_sync", "repair_receipt", "repair_answer"}
RepairSynced == {"repair_receipt", "repair_answer"}

\* What the process that holds the lock knows at a step with attempt a.
Knows(step, a) ==
  /\ step \in Published => current = Cell(Child(a))
  /\ step \in RepairSteps => <<"revisions", a>> \in disk.intact
  /\ step \in RepairSynced =>
       /\ Protected(a) \subseteq disk.durable
       /\ Prefix(Child(a), current.seen) => Prefix(Child(a), current.safe)

HoldersKnow == \A w \in Writers : Knows(pc[w], req[w])

\* The watermark is about the durable history, also the one a power loss brings
\* back.
MarksTrue == Prefix(watermark.seen, current.safe) /\ Prefix(watermark.safe, current.safe)

\* A journal that says committed is about a commit that stays.
Honest(j) ==
  j # NoJournal /\ j.stage \in {"committed", "observed"} => Prefix(Child(j.attempt), current.safe)

JournalsTrue == \A t \in Txs : Honest(journal[t].seen) /\ Honest(journal[t].safe)

\* A receipt was earned when what it certifies is on the medium.
Earned(o) ==
  /\ o[1] \in {"candidate-data-durable", "repair_candidate", "repair_current"} =>
       Protected(o[2]) \subseteq disk.durable
  /\ o[1] \in {"current-durable", "repair_current"} => Prefix(Child(o[2]), current.safe)

ReceiptsTrue == \A o \in disk.intact : Earned(o)

Evidence == HoldersKnow /\ MarksTrue /\ JournalsTrue /\ ReceiptsTrue /\ AckedWritesHold

-----------------------------------------------------------------------------
(* What inspection says of a candidate.                                    *)

LEMMA RelationPrefix ==
    ASSUME NEW a \in Attempts, NEW cur \in Revs, Relation(a, cur) \in Authoritative
    PROVE  Prefix(Child(a), cur)
<1>1. CASE Child(a) = cur
  BY <1>1, PrefixReflexive
<1>2. CASE Child(a) # cur
  BY <1>2 DEF Relation, Authoritative
<1>3. QED
  BY <1>1, <1>2

\* The chain of CURRENT is readable, so the walk of candidate_relation never
\* stops short.
LEMMA RelationTrue ==
    ASSUME IndInv, NEW a \in Attempts
    PROVE  Relation(a, current.seen) \in Authoritative <=> Prefix(Child(a), current.seen)
<1>1. current.seen \in Revs /\ ChainManifests(current.seen) \subseteq disk.intact
  BY MediumTypes DEF IndInv, HistoryDurable
<1>2. Relation(a, current.seen) \in Authoritative => Prefix(Child(a), current.seen)
  BY <1>1, RelationPrefix
<1>3. Prefix(Child(a), current.seen) => Relation(a, current.seen) \in Authoritative
  BY <1>1 DEF Relation, Authoritative
<1>4. QED
  BY <1>2, <1>3

LEMMA CandidateFacts ==
    ASSUME IndInv, NEW a \in Attempts, <<"revisions", a>> \in disk.intact
    PROVE  /\ a.tx \in Txs /\ Candidates(a.tx) = {a}
           /\ Bound(a.tx) /\ journal[a.tx].seen.attempt = a
<1>1. a.tx \in Txs
  BY AttemptFields
<1>2. Candidates(a.tx) = {b \in Attempts : b.tx = a.tx /\ <<"revisions", b>> \in disk.intact}
  BY MediumTypes, CandidateSet DEF Candidates
<1>3. \A b \in Candidates(a.tx) :
        journal[a.tx].safe # NoJournal /\ journal[a.tx].safe.attempt = b
  BY <1>1 DEF IndInv, CandidatesBound
<1>4. a \in Candidates(a.tx)
  BY <1>2
<1>5. QED
  BY <1>1, <1>3, <1>4 DEF IndInv, JournalsAgree, Bound

LEMMA InspectIsVerdict ==
    ASSUME IndInv, NEW a \in Attempts, <<"revisions", a>> \in disk.intact
    PROVE  inspect_transaction(a.tx) = Verdict(a, a)
<1>1. /\ Candidates(a.tx) = {a} /\ Bound(a.tx) /\ journal[a.tx].seen.attempt = a
  BY CandidateFacts
<1>2. Cardinality(Candidates(a.tx)) = 1
  BY <1>1, FS_Singleton
<1>3. TheCandidate(a.tx) = a /\ Candidates(a.tx) # {}
  BY <1>1 DEF TheCandidate
<1>4. ~(Cardinality(Candidates(a.tx)) > 1)
  BY <1>2
<1>5. QED
  BY <1>1, <1>3, <1>4 DEF inspect_transaction

\* A complete durability stands on a receipt, or on a repair receipt, that was
\* earned.
LEMMA DurableTrue ==
    ASSUME IndInv, ReceiptsTrue, NEW a \in Attempts, NEW rel, Durable(a, rel)
    PROVE  /\ Protected(a) \subseteq disk.durable
           /\ rel \in Authoritative => Prefix(Child(a), current.safe)
<1>1. ASSUME CandidateReceiptValid(a)
      PROVE  Protected(a) \subseteq disk.durable
  BY <1>1 DEF CandidateReceiptValid, ReceiptsTrue, Earned
<1>2. ASSUME CurrentReceiptValid(a, rel)
      PROVE  Prefix(Child(a), current.safe)
  BY <1>2 DEF CurrentReceiptValid, ReceiptsTrue, Earned
<1>3. ASSUME RepairKind(a, rel) = "repair_current"
      PROVE  Protected(a) \subseteq disk.durable /\ Prefix(Child(a), current.safe)
  <2>1. <<"repair_current", a>> \in disk.intact
    BY <1>3 DEF RepairKind, RepairValid
  <2>2. QED
    BY <2>1 DEF ReceiptsTrue, Earned
<1>4. ASSUME RepairKind(a, rel) = "repair_candidate"
      PROVE  Protected(a) \subseteq disk.durable
  <2>1. <<"repair_candidate", a>> \in disk.intact
    BY <1>4 DEF RepairKind, RepairValid
  <2>2. QED
    BY <2>1 DEF ReceiptsTrue, Earned
<1>5. QED
  BY <1>1, <1>2, <1>3, <1>4 DEF Durable

LEMMA VerdictTrue ==
    ASSUME IndInv, ReceiptsTrue, NEW a \in Attempts
    PROVE  LET v == Verdict(a, a)
           IN  /\ v.committed = "true" <=> Prefix(Child(a), current.seen)
               /\ v.durable => Protected(a) \subseteq disk.durable
               /\ v.durable /\ v.committed = "true" => Prefix(Child(a), current.safe)
<1> DEFINE rel == Relation(a, current.seen)
           v == Outcome(rel, current.seen, a.base, Durable(a, rel), Audited(a))
<1>1. v.committed = "true" <=> rel \in Authoritative
  BY DEF Outcome
<1>2. v.durable = Durable(a, rel)
  BY DEF Outcome
<1>3. Verdict(a, a) = v
  BY DEF Verdict
<1>4. rel \in Authoritative <=> Prefix(Child(a), current.seen)
  BY RelationTrue
<1> HIDE DEF rel, v
<1>5. QED
  BY <1>1, <1>2, <1>3, <1>4, DurableTrue

-----------------------------------------------------------------------------
(* What a step may add.                                                    *)

\* CURRENT moves on, and what is on the medium stays there.
Grows ==
  /\ Prefix(current.seen, current'.seen) /\ Prefix(current.safe, current'.safe)
  /\ disk.durable \subseteq disk'.durable

ObjectsEarned == \A o \in disk'.intact : o \in disk.intact \/ Earned(o)'

MarksEarned ==
  \A x \in {watermark'.seen, watermark'.safe} :
     x \in {watermark.seen, watermark.safe} \/ Prefix(x, current'.safe)

JournalsEarned ==
  \A t \in Txs : \A j \in {journal'[t].seen, journal'[t].safe} :
     j \in {journal[t].seen, journal[t].safe} \/ Honest(j)'

\* A commit a caller may be told of.
Promised(k) ==
  Prefix(k.rev, current.seen) /\ (k.durable => Prefix(k.rev, current.safe))

AcksEarned == \A k \in acks' : k \in acks \/ Promised(k)'

LEMMA SafeStays ==
    ASSUME IndInv, IndInv', Prefix(current.safe, current'.safe), NEW r \in Revs,
           Prefix(r, current.safe)
    PROVE  Prefix(r, current'.safe)
<1>1. current.safe \in Revs
  BY MediumTypes
<1>2. current'.safe \in Revs
  BY DEF IndInv, TypeOK, MediumOK, CellOf
<1>3. QED
  BY <1>1, <1>2, PrefixTransitive

LEMMA SeenStays ==
    ASSUME IndInv, IndInv', Prefix(current.seen, current'.seen), NEW r \in Revs,
           Prefix(r, current.seen)
    PROVE  Prefix(r, current'.seen)
<1>1. current.seen \in Revs
  BY MediumTypes
<1>2. current'.seen \in Revs
  BY DEF IndInv, TypeOK, MediumOK, CellOf
<1>3. QED
  BY <1>1, <1>2, PrefixTransitive

LEMMA MarksStep ==
    ASSUME IndInv, IndInv', MarksTrue, Prefix(current.safe, current'.safe), MarksEarned
    PROVE  MarksTrue'
<1>1. watermark.seen \in Revs /\ watermark.safe \in Revs
  BY MediumTypes DEF CellOf
<1>2. Prefix(watermark.seen, current'.safe) /\ Prefix(watermark.safe, current'.safe)
  BY <1>1, SafeStays DEF MarksTrue
<1>3. Prefix(watermark'.seen, current'.safe) /\ Prefix(watermark'.safe, current'.safe)
  BY <1>2 DEF MarksEarned
<1>4. QED
  BY <1>3 DEF MarksTrue, Prefix

LEMMA HonestStays ==
    ASSUME IndInv, IndInv', Prefix(current.safe, current'.safe), NEW j \in Journals, Honest(j)
    PROVE  Honest(j)'
<1>1. CASE j = NoJournal
  BY <1>1 DEF Honest
<1>2. CASE j # NoJournal /\ j.stage \notin {"committed", "observed"}
  BY <1>2 DEF Honest
<1>3. CASE j # NoJournal /\ j.stage \in {"committed", "observed"}
  <2>1. j.attempt \in Attempts
    BY <1>3 DEF Journals
  <2>2. Child(j.attempt) \in Revs
    BY <2>1, ChildType
  <2>3. Prefix(Child(j.attempt), current.safe)
    BY <1>3 DEF Honest
  <2>4. Prefix(Child(j.attempt), current'.safe)
    BY <2>2, <2>3, SafeStays
  <2>5. QED
    BY <2>4 DEF Honest, Prefix, Child
<1>4. QED
  BY <1>1, <1>2, <1>3

LEMMA JournalsStep ==
    ASSUME IndInv, IndInv', JournalsTrue, Prefix(current.safe, current'.safe), JournalsEarned
    PROVE  JournalsTrue'
<1> SUFFICES ASSUME NEW t \in Txs PROVE Honest(journal[t].seen)' /\ Honest(journal[t].safe)'
  BY DEF JournalsTrue
<1>1. journal[t] \in CellOf(Journals)
  BY DEF IndInv, TypeOK, MediumOK
<1>2. ASSUME NEW j, j \in {journal'[t].seen, journal'[t].safe} PROVE Honest(j)'
  <2>1. CASE j \in {journal[t].seen, journal[t].safe}
    <3>1. j \in Journals /\ Honest(j)
      BY <1>1, <2>1 DEF CellOf, JournalsTrue
    <3>2. QED
      BY <3>1, HonestStays
  <2>2. CASE Honest(j)'
    BY <2>2
  <2>3. QED
    BY <1>2, <2>1, <2>2 DEF JournalsEarned
<1>3. QED
  <2>1. PICK x : x = journal'[t].seen
    OBVIOUS
  <2>2. PICK y : y = journal'[t].safe
    OBVIOUS
  <2>3. Honest(x)' /\ Honest(y)'
    BY <1>2, <2>1, <2>2
  <2>4. QED
    BY <2>1, <2>2, <2>3 DEF Honest

LEMMA EarnedStays ==
    ASSUME IndInv, IndInv', Prefix(current.safe, current'.safe),
           disk.durable \subseteq disk'.durable, NEW o \in Objects, Earned(o)
    PROVE  Earned(o)'
<1>1. ASSUME o[1] \in {"candidate-data-durable", "repair_candidate", "repair_current"}
      PROVE  Protected(o[2]) \subseteq disk'.durable
  BY <1>1 DEF Earned
<1>2. ASSUME o[1] \in {"current-durable", "repair_current"}
      PROVE  Prefix(Child(o[2]), current'.safe)
  <2>1. o[2] \in Attempts
    BY <1>2 DEF Objects, AttemptKinds
  <2>2. Child(o[2]) \in Revs
    BY <2>1, ChildType
  <2>3. QED
    BY <1>2, <2>2, SafeStays DEF Earned
<1>3. QED
  BY <1>1, <1>2 DEF Earned, Protected, Prefix, Child

LEMMA ReceiptsStep ==
    ASSUME IndInv, IndInv', ReceiptsTrue, Prefix(current.safe, current'.safe),
           disk.durable \subseteq disk'.durable, ObjectsEarned
    PROVE  ReceiptsTrue'
<1> SUFFICES ASSUME NEW o \in disk'.intact PROVE Earned(o)'
  BY DEF ReceiptsTrue
<1>1. CASE o \in disk.intact
  <2>1. o \in Objects
    BY <1>1, MediumTypes DEF DiskOf
  <2>2. QED
    BY <1>1, <2>1, EarnedStays DEF ReceiptsTrue
<1>2. QED
  BY <1>1 DEF ObjectsEarned

LEMMA AcksStep ==
    ASSUME IndInv, IndInv', AckedWritesHold, Grows, AcksEarned
    PROVE  AckedWritesHold'
<1> SUFFICES ASSUME NEW k \in acks'
             PROVE  Prefix(k.rev, current'.seen) /\ (k.durable => Prefix(k.rev, current'.safe))
  BY DEF AckedWritesHold, Prefix
<1>1. CASE k \in acks
  <2>1. k.rev \in Revs
    BY <1>1 DEF IndInv, TypeOK, ProcessOK
  <2>2. Prefix(k.rev, current.seen) /\ (k.durable => Prefix(k.rev, current.safe))
    BY <1>1 DEF AckedWritesHold
  <2>3. QED
    BY <2>1, <2>2, SeenStays, SafeStays DEF Grows
<1>2. CASE Promised(k)'
  BY <1>2 DEF Promised, Prefix
<1>3. QED
  BY <1>1, <1>2 DEF AcksEarned

LEMMA HoldersStep ==
    ASSUME IndInv, NEW w \in Writers, pc[w] \in Locked, NEW next \in Locked,
           (Moved(w, next) /\ Knows(next, req[w])') \/ Returned(w)
    PROVE  HoldersKnow'
<1> SUFFICES ASSUME NEW v \in Writers PROVE Knows(pc[v], req[v])'
  BY DEF HoldersKnow
<1>1. ProcessOK /\ LockHeld
  BY DEF IndInv, TypeOK
<1>2. /\ pc'[v] \in Locked => v = w
      /\ pc'[v] \in Locked => Moved(w, next) /\ pc'[v] = next /\ req'[v] = req[v]
  BY <1>1, ControlStep
<1>3. CASE pc'[v] \notin Locked
  <2>1. Published \subseteq Locked /\ RepairSteps \subseteq Locked /\ RepairSynced \subseteq Locked
    BY DEF Published, RepairSteps, RepairSynced, Locked, Busy
  <2>2. QED
    BY <1>3, <2>1 DEF Knows
<1>4. CASE pc'[v] \in Locked
  <2>1. ~Returned(w)
    <3>1. pc'[w] = next /\ next # "planned"
      BY <1>2, <1>4 DEF Locked, Busy
    <3>2. QED
      BY <1>1, <3>1 DEF Returned, ProcessOK
  <2>2. Knows(next, req[w])' /\ req'[v] = req'[w]
    BY <1>2, <1>4, <2>1
  <2>3. QED
    BY <1>2, <1>4, <2>2 DEF Knows
<1>5. QED
  BY <1>3, <1>4

\* One step of the process under the lock.
LEMMA WriterEvidence ==
    ASSUME IndInv, IndInv', Evidence, NEW w \in Writers, pc[w] \in Locked, NEW next \in Locked,
           (Moved(w, next) /\ Knows(next, req[w])') \/ Returned(w),
           Grows, AcksEarned, ObjectsEarned, MarksEarned, JournalsEarned
    PROVE  Evidence'
<1>1. HoldersKnow'
  BY HoldersStep
<1>2. MarksTrue' /\ JournalsTrue'
  BY MarksStep, JournalsStep DEF Evidence, Grows
<1>3. ReceiptsTrue'
  BY ReceiptsStep DEF Evidence, Grows
<1>4. AckedWritesHold'
  BY AcksStep DEF Evidence
<1>5. QED
  BY <1>1, <1>2, <1>3, <1>4 DEF Evidence

-----------------------------------------------------------------------------
(* What callers are told.                                                  *)

LEMMA FinishEarned ==
    ASSUME NEW w \in Writers, NEW answer, Finish(w, answer),
           answer.committed = "true" => Prefix(Child(req[w]), current'.seen),
           answer.committed = "true" /\ answer.durable => Prefix(Child(req[w]), current'.safe)
    PROVE  AcksEarned
<1> SUFFICES ASSUME NEW k \in acks', k \notin acks PROVE Promised(k)'
  BY DEF AcksEarned
<1>1. answer.committed = "true" /\ k = [rev |-> Child(req[w]), durable |-> answer.durable]
  BY DEF Finish
<1>2. k.rev = Child(req[w]) /\ k.durable = answer.durable
  BY <1>1
<1>3. Prefix(k.rev, current'.seen) /\ (k.durable => Prefix(k.rev, current'.safe))
  BY <1>1, <1>2
<1>4. QED
  BY <1>3 DEF Promised, Prefix

LEMMA RefusedEarned ==
    ASSUME NEW w \in Writers, NEW code, Finish(w, Refused(code))
    PROVE  AcksEarned
<1>1. Refused(code).committed # "true"
  BY DEF Refused
<1>2. QED
  BY <1>1, FinishEarned

LEMMA GotoEarned ==
    ASSUME NEW w \in Writers, (\E n : Goto(w, n)) \/ Die(w)
    PROVE  AcksEarned
  BY DEF Goto, Die, AcksEarned

\* make_outcome in the except clause of commit_locked: CURRENT was read after
\* the failure, and durable is only said from the last journal on.
LEMMA OSErrorTrue ==
    ASSUME NEW w \in Writers, req[w] \in Attempts, NEW at, NEW cur \in Revs
    PROVE  LET v == OSErrorOutcome(w, at, cur)
           IN  /\ v.committed = "true" => Prefix(Child(req[w]), cur)
               /\ v.committed = "true" /\ v.durable => at = "journal_committed"
<1> DEFINE a == req[w]
           seen == IF at = "prepare" THEN a.base ELSE cur
           rel == IF at \in {"prepare", "segment", "manifest"} THEN "unknown"
                  ELSE Relation(a, seen)
           known == \/ rel \in Authoritative /\ at = "journal_committed"
                    \/ rel \notin Authoritative /\ at \in AfterCandidateReceipt
           v == Outcome(rel, seen, a.base, known, FALSE)
<1>1. OSErrorOutcome(w, at, cur) = v
  BY DEF OSErrorOutcome
<1>2. v.committed = "true" => rel \in Authoritative
  BY DEF Outcome
<1>3. v.durable = known
  BY DEF Outcome
<1>4. rel \in Authoritative => at # "prepare" /\ rel = Relation(a, cur)
  BY DEF Authoritative
<1>5. rel \in Authoritative => Prefix(Child(a), cur)
  BY <1>4, RelationPrefix
<1> HIDE DEF v
<1>6. QED
  BY <1>1, <1>2, <1>3, <1>5

LEMMA EndStepEarned ==
    ASSUME NEW w \in Writers, req[w] \in Attempts, NEW at, NEW end, NEW next,
           NEW cur \in Revs, cur = current'.seen, EndStep(w, at, end, next, cur),
           at = "journal_committed" => Prefix(Child(req[w]), current'.safe)
    PROVE  AcksEarned
<1>1. CASE Goto(w, next) \/ Die(w)
  BY <1>1, GotoEarned
<1>2. CASE Finish(w, OSErrorOutcome(w, at, cur))
  <2>1. PICK v : v = OSErrorOutcome(w, at, cur)
    OBVIOUS
  <2>2. /\ v.committed = "true" => Prefix(Child(req[w]), cur)
        /\ v.committed = "true" /\ v.durable => at = "journal_committed"
    BY <2>1, OSErrorTrue
  <2>3. Finish(w, v)
    BY <1>2, <2>1
  <2>4. QED
    BY <2>2, <2>3, FinishEarned
<1>3. CASE Finish(w, Refused(end))
  BY <1>3, RefusedEarned
<1>4. QED
  BY <1>1, <1>2, <1>3 DEF EndStep

LEMMA RepairEndEarned ==
    ASSUME NEW w \in Writers, NEW end, NEW next, RepairEnd(w, end, next)
    PROVE  AcksEarned
<1>1. CASE Goto(w, next) \/ Die(w)
  BY <1>1, GotoEarned
<1>2. CASE Finish(w, Refused("storage_io_failed")) \/ Finish(w, Refused(end))
  BY <1>2, RefusedEarned
<1>3. QED
  BY <1>1, <1>2 DEF RepairEnd

\* The answer of a commit that reached its last journal.
LEMMA CommittedEarned ==
    ASSUME NEW w \in Writers, req[w] \in Attempts, NEW audited,
           Finish(w, CommittedOutcome(w, audited)), current' = Cell(Child(req[w]))
    PROVE  AcksEarned
<1>1. Child(req[w]) \in Revs
  BY ChildType
<1>2. current'.seen = Child(req[w]) /\ current'.safe = Child(req[w])
  BY DEF Cell
<1>3. Prefix(Child(req[w]), current'.seen) /\ Prefix(Child(req[w]), current'.safe)
  BY <1>1, <1>2, PrefixReflexive
<1>4. QED
  BY <1>3, FinishEarned

-----------------------------------------------------------------------------
(* The steps that write an immutable object.                               *)

LEMMA SameCurrent ==
    ASSUME IndInv, current' = current
    PROVE  /\ Prefix(current.seen, current'.seen) /\ Prefix(current.safe, current'.safe)
           /\ current'.seen = current.seen /\ current'.safe = current.safe
  BY MediumTypes, PrefixReflexive

LEMMA SameMarks ==
    ASSUME UNCHANGED <<journal, watermark>>
    PROVE  MarksEarned /\ JournalsEarned
  BY DEF MarksEarned, JournalsEarned

\* What is known of an attempt outlives a write of objects.
LEMMA KnowsStays ==
    ASSUME NEW s, NEW a, Knows(s, a), current' = current,
           disk.durable \subseteq disk'.durable, disk.intact \subseteq disk'.intact
    PROVE  Knows(s, a)'
  BY DEF Knows, Prefix, Child, Protected

LEMMA ObjectEvidence ==
    ASSUME IndInv, IndInv', Evidence, NEW w \in Writers, pc[w] \in Locked, NEW next \in Locked,
           NEW o \in Objects, NEW r \in WriteImmutable(disk, o), disk' = r.disk,
           UNCHANGED <<current, journal, watermark>>, AcksEarned,
           Moved(w, next) \/ Returned(w), Knows(next, req[w]), Earned(o)
    PROVE  Evidence'
<1>1. /\ disk'.intact \subseteq disk.intact \cup {o} /\ disk.intact \subseteq disk'.intact
      /\ disk.durable \subseteq disk'.durable
  BY MediumTypes, WriteImmutableEffect
<1>2. Grows
  BY <1>1, SameCurrent DEF Grows
<1>3. Earned(o)'
  BY <1>2, EarnedStays DEF Grows
<1>4. ObjectsEarned
  BY <1>1, <1>3 DEF ObjectsEarned
<1>5. MarksEarned /\ JournalsEarned
  BY SameMarks
<1>6. PICK a : a = req[w]
  OBVIOUS
<1>7. Knows(next, a)'
  BY <1>1, <1>6, KnowsStays
<1>8. Moved(w, next) => req'[w] = a
  BY <1>6 DEF Moved
<1>9. Moved(w, next) => Knows(next, req[w])'
  BY <1>7, <1>8 DEF Knows
<1>10. QED
  BY <1>2, <1>4, <1>5, <1>9, WriterEvidence

LEMMA WriteObjectEvidence ==
    ASSUME IndInv, IndInv', Evidence, NEW w \in Writers, NEW at \in AfterPrepare,
           NEW kind \in AttemptKinds, NEW next \in AfterPrepare,
           WriteObject(w, at, kind, next), at # "journal_committed",
           Knows(next, req[w]), Earned(<<kind, req[w]>>)
    PROVE  Evidence'
<1>1. pc[w] = at /\ UNCHANGED <<current, journal, watermark>>
  BY DEF WriteObject
<1>2. at \in Locked /\ next \in Locked /\ next \in Busy /\ at # "idle"
  BY DEF AfterPrepare, Locked, Busy
<1>3. req[w] \in Attempts /\ ProcessOK
  BY <1>1, <1>2, InHand
<1>4. PICK r \in WriteImmutable(disk, <<kind, req[w]>>) :
         disk' = r.disk /\ EndStep(w, at, r.end, next, current.seen)
  BY DEF WriteObject
<1>5. Moved(w, next) \/ Returned(w)
  BY <1>2, <1>3, <1>4, EndStepControl
<1>6. current.seen = current'.seen /\ current.seen \in Revs
  BY <1>1, MediumTypes
<1>7. AcksEarned
  BY <1>3, <1>4, <1>6, EndStepEarned
<1>8. <<kind, req[w]>> \in Objects
  BY <1>3 DEF Objects
<1>9. QED
  BY <1>1, <1>2, <1>4, <1>5, <1>7, <1>8, ObjectEvidence

\* Steps that write no receipt need nothing.
LEMMA PlainKnows ==
    ASSUME NEW s, s \notin Published \cup RepairSteps, NEW a
    PROVE  Knows(s, a)
  BY DEF Knows, RepairSteps, RepairSynced

LEMMA PlainEarned ==
    ASSUME NEW kind, NEW x, kind \notin {"candidate-data-durable", "current-durable",
                                         "repair_candidate", "repair_current"}
    PROVE  Earned(<<kind, x>>)
  BY DEF Earned

LEMMA PlainObjects ==
    ASSUME IndInv, IndInv', Evidence, NEW w \in Writers,
           WriteManifest(w) \/ WriteIntent(w) \/ WriteStage(w)
    PROVE  Evidence'
<1>1. PICK at \in {"manifest", "intent", "stage"},
           kind \in {"revisions", "intent", "stages"},
           next \in {"intent", "stage", "journal_candidate"} : WriteObject(w, at, kind, next)
  BY DEF WriteManifest, WriteIntent, WriteStage
<1>2. /\ at \in AfterPrepare /\ next \in AfterPrepare /\ kind \in AttemptKinds
      /\ at # "journal_committed" /\ next \notin Published \cup RepairSteps
  BY <1>1 DEF AfterPrepare, AttemptKinds, Published, RepairSteps
<1>3. Knows(next, req[w])
  BY <1>2, PlainKnows
<1>4. Earned(<<kind, req[w]>>)
  BY <1>1, PlainEarned
<1>5. QED
  BY <1>1, <1>2, <1>3, <1>4, WriteObjectEvidence

LEMMA CandidateReceiptEvidence ==
    ASSUME IndInv, IndInv', Evidence, NEW w \in Writers, WriteCandidateReceipt(w)
    PROVE  Evidence'
<1>1. /\ WriteObject(w, "receipt_candidate", "candidate-data-durable", "journal_receipt")
      /\ pc[w] = "receipt_candidate"
  BY DEF WriteCandidateReceipt, WriteObject
<1>2. /\ "receipt_candidate" \in AfterPrepare /\ "journal_receipt" \in AfterPrepare
      /\ "candidate-data-durable" \in AttemptKinds
      /\ "journal_receipt" \notin Published \cup RepairSteps
  BY DEF AfterPrepare, AttemptKinds, Published, RepairSteps
<1>3. Knows("journal_receipt", req[w])
  BY <1>2, PlainKnows
<1>4. Protected(req[w]) \subseteq disk.durable
  BY <1>1 DEF IndInv, WritersBound
<1>5. Earned(<<"candidate-data-durable", req[w]>>)
  BY <1>4 DEF Earned
<1>6. QED
  BY <1>1, <1>2, <1>3, <1>5, WriteObjectEvidence

\* Between the replacement of CURRENT and the answer the new CURRENT is on the
\* medium.
LEMMA PublishedKnows ==
    ASSUME IndInv, Evidence, NEW w \in Writers, pc[w] \in Published
    PROVE  /\ req[w] \in Attempts /\ current = Cell(Child(req[w]))
           /\ current.seen = Child(req[w]) /\ current.safe = Child(req[w])
           /\ Prefix(Child(req[w]), current.safe)
           /\ \A s \in Published : Knows(s, req[w])
<1>1. pc[w] # "idle"
  BY DEF Published
<1>2. req[w] \in Attempts /\ Child(req[w]) \in Revs
  BY <1>1, InHand, ChildType
<1>3. current = Cell(Child(req[w]))
  BY DEF Evidence, HoldersKnow, Knows
<1>4. current.seen = Child(req[w]) /\ current.safe = Child(req[w])
  BY <1>3 DEF Cell
<1>5. \A s \in Published : Knows(s, req[w])
  BY <1>3 DEF Knows, Published, RepairSteps, RepairSynced
<1>6. QED
  BY <1>2, <1>3, <1>4, <1>5, PrefixReflexive

LEMMA CurrentReceiptEvidence ==
    ASSUME IndInv, IndInv', Evidence, NEW w \in Writers, WriteCurrentReceipt(w)
    PROVE  Evidence'
<1>1. /\ WriteObject(w, "receipt_current", "current-durable", "journal_committed")
      /\ pc[w] = "receipt_current"
  BY DEF WriteCurrentReceipt, WriteObject
<1>2. /\ "receipt_current" \in AfterPrepare /\ "journal_committed" \in AfterPrepare
      /\ "current-durable" \in AttemptKinds
      /\ "receipt_current" \in Published /\ "journal_committed" \in Published
  BY DEF AfterPrepare, AttemptKinds, Published
<1>3. Knows("journal_committed", req[w]) /\ Prefix(Child(req[w]), current.safe)
  BY <1>1, <1>2, PublishedKnows
<1>4. Earned(<<"current-durable", req[w]>>)
  BY <1>3 DEF Earned
<1>5. QED
  BY <1>1, <1>2, <1>3, <1>4, WriteObjectEvidence

LEMMA SegmentEvidence ==
    ASSUME IndInv, IndInv', Evidence, NEW w \in Writers, WriteSegment(w)
    PROVE  Evidence'
<1>1. pc[w] = "segment" /\ UNCHANGED <<current, journal, watermark>>
  BY DEF WriteSegment
<1>2. /\ "segment" \in Locked /\ "manifest" \in Locked /\ "manifest" \in Busy
      /\ "manifest" \notin Published \cup RepairSteps
  BY DEF Locked, Busy, Published, RepairSteps
<1>3. req[w] \in Attempts /\ req[w].content \in Contents /\ ProcessOK
  BY <1>1, InHand
<1>4. PICK r \in WriteImmutable(disk, <<"segments", req[w].content>>) :
         disk' = r.disk /\ EndStep(w, "segment", r.end, "manifest", current.seen)
  BY DEF WriteSegment
<1>5. Moved(w, "manifest") \/ Returned(w)
  BY <1>2, <1>3, <1>4, EndStepControl
<1>6. current.seen = current'.seen /\ current.seen \in Revs
  BY <1>1, MediumTypes
<1>7. AcksEarned
  BY <1>3, <1>4, <1>6, EndStepEarned
<1>8. <<"segments", req[w].content>> \in Objects
  BY <1>3 DEF Objects
<1>9. Knows("manifest", req[w]) /\ Earned(<<"segments", req[w].content>>)
  BY <1>2, PlainKnows, PlainEarned
<1>10. QED
  BY <1>1, <1>2, <1>4, <1>5, <1>7, <1>8, <1>9, ObjectEvidence

LEMMA ObservedLogEvidence ==
    ASSUME IndInv, IndInv', Evidence, NEW w \in Writers, WriteObservedLog(w)
    PROVE  Evidence'
<1> DEFINE next == "journal_observed"
<1>1. pc[w] = "observed_log" /\ UNCHANGED <<current, journal, watermark>>
  BY DEF WriteObservedLog
<1>2. /\ "observed_log" \in Locked /\ next \in Locked /\ next \in Busy
      /\ "observed_log" \in Published /\ next \in Published
  BY DEF Locked, Busy, Published
<1>3. /\ req[w] \in Attempts /\ Knows(next, req[w]) /\ current = Cell(Child(req[w]))
  BY <1>1, <1>2, PublishedKnows
<1>4. PICK r \in WriteImmutable(disk, <<"observed_commit", req[w]>>) :
         /\ disk' = r.disk
         /\ \/ r.end = "ok" /\ Goto(w, next) /\ UNCHANGED bounds
            \/ r.end = "oserror" /\ Fault /\ Finish(w, CommittedOutcome(w, FALSE))
            \/ /\ r.end = "quarantine_quota_exceeded"
               /\ Finish(w, Refused(r.end)) /\ UNCHANGED bounds
            \/ Die(w)
  BY DEF WriteObservedLog
<1>5. Moved(w, next) \/ Returned(w)
  BY <1>4 DEF Goto, Finish, Die, Moved, Returned
<1>6. AcksEarned
  <2>1. CASE Goto(w, next) \/ Die(w)
    BY <2>1, GotoEarned
  <2>2. CASE Finish(w, CommittedOutcome(w, FALSE))
    BY <1>1, <1>3, <2>2, CommittedEarned
  <2>3. CASE Finish(w, Refused(r.end))
    BY <2>3, RefusedEarned
  <2>4. QED
    BY <1>4, <2>1, <2>2, <2>3
<1>7. <<"observed_commit", req[w]>> \in Objects /\ Earned(<<"observed_commit", req[w]>>)
  BY <1>3, PlainEarned DEF Objects, AttemptKinds
<1>8. QED
  BY <1>1, <1>2, <1>3, <1>4, <1>5, <1>6, <1>7, ObjectEvidence

LEMMA RepairReceiptEvidence ==
    ASSUME IndInv, IndInv', Evidence, NEW w \in Writers, RepairReceipt(w)
    PROVE  Evidence'
<1> DEFINE o == IF Relation(req[w], current.seen) \in Authoritative
                THEN <<"repair_current", req[w]>> ELSE <<"repair_candidate", req[w]>>
<1>1. pc[w] = "repair_receipt" /\ UNCHANGED <<current, journal, watermark>>
  BY DEF RepairReceipt
<1>2. "repair_receipt" \in Locked /\ "repair_answer" \in Locked /\ "repair_answer" \in Busy
  BY DEF Locked, Busy
<1>3. req[w] \in Attempts /\ ProcessOK
  BY <1>1, InHand
<1>4. PICK r \in WriteImmutable(disk, o) :
         disk' = r.disk /\ RepairEnd(w, r.end, "repair_answer")
  BY DEF RepairReceipt
<1>5. Moved(w, "repair_answer") \/ Returned(w)
  BY <1>2, <1>3, <1>4, RepairEndControl
<1>6. Knows("repair_receipt", req[w])
  BY <1>1 DEF Evidence, HoldersKnow
<1>7. Knows("repair_answer", req[w])
  BY <1>6 DEF Knows, RepairSteps, RepairSynced, Published
<1>8. o \in Objects
  BY <1>3 DEF Objects, AttemptKinds
<1>9. Earned(o)
  <2>1. /\ Protected(req[w]) \subseteq disk.durable
        /\ Prefix(Child(req[w]), current.seen) => Prefix(Child(req[w]), current.safe)
    BY <1>6 DEF Knows, RepairSynced
  <2>2. Relation(req[w], current.seen) \in Authoritative => Prefix(Child(req[w]), current.safe)
    BY <1>3, <2>1, RelationTrue
  <2>3. QED
    BY <2>1, <2>2 DEF Earned
<1>10. AcksEarned
  BY <1>4, RepairEndEarned
<1> HIDE DEF o
<1>11. QED
  BY <1>1, <1>2, <1>4, <1>5, <1>7, <1>8, <1>9, <1>10, ObjectEvidence

-----------------------------------------------------------------------------
(* The steps that write the journal.                                       *)

LEMMA JournalEvidence ==
    ASSUME IndInv, IndInv', Evidence, NEW w \in Writers, req[w] \in Attempts,
           pc[w] \in Locked, NEW next \in Locked, NEW stage \in Stages,
           NEW r \in AtomicWrite(journal[req[w].tx], [stage |-> stage, attempt |-> req[w]]),
           journal' = [journal EXCEPT ![req[w].tx] = r.cell],
           UNCHANGED <<disk, current, watermark>>,
           AcksEarned, Moved(w, next) \/ Returned(w), Knows(next, req[w]),
           stage \in {"committed", "observed"} => Prefix(Child(req[w]), current.safe)
    PROVE  Evidence'
<1> DEFINE new == [stage |-> stage, attempt |-> req[w]]
           t == req[w].tx
<1>1. /\ t \in Txs /\ journal \in [Txs -> CellOf(Journals)] /\ new \in Journals
  BY AttemptFields DEF IndInv, TypeOK, MediumOK, Journals
<1>2. r.cell.seen \in {journal[t].seen, new} /\ r.cell.safe \in {journal[t].safe, new}
  BY <1>1, AtomicWriteEffect
<1>3. Honest(new)
  BY DEF Honest
<1> HIDE DEF new
<1>4. Grows
  BY SameCurrent DEF Grows
<1>5. PICK n : n = new
  OBVIOUS
<1>n. Honest(n)'
  BY <1>1, <1>3, <1>4, <1>5, HonestStays DEF Grows
<1>6. JournalsEarned
  <2> SUFFICES ASSUME NEW u \in Txs, NEW j \in {journal'[u].seen, journal'[u].safe}
               PROVE  j \in {journal[u].seen, journal[u].safe} \/ Honest(j)'
    BY DEF JournalsEarned
  <2>1. CASE u = t
    <3>1. journal'[u] = r.cell
      BY <1>1, <2>1
    <3>2. j \in {journal[u].seen, journal[u].safe} \/ j = n
      BY <1>2, <1>5, <2>1, <3>1
    <3>3. QED
      BY <1>n, <3>2
  <2>2. CASE u # t
    BY <1>1, <2>2
  <2>3. QED
    BY <2>1, <2>2
<1>7. MarksEarned /\ ObjectsEarned
  BY DEF MarksEarned, ObjectsEarned
<1>8. PICK a : a = req[w]
  OBVIOUS
<1>9. Knows(next, a)'
  BY <1>8, KnowsStays
<1>10. Moved(w, next) => Knows(next, req[w])'
  BY <1>8, <1>9 DEF Knows, Moved
<1>11. QED
  BY <1>4, <1>6, <1>7, <1>10, WriterEvidence

LEMMA WriteJournalEvidence ==
    ASSUME IndInv, IndInv', Evidence, NEW w \in Writers, NEW at \in AfterPrepare \cup {"prepare"},
           NEW stage \in Stages, NEW next \in AfterPrepare, WriteJournal(w, at, stage, next),
           Knows(next, req[w]),
           stage \in {"committed", "observed"} => Prefix(Child(req[w]), current.safe),
           at = "journal_committed" => Prefix(Child(req[w]), current.safe)
    PROVE  Evidence'
<1>1. pc[w] = at /\ UNCHANGED <<disk, current, watermark>>
  BY DEF WriteJournal
<1>2. at \in Locked /\ next \in Locked /\ next \in Busy /\ at # "idle"
  BY DEF AfterPrepare, Locked, Busy
<1>3. req[w] \in Attempts /\ ProcessOK
  BY <1>1, <1>2, InHand
<1>4. PICK r \in AtomicWrite(journal[req[w].tx], [stage |-> stage, attempt |-> req[w]]) :
         /\ journal' = [journal EXCEPT ![req[w].tx] = r.cell]
         /\ EndStep(w, at, r.end, next, current.seen)
  BY DEF WriteJournal
<1>5. Moved(w, next) \/ Returned(w)
  BY <1>2, <1>3, <1>4, EndStepControl
<1>6. /\ current.seen = current'.seen /\ current.seen \in Revs
      /\ at = "journal_committed" => Prefix(Child(req[w]), current'.safe)
  BY <1>1, MediumTypes
<1>7. AcksEarned
  BY <1>3, <1>4, <1>6, EndStepEarned
<1>8. QED
  BY <1>1, <1>2, <1>3, <1>4, <1>5, <1>7, JournalEvidence

LEMMA PlainJournals ==
    ASSUME IndInv, IndInv', Evidence, NEW w \in Writers,
           WritePrepared(w) \/ WriteCandidateJournal(w) \/ WriteReceiptJournal(w)
    PROVE  Evidence'
<1>1. PICK at \in {"prepare", "journal_candidate", "journal_receipt"},
           stage \in {"prepared", "candidate_prepared", "candidate_durable"},
           next \in {"segment", "sync_candidate", "replace"} : WriteJournal(w, at, stage, next)
  BY DEF WritePrepared, WriteCandidateJournal, WriteReceiptJournal
<1>2. /\ at \in AfterPrepare \cup {"prepare"} /\ next \in AfterPrepare /\ stage \in Stages
      /\ at # "journal_committed" /\ next \notin Published \cup RepairSteps
      /\ stage \notin {"committed", "observed"}
  BY <1>1 DEF AfterPrepare, Stages, Published, RepairSteps
<1>3. Knows(next, req[w])
  BY <1>2, PlainKnows
<1>4. QED
  BY <1>1, <1>2, <1>3, WriteJournalEvidence

LEMMA CommittedJournalEvidence ==
    ASSUME IndInv, IndInv', Evidence, NEW w \in Writers, WriteCommittedJournal(w)
    PROVE  Evidence'
<1>1. pc[w] = "journal_committed"
  BY DEF WriteCommittedJournal
<1>2. /\ "journal_committed" \in AfterPrepare /\ "observed_log" \in AfterPrepare
      /\ "committed" \in Stages /\ "journal_committed" \in Published
      /\ "observed_log" \in Published
  BY DEF AfterPrepare, Stages, Published
<1>3. /\ current.seen = Child(req[w]) /\ Prefix(Child(req[w]), current.safe)
      /\ Knows("observed_log", req[w])
  BY <1>1, <1>2, PublishedKnows
<1>4. WriteJournal(w, "journal_committed", "committed", "observed_log")
  BY <1>3 DEF WriteCommittedJournal
<1>5. QED
  BY <1>2, <1>3, <1>4, WriteJournalEvidence

LEMMA ObservedJournalEvidence ==
    ASSUME IndInv, IndInv', Evidence, NEW w \in Writers, WriteObservedJournal(w)
    PROVE  Evidence'
<1>1. pc[w] = "journal_observed" /\ UNCHANGED <<disk, current, watermark>>
  BY DEF WriteObservedJournal
<1>2. /\ "journal_observed" \in Locked /\ "journal_observed" \in Published
      /\ "observed" \in Stages
  BY DEF Locked, Busy, Published, Stages
<1>3. /\ req[w] \in Attempts /\ current = Cell(Child(req[w]))
      /\ Prefix(Child(req[w]), current.safe) /\ Knows("journal_observed", req[w])
  BY <1>1, <1>2, PublishedKnows
<1>4. PICK r \in AtomicWrite(journal[req[w].tx], [stage |-> "observed", attempt |-> req[w]]) :
         /\ journal' = [journal EXCEPT ![req[w].tx] = r.cell]
         /\ \/ r.end = "ok" /\ Finish(w, CommittedOutcome(w, TRUE)) /\ UNCHANGED bounds
            \/ r.end = "oserror" /\ Fault /\ Finish(w, CommittedOutcome(w, FALSE))
            \/ Die(w)
  BY DEF WriteObservedJournal
<1>5. Returned(w)
  BY <1>4 DEF Finish, Die, Returned
<1>6. AcksEarned
  <2>1. CASE Die(w)
    BY <2>1, GotoEarned
  <2>2. CASE Finish(w, CommittedOutcome(w, FALSE)) \/ Finish(w, CommittedOutcome(w, TRUE))
    BY <1>1, <1>3, <2>2, CommittedEarned
  <2>3. QED
    BY <1>4, <2>1, <2>2
<1>7. QED
  BY <1>1, <1>2, <1>3, <1>4, <1>5, <1>6, JournalEvidence

-----------------------------------------------------------------------------
(* The steps that sync, and the ones that replace CURRENT or the           *)
(* watermark.                                                              *)

\* Steps that leave the journal and the objects a reader sees.
LEMMA CurrentEvidence ==
    ASSUME IndInv, IndInv', Evidence, NEW w \in Writers, pc[w] \in Locked, NEW next \in Locked,
           UNCHANGED journal, disk'.intact = disk.intact, AcksEarned, MarksEarned, Grows,
           (Moved(w, next) /\ Knows(next, req[w])') \/ Returned(w)
    PROVE  Evidence'
<1>1. JournalsEarned /\ ObjectsEarned
  BY DEF JournalsEarned, ObjectsEarned
<1>2. QED
  BY <1>1, WriterEvidence

LEMMA SyncCandidateEvidence ==
    ASSUME IndInv, IndInv', Evidence, NEW w \in Writers, SyncCandidate(w)
    PROVE  Evidence'
<1> DEFINE files == Protected(req[w])
<1>1. pc[w] = "sync_candidate" /\ UNCHANGED <<current, journal, watermark>>
  BY DEF SyncCandidate
<1>2. /\ "receipt_candidate" \in Busy /\ "receipt_candidate" \notin Published \cup RepairSteps
      /\ "sync_candidate" \in Locked /\ "receipt_candidate" \in Locked
  BY DEF Locked, Busy, Published, RepairSteps
<1>3. req[w] \in Attempts /\ ProcessOK
  BY <1>1, InHand
<1>4. PICK end : /\ EndStep(w, "sync_candidate", end, "receipt_candidate", current.seen)
                 /\ \/ CanSync(disk, files) /\ disk' = SyncProtected(disk, files)
                    \/ end = "oserror" /\ disk' = disk
  BY DEF SyncCandidate
<1>5. Moved(w, "receipt_candidate") \/ Returned(w)
  BY <1>2, <1>3, <1>4, EndStepControl
<1>6. disk'.intact = disk.intact /\ disk.durable \subseteq disk'.durable
  BY <1>4, SyncEffect, MediumTypes
<1>7. Grows
  BY <1>1, <1>6, SameCurrent DEF Grows
<1>8. current.seen = current'.seen /\ current.seen \in Revs
  BY <1>1, MediumTypes
<1>9. AcksEarned
  BY <1>3, <1>4, <1>8, EndStepEarned
<1>10. Knows("receipt_candidate", req[w])'
  BY <1>2 DEF Knows, RepairSteps, RepairSynced
<1>11. MarksEarned
  BY <1>1 DEF MarksEarned
<1>12. QED
  BY <1>1, <1>2, <1>5, <1>6, <1>7, <1>9, <1>10, <1>11, CurrentEvidence

LEMMA ReplaceEvidence ==
    ASSUME IndInv, IndInv', Evidence, NEW w \in Writers, ReplaceCurrent(w)
    PROVE  Evidence'
<1>1. pc[w] = "replace" /\ UNCHANGED <<disk, journal, watermark>>
  BY DEF ReplaceCurrent
<1>2. /\ "watermark" \in Busy /\ "replace" \in Locked /\ "watermark" \in Locked
  BY DEF Locked, Busy
<1>3. req[w] \in Attempts /\ ProcessOK /\ Child(req[w]) \in Revs
  BY <1>1, InHand, ChildType
<1>4. PICK r \in IF current.seen = req[w].base THEN AtomicWrite(current, Child(req[w]))
                 ELSE {[cell |-> current, end |-> "oserror"]} :
         /\ current' = r.cell
         /\ EndStep(w, "replace", r.end, "watermark", r.cell.seen)
  BY DEF ReplaceCurrent
<1>5. (r.end = "ok" /\ Moved(w, "watermark")) \/ Returned(w)
  BY <1>2, <1>3, <1>4, EndStepControl
<1>6. /\ current' \in CellOf(Revs) /\ current'.safe \in {current.safe, current'.seen}
      /\ \/ current'.seen = current.seen /\ current'.safe = current.safe
         \/ current.seen = req[w].base /\ current'.seen = Child(req[w])
  BY <1>3, <1>4, ReplaceEffect
<1>7. Prefix(current.seen, current'.seen)
  <2>1. current.seen \in Revs
    BY MediumTypes
  <2>2. QED
    BY <1>3, <1>6, <2>1, PrefixReflexive, PrefixOfChild
<1>8. Prefix(current.safe, current'.safe)
  <2>1. /\ current.seen \in Revs /\ current.safe \in Revs /\ current'.seen \in Revs
        /\ Prefix(current.safe, current.seen)
    BY <1>6, MediumTypes DEF IndInv, SafeOnHistory, CellOf
  <2>2. Prefix(current.safe, current'.seen)
    BY <1>7, <2>1, PrefixTransitive
  <2>3. QED
    BY <1>6, <2>1, <2>2, PrefixReflexive
<1>9. Grows
  BY <1>1, <1>7, <1>8 DEF Grows
<1>10. AcksEarned
  <2>1. r.cell.seen = current'.seen /\ r.cell.seen \in Revs
    BY <1>4, <1>6 DEF CellOf
  <2>2. QED
    BY <1>3, <1>4, <2>1, EndStepEarned
<1>11. ASSUME r.end = "ok" PROVE current' = Cell(Child(req[w]))
  BY <1>4, <1>11 DEF AtomicWrite
<1>12. ASSUME Moved(w, "watermark"), r.end = "ok" PROVE Knows("watermark", req[w])'
  <2>1. current' = Cell(Child(req[w])) /\ req' = req
    BY <1>11, <1>12 DEF Moved
  <2>2. QED
    BY <2>1 DEF Knows, RepairSteps, RepairSynced, Cell, Child
<1>13. MarksEarned
  BY <1>1 DEF MarksEarned
<1>14. QED
  BY <1>1, <1>2, <1>5, <1>9, <1>10, <1>12, <1>13, CurrentEvidence

LEMMA WatermarkEvidence ==
    ASSUME IndInv, IndInv', Evidence, NEW w \in Writers, WriteWatermark(w)
    PROVE  Evidence'
<1>1. pc[w] = "watermark" /\ UNCHANGED <<disk, current, journal>>
  BY DEF WriteWatermark
<1>2. /\ "watermark" \in Published /\ "sync_current" \in Published /\ "sync_current" \in Busy
      /\ "watermark" \in Locked /\ "sync_current" \in Locked
  BY DEF Published, Locked, Busy
<1>3. /\ req[w] \in Attempts /\ Prefix(Child(req[w]), current.safe)
      /\ Knows("sync_current", req[w]) /\ ProcessOK
  BY <1>1, <1>2, PublishedKnows DEF IndInv, TypeOK
<1>4. PICK r \in AtomicWrite(watermark, Child(req[w])) :
         /\ watermark' = r.cell
         /\ EndStep(w, "watermark", r.end, "sync_current", current.seen)
  BY DEF WriteWatermark
<1>5. Moved(w, "sync_current") \/ Returned(w)
  BY <1>2, <1>3, <1>4, EndStepControl
<1>6. MarksEarned
  <2>1. /\ watermark'.seen \in {watermark.seen, Child(req[w])}
        /\ watermark'.safe \in {watermark.safe, Child(req[w])}
    BY <1>3, <1>4, ChildType, MediumTypes, AtomicWriteEffect
  <2>2. current'.safe = current.safe
    BY <1>1
  <2>3. QED
    BY <1>3, <2>1, <2>2 DEF MarksEarned
<1>7. Grows
  BY <1>1, SameCurrent DEF Grows
<1>8. AcksEarned
  <2>1. current.seen = current'.seen /\ current.seen \in Revs
    BY <1>1, MediumTypes
  <2>2. QED
    BY <1>3, <1>4, <2>1, EndStepEarned
<1>9. PICK a : a = req[w]
  OBVIOUS
<1>10. Knows("sync_current", a)'
  BY <1>1, <1>3, <1>9, KnowsStays
<1>11. Moved(w, "sync_current") => Knows("sync_current", req[w])'
  BY <1>9, <1>10 DEF Knows, Moved
<1>12. disk'.intact = disk.intact /\ journal' = journal
  BY <1>1
<1>13. QED
  BY <1>1, <1>2, <1>5, <1>6, <1>7, <1>8, <1>11, <1>12, CurrentEvidence

LEMMA SyncCurrentEvidence ==
    ASSUME IndInv, IndInv', Evidence, NEW w \in Writers, SyncCurrent(w)
    PROVE  Evidence'
<1>1. pc[w] = "sync_current" /\ UNCHANGED <<disk, journal, watermark>>
  BY DEF SyncCurrent
<1>2. /\ "sync_current" \in Published /\ "receipt_current" \in Published
      /\ "receipt_current" \in Busy
      /\ "sync_current" \in Locked /\ "receipt_current" \in Locked
  BY DEF Published, Locked, Busy
<1>3. /\ req[w] \in Attempts /\ Knows("receipt_current", req[w]) /\ ProcessOK
      /\ current = Cell(Child(req[w])) /\ current.seen = Child(req[w])
  BY <1>1, <1>2, PublishedKnows DEF IndInv, TypeOK
<1>4. PICK end : /\ EndStep(w, "sync_current", end, "receipt_current", current.seen)
                 /\ current' \in {current, Cell(current.seen)}
  BY DEF SyncCurrent
<1>5. Moved(w, "receipt_current") \/ Returned(w)
  BY <1>2, <1>3, <1>4, EndStepControl
<1>6. current' = current
  BY <1>3, <1>4
<1>7. Grows
  BY <1>1, <1>6, SameCurrent DEF Grows
<1>8. AcksEarned
  <2>1. current.seen = current'.seen /\ current.seen \in Revs
    BY <1>6, MediumTypes
  <2>2. QED
    BY <1>3, <1>4, <2>1, EndStepEarned
<1>9. PICK a : a = req[w]
  OBVIOUS
<1>10. Knows("receipt_current", a)'
  BY <1>1, <1>3, <1>6, <1>9, KnowsStays
<1>11. Moved(w, "receipt_current") => Knows("receipt_current", req[w])'
  BY <1>9, <1>10 DEF Knows, Moved
<1>12. disk'.intact = disk.intact /\ journal' = journal /\ MarksEarned
  BY <1>1 DEF MarksEarned
<1>13. QED
  BY <1>1, <1>2, <1>5, <1>7, <1>8, <1>11, <1>12, CurrentEvidence

\* An fsync of CURRENT.
LEMMA SyncedGrows ==
    ASSUME IndInv, current' \in {current, Cell(current.seen)}
    PROVE  /\ Prefix(current.seen, current'.seen) /\ Prefix(current.safe, current'.safe)
           /\ current'.seen = current.seen /\ current'.safe \in {current.safe, current.seen}
<1>1. /\ current.seen \in Revs /\ current.safe \in Revs /\ Prefix(current.safe, current.seen)
  BY MediumTypes DEF IndInv, SafeOnHistory
<1>2. current'.seen = current.seen /\ current'.safe \in {current.safe, current.seen}
  BY DEF Cell
<1>3. QED
  BY <1>1, <1>2, PrefixReflexive

LEMMA RepairSyncEvidence ==
    ASSUME IndInv, IndInv', Evidence, NEW w \in Writers, RepairSync(w)
    PROVE  Evidence'
<1> DEFINE files == Protected(req[w])
<1>1. pc[w] = "repair_sync" /\ UNCHANGED <<journal, watermark>>
  BY DEF RepairSync
<1>2. /\ "repair_receipt" \in Busy /\ "repair_sync" \in Locked /\ "repair_receipt" \in Locked
  BY DEF Locked, Busy
<1>3. req[w] \in Attempts /\ ProcessOK
  BY <1>1, InHand
<1>4. PICK end : /\ RepairEnd(w, end, "repair_receipt")
                 /\ \/ /\ CanSync(disk, files) /\ disk' = SyncProtected(disk, files)
                       /\ current' = IF Relation(req[w], current.seen) \in Authoritative
                                     THEN Cell(current.seen) ELSE current
                    \/ end = "oserror" /\ disk' = disk /\ current' = current
  BY DEF RepairSync
<1>5. current' \in {current, Cell(current.seen)}
  BY <1>4
<1>6. disk'.intact = disk.intact /\ disk.durable \subseteq disk'.durable
  BY <1>4, SyncEffect, MediumTypes
<1>7. Grows
  BY <1>5, <1>6, SyncedGrows DEF Grows
<1>8. AcksEarned
  BY <1>4, RepairEndEarned
<1>9. <<"revisions", req[w]>> \in disk.intact
  BY <1>1 DEF Evidence, HoldersKnow, Knows, RepairSteps
<1>10. CASE end = "oserror"
  <2>1. Returned(w)
    BY <1>4, <1>10 DEF RepairEnd, Finish, Die, Returned
  <2>2. MarksEarned
    BY <1>1 DEF MarksEarned
  <2>3. QED
    BY <1>1, <1>2, <1>6, <1>7, <1>8, <2>1, <2>2, CurrentEvidence
<1>11. CASE end # "oserror"
  <2>1. /\ CanSync(disk, files) /\ disk' = SyncProtected(disk, files)
        /\ Relation(req[w], current.seen) \in Authoritative => current' = Cell(current.seen)
    BY <1>4, <1>11
  <2>2. files \subseteq disk'.durable
    BY <2>1, SyncEffect, MediumTypes
  <2>3. Prefix(Child(req[w]), current'.seen) => Prefix(Child(req[w]), current'.safe)
    <3>1. current'.seen = current.seen
      BY <1>5, SyncedGrows
    <3>2. Prefix(Child(req[w]), current.seen) => current' = Cell(current.seen)
      BY <1>3, <2>1, RelationTrue
    <3>3. current' = Cell(current.seen) => current'.safe = current.seen
      BY DEF Cell
    <3>4. QED
      BY <3>1, <3>2, <3>3
  <2>4. PICK a : a = req[w]
    OBVIOUS
  <2>5. Knows("repair_receipt", a)'
    <3>1. <<"revisions", a>> \in disk'.intact /\ Protected(a) \subseteq disk'.durable
      BY <1>6, <1>9, <2>2, <2>4
    <3>2. Prefix(Child(a), current'.seen) => Prefix(Child(a), current'.safe)
      BY <2>3, <2>4
    <3>3. QED
      BY <3>1, <3>2 DEF Knows, Published, Prefix, Child, Protected
  <2>6. Moved(w, "repair_receipt") => Knows("repair_receipt", req[w])'
    BY <2>4, <2>5 DEF Knows, Moved
  <2>7. Moved(w, "repair_receipt") \/ Returned(w)
    BY <1>2, <1>3, <1>4, RepairEndControl
  <2>8. MarksEarned
    BY <1>1 DEF MarksEarned
  <2>9. QED
    BY <1>1, <1>2, <1>6, <1>7, <1>8, <2>6, <2>7, <2>8, CurrentEvidence
<1>12. QED
  BY <1>10, <1>11

-----------------------------------------------------------------------------
(* The steps that leave the medium alone.                                  *)

LEMMA QuietEvidence ==
    ASSUME IndInv, IndInv', Evidence, UNCHANGED medium, AcksEarned, HoldersKnow'
    PROVE  Evidence'
<1>1. UNCHANGED <<disk, current, journal, watermark>>
  BY DEF medium
<1>2. Grows
  BY <1>1, SameCurrent DEF Grows
<1>3. ObjectsEarned /\ MarksEarned /\ JournalsEarned
  BY <1>1 DEF ObjectsEarned, MarksEarned, JournalsEarned
<1>4. MarksTrue' /\ JournalsTrue' /\ ReceiptsTrue'
  BY <1>2, <1>3, MarksStep, JournalsStep, ReceiptsStep DEF Evidence, Grows
<1>5. AckedWritesHold'
  BY <1>2, AcksStep DEF Evidence
<1>6. QED
  BY <1>4, <1>5 DEF Evidence

\* A process that takes, or fails to take, the lock; the others are outside it or
\* know what they knew.
LEMMA OthersKnow ==
    ASSUME IndInv, Evidence, UNCHANGED medium, NEW w \in Writers,
           \A v \in Writers \ {w} : pc'[v] = pc[v] /\ req'[v] = req[v],
           Knows(pc'[w], req'[w])
    PROVE  HoldersKnow'
<1> SUFFICES ASSUME NEW v \in Writers PROVE Knows(pc[v], req[v])'
  BY DEF HoldersKnow
<1>1. PICK s : s = pc'[v]
  OBVIOUS
<1>2. PICK a : a = req'[v]
  OBVIOUS
<1>3. Knows(s, a)
  BY <1>1, <1>2 DEF Evidence, HoldersKnow
<1>4. Knows(s, a)'
  BY <1>3, KnowsStays DEF medium
<1>5. QED
  BY <1>1, <1>2, <1>4 DEF Knows

LEMMA PlanningEvidence ==
    ASSUME IndInv, IndInv', Evidence, NEW w \in Writers,
           PlanWrite(w) \/ Submit(w) \/ LockBusy(w) \/ Begin(w)
    PROVE  Evidence'
<1>1. /\ UNCHANGED medium /\ acks' = acks
      /\ \E s \in {"planned", "locking", "prepare"} : pc' = [pc EXCEPT ![w] = s]
  BY DEF PlanWrite, Submit, LockBusy, Begin
<1>2. PICK s \in {"planned", "locking", "prepare"} : pc' = [pc EXCEPT ![w] = s]
  BY <1>1
<1>3. \A v \in Writers \ {w} : req'[v] = req[v]
  <2>1. req' = req \/ \E x : req' = [req EXCEPT ![w] = x]
    <3>1. CASE PlanWrite(w)
      BY <3>1 DEF PlanWrite
    <3>2. CASE Submit(w)
      <4>1. PICK t \in Txs : req' = [req EXCEPT ![w].tx = t]
        BY <3>2 DEF Submit
      <4>2. req' = [req EXCEPT ![w] = [req[w] EXCEPT !.tx = t]]
        BY <4>1
      <4>3. QED
        BY <4>2
    <3>3. CASE LockBusy(w) \/ Begin(w)
      BY <3>3 DEF LockBusy, Begin
    <3>4. QED
      BY <3>1, <3>2, <3>3
  <2>2. QED
    BY <2>1 DEF IndInv, TypeOK, ProcessOK
<1>4. pc'[w] = s /\ \A v \in Writers \ {w} : pc'[v] = pc[v]
  BY <1>2 DEF IndInv, TypeOK, ProcessOK
<1>5. Knows(pc'[w], req'[w])
  <2>1. s \notin Published \cup RepairSteps
    BY DEF Published, RepairSteps
  <2>2. QED
    BY <1>4, <2>1, PlainKnows
<1>6. HoldersKnow'
  BY <1>1, <1>3, <1>4, <1>5, OthersKnow
<1>7. AcksEarned
  BY <1>1 DEF AcksEarned
<1>8. QED
  BY <1>1, <1>6, <1>7, QuietEvidence

LEMMA RepairBeginEvidence ==
    ASSUME IndInv, IndInv', Evidence, NEW w \in Writers, RepairBegin(w)
    PROVE  Evidence'
<1>1. UNCHANGED medium /\ acks' = acks /\ pc' = [pc EXCEPT ![w] = "repair_sync"]
  BY DEF RepairBegin
<1>2. PICK t \in Txs : \E a \in Candidates(t) : req' = [req EXCEPT ![w] = a]
  BY DEF RepairBegin
<1>3. PICK a \in Candidates(t) : req' = [req EXCEPT ![w] = a]
  BY <1>2
<1>4. <<"revisions", a>> \in disk.intact
  <2>1. Candidates(t) = {b \in Attempts : b.tx = t /\ <<"revisions", b>> \in disk.intact}
    BY MediumTypes, CandidateSet DEF Candidates
  <2>2. QED
    BY <2>1
<1>5. /\ pc'[w] = "repair_sync" /\ req'[w] = a
      /\ \A v \in Writers \ {w} : pc'[v] = pc[v] /\ req'[v] = req[v]
  BY <1>1, <1>3 DEF IndInv, TypeOK, ProcessOK
<1>6. Knows(pc'[w], req'[w])
  BY <1>4, <1>5 DEF Knows, Published, RepairSynced
<1>7. HoldersKnow'
  BY <1>1, <1>5, <1>6, OthersKnow
<1>8. AcksEarned
  BY <1>1 DEF AcksEarned
<1>9. QED
  BY <1>1, <1>7, <1>8, QuietEvidence

\* The answers that leave the medium alone.
LEMMA AnswerEvidence ==
    ASSUME IndInv, IndInv', Evidence, NEW w \in Writers, NEW answer, Finish(w, answer),
           UNCHANGED medium, AcksEarned
    PROVE  Evidence'
<1>1. /\ pc'[w] = "planned" /\ req' = req
      /\ \A v \in Writers \ {w} : pc'[v] = pc[v]
  BY DEF Finish, IndInv, TypeOK, ProcessOK
<1>2. Knows(pc'[w], req'[w])
  <2>1. "planned" \notin Published \cup RepairSteps
    BY DEF Published, RepairSteps
  <2>2. QED
    BY <1>1, <2>1, PlainKnows
<1>3. HoldersKnow'
  BY <1>1, <1>2, OthersKnow
<1>4. QED
  BY <1>3, QuietEvidence

\* What inspection says of the attempt in hand is true when it is passed on.
LEMMA InspectedEarned ==
    ASSUME IndInv, Evidence, NEW w \in Writers, req[w] \in Attempts,
           <<"revisions", req[w]>> \in disk.intact, current' = current,
           Finish(w, inspect_transaction(req[w].tx))
    PROVE  AcksEarned
<1>1. PICK v : v = Verdict(req[w], req[w])
  OBVIOUS
<1>2. Finish(w, v)
  BY <1>1, InspectIsVerdict
<1>3. /\ v.committed = "true" => Prefix(Child(req[w]), current.seen)
      /\ v.committed = "true" /\ v.durable => Prefix(Child(req[w]), current.safe)
  BY <1>1, VerdictTrue DEF Evidence
<1>4. QED
  BY <1>2, <1>3, FinishEarned

LEMMA RefuseEvidence ==
    ASSUME IndInv, IndInv', Evidence, NEW w \in Writers, Refuse(w)
    PROVE  Evidence'
<1>1. Finish(w, Refused(Objection(req[w]))) /\ UNCHANGED medium
  BY DEF Refuse
<1>2. AcksEarned
  BY <1>1, RefusedEarned
<1>3. QED
  BY <1>1, <1>2, AnswerEvidence

\* The replay answers about the attempt it was handed: the journal binds the id
\* to it, and the candidate of the id is the journal's.
LEMMA ReplayEvidence ==
    ASSUME IndInv, IndInv', Evidence, NEW w \in Writers, Replay(w)
    PROVE  Evidence'
<1>1. /\ pc[w] = "locking" /\ Objection(req[w]) = "none" /\ AlreadyCommitted(req[w])
      /\ Finish(w, inspect_transaction(req[w].tx)) /\ UNCHANGED medium
  BY DEF Replay
<1>2. req[w] \in Attempts /\ req[w].tx \in Txs
  BY <1>1, InHand
<1>3. PICK a \in Candidates(req[w].tx) : TRUE
  BY <1>1 DEF AlreadyCommitted
<1>4. a \in Attempts /\ a.tx = req[w].tx /\ <<"revisions", a>> \in disk.intact
  <2>1. Candidates(req[w].tx)
          = {b \in Attempts : b.tx = req[w].tx /\ <<"revisions", b>> \in disk.intact}
    BY MediumTypes, CandidateSet DEF Candidates
  <2>2. QED
    BY <1>3, <2>1
<1>5. Bound(req[w].tx) /\ journal[req[w].tx].seen.attempt = a
  BY <1>4, CandidateFacts
<1>6. req[w] = a
  BY <1>1, <1>5, NoObjection
<1>7. current' = current
  BY <1>1 DEF medium
<1>8. AcksEarned
  BY <1>1, <1>2, <1>4, <1>6, <1>7, InspectedEarned
<1>9. QED
  BY <1>1, <1>8, AnswerEvidence

LEMMA RepairAnswerEvidence ==
    ASSUME IndInv, IndInv', Evidence, NEW w \in Writers, RepairAnswer(w)
    PROVE  Evidence'
<1>1. /\ pc[w] = "repair_answer" /\ Finish(w, inspect_transaction(req[w].tx))
      /\ UNCHANGED medium
  BY DEF RepairAnswer
<1>2. req[w] \in Attempts
  BY <1>1, InHand
<1>3. <<"revisions", req[w]>> \in disk.intact
  BY <1>1 DEF Evidence, HoldersKnow, Knows, RepairSteps
<1>4. current' = current
  BY <1>1 DEF medium
<1>5. AcksEarned
  BY <1>1, <1>2, <1>3, <1>4, InspectedEarned
<1>6. QED
  BY <1>1, <1>5, AnswerEvidence

-----------------------------------------------------------------------------
(* The machine.                                                            *)

LEMMA WritebackEvidence ==
    ASSUME IndInv, IndInv', Evidence, Writeback
    PROVE  Evidence'
<1>1. /\ UNCHANGED <<watermark, lock, pc, req, acks>>
      /\ current' \in {current, Cell(current.seen)}
  BY DEF Writeback, process
<1>2. disk'.intact = disk.intact /\ disk.durable \subseteq disk'.durable
  BY MediumTypes DEF Writeback, DiskOf
<1>3. Grows
  BY <1>1, <1>2, SyncedGrows DEF Grows
<1>4. JournalsEarned
  <2> SUFFICES ASSUME NEW u \in Txs
               PROVE  {journal'[u].seen, journal'[u].safe} \subseteq {journal[u].seen, journal[u].safe}
    BY DEF JournalsEarned
  <2>1. CASE journal' = journal
    BY <2>1
  <2>2. CASE \E t \in Txs : journal' = [journal EXCEPT ![t] = Cell(journal[t].seen)]
    <3>1. PICK t \in Txs : journal' = [journal EXCEPT ![t] = Cell(journal[t].seen)]
      BY <2>2
    <3>2. journal'[u] = journal[u] \/ journal'[u] = Cell(journal[u].seen)
      BY <3>1 DEF IndInv, TypeOK, MediumOK
    <3>3. QED
      BY <3>2 DEF Cell
  <2>3. QED
    BY <2>1, <2>2 DEF Writeback
<1>5. MarksEarned /\ ObjectsEarned /\ AcksEarned
  BY <1>1, <1>2 DEF MarksEarned, ObjectsEarned, AcksEarned
<1>6. HoldersKnow'
  <2> SUFFICES ASSUME NEW v \in Writers PROVE Knows(pc[v], req[v])'
    BY DEF HoldersKnow
  <2>1. Knows(pc[v], req[v])
    BY DEF Evidence, HoldersKnow
  <2>2. PICK s : s = pc[v]
    OBVIOUS
  <2>3. PICK a : a = req[v]
    OBVIOUS
  <2>4. s \in Published => current' = Cell(Child(a))
    BY <1>1, <2>1, <2>2, <2>3 DEF Knows, Cell
  <2>5. s \in RepairSteps => <<"revisions", a>> \in disk'.intact
    BY <1>2, <2>1, <2>2, <2>3 DEF Knows
  <2>6. s \in RepairSynced => Protected(a) \subseteq disk'.durable
    BY <1>2, <2>1, <2>2, <2>3 DEF Knows
  <2>7. s \in RepairSynced =>
          (Prefix(Child(a), current'.seen) => Prefix(Child(a), current'.safe))
    <3>1. current'.seen = current.seen /\ current'.safe \in {current.safe, current.seen}
      BY <1>1, SyncedGrows
    <3>2. QED
      BY <2>1, <2>2, <2>3, <3>1 DEF Knows
  <2>8. Knows(s, a)'
    BY <2>4, <2>5, <2>6, <2>7 DEF Knows, Prefix, Child, Protected, Cell
  <2>9. QED
    BY <1>1, <2>2, <2>3, <2>8 DEF Knows
<1>7. MarksTrue' /\ JournalsTrue' /\ ReceiptsTrue'
  BY <1>3, <1>4, <1>5, MarksStep, JournalsStep, ReceiptsStep DEF Evidence, Grows
<1>8. AckedWritesHold'
  BY <1>3, <1>5, AcksStep DEF Evidence
<1>9. QED
  BY <1>6, <1>7, <1>8 DEF Evidence

LEMMA PowerLossEvidence ==
    ASSUME IndInv, IndInv', Evidence, PowerLoss
    PROVE  Evidence'
<1>1. disk.durable \subseteq disk'.durable /\ disk'.intact \subseteq disk.intact
  BY MediumTypes, PowerLossEffect DEF PowerLoss
<1>2. /\ current.seen \in Revs /\ current.safe \in Revs /\ Prefix(current.safe, current.seen)
      /\ current'.seen = current'.safe /\ current'.safe \in {current.seen, current.safe}
  BY MediumTypes DEF PowerLoss, CellsAfterPowerLoss, Cell, IndInv, SafeOnHistory
<1>3. Prefix(current.safe, current'.safe)
  BY <1>2, PrefixReflexive
<1>4. MarksEarned
  BY DEF PowerLoss, CellsAfterPowerLoss, Cell, MarksEarned
<1>5. JournalsEarned
  <2> SUFFICES ASSUME NEW u \in Txs
               PROVE  {journal'[u].seen, journal'[u].safe} \subseteq {journal[u].seen, journal[u].safe}
    BY DEF JournalsEarned
  <2>1. journal'[u] \in CellsAfterPowerLoss(journal[u])
    BY DEF PowerLoss
  <2>2. QED
    BY <2>1 DEF CellsAfterPowerLoss, Cell
<1>6. ObjectsEarned
  BY <1>1 DEF ObjectsEarned
<1>7. MarksTrue' /\ JournalsTrue' /\ ReceiptsTrue'
  BY <1>1, <1>3, <1>4, <1>5, <1>6, MarksStep, JournalsStep, ReceiptsStep DEF Evidence
<1>8. AckedWritesHold'
  <2> SUFFICES ASSUME NEW k \in acks' PROVE Promised(k)'
    BY DEF AckedWritesHold, Promised
  <2>1. k \in acks /\ k.durable /\ k.rev \in Revs
    BY DEF PowerLoss, IndInv, TypeOK, ProcessOK
  <2>2. Prefix(k.rev, current.safe)
    BY <2>1 DEF Evidence, AckedWritesHold
  <2>3. Prefix(k.rev, current'.safe)
    BY <1>3, <2>1, <2>2, SafeStays
  <2>4. QED
    BY <1>2, <2>3 DEF Promised, Prefix
<1>9. HoldersKnow'
  <2>1. \A v \in Writers : pc'[v] \in {"idle", "planned"}
    BY DEF PowerLoss
  <2>2. QED
    BY <2>1 DEF HoldersKnow, Knows, Published, RepairSteps, RepairSynced
<1>10. QED
  BY <1>7, <1>8, <1>9 DEF Evidence

LEMMA InitEvidence == Init => Evidence
<1> SUFFICES ASSUME Init PROVE Evidence
  OBVIOUS
<1>1. HoldersKnow
  BY DEF Init, HoldersKnow, Knows, Published, RepairSteps, RepairSynced
<1>2. MarksTrue
  <2>1. <<>> \in Revs
    BY DEF Revs
  <2>2. watermark.seen = <<>> /\ watermark.safe = <<>> /\ current.safe = <<>>
    BY DEF Init, Cell
  <2>3. QED
    BY <2>1, <2>2, PrefixReflexive DEF MarksTrue
<1>3. JournalsTrue
  BY DEF Init, JournalsTrue, Honest, Cell
<1>4. ReceiptsTrue /\ AckedWritesHold
  BY DEF Init, ReceiptsTrue, AckedWritesHold, EmptyDisk
<1>5. QED
  BY <1>1, <1>2, <1>3, <1>4 DEF Evidence

LEMMA NextEvidence ==
    ASSUME IndInv, Evidence, [Next]_vars
    PROVE  Evidence'
<1>0. IndInv'
  BY NextInv
<1>1. ASSUME NEW w \in Writers, Step(w) PROVE Evidence'
  <2>1. CASE LockBusy(w) \/ Begin(w)
    BY <1>0, <2>1, PlanningEvidence
  <2>2. CASE Refuse(w)
    BY <1>0, <2>2, RefuseEvidence
  <2>3. CASE Replay(w)
    BY <1>0, <2>3, ReplayEvidence
  <2>4. CASE WritePrepared(w) \/ WriteCandidateJournal(w) \/ WriteReceiptJournal(w)
    BY <1>0, <2>4, PlainJournals
  <2>5. CASE WriteManifest(w) \/ WriteIntent(w) \/ WriteStage(w)
    BY <1>0, <2>5, PlainObjects
  <2>6. CASE WriteSegment(w)
    BY <1>0, <2>6, SegmentEvidence
  <2>7. CASE SyncCandidate(w)
    BY <1>0, <2>7, SyncCandidateEvidence
  <2>8. CASE WriteCandidateReceipt(w)
    BY <1>0, <2>8, CandidateReceiptEvidence
  <2>9. CASE ReplaceCurrent(w)
    BY <1>0, <2>9, ReplaceEvidence
  <2>10. CASE WriteWatermark(w)
    BY <1>0, <2>10, WatermarkEvidence
  <2>11. CASE SyncCurrent(w)
    BY <1>0, <2>11, SyncCurrentEvidence
  <2>12. CASE WriteCurrentReceipt(w)
    BY <1>0, <2>12, CurrentReceiptEvidence
  <2>13. CASE WriteCommittedJournal(w)
    BY <1>0, <2>13, CommittedJournalEvidence
  <2>14. CASE WriteObservedLog(w)
    BY <1>0, <2>14, ObservedLogEvidence
  <2>15. CASE WriteObservedJournal(w)
    BY <1>0, <2>15, ObservedJournalEvidence
  <2>16. CASE RepairSync(w)
    BY <1>0, <2>16, RepairSyncEvidence
  <2>17. CASE RepairReceipt(w)
    BY <1>0, <2>17, RepairReceiptEvidence
  <2>18. CASE RepairAnswer(w)
    BY <1>0, <2>18, RepairAnswerEvidence
  <2>19. QED
    BY <1>1, <2>1, <2>2, <2>3, <2>4, <2>5, <2>6, <2>7, <2>8, <2>9, <2>10, <2>11,
       <2>12, <2>13, <2>14, <2>15, <2>16, <2>17, <2>18 DEF Step
<1>2. ASSUME NEW w \in Writers, PlanWrite(w) \/ Submit(w) \/ RepairBegin(w) PROVE Evidence'
  BY <1>0, <1>2, PlanningEvidence, RepairBeginEvidence
<1>3. CASE Writeback
  BY <1>0, <1>3, WritebackEvidence
<1>4. CASE PowerLoss
  BY <1>0, <1>4, PowerLossEvidence
<1>5. CASE UNCHANGED vars
  <2>1. UNCHANGED medium /\ UNCHANGED <<disk, current, pc, req, acks>>
    BY <1>5 DEF vars, medium
  <2>2. AcksEarned
    BY <2>1 DEF AcksEarned
  <2>3. HoldersKnow'
    BY <2>1 DEF Evidence, HoldersKnow, Knows
  <2>4. QED
    BY <1>0, <2>1, <2>2, <2>3, QuietEvidence
<1>6. QED
  BY <1>1, <1>2, <1>3, <1>4, <1>5 DEF Next

-----------------------------------------------------------------------------
(* Theorems.                                                               *)

\* Receipts, journals, the watermark and the answers never claim more than the
\* medium holds, and a process under the lock knows what its next write is for.
THEOREM EvidenceHolds == Spec => [](IndInv /\ Evidence)
<1>1. Init => IndInv /\ Evidence
  BY InitInv, InitEvidence
<1>2. IndInv /\ Evidence /\ [Next]_vars => (IndInv /\ Evidence)'
  BY NextInv, NextEvidence
<1>3. QED
  BY <1>1, <1>2, PTL DEF Spec

\* A commit that a caller was told of (commit_locked, the replay of
\* commit_write_plan, repair_durability) stays in CURRENT's history until a
\* power loss, and past every power loss when it was reported durable.
THEOREM AckedCommitsStay == Spec => []AckedWritesHold
<1>1. IndInv /\ Evidence => AckedWritesHold
  BY DEF Evidence
<1>2. QED
  BY <1>1, EvidenceHolds, PTL

\* inspect_transaction says committed exactly of what CURRENT's history holds,
\* and a complete durability is complete on the medium, whatever receipts,
\* journals and repairs earlier attempts left.
THEOREM InspectionIsTrue == Spec => []InspectTruthful
<1>1. ASSUME IndInv, Evidence PROVE InspectTruthful
  <2> SUFFICES ASSUME NEW t \in Txs, NEW a \in Candidates(t)
               PROVE  LET v == inspect_transaction(a.tx)
                      IN  /\ (v.committed = "true") = Prefix(Child(a), current.seen)
                          /\ v.durable =>
                               /\ Protected(a) \subseteq disk.durable
                               /\ v.committed = "true" => Prefix(Child(a), current.safe)
    BY DEF InspectTruthful
  <2>1. a \in Attempts /\ <<"revisions", a>> \in disk.intact
    <3>1. Candidates(t) = {b \in Attempts : b.tx = t /\ <<"revisions", b>> \in disk.intact}
      BY <1>1, MediumTypes, CandidateSet DEF Candidates
    <3>2. QED
      BY <3>1
  <2>2. PICK v : v = inspect_transaction(a.tx)
    OBVIOUS
  <2>3. v = Verdict(a, a)
    BY <1>1, <2>1, <2>2, InspectIsVerdict
  <2>4. /\ v.committed = "true" <=> Prefix(Child(a), current.seen)
        /\ v.durable => Protected(a) \subseteq disk.durable
        /\ v.durable /\ v.committed = "true" => Prefix(Child(a), current.safe)
    BY <1>1, <2>1, <2>3, VerdictTrue DEF Evidence
  <2>5. (v.committed = "true") = Prefix(Child(a), current.seen)
    BY <2>4, Zenon DEF Prefix
  <2>6. QED
    BY <2>2, <2>4, <2>5
<1>2. QED
  BY <1>1, EvidenceHolds, PTL

\* A journal that says committed is never about a commit that a power loss took
\* or can take away.
THEOREM JournalsAreTrue == Spec => []JournalTruthful
<1>1. IndInv /\ Evidence => JournalTruthful
  BY DEF Evidence, JournalsTrue, Honest, JournalTruthful, Bound
<1>2. QED
  BY <1>1, EvidenceHolds, PTL

\* The watermark names a revision of the durable history, also the watermark a
\* power loss brings back.
THEOREM WatermarkIsDurable == Spec => []WatermarkOnHistory
<1>1. IndInv /\ Evidence => WatermarkOnHistory
  BY DEF Evidence, MarksTrue, WatermarkOnHistory
<1>2. QED
  BY <1>1, EvidenceHolds, PTL

\* write_plan_base_changed is only said of a plan that CURRENT's history does not
\* hold, so planning again never writes records twice.
THEOREM RefusalIsSafe == Spec => []BaseChangedIsTrue
<1>1. ASSUME IndInv, Evidence PROVE BaseChangedIsTrue
  <2> SUFFICES ASSUME NEW w \in Writers, pc[w] = "locking",
                      Objection(req[w]) = "write_plan_base_changed",
                      Prefix(Child(req[w]), current.seen)
               PROVE  FALSE
    BY DEF BaseChangedIsTrue
  <2>1. PICK a : a = req[w]
    OBVIOUS
  <2>2. a \in Attempts /\ a.base \in Revs /\ Len(a.base) \in Nat /\ Child(a) \in Revs
        /\ Len(Child(a)) = Len(a.base) + 1 /\ current.seen \in Revs
    BY <1>1, <2>1, InHand, AttemptFields, ChildType, MediumTypes
  <2>3. inspect_transaction(a.tx).committed # "true"
    BY <2>1 DEF Objection
  <2>4. <<"revisions", a>> \in disk.intact
    <3>1. Len(a.base) + 1 \in 1..Len(Child(a)) /\ Len(a.base) + 1 \in 1..Len(current.seen)
      BY <2>1, <2>2 DEF Prefix, Revs
    <3>2. AttemptAt(current.seen, Len(a.base) + 1) = AttemptAt(Child(a), Len(a.base) + 1)
      BY <2>1, <2>2, <3>1, PrefixAttempt
    <3>3. AttemptAt(current.seen, Len(a.base) + 1) = a
      BY <2>2, <3>2, LastAttempt
    <3>4. <<"revisions", a>> \in ChainManifests(current.seen)
      BY <3>1, <3>3 DEF ChainManifests
    <3>5. QED
      BY <1>1, <3>4, MediumTypes DEF IndInv, HistoryDurable
  <2>5. inspect_transaction(a.tx) = Verdict(a, a)
    BY <1>1, <2>2, <2>4, InspectIsVerdict
  <2>6. Verdict(a, a).committed = "true"
    BY <1>1, <2>1, <2>2, VerdictTrue DEF Evidence
  <2>7. QED
    BY <2>3, <2>5, <2>6
<1>2. QED
  BY <1>1, EvidenceHolds, PTL
=============================================================================

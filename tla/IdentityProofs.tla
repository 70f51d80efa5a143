--------------------------- MODULE IdentityProofs ---------------------------
(***************************************************************************)
(* Proofs about Identity, for any number of operators, writers,            *)
(* identities, revisions and power losses.                                 *)
(***************************************************************************)
EXTENDS Identity, TLAPS, SequenceTheorems

Modes == {"initialize", "adopt", "repair"}

\* The steps under identity_lock.
Working == {"intent", "core", "object", "store", "project", "ready", "root", "candidate",
            "replace", "sync", "receipt", "complete", "return"}
Steps == {"idle", "lock", "repair_lock"} \cup Working

Kinds == {"intent", "identity", "store", "project", "root"}
ReceiptNames == {Receipt(m, i, base, again) :
                   m \in Modes, i \in Identities, base \in Revs, again \in BOOLEAN}
Objects == (Kinds \X Identities) \cup ReceiptNames

FilesOK ==
  /\ intent \in CellOf(Intents \cup {Absent, Torn})
  /\ disk \in DiskOf(Objects) /\ disk.durable \subseteq disk.intact
  /\ current \in CellOf(Revs)

CallsOK ==
  /\ idlock \in Operators \cup {Nobody} /\ wlock \in Operators \cup {Nobody}
  /\ pc \in [Operators -> Steps] /\ mode \in [Operators -> Modes]
  /\ job \in [Operators -> Intents \cup {Absent}]
  /\ \A p \in Operators : pc[p] \in Working \cup {"repair_lock"} => job[p] \in Intents

RestOK ==
  /\ drawn \subseteq Identities /\ plan \subseteq [id : Identities, base : Revs]
  /\ bound \in [Writers -> Identities \cup {Nobody}]
  /\ acked \subseteq Identities /\ faults \in Nat /\ outages \in Nat

TypeOK == FilesOK /\ CallsOK /\ RestOK

\* The files of two identities are never there together.
OneIdentity ==
  \A i, j \in Identities : Store(i) \in disk.intact /\ Store(j) \in disk.intact => i = j

-----------------------------------------------------------------------------
(* The second invariant: what the files say about each other when at most  *)
(* one write fails.                                                        *)

Prefix(s, t) == Len(s) <= Len(t) /\ \A k \in 1..Len(s) : s[k] = t[k]

\* The hypothesis of the theorems that follow.
OneFailure == MaxFaults <= 1

\* A store from before identities.
Legacy == current.seen # <<>> /\ current.seen[1] = Unlinked

IsReceipt(o) == o[1] = "receipt"

Certified(i) == \E r \in disk.durable : IsReceipt(r) /\ r[2] = i

\* Before the one failure there is nothing to lose.
NothingLoose ==
  faults = 0 => disk.intact = disk.durable /\ disk.torn = {} /\ intent.safe = intent.seen

\* Where the intent is not on the medium nothing else is loose.
LooseAlone == intent.safe = Absent => disk.intact = disk.durable /\ disk.torn = {}

SameIntent(v, x) == v.op = x.op /\ v.id = x.id /\ v.base = x.base

IntentShape(v) ==
  /\ v.id \in drawn
  /\ v.op = "initialize" => v.base = <<>>
  /\ v.op = "adopt" => v.base = <<Unlinked>> /\ Legacy
  /\ v.stage = "complete" => Certified(v.id)

IntentOK ==
  /\ intent.seen = Absent => intent.safe = Absent
  /\ intent.safe = Torn => intent.seen = Torn
  /\ intent.seen = Torn => intent.safe \in {Absent, Torn}
  /\ intent.seen \in Intents /\ intent.safe \in Intents => SameIntent(intent.seen, intent.safe)
  /\ intent.seen \in Intents => IntentShape(intent.seen)
  /\ intent.safe \in Intents => IntentShape(intent.safe)

CurrentOK ==
  /\ Prefix(current.safe, current.seen)
  /\ Legacy => current.safe # <<>>
  /\ \A k \in 2..Len(current.seen) :
       current.seen[k] \in Identities /\ Certified(current.seen[k])

\* The root of an identity is there, and so is the intent or the identity.
RootOwned ==
  \A i \in Identities : current.seen # <<>> /\ current.seen[1] = i =>
    /\ Root(i) \in disk.durable
    /\ \/ intent.safe \in Intents /\ intent.safe.id = i /\ intent.safe.op = "initialize"
       \/ Store(i) \in disk.durable

\* A receipt of an adopted base is one of the intent that adopted it.
AdoptedBy(v, r) == r[2] = v.id /\ r[4][Len(r[4])] = Unlinked => v.op = "adopt"

\* A receipt is about what is on the medium; it may be lost itself, but not the
\* one before it.
ReceiptOK(r) ==
  /\ Protected(r[2]) \subseteq disk.durable
  /\ r[4] # <<>> /\ Prefix(r[4], current.safe)
  /\ \A k \in Len(r[4]) + 1 .. Len(current.seen) : current.seen[k] = r[2]
  /\ r[4][Len(r[4])] \in {r[2], Unlinked}
  /\ intent.seen \in Intents => AdoptedBy(intent.seen, r)
  /\ intent.safe \in Intents => AdoptedBy(intent.safe, r)
  /\ r[5] => Certified(r[2])

ReceiptsOK == \A r \in disk.intact : IsReceipt(r) => ReceiptOK(r)

\* An init in a legacy store meets the files of the adoption that was lost.
Foreign(i) ==
  \E j \in Identities \ {i} : Store(j) \in disk.durable \/ Project(j) \in disk.durable

LostAdoption ==
  intent.seen \in Intents /\ intent.seen.op = "initialize" /\ Legacy => Foreign(intent.seen.id)

AckedOK ==
  \A i \in acked :
    /\ intent.seen \in Intents /\ intent.seen.id = i /\ intent.seen.stage = "complete"
    /\ intent.safe = intent.seen

BoundOK == \A w \in Writers : bound[w] # Nobody => Certified(bound[w])

DrawnOK ==
  /\ \A o \in disk.intact : o[2] \in drawn
  /\ \A q \in plan : q.id \in drawn /\ q.base = <<Unlinked>> /\ Legacy

MediumOK ==
  /\ NothingLoose /\ LooseAlone /\ IntentOK /\ CurrentOK /\ RootOwned
  /\ ReceiptsOK /\ LostAdoption
  /\ AckedOK /\ BoundOK /\ DrawnOK

\* What a process under identity_lock knows.
CurrentIsOurs(v) ==
  /\ current.seen # <<>>
  /\ \/ current.seen[Len(current.seen)] = v.id
     \/ current.seen = <<Unlinked>> /\ v.op = "adopt"

FirstIntent(v) ==
  /\ intent.seen = Absent /\ v.stage = "intent_only"
  /\ IntentShape(v)
  /\ \A r \in disk.intact : IsReceipt(r) => r[2] # v.id
  /\ v.op = "initialize" /\ Legacy => Foreign(v.id)

Locks == {"candidate", "replace", "sync", "receipt", "complete"}
StoreWritten == {"project", "ready", "root", "candidate", "replace"}

Knows(p) ==
  /\ idlock = p
  /\ pc[p] \in Locks => wlock = p
  /\ mode[p] = "adopt" => wlock = p /\ job[p].op = "adopt" /\ current.seen = <<Unlinked>>
  /\ pc[p] = "intent" => FirstIntent(job[p])
  /\ pc[p] # "intent" => intent.seen = job[p]
  /\ pc[p] \in {"core", "return"} => intent.safe = intent.seen
  /\ pc[p] = "return" => job[p].stage = "complete"
  /\ pc[p] \in StoreWritten => Store(job[p].id) \in disk.intact
  /\ pc[p] = "core" /\ job[p].stage = "identities_ready_root_pending" =>
       Store(job[p].id) \in disk.intact
  /\ mode[p] = "initialize" /\ pc[p] \in {"object", "store", "project"} =>
       job[p].stage # "complete"
  /\ pc[p] = "ready" => job[p].stage # "complete"
  /\ pc[p] \in {"candidate", "replace"} => current.seen = <<>> /\ job[p].op = "initialize"
  /\ pc[p] = "replace" => Root(job[p].id) \in disk.durable
  /\ pc[p] \in {"sync", "receipt"} => CurrentIsOurs(job[p])
  /\ pc[p] = "receipt" =>
       current.safe = current.seen /\ Protected(job[p].id) \subseteq disk.durable
  /\ pc[p] = "complete" => Certified(job[p].id)

\* What a caller knows before it has the lock.
Called(p) ==
  /\ pc[p] = "repair_lock" => IntentShape(job[p]) /\ mode[p] = "repair"
  /\ pc[p] = "lock" /\ intent.seen = Absent /\ Legacy =>
       \E j \in Identities : Store(j) \in disk.durable \/ Project(j) \in disk.durable

ProcessesOK ==
  \A p \in Operators : Called(p) /\ (pc[p] \in Working => Knows(p))

IndInv == TypeOK /\ OneIdentity /\ MediumOK /\ ProcessesOK

-----------------------------------------------------------------------------
(* Objects.                                                                *)

LEMMA ObjectFields ==
    /\ \A o \in Objects :
         /\ o[2] \in Identities
         /\ IsReceipt(o) => o[4] \in Revs /\ o[5] \in BOOLEAN
    /\ \A i \in Identities : Protected(i) \subseteq Objects /\ Root(i) \in Objects
    /\ \A m \in Modes, i \in Identities, b \in Revs, again \in BOOLEAN :
         Receipt(m, i, b, again) \in Objects
<1>1. \A o \in Kinds \X Identities : o[2] \in Identities /\ ~IsReceipt(o)
  BY DEF Kinds, IsReceipt
<1>2. \A o \in ReceiptNames : o[2] \in Identities /\ o[4] \in Revs /\ o[5] \in BOOLEAN
  BY DEF ReceiptNames, Receipt
<1>3. \A i \in Identities : Protected(i) \subseteq Objects /\ Root(i) \in Objects
  BY DEF Protected, Core, Object, Store, Project, Root, Objects, Kinds
<1>4. \A m \in Modes, i \in Identities, b \in Revs, again \in BOOLEAN :
        Receipt(m, i, b, again) \in Objects
  BY DEF Objects, ReceiptNames
<1>5. QED
  BY <1>1, <1>2, <1>3, <1>4 DEF Objects

\* The kinds and the identities of the names.
LEMMA ObjectNames ==
    /\ \A i, j \in Identities : Store(i) = Store(j) => i = j
    /\ \A i \in Identities :
         /\ Store(i)[1] = "store" /\ Store(i)[2] = i /\ Store(i) \in Protected(i)
         /\ Project(i)[1] = "project" /\ Project(i)[2] = i /\ Project(i) \in Protected(i)
         /\ Object(i)[1] = "identity" /\ Object(i)[2] = i /\ Object(i) \in Protected(i)
         /\ Core(i)[1] = "intent" /\ Core(i)[2] = i /\ Core(i) \in Protected(i)
         /\ Root(i)[1] = "root" /\ Root(i)[2] = i
         /\ \A j \in Identities : Store(j) \in Protected(i) => i = j
    /\ \A m, i, b, again :
         LET r == Receipt(m, i, b, again)
         IN  r[1] = "receipt" /\ r[2] = i /\ r[4] = b /\ r[5] = again
  BY DEF Store, Project, Object, Core, Root, Receipt, Protected

-----------------------------------------------------------------------------
(* The results of the storage primitives.                                  *)

\* A primitive adds the object it writes or nothing, and takes nothing away;
\* where it raised no OSError nothing new is loose.
Adds(d, o, r) ==
  /\ r.disk \in DiskOf(Objects) /\ r.disk.durable \subseteq r.disk.intact
  /\ d.intact \subseteq r.disk.intact /\ r.disk.intact \subseteq d.intact \cup {o}
  /\ d.durable \subseteq r.disk.durable
  /\ r.end = "ok" => o \in r.disk.intact /\ (o \in d.intact \/ o \in r.disk.durable)
  /\ r.end # "oserror" =>
       /\ r.disk.torn \subseteq d.torn
       /\ d.intact = d.durable => r.disk.intact = r.disk.durable
  /\ r.end \notin {"ok", "oserror"} => r.disk = d

LEMMA CreateEffect ==
    ASSUME NEW d \in DiskOf(Objects), d.durable \subseteq d.intact,
           NEW o \in Objects, NEW r \in Create(d, o)
    PROVE  Adds(d, o, r) /\ r.end \in {"ok", "oserror"}
<1> USE DEF DiskOf, Adds
<1>1. CASE r = [disk |-> [d EXCEPT !.intact = @ \cup {o}, !.durable = @ \cup {o}],
                end |-> "ok"]
  <2>1. /\ r.disk.intact = d.intact \cup {o} /\ r.disk.durable = d.durable \cup {o}
        /\ r.disk \in DiskOf(Objects) /\ r.disk.torn = d.torn /\ r.end = "ok"
    BY <1>1
  <2>2. QED
    BY <2>1
<1>2. CASE r = [disk |-> d, end |-> "oserror"]
  BY <1>2
<1>3. CASE r = [disk |-> [d EXCEPT !.torn = @ \cup {o}], end |-> "oserror"]
  BY <1>3
<1>4. CASE r = [disk |-> [d EXCEPT !.intact = @ \cup {o}], end |-> "oserror"]
  BY <1>4
<1>5. QED
  BY <1>1, <1>2, <1>3, <1>4 DEF Create

\* _write_create_or_match: and what it adds had no rival.
LEMMA CreateOrMatchEffect ==
    ASSUME disk \in DiskOf(Objects), disk.durable \subseteq disk.intact,
           NEW o \in Objects, NEW r \in CreateOrMatch(o)
    PROVE  /\ Adds(disk, o, r)
           /\ o \in r.disk.intact /\ o \notin disk.intact => Rivals(o) \cap disk.intact = {}
<1>1. CASE o \in disk.intact
  BY <1>1 DEF CreateOrMatch, Adds
<1>2. CASE o \notin disk.intact /\ Blocked(o)
  BY <1>2 DEF CreateOrMatch, Adds
<1>3. CASE o \notin disk.intact /\ ~Blocked(o)
  <2>1. r \in Create(disk, o)
    BY <1>3 DEF CreateOrMatch
  <2>2. QED
    BY <1>3, <2>1, CreateEffect DEF Blocked
<1>4. QED
  BY <1>1, <1>2, <1>3

\* write_immutable, which moves a torn file out of the way.
LEMMA WriteImmutableEffect ==
    ASSUME NEW d \in DiskOf(Objects), d.durable \subseteq d.intact,
           NEW o \in Objects, NEW r \in WriteImmutable(d, o)
    PROVE  Adds(d, o, r)
<1>1. CASE o \in d.intact
  BY <1>1 DEF WriteImmutable, Adds
<1>2. CASE o \notin d.intact /\ o \notin d.torn
  <2>1. r \in Create(d, o)
    BY <1>2 DEF WriteImmutable
  <2>2. QED
    BY <2>1, CreateEffect
<1>3. CASE o \notin d.intact /\ o \in d.torn /\ d.quarantined >= QuarantineQuota
  BY <1>3 DEF WriteImmutable, Adds
<1>4. CASE o \notin d.intact /\ o \in d.torn /\ ~(d.quarantined >= QuarantineQuota)
  <2> DEFINE q == Quarantine(d, o)
  <2>1. /\ q \in DiskOf(Objects) /\ q.torn \subseteq d.torn
        /\ q.intact = d.intact /\ q.durable = d.durable
    <3>1. d.quarantined + 1 \in 0..QuarantineQuota
      BY <1>4, QuotaAssumption DEF DiskOf
    <3>2. QED
      BY <3>1 DEF Quarantine, DiskOf
  <2>2. r \in {[disk |-> d, end |-> "oserror"]} \cup Create(q, o)
    BY <1>4 DEF WriteImmutable
  <2> HIDE DEF q
  <2>3. CASE r = [disk |-> d, end |-> "oserror"]
    BY <2>3 DEF Adds
  <2>4. CASE r \in Create(q, o)
    <3>1. Adds(q, o, r) /\ r.end \in {"ok", "oserror"}
      BY <2>4, <2>1, CreateEffect
    <3>2. QED
      BY <3>1, <2>1 DEF Adds
  <2>5. QED
    BY <2>2, <2>3, <2>4
<1>5. QED
  BY <1>1, <1>2, <1>3, <1>4

\* atomic_write and the create of the intent: each copy is the old one or the new.
LEMMA AtomicWriteEffect ==
    ASSUME NEW V, NEW cell \in CellOf(V), NEW v \in V, NEW r \in AtomicWrite(cell, v)
    PROVE  /\ r.cell \in CellOf(V) /\ r.end \in {"ok", "oserror"}
           /\ \/ r.cell = cell
              \/ r.cell.seen = v /\ r.cell.safe \in {cell.safe, v}
           /\ r.end = "ok" => r.cell = Cell(v)
<1>1. CASE r = [cell |-> Cell(v), end |-> "ok"]
  BY <1>1 DEF Cell, CellOf
<1>2. CASE r = [cell |-> cell, end |-> "oserror"]
  BY <1>2
<1>3. CASE r = [cell |-> [cell EXCEPT !.seen = v], end |-> "oserror"]
  BY <1>3 DEF CellOf
<1>4. QED
  BY <1>1, <1>2, <1>3 DEF AtomicWrite

\* A power loss keeps the durable objects and invents none.
LEMMA PowerLossEffect ==
    ASSUME disk \in DiskOf(Objects), disk.durable \subseteq disk.intact,
           NEW d \in DisksAfterPowerLoss(disk)
    PROVE  /\ d \in DiskOf(Objects)
           /\ disk.durable \subseteq d.durable /\ d.durable = d.intact
           /\ d.intact \subseteq disk.intact
           /\ disk.intact = disk.durable => d.torn \subseteq disk.torn
<1>1. PICK kept \in SUBSET (disk.intact \ disk.durable) :
        \E bad \in SUBSET (disk.torn \cup ((disk.intact \ disk.durable) \ kept)) :
           d = [intact |-> disk.durable \cup kept, durable |-> disk.durable \cup kept,
                torn |-> bad, quarantined |-> disk.quarantined]
  BY DEF DisksAfterPowerLoss
<1>2. PICK bad \in SUBSET (disk.torn \cup ((disk.intact \ disk.durable) \ kept)) :
        d = [intact |-> disk.durable \cup kept, durable |-> disk.durable \cup kept,
             torn |-> bad, quarantined |-> disk.quarantined]
  BY <1>1
<1>3. QED
  BY <1>2 DEF DiskOf

-----------------------------------------------------------------------------
(* Types.                                                                  *)

LEMMA IdleTypes ==
    ASSUME CallsOK, NEW p \in Operators, pc' = [pc EXCEPT ![p] = "idle"],
           idlock' \in Operators \cup {Nobody}, wlock' \in Operators \cup {Nobody},
           UNCHANGED <<mode, job>>
    PROVE  CallsOK'
  BY DEF CallsOK, Steps, Working

LEMMA EndTypes ==
    ASSUME CallsOK, NEW p \in Operators, End(p)
    PROVE  CallsOK'
<1>1. idlock' \in Operators \cup {Nobody} /\ wlock' \in Operators \cup {Nobody}
  BY DEF CallsOK, End
<1>2. QED
  BY <1>1, IdleTypes DEF End

\* A call that goes on under its lock.
LEMMA GoesOnTypes ==
    ASSUME CallsOK, NEW p \in Operators, NEW next \in Working,
           pc' = [pc EXCEPT ![p] = next], pc[p] \in Working,
           idlock' \in Operators \cup {Nobody}, wlock' \in Operators \cup {Nobody},
           UNCHANGED <<mode, job>>
    PROVE  CallsOK'
  BY DEF CallsOK, Steps

LEMMA GotoTypes ==
    ASSUME CallsOK, NEW p \in Operators, NEW next \in Working, pc[p] \in Working,
           Goto(p, next)
    PROVE  CallsOK'
  BY GoesOnTypes DEF Goto, locks, CallsOK

LEMMA BeginTypes ==
    ASSUME CallsOK, NEW p \in Operators, NEW m \in Modes, NEW v \in Intents \cup {Absent},
           NEW next \in Steps \ {"idle"}, next # "lock" => v \in Intents,
           Begin(p, m, v, next),
           idlock' \in Operators \cup {Nobody}, wlock' \in Operators \cup {Nobody}
    PROVE  CallsOK'
<1>1. /\ pc' \in [Operators -> Steps] /\ mode' \in [Operators -> Modes]
      /\ job' \in [Operators -> Intents \cup {Absent}]
  BY DEF CallsOK, Begin
<1>2. ASSUME NEW q \in Operators, pc'[q] \in Working \cup {"repair_lock"}
      PROVE  job'[q] \in Intents
  BY <1>2 DEF CallsOK, Begin, Working
<1>3. QED
  BY <1>1, <1>2 DEF CallsOK

LEMMA FaultTypes ==
    ASSUME RestOK, UNCHANGED <<drawn, plan, bound, acked>>, Fault \/ UNCHANGED counts
    PROVE  RestOK'
  BY DEF RestOK, Fault, counts

LEMMA AfterTypes ==
    ASSUME CallsOK, NEW p \in Operators, NEW next \in Working, pc[p] \in Working,
           NEW end, After(p, end, next)
    PROVE  CallsOK' /\ (Fault \/ UNCHANGED counts)
  BY GotoTypes, EndTypes DEF After

LEMMA SyncTypes ==
    ASSUME disk \in DiskOf(Objects), disk.durable \subseteq disk.intact,
           NEW F \in SUBSET disk.intact
    PROVE  /\ SyncProtected(disk, F) \in DiskOf(Objects)
           /\ SyncProtected(disk, F).intact = disk.intact
           /\ SyncProtected(disk, F).torn = disk.torn
           /\ SyncProtected(disk, F).durable = disk.durable \cup F
  BY DEF SyncProtected, DiskOf

LEMMA NewIntentTypes ==
    ASSUME NEW op \in {"initialize", "adopt"}, NEW i \in Identities, NEW b \in Revs
    PROVE  /\ NewIntent(op, i, b) \in Intents
           /\ NewIntent(op, i, b).op = op /\ NewIntent(op, i, b).id = i
           /\ NewIntent(op, i, b).base = b /\ NewIntent(op, i, b).stage = "intent_only"
  BY DEF NewIntent, Intents

LEMMA StageTypes ==
    ASSUME NEW v \in Intents,
           NEW s \in {"identities_ready_root_pending", "complete"}
    PROVE  /\ [v EXCEPT !.stage = s] \in Intents
           /\ [v EXCEPT !.stage = s].op = v.op /\ [v EXCEPT !.stage = s].id = v.id
           /\ [v EXCEPT !.stage = s].base = v.base /\ [v EXCEPT !.stage = s].stage = s
  BY DEF Intents

LEMMA EmptyRevision == <<>> \in Revs
  BY EmptySeq DEF Revs

\* An action that touches no file.
LEMMA SameFiles ==
    ASSUME TypeOK, OneIdentity, UNCHANGED files, CallsOK', RestOK'
    PROVE  TypeOK' /\ OneIdentity'
  BY DEF TypeOK, OneIdentity, FilesOK, files

LEMMA InitializeCallTypes ==
    ASSUME TypeOK, OneIdentity, NEW p \in Operators, InitializeCall(p)
    PROVE  TypeOK' /\ OneIdentity'
<1>1. CallsOK'
  BY BeginTypes DEF TypeOK, InitializeCall, Modes, Steps, locks, CallsOK
<1>2. UNCHANGED files /\ RestOK'
  BY FaultTypes DEF TypeOK, InitializeCall
<1>3. QED
  BY <1>1, <1>2, SameFiles

LEMMA InitializeLockTypes ==
    ASSUME TypeOK, OneIdentity, NEW p \in Operators, InitializeLock(p)
    PROVE  TypeOK' /\ OneIdentity'
<1> USE DEF TypeOK, FilesOK
<1>1. UNCHANGED <<files, plan, bound, acked, counts>> /\ pc[p] = "lock" /\ idlock = Nobody
  BY DEF InitializeLock
<1>2. /\ drawn' \subseteq Identities
      /\ CallsOK'
  <2>1. ASSUME NEW i \in Identities \ drawn, drawn' = drawn \cup {i}, idlock' = p, UNCHANGED wlock,
               Begin(p, "initialize", NewIntent("initialize", i, <<>>), "intent")
        PROVE  drawn' \subseteq Identities /\ CallsOK'
    <3>1. NewIntent("initialize", i, <<>>) \in Intents
      BY EmptyRevision, NewIntentTypes
    <3>2. CallsOK'
      BY <2>1, <3>1, BeginTypes DEF Modes, Steps, Working, CallsOK
    <3>3. QED
      BY <2>1, <3>2 DEF RestOK
  <2>2. ASSUME HasIntent, Begin(p, "initialize", intent.seen, "object"), idlock' = p,
               UNCHANGED <<drawn, wlock>>
        PROVE  drawn' \subseteq Identities /\ CallsOK'
    <3>1. intent.seen \in Intents
      BY <2>2 DEF HasIntent, CellOf
    <3>2. CallsOK'
      BY <2>2, <3>1, BeginTypes DEF Modes, Steps, Working, CallsOK
    <3>3. QED
      BY <2>2, <3>2 DEF RestOK
  <2>3. ASSUME End(p), UNCHANGED drawn
        PROVE  drawn' \subseteq Identities /\ CallsOK'
    BY <2>3, EndTypes DEF RestOK
  <2>4. QED
    BY <2>1, <2>2, <2>3 DEF InitializeLock
<1>3. RestOK'
  BY <1>1, <1>2 DEF RestOK, counts
<1>4. QED
  BY <1>1, <1>2, <1>3, SameFiles

LEMMA PlanTypes ==
    ASSUME TypeOK, OneIdentity, plan_adoption
    PROVE  TypeOK' /\ OneIdentity'
<1>1. PICK i \in Identities \ drawn :
        drawn' = drawn \cup {i} /\ plan' = plan \cup {[id |-> i, base |-> current.seen]}
  BY DEF plan_adoption
<1>2. UNCHANGED <<files, calls, locks, bound, acked, counts>>
  BY DEF plan_adoption
<1>3. RestOK'
  BY <1>1, <1>2 DEF TypeOK, FilesOK, RestOK, CellOf, counts
<1>4. CallsOK'
  BY <1>2 DEF TypeOK, CallsOK, calls, locks
<1>5. QED
  BY <1>2, <1>3, <1>4, SameFiles

LEMMA AdoptTypes ==
    ASSUME TypeOK, OneIdentity, NEW p \in Operators, Adopt(p)
    PROVE  TypeOK' /\ OneIdentity'
<1>1. PICK q \in plan :
        \/ Begin(p, "adopt", NewIntent("adopt", q.id, q.base), "intent")
        \/ HasIntent /\ Begin(p, "adopt", intent.seen, "object")
  BY DEF Adopt
<1>2. idlock' = p /\ wlock' = p /\ UNCHANGED <<files, drawn, plan, bound, acked, counts>>
  BY DEF Adopt
<1>3. NewIntent("adopt", q.id, q.base) \in Intents
  BY NewIntentTypes DEF TypeOK, RestOK
<1>4. HasIntent => intent.seen \in Intents
  BY DEF HasIntent, TypeOK, FilesOK, CellOf
<1>5. CallsOK'
  BY <1>1, <1>2, <1>3, <1>4, BeginTypes DEF Modes, Steps, Working, TypeOK
<1>6. QED
  BY <1>2, <1>5, FaultTypes, SameFiles DEF TypeOK

LEMMA RepairCallTypes ==
    ASSUME TypeOK, OneIdentity, NEW p \in Operators, RepairCall(p)
    PROVE  TypeOK' /\ OneIdentity'
<1>1. intent.seen \in Intents
  BY DEF RepairCall, HasIntent, TypeOK, FilesOK, CellOf
<1>2. CallsOK'
  BY <1>1, BeginTypes DEF TypeOK, RepairCall, Modes, Steps, locks, CallsOK
<1>3. QED
  BY <1>2, FaultTypes, SameFiles DEF TypeOK, RepairCall

LEMMA RepairLockTypes ==
    ASSUME TypeOK, OneIdentity, NEW p \in Operators, RepairLock(p)
    PROVE  TypeOK' /\ OneIdentity'
<1>1. CallsOK'
  <2>1. CASE intent.seen = job[p]
    BY <2>1 DEF RepairLock, TypeOK, CallsOK, Steps, Working
  <2>2. CASE intent.seen # job[p]
    BY <2>2, EndTypes DEF RepairLock, TypeOK
  <2>3. QED
    BY <2>1, <2>2
<1>2. QED
  BY <1>1, FaultTypes, SameFiles DEF TypeOK, RepairLock

\* One object more keeps the identity apart, since create or match refuses a rival.
LEMMA WriteTypes ==
    ASSUME TypeOK, OneIdentity, NEW p \in Operators, NEW o \in Objects, pc[p] \in Working,
           NEW next \in Working, Write(p, o, next)
    PROVE  TypeOK' /\ OneIdentity'
<1>1. PICK r \in CreateOrMatch(o) : disk' = r.disk /\ After(p, r.end, next)
  BY DEF Write
<1>2. UNCHANGED <<intent, current, drawn, plan, bound, acked>>
  BY DEF Write
<1>3. /\ Adds(disk, o, r)
      /\ o \in r.disk.intact /\ o \notin disk.intact => Rivals(o) \cap disk.intact = {}
  BY CreateOrMatchEffect DEF TypeOK, FilesOK
<1>4. FilesOK'
  BY <1>1, <1>2, <1>3 DEF TypeOK, FilesOK, Adds
<1>5. CallsOK' /\ RestOK'
  BY <1>1, <1>2, AfterTypes, FaultTypes DEF TypeOK
<1>6. OneIdentity'
  <2> SUFFICES ASSUME NEW i \in Identities, NEW j \in Identities,
                      Store(i) \in disk'.intact, Store(j) \in disk'.intact, i # j
               PROVE  FALSE
    BY DEF OneIdentity
  <2>1. \A k \in Identities : Store(k) \in disk'.intact => Store(k) \in disk.intact \/ o = Store(k)
    BY <1>1, <1>3 DEF Adds
  <2>2. \A k, l \in Identities :
          o = Store(k) /\ l # k => Store(l) \in Rivals(o) /\ o # Store(l)
    BY DEF Rivals, Store
  <2>3. CASE Store(i) \in disk.intact /\ Store(j) \in disk.intact
    BY <2>3 DEF OneIdentity
  <2>4. CASE o = Store(i) /\ o \notin disk.intact
    BY <2>1, <2>2, <2>4, <1>1, <1>3
  <2>5. CASE o = Store(j) /\ o \notin disk.intact
    BY <2>1, <2>2, <2>5, <1>1, <1>3
  <2>6. QED
    BY <2>1, <2>3, <2>4, <2>5
<1>7. QED
  BY <1>4, <1>5, <1>6 DEF TypeOK

LEMMA JobTypes ==
    ASSUME TypeOK, NEW p \in Operators, pc[p] \in Working
    PROVE  /\ job[p] \in Intents /\ job[p].id \in Identities
           /\ job[p].stage \in {"intent_only", "identities_ready_root_pending", "complete"}
           /\ mode[p] \in Modes
  BY DEF TypeOK, CallsOK, Intents

LEMMA WriteCoreTypes ==
    ASSUME TypeOK, OneIdentity, NEW p \in Operators, WriteCore(p)
    PROVE  TypeOK' /\ OneIdentity'
<1>1. pc[p] \in Working
  BY DEF WriteCore, Working
<1>2. AfterCore[job[p].stage] \in Working
  BY <1>1, JobTypes DEF AfterCore, Working
<1>3. Core(job[p].id) \in Objects
  BY <1>1, JobTypes, ObjectFields DEF Protected
<1>4. QED
  BY <1>1, <1>2, <1>3, WriteTypes DEF WriteCore

LEMMA WriteIdentitiesTypes ==
    ASSUME TypeOK, OneIdentity, NEW p \in Operators, WriteIdentities(p)
    PROVE  TypeOK' /\ OneIdentity'
<1>1. pc[p] \in Working
  BY DEF WriteIdentities, Working
<1>2. AfterIdentities[mode[p]] \in Working
  BY <1>1, JobTypes DEF AfterIdentities, Working, Modes
<1>3. /\ Object(job[p].id) \in Objects /\ Store(job[p].id) \in Objects
      /\ Project(job[p].id) \in Objects
  BY <1>1, JobTypes, ObjectFields DEF Protected
<1>4. {"store", "project"} \subseteq Working
  BY DEF Working
<1>5. QED
  BY <1>1, <1>2, <1>3, <1>4, WriteTypes DEF WriteIdentities

LEMMA WriteReceiptTypes ==
    ASSUME TypeOK, OneIdentity, NEW p \in Operators, WriteReceipt(p)
    PROVE  TypeOK' /\ OneIdentity'
<1>1. pc[p] \in Working /\ "complete" \in Working
  BY DEF WriteReceipt, Working
<1>2. \A again \in BOOLEAN :
        Receipt(mode[p], job[p].id, current.seen, again) \in Objects
  BY <1>1, JobTypes, ObjectFields DEF TypeOK, FilesOK, CellOf
<1>3. QED
  BY <1>1, <1>2, WriteTypes DEF WriteReceipt

LEMMA WriteRootTypes ==
    ASSUME TypeOK, OneIdentity, NEW p \in Operators, WriteRoot(p)
    PROVE  TypeOK' /\ OneIdentity'
<1> DEFINE o == Root(job[p].id)
<1>1. pc[p] \in Working /\ "replace" \in Working /\ pc[p] = "candidate"
  BY DEF WriteRoot, Working
<1>2. o \in Objects /\ \A i \in Identities : o # Store(i)
  BY <1>1, JobTypes, ObjectFields DEF Root, Store
<1>3. PICK r \in WriteImmutable(disk, o) :
        /\ disk' = IF r.end = "ok" THEN SyncProtected(r.disk, {o}) ELSE r.disk
        /\ After(p, r.end, "replace")
  BY DEF WriteRoot
<1>4. UNCHANGED <<intent, current, drawn, plan, bound, acked>>
  BY DEF WriteRoot
<1> HIDE DEF o
<1>5. Adds(disk, o, r)
  BY <1>2, WriteImmutableEffect DEF TypeOK, FilesOK
<1>6. /\ disk' \in DiskOf(Objects) /\ disk'.durable \subseteq disk'.intact
      /\ disk'.intact \subseteq disk.intact \cup {o}
  BY <1>2, <1>3, <1>5 DEF Adds, SyncProtected, DiskOf
<1>7. FilesOK'
  BY <1>4, <1>6 DEF TypeOK, FilesOK
<1>8. CallsOK' /\ RestOK'
  BY <1>1, <1>3, <1>4, AfterTypes, FaultTypes DEF TypeOK
<1>9. OneIdentity'
  BY <1>2, <1>6 DEF OneIdentity
<1>10. QED
  BY <1>7, <1>8, <1>9 DEF TypeOK

\* The create or the replacement of the intent.
LEMMA PublishEffect ==
    ASSUME FilesOK, NEW v \in Intents,
           NEW r \in (IF intent.seen = Absent THEN CreateIntent(v) ELSE AtomicWrite(intent, v))
    PROVE  /\ r.cell \in CellOf(Intents \cup {Absent, Torn}) /\ r.end \in {"ok", "oserror"}
           /\ \/ r.cell = intent
              \/ r.cell.seen = v /\ r.cell.safe \in {intent.safe, v}
              \/ intent.seen = Absent /\ r.cell.seen = Torn /\ r.cell.safe = intent.safe
           /\ r.end = "ok" => r.cell = Cell(v)
<1>1. CASE intent.seen = Absent
  <2>1. r \in CreateIntent(v)
    BY <1>1
  <2>2. CASE r = [cell |-> [intent EXCEPT !.seen = Torn], end |-> "oserror"]
    BY <1>1, <2>2 DEF FilesOK, CellOf
  <2>3. CASE r = [cell |-> [intent EXCEPT !.seen = v], end |-> "oserror"]
    BY <2>3 DEF FilesOK, CellOf
  <2>4. CASE r = [cell |-> Cell(v), end |-> "ok"]
    BY <2>4 DEF Cell, CellOf
  <2>5. CASE r = [cell |-> intent, end |-> "oserror"]
    BY <2>5 DEF FilesOK
  <2>6. QED
    BY <2>1, <2>2, <2>3, <2>4, <2>5 DEF CreateIntent
<1>2. CASE intent.seen # Absent
  BY <1>2, AtomicWriteEffect DEF FilesOK
<1>3. QED
  BY <1>1, <1>2

LEMMA PublishTypes ==
    ASSUME TypeOK, OneIdentity, NEW p \in Operators, pc[p] \in Working,
           NEW v \in Intents, PublishAs(p, v)
    PROVE  TypeOK' /\ OneIdentity'
<1>1. PICK r \in (IF intent.seen = Absent THEN CreateIntent(v) ELSE AtomicWrite(intent, v)) :
        /\ intent' = r.cell
        /\ IF r.end = "ok"
           THEN /\ job' = [job EXCEPT ![p] = v]
                /\ pc' = [pc EXCEPT ![p] = "core"]
                /\ UNCHANGED <<mode, locks, counts>>
           ELSE End(p) /\ Fault
  BY DEF PublishAs
<1>2. UNCHANGED <<disk, current, drawn, plan, bound, acked>>
  BY DEF PublishAs
<1>3. r.cell \in CellOf(Intents \cup {Absent, Torn})
  BY PublishEffect DEF TypeOK
<1>4. FilesOK'
  BY <1>1, <1>2, <1>3 DEF TypeOK, FilesOK
<1>5. CallsOK'
  <2>1. CASE r.end = "ok"
    BY <1>1, <2>1 DEF TypeOK, CallsOK, locks, Steps, Working
  <2>2. CASE r.end # "ok"
    BY <1>1, <2>2, EndTypes DEF TypeOK
  <2>3. QED
    BY <2>1, <2>2
<1>6. Fault \/ UNCHANGED counts
  BY <1>1
<1>7. RestOK'
  BY <1>2, <1>6, FaultTypes DEF TypeOK
<1>8. OneIdentity'
  BY <1>2 DEF OneIdentity
<1>9. QED
  BY <1>4, <1>5, <1>7, <1>8 DEF TypeOK

LEMMA PublishIntentTypes ==
    ASSUME TypeOK, OneIdentity, NEW p \in Operators, PublishIntent(p)
    PROVE  TypeOK' /\ OneIdentity'
<1>1. pc[p] \in Working
  BY DEF PublishIntent, Working
<1>2. job[p] \in Intents
  BY <1>1, JobTypes
<1>3. /\ [job[p] EXCEPT !.stage = "identities_ready_root_pending"] \in Intents
      /\ [job[p] EXCEPT !.stage = "complete"] \in Intents
  BY <1>2, StageTypes
<1>4. QED
  BY <1>1, <1>2, <1>3, PublishTypes DEF PublishIntent

LEMMA TakeWriteLockTypes ==
    ASSUME TypeOK, OneIdentity, NEW p \in Operators, TakeWriteLock(p)
    PROVE  TypeOK' /\ OneIdentity'
<1>1. UNCHANGED <<files, drawn, plan, bound, acked, counts>> /\ pc[p] = "root"
  BY DEF TakeWriteLock
<1>2. ASSUME NEW next \in {"sync", "candidate"}, wlock' = p, pc' = [pc EXCEPT ![p] = next],
             UNCHANGED <<mode, job, idlock>>
      PROVE  CallsOK'
  BY <1>1, <1>2, GoesOnTypes DEF TypeOK, CallsOK, Working
<1>3. CallsOK'
  BY <1>2, EndTypes DEF TakeWriteLock, TypeOK
<1>4. QED
  BY <1>1, <1>3, FaultTypes, SameFiles DEF TypeOK

LEMMA ReplaceCurrentTypes ==
    ASSUME TypeOK, OneIdentity, NEW p \in Operators, ReplaceCurrent(p)
    PROVE  TypeOK' /\ OneIdentity'
<1>1. pc[p] \in Working /\ "sync" \in Working
  BY DEF ReplaceCurrent, Working
<1>2. PICK r \in AtomicWrite(current, <<job[p].id>>) :
        /\ current' = r.cell
        /\ After(p, r.end, "sync") \/ (Goto(p, "sync") /\ Fault)
  BY DEF ReplaceCurrent
<1>3. UNCHANGED <<intent, disk, drawn, plan, bound, acked>>
  BY DEF ReplaceCurrent
<1>4. <<job[p].id>> \in Revs
  BY <1>1, JobTypes DEF Revs
<1>5. FilesOK'
  BY <1>2, <1>3, <1>4, AtomicWriteEffect DEF TypeOK, FilesOK
<1>6. CallsOK' /\ (Fault \/ UNCHANGED counts)
  BY <1>1, <1>2, AfterTypes, GotoTypes DEF TypeOK
<1>7. RestOK' /\ OneIdentity'
  BY <1>3, <1>6, FaultTypes DEF TypeOK, OneIdentity
<1>8. QED
  BY <1>5, <1>6, <1>7 DEF TypeOK

LEMMA SyncStepTypes ==
    ASSUME TypeOK, OneIdentity, NEW p \in Operators, Sync(p)
    PROVE  TypeOK' /\ OneIdentity'
<1>1. pc[p] \in Working /\ "receipt" \in Working
  BY DEF Sync, Working
<1>2. UNCHANGED <<intent, drawn, plan, bound, acked>>
  BY DEF Sync
<1>3. CASE /\ CanSync(disk, Protected(job[p].id))
           /\ disk' = SyncProtected(disk, Protected(job[p].id))
           /\ current' = Cell(current.seen)
           /\ Goto(p, "receipt") /\ UNCHANGED counts
  <2>1. /\ disk' \in DiskOf(Objects) /\ disk'.intact = disk.intact
        /\ disk'.durable = disk.durable \cup Protected(job[p].id)
    BY <1>3, SyncTypes DEF CanSync, TypeOK, FilesOK
  <2>2. FilesOK'
    BY <1>2, <1>3, <2>1 DEF TypeOK, FilesOK, CanSync, Cell, CellOf
  <2>3. CallsOK' /\ RestOK' /\ OneIdentity'
    BY <1>1, <1>2, <1>3, <2>1, GotoTypes, FaultTypes DEF TypeOK, OneIdentity
  <2>4. QED
    BY <2>2, <2>3 DEF TypeOK
<1>4. CASE End(p) /\ Fault /\ UNCHANGED <<disk, current>>
  BY <1>2, <1>4, EndTypes, FaultTypes, SameFiles DEF TypeOK, files
<1>5. QED
  BY <1>3, <1>4 DEF Sync

LEMMA ReturnTypes ==
    ASSUME TypeOK, OneIdentity, NEW p \in Operators, Return(p) \/ Die(p)
    PROVE  TypeOK' /\ OneIdentity'
<1>1. CallsOK' /\ UNCHANGED <<files, drawn, plan, bound, counts>>
  BY EndTypes DEF TypeOK, Return, Die
<1>2. acked' = acked \/ (pc[p] = "return" /\ acked' = acked \cup {job[p].id})
  BY DEF Return, Die
<1>3. acked' \subseteq Identities
  BY <1>2, JobTypes DEF TypeOK, RestOK, Working
<1>4. RestOK'
  BY <1>1, <1>3 DEF TypeOK, RestOK, counts
<1>5. QED
  BY <1>1, <1>4, SameFiles

LEMMA PreflightTypes ==
    ASSUME TypeOK, OneIdentity, NEW w \in Writers, Preflight(w)
    PROVE  TypeOK' /\ OneIdentity'
<1>1. PICK i \in Identities : bound' = [bound EXCEPT ![w] = i]
  BY DEF Preflight
<1>2. UNCHANGED <<files, drawn, plan, locks, calls, acked, counts>>
  BY DEF Preflight
<1>3. CallsOK' /\ RestOK'
  BY <1>1, <1>2 DEF TypeOK, CallsOK, RestOK, locks, calls, counts
<1>4. QED
  BY <1>2, <1>3, SameFiles

\* assert_unchanged lets only a bound revision through.
LEMMA CommitEffect ==
    ASSUME TypeOK, NEW w \in Writers, Commit(w)
    PROVE  \/ UNCHANGED current
           \/ /\ Unchanged(bound[w]) /\ bound[w] \in Identities /\ wlock = Nobody
              /\ current' = Cell(Append(current.seen, bound[w]))
              /\ Append(current.seen, bound[w]) \in Revs
<1>1. bound[w] \in Identities
  BY DEF Commit, TypeOK, RestOK
<1>2. Append(current.seen, bound[w]) \in Revs
  BY <1>1 DEF TypeOK, FilesOK, CellOf, Revs
<1>3. QED
  BY <1>1, <1>2 DEF Commit

LEMMA CommitTypes ==
    ASSUME TypeOK, OneIdentity, NEW w \in Writers, Commit(w)
    PROVE  TypeOK' /\ OneIdentity'
<1>1. UNCHANGED <<intent, disk, drawn, plan, locks, calls, acked, counts>>
  BY DEF Commit
<1>2. current' \in CellOf(Revs)
  <2>1. current \in CellOf(Revs) /\ \A v \in Revs : Cell(v) \in CellOf(Revs)
    BY DEF TypeOK, FilesOK, Cell, CellOf
  <2>2. QED
    BY <2>1, CommitEffect
<1>3. FilesOK' /\ OneIdentity'
  BY <1>1, <1>2 DEF TypeOK, FilesOK, OneIdentity
<1>4. bound' \in [Writers -> Identities \cup {Nobody}]
  BY DEF Commit, TypeOK, RestOK
<1>5. CallsOK' /\ RestOK'
  BY <1>1, <1>4 DEF TypeOK, CallsOK, RestOK, locks, calls, counts
<1>6. QED
  BY <1>3, <1>5 DEF TypeOK

LEMMA PowerLossTypes ==
    ASSUME TypeOK, OneIdentity, PowerLoss
    PROVE  TypeOK' /\ OneIdentity'
<1>1. /\ disk' \in DiskOf(Objects) /\ disk'.durable = disk'.intact
      /\ disk'.intact \subseteq disk.intact
  BY PowerLossEffect DEF PowerLoss, TypeOK, FilesOK
<1>2. intent' \in CellOf(Intents \cup {Absent, Torn}) /\ current' \in CellOf(Revs)
  BY DEF PowerLoss, IntentsAfterPowerLoss, CellsAfterPowerLoss, Cell, CellOf, TypeOK, FilesOK
<1>3. FilesOK' /\ OneIdentity'
  BY <1>1, <1>2 DEF FilesOK, OneIdentity
<1>4. CallsOK'
  BY DEF PowerLoss, TypeOK, CallsOK, Steps, Working
<1>5. RestOK'
  BY DEF PowerLoss, TypeOK, RestOK
<1>6. QED
  BY <1>3, <1>4, <1>5 DEF TypeOK

LEMMA InitTypes == Init => TypeOK /\ OneIdentity
<1> SUFFICES ASSUME Init PROVE TypeOK /\ OneIdentity
  OBVIOUS
<1>1. <<Unlinked>> \in Revs /\ <<>> \in Revs
  BY EmptyRevision DEF Revs
<1>2. FilesOK /\ OneIdentity
  BY <1>1, QuotaAssumption DEF Init, FilesOK, OneIdentity, Cell, CellOf, EmptyDisk, DiskOf
<1>3. CallsOK /\ RestOK
  BY DEF Init, CallsOK, RestOK, Steps, Working, Modes
<1>4. QED
  BY <1>2, <1>3 DEF TypeOK

LEMMA NextTypes ==
    ASSUME TypeOK, OneIdentity, [Next]_vars
    PROVE  TypeOK' /\ OneIdentity'
<1>1. ASSUME NEW p \in Operators, Step(p)
      PROVE  TypeOK' /\ OneIdentity'
  BY <1>1, InitializeCallTypes, InitializeLockTypes, AdoptTypes, RepairCallTypes,
     RepairLockTypes, PublishIntentTypes, WriteCoreTypes, WriteIdentitiesTypes,
     TakeWriteLockTypes, WriteRootTypes, ReplaceCurrentTypes, SyncStepTypes,
     WriteReceiptTypes, ReturnTypes DEF Step
<1>2. ASSUME NEW w \in Writers, Preflight(w) \/ Commit(w)
      PROVE  TypeOK' /\ OneIdentity'
  BY <1>2, PreflightTypes, CommitTypes
<1>3. CASE plan_adoption
  BY <1>3, PlanTypes
<1>4. CASE PowerLoss
  BY <1>4, PowerLossTypes
<1>5. CASE UNCHANGED vars
  <2>1. CallsOK' /\ RestOK'
    BY <1>5 DEF vars, TypeOK, CallsOK, RestOK
  <2>2. QED
    BY <1>5, <2>1, SameFiles DEF vars, files
<1>6. QED
  BY <1>1, <1>2, <1>3, <1>4, <1>5 DEF Next

\* However many writes fail, the files of two identities are never there
\* together: _write_create_or_match refuses a file with other bytes, whoever
\* races whom.
THEOREM IdentityTypes == Spec => [](TypeOK /\ OneIdentity)
  BY InitTypes, NextTypes, PTL DEF Spec

-----------------------------------------------------------------------------
(* The store has one identity for good.                                    *)

\* What a write of the identity or of a receipt does.
LEMMA WriteEffect ==
    ASSUME TypeOK, NEW p \in Operators, NEW o \in Objects, NEW next, Write(p, o, next)
    PROVE  \E r \in CreateOrMatch(o) :
             disk' = r.disk /\ After(p, r.end, next) /\ Adds(disk, o, r)
<1>1. PICK r \in CreateOrMatch(o) : disk' = r.disk /\ After(p, r.end, next)
  BY DEF Write
<1>2. Adds(disk, o, r)
  BY CreateOrMatchEffect DEF TypeOK, FilesOK
<1>3. QED
  BY <1>1, <1>2

\* The object that a step writes.
LEMMA WrittenObject ==
    ASSUME TypeOK, NEW p \in Operators,
           WriteCore(p) \/ WriteIdentities(p) \/ WriteReceipt(p)
    PROVE  /\ pc[p] \in Working
           /\ \E o \in Objects, next \in Working : o[2] = job[p].id /\ Write(p, o, next)
<1>1. pc[p] \in Working /\ {"store", "project", "complete"} \subseteq Working
  BY DEF WriteCore, WriteIdentities, WriteReceipt, Working
<1>2. /\ job[p].id \in Identities /\ AfterCore[job[p].stage] \in Working
      /\ AfterIdentities[mode[p]] \in Working /\ mode[p] \in Modes
  BY <1>1, JobTypes DEF AfterCore, AfterIdentities, Working, Modes
<1>3. /\ Protected(job[p].id) \subseteq Objects
      /\ \A again \in BOOLEAN : Receipt(mode[p], job[p].id, current.seen, again) \in Objects
  BY <1>2, ObjectFields DEF TypeOK, FilesOK, CellOf
<1>4. CASE WriteCore(p)
  <2>1. Core(job[p].id) \in Objects /\ Core(job[p].id)[2] = job[p].id
    BY <1>2, <1>3, ObjectNames
  <2>2. Write(p, Core(job[p].id), AfterCore[job[p].stage])
    BY <1>4 DEF WriteCore
  <2>3. QED
    BY <1>1, <1>2, <2>1, <2>2
<1>5. CASE WriteIdentities(p)
  <2> DEFINE i == job[p].id
  <2>1. \A o \in Protected(i) : o \in Objects
    BY <1>3
  <2>2. /\ Object(i) \in Objects /\ Object(i)[2] = i
        /\ Store(i) \in Objects /\ Store(i)[2] = i
        /\ Project(i) \in Objects /\ Project(i)[2] = i
    BY <1>2, <2>1, ObjectNames
  <2>3. \/ Write(p, Object(i), "store") \/ Write(p, Store(i), "project")
        \/ Write(p, Project(i), AfterIdentities[mode[p]])
    BY <1>5 DEF WriteIdentities
  <2>4. QED
    BY <1>1, <1>2, <2>2, <2>3
<1>6. CASE WriteReceipt(p)
  <2> DEFINE o == Receipt(mode[p], job[p].id, current.seen,
                          ValidReceipts(job[p], current.seen) # {})
  <2>1. Write(p, o, "complete")
    BY <1>6 DEF WriteReceipt
  <2>2. o \in Objects
    BY <1>3
  <2>3. o[2] = job[p].id
    BY DEF Receipt
  <2> HIDE DEF o
  <2>4. QED
    BY <1>1, <2>1, <2>2, <2>3
<1>7. QED
  BY <1>1, <1>4, <1>5, <1>6

LEMMA RootEffect ==
    ASSUME TypeOK, NEW p \in Operators, WriteRoot(p)
    PROVE  \E r \in WriteImmutable(disk, Root(job[p].id)) :
             /\ Adds(disk, Root(job[p].id), r) /\ After(p, r.end, "replace")
             /\ disk'.intact = r.disk.intact /\ disk'.torn = r.disk.torn
             /\ r.end # "ok" => disk'.durable = r.disk.durable
             /\ r.end = "ok" => disk'.durable = r.disk.durable \cup {Root(job[p].id)}
<1> DEFINE o == Root(job[p].id)
<1>1. o \in Objects
  BY JobTypes, ObjectFields DEF WriteRoot, Working
<1>2. PICK r \in WriteImmutable(disk, o) :
        /\ disk' = IF r.end = "ok" THEN SyncProtected(r.disk, {o}) ELSE r.disk
        /\ After(p, r.end, "replace")
  BY DEF WriteRoot
<1> HIDE DEF o
<1>3. Adds(disk, o, r)
  BY <1>1, WriteImmutableEffect DEF TypeOK, FilesOK
<1>4. /\ disk'.intact = r.disk.intact /\ disk'.torn = r.disk.torn
      /\ r.end # "ok" => disk'.durable = r.disk.durable
      /\ r.end = "ok" => disk'.durable = r.disk.durable \cup {o}
  BY <1>2, <1>3 DEF Adds, SyncProtected, DiskOf
<1>5. QED
  BY <1>2, <1>3, <1>4 DEF o

\* The only steps that change the objects.
LEMMA DiskSteps ==
    ASSUME [Next]_vars
    PROVE  \/ UNCHANGED disk
           \/ \E p \in Operators : WriteCore(p) \/ WriteIdentities(p) \/ WriteReceipt(p)
           \/ \E p \in Operators : WriteRoot(p) \/ Sync(p)
           \/ PowerLoss
<1>1. ASSUME NEW p \in Operators, Step(p), ~WriteCore(p), ~WriteIdentities(p),
             ~WriteReceipt(p), ~WriteRoot(p), ~Sync(p)
      PROVE  UNCHANGED disk
  BY <1>1 DEF Step, InitializeCall, InitializeLock, Adopt, RepairCall, RepairLock,
     PublishIntent, PublishAs, TakeWriteLock, ReplaceCurrent, Return, Die, files
<1>2. ASSUME NEW w \in Writers, Preflight(w) \/ Commit(w)
      PROVE  UNCHANGED disk
  BY <1>2 DEF Preflight, Commit, files
<1>3. plan_adoption \/ UNCHANGED vars => UNCHANGED disk
  BY DEF plan_adoption, vars, files
<1>4. QED
  BY <1>1, <1>2, <1>3 DEF Next

\* What is on the medium stays there.
LEMMA DurableStays ==
    ASSUME TypeOK, [Next]_vars
    PROVE  disk.durable \subseteq disk'.durable
<1>1. ASSUME NEW p \in Operators, WriteCore(p) \/ WriteIdentities(p) \/ WriteReceipt(p)
      PROVE  disk.durable \subseteq disk'.durable
  BY <1>1, WrittenObject, WriteEffect DEF Adds
<1>2. ASSUME NEW p \in Operators, WriteRoot(p)
      PROVE  disk.durable \subseteq disk'.durable
  BY <1>2, RootEffect DEF Adds
<1>3. ASSUME NEW p \in Operators, Sync(p)
      PROVE  disk.durable \subseteq disk'.durable
  BY <1>3, SyncTypes DEF Sync, CanSync, TypeOK, FilesOK
<1>4. ASSUME PowerLoss
      PROVE  disk.durable \subseteq disk'.durable
  BY <1>4, PowerLossEffect DEF PowerLoss, TypeOK, FilesOK
<1>5. QED
  BY <1>1, <1>2, <1>3, <1>4, DiskSteps

\* Once identity.json is on the medium the store has that identity for good:
\* no race, failed write, retry or power loss assigns a second one or takes
\* the first one back.
THEOREM OneIdentityForGood == Spec => ImplementsAssignment
<1> DEFINE on == {i \in Identities : Store(i) \in disk.durable}
<1>1. Init => A!AssignmentInit
  BY DEF Init, EmptyDisk, A!AssignmentInit
<1>2. ASSUME TypeOK, OneIdentity, TypeOK', OneIdentity', [Next]_vars
      PROVE  [\E v \in Identities : A!Assign(v)]_on
  <2>1. disk.durable \subseteq disk'.durable
    BY <1>2, DurableStays
  <2>2. \A i, j \in Identities :
          Store(i) \in disk'.durable /\ Store(j) \in disk'.durable => i = j
    BY <1>2 DEF TypeOK, FilesOK, OneIdentity
  <2>3. on \subseteq on' /\ \A i, j \in on' : i = j
    BY <2>1, <2>2
  <2>4. on' \subseteq Identities
    OBVIOUS
  <2>5. CASE on' = on
    BY <2>5
  <2>6. CASE on' # on
    <3>1. PICK v \in Identities : v \in on' /\ v \notin on
      BY <2>3, <2>6
    <3>2. on' = {v} /\ on = {}
      BY <2>3, <3>1
    <3>3. A!Assign(v)
      BY <3>2 DEF A!Assign
    <3>4. QED
      BY <3>1, <3>3
  <2>7. QED
    BY <2>5, <2>6
<1>3. QED
  BY <1>1, <1>2, IdentityTypes, PTL DEF Spec, ImplementsAssignment, A!AssignmentSpec

-----------------------------------------------------------------------------
(* What stays from step to step.                                           *)

\* What is on the medium, drawn, or a store from before identities, stays so.
Grows ==
  /\ disk.durable \subseteq disk'.durable /\ drawn \subseteq drawn'
  /\ Legacy' <=> Legacy

LEMMA CertifiedStays ==
    ASSUME disk.durable \subseteq disk'.durable, NEW i, Certified(i)
    PROVE  Certified(i)'
  BY DEF Certified

LEMMA ForeignStays ==
    ASSUME disk.durable \subseteq disk'.durable, NEW i, Foreign(i)
    PROVE  Foreign(i)'
  BY DEF Foreign

LEMMA ShapeStays ==
    ASSUME Grows, NEW v, IntentShape(v)
    PROVE  IntentShape(v)'
<1>1. v.stage = "complete" => Certified(v.id)'
  BY CertifiedStays DEF Grows, IntentShape
<1>2. QED
  BY <1>1 DEF Grows, IntentShape

LEMMA SeenTypes ==
    ASSUME TypeOK
    PROVE  /\ current.seen \in Seq(Identities \cup {Unlinked}) /\ Len(current.seen) \in Nat
           /\ current.safe \in Seq(Identities \cup {Unlinked}) /\ Len(current.safe) \in Nat
           /\ \A k \in 1..Len(current.seen) : current.seen[k] \in Identities \cup {Unlinked}
           /\ \A v \in Revs : v \in Seq(Identities \cup {Unlinked}) /\ Len(v) \in Nat
           /\ \A v \in Revs : v # <<>> <=> Len(v) >= 1
  BY EmptySeq DEF TypeOK, FilesOK, CellOf, Revs

LEMMA PrefixTransitive ==
    ASSUME NEW s \in Revs, NEW t \in Revs, NEW u \in Revs, Prefix(s, t), Prefix(t, u)
    PROVE  Prefix(s, u)
  BY DEF Prefix, Revs

LEMMA PrefixReflexive ==
    ASSUME NEW s \in Revs
    PROVE  Prefix(s, s)
  BY DEF Prefix, Revs

LEMMA SingleElement ==
    ASSUME NEW s \in Revs, Len(s) = 1
    PROVE  s = <<s[1]>>
<1>1. PICK S : S = Identities \cup {Unlinked}
  OBVIOUS
<1>2. s \in Seq(S)
  BY <1>1 DEF Revs
<1>3. DOMAIN s = 1..1 /\ s \in [1..1 -> S]
  BY <1>2
<1>4. QED
  BY <1>2, <1>3

LEMMA OneRevision == \A x : <<x>> # <<>> /\ Len(<<x>>) = 1 /\ <<x>>[1] = x
<1> SUFFICES ASSUME NEW x PROVE <<x>> # <<>> /\ Len(<<x>>) = 1 /\ <<x>>[1] = x
  OBVIOUS
<1>1. PICK s : s = <<x>>
  OBVIOUS
<1>2. s # <<>> /\ Len(s) = 1 /\ s[1] = x
  BY <1>1
<1>3. QED
  BY <1>1, <1>2

\* validate_bound_descendants, read as what it says of each revision.
LEMMA BoundSinceRevisions ==
    ASSUME NEW s \in Revs, NEW b \in Revs, NEW i, NEW legacy \in BOOLEAN
    PROVE  BoundSince(s, b, i, legacy) <=>
             /\ b # <<>> /\ Prefix(b, s)
             /\ \A k \in Len(b) + 1 .. Len(s) : s[k] = i
             /\ b[Len(b)] = i \/ (legacy /\ b[Len(b)] = Unlinked)
<1>1. PICK S : S = Identities \cup {Unlinked}
  OBVIOUS
<1>2. s \in Seq(S) /\ b \in Seq(S) /\ Len(s) \in Nat /\ Len(b) \in Nat
  BY <1>1 DEF Revs
<1>3. ASSUME Len(b) <= Len(s)
      PROVE  SubSeq(s, 1, Len(b)) = b <=> \A k \in 1..Len(b) : b[k] = s[k]
  <2>1. PICK n \in Nat : n = Len(b)
    BY <1>2
  <2>2. PICK t : t = SubSeq(s, 1, n)
    OBVIOUS
  <2>3. \A k \in 1..n : s[k] \in S
    BY <1>2, <1>3, <2>1
  <2>4. 1 \in Int /\ n \in Int /\ n - 1 + 1 = n /\ (1 > n => n = 0)
    BY <2>1
  <2>5. /\ t \in Seq(S) /\ Len(t) = IF 1 <= n THEN n - 1 + 1 ELSE 0
        /\ \A k \in 1..(n - 1 + 1) : t[k] = s[1 + k - 1]
    <3>1. /\ SubSeq(s, 1, n) \in Seq(S)
          /\ Len(SubSeq(s, 1, n)) = IF 1 <= n THEN n - 1 + 1 ELSE 0
          /\ \A k \in 1..(n - 1 + 1) : SubSeq(s, 1, n)[k] = s[1 + k - 1]
      <4>1. PICK one \in Int : one = 1
        OBVIOUS
      <4>2. \A k \in one..n : s[k] \in S
        BY <2>3, <4>1
      <4>3. /\ SubSeq(s, one, n) \in Seq(S)
            /\ Len(SubSeq(s, one, n)) = IF one <= n THEN n - one + 1 ELSE 0
            /\ \A k \in 1..(n - one + 1) : SubSeq(s, one, n)[k] = s[one + k - 1]
        BY <2>4, <4>1, <4>2, SubSeqProperties, SMT
      <4>4. QED
        BY <4>1, <4>3, Zenon
    <3>2. QED
      BY <2>2, <3>1, Zenon
  <2>6. Len(t) = n /\ \A k \in 1..n : t[k] = s[k]
    BY <2>4, <2>5
  <2>7. t = b <=> \A k \in 1..n : b[k] = t[k]
    BY <1>2, <2>1, <2>5, <2>6
  <2>8. QED
    BY <2>1, <2>2, <2>6, <2>7
<1>4. QED
  BY <1>2, <1>3 DEF BoundSince, Prefix

\* One revision, and then those of an identity.
LEMMA BoundSinceFirst ==
    ASSUME NEW s \in Revs, NEW x \in Identities \cup {Unlinked}, NEW i,
           NEW legacy \in BOOLEAN, BoundSince(s, <<x>>, i, legacy)
    PROVE  /\ s # <<>> /\ \A k \in 2..Len(s) : s[k] = i
           /\ s = <<x>> \/ s[Len(s)] = i
<1>1. PICK b : b = <<x>>
  OBVIOUS
<1>2. b \in Revs /\ Len(b) = 1 /\ b[1] = x
  BY <1>1 DEF Revs
<1>3. Prefix(b, s) /\ \A k \in 1 + 1 .. Len(s) : s[k] = i
  BY <1>1, <1>2, BoundSinceRevisions
<1>4. Len(s) >= 1 /\ s[1] = x /\ Len(s) \in Nat
  BY <1>2, <1>3 DEF Prefix, Revs
<1>5. Len(s) = 1 => s = <<x>>
  BY <1>4, SingleElement
<1>6. s # <<>>
  BY <1>4, EmptySeq
<1>7. Len(s) >= 2 => s[Len(s)] = i
  BY <1>3, <1>4
<1>8. Len(s) = 1 \/ Len(s) >= 2
  BY <1>4
<1>9. \A k \in 2..Len(s) : s[k] = i
  BY <1>3
<1>10. QED
  BY <1>5, <1>6, <1>7, <1>8, <1>9, Zenon

\* The CURRENT of a store from before identities is there for good.
LEMMA LegacySafe ==
    ASSUME TypeOK, CurrentOK
    PROVE  Legacy <=> current.safe # <<>> /\ current.safe[1] = Unlinked
<1>1. current.safe # <<>> => current.seen # <<>> /\ current.safe[1] = current.seen[1]
  BY SeenTypes DEF CurrentOK, Prefix, TypeOK, FilesOK, CellOf
<1>2. QED
  BY <1>1 DEF Legacy, CurrentOK

LEMMA AppendedRevision ==
    ASSUME TypeOK, NEW b \in Identities
    PROVE  LET s == Append(current.seen, b)
           IN  /\ Len(s) = Len(current.seen) + 1 /\ s # <<>>
               /\ \A k \in 1..Len(current.seen) : s[k] = current.seen[k]
               /\ s[Len(s)] = b
<1>1. current.seen \in Seq(Identities \cup {Unlinked}) /\ b \in Identities \cup {Unlinked}
  BY SeenTypes
<1> DEFINE S == Identities \cup {Unlinked}
<1> HIDE DEF S
<1>2. current.seen \in Seq(S) /\ b \in S
  BY <1>1 DEF S
<1>3. /\ Append(current.seen, b) \in Seq(S)
      /\ Len(Append(current.seen, b)) = Len(current.seen) + 1
      /\ \A k \in 1..Len(current.seen) : Append(current.seen, b)[k] = current.seen[k]
      /\ Append(current.seen, b)[Len(current.seen) + 1] = b
  BY <1>2, AppendProperties
<1>4. Len(current.seen) \in Nat
  BY SeenTypes
<1>5. Append(current.seen, b) # <<>>
  <2>1. PICK t : t = Append(current.seen, b)
    OBVIOUS
  <2>2. Len(t) = Len(current.seen) + 1 /\ Len(<<>>) = 0
    BY <1>3, <2>1, EmptySeq
  <2>3. t # <<>>
    BY <1>4, <2>2
  <2>4. QED
    BY <2>1, <2>3
<1>6. QED
  BY <1>3, <1>4, <1>5

LEMMA IntentFrame ==
    ASSUME MediumOK, Grows, UNCHANGED intent
    PROVE  IntentOK' /\ LostAdoption'
<1>1. IntentOK'
  <2>1. intent.seen \in Intents => IntentShape(intent.seen)'
    BY ShapeStays DEF MediumOK, IntentOK
  <2>2. intent.safe \in Intents => IntentShape(intent.safe)'
    BY ShapeStays DEF MediumOK, IntentOK
  <2>3. QED
    BY <2>1, <2>2 DEF MediumOK, IntentOK
<1>2. LostAdoption'
  <2>1. Foreign(intent.seen.id) => Foreign(intent.seen.id)'
    BY ForeignStays DEF Grows
  <2>2. QED
    BY <2>1 DEF MediumOK, LostAdoption, Grows
<1>3. QED
  BY <1>1, <1>2

LEMMA CurrentFrame ==
    ASSUME MediumOK, Grows, UNCHANGED current
    PROVE  CurrentOK'
<1>1. \A k \in 2..Len(current.seen) : Certified(current.seen[k])'
  BY CertifiedStays DEF MediumOK, CurrentOK, Grows
<1>2. QED
  BY <1>1 DEF MediumOK, CurrentOK, Legacy

\* RootOwned needs of the intent only what its copy on the medium keeps.
LEMMA RootFrame ==
    ASSUME MediumOK, Grows, UNCHANGED current,
           \/ UNCHANGED intent
           \/ intent.safe \in Intents =>
                intent'.safe \in Intents /\ SameIntent(intent.safe, intent'.safe)
    PROVE  RootOwned'
  BY DEF MediumOK, RootOwned, Grows, SameIntent

LEMMA BoundFrame ==
    ASSUME MediumOK, Grows, UNCHANGED bound
    PROVE  BoundOK'
<1>1. \A w \in Writers : bound[w] # Nobody => Certified(bound[w])'
  BY CertifiedStays DEF MediumOK, BoundOK, Grows
<1>2. QED
  BY <1>1 DEF BoundOK

\* A step that writes no file.
LEMMA FilesKept ==
    ASSUME MediumOK, Grows, UNCHANGED files, faults' = 0 => faults = 0,
           AckedOK', BoundOK', DrawnOK'
    PROVE  MediumOK'
<1>1. UNCHANGED <<intent, disk, current>>
  BY DEF files
<1>2. IntentOK' /\ LostAdoption' /\ CurrentOK' /\ RootOwned'
  BY <1>1, IntentFrame, CurrentFrame, RootFrame
<1>3. NothingLoose' /\ LooseAlone'
  BY <1>1 DEF MediumOK, NothingLoose, LooseAlone
<1>4. ReceiptsOK'
  BY <1>1 DEF MediumOK, ReceiptsOK, ReceiptOK, Certified
<1>5. QED
  BY <1>2, <1>3, <1>4 DEF MediumOK

LEMMA QuietMedium ==
    ASSUME MediumOK, Grows, UNCHANGED <<files, acked, faults>>, BoundOK', DrawnOK'
    PROVE  MediumOK'
<1>1. AckedOK'
  BY DEF MediumOK, AckedOK, files
<1>2. QED
  BY <1>1, FilesKept

-----------------------------------------------------------------------------
(* One object more.                                                        *)

\* The failure is spent where an intent in sight is not on the medium.
LEMMA LooseIntentIsTheFailure ==
    ASSUME OneFailure, TypeOK, MediumOK, intent.seen \in Intents, intent.safe = Absent
    PROVE  ~Fault
<1>1. intent.seen # Absent
  BY NamesAssumption
<1>2. faults # 0
  BY <1>1 DEF MediumOK, NothingLoose
<1>3. QED
  BY <1>2, IdentityAssumption DEF OneFailure, Fault, TypeOK, RestOK

\* The end of a write that is not the one failure.
LEMMA EndIsClean ==
    ASSUME NEW p, NEW end, NEW next, After(p, end, next), faults' = 0 \/ ~Fault, faults \in Nat
    PROVE  end # "oserror" /\ (faults' = 0 => faults = 0)
  BY DEF After, Fault, counts

LEMMA GrowthMedium ==
    ASSUME OneFailure, TypeOK, MediumOK, Grows, NEW p \in Operators, NEW o \in Objects, NEW next,
           Write(p, o, next), intent.seen = job[p], job[p] \in Intents, o[2] = job[p].id
    PROVE  /\ NothingLoose' /\ LooseAlone' /\ IntentOK' /\ CurrentOK' /\ RootOwned'
           /\ LostAdoption' /\ AckedOK' /\ BoundOK' /\ DrawnOK'
<1>1. PICK r \in CreateOrMatch(o) :
        disk' = r.disk /\ After(p, r.end, next) /\ Adds(disk, o, r)
  BY WriteEffect
<1>2. UNCHANGED <<intent, current, drawn, plan, bound, acked>>
  BY DEF Write
<1>3. IntentOK' /\ LostAdoption' /\ CurrentOK' /\ RootOwned' /\ BoundOK'
  BY <1>2, IntentFrame, CurrentFrame, RootFrame, BoundFrame
<1>4. faults \in Nat
  BY DEF TypeOK, RestOK
<1>5. NothingLoose'
  <2> SUFFICES ASSUME faults' = 0
               PROVE  disk'.intact = disk'.durable /\ disk'.torn = {} /\ intent.safe = intent.seen
    BY <1>2 DEF NothingLoose
  <2>1. r.end # "oserror" /\ faults = 0
    BY <1>1, <1>4, EndIsClean
  <2>2. QED
    BY <1>1, <2>1 DEF MediumOK, NothingLoose, Adds
<1>6. LooseAlone'
  <2> SUFFICES ASSUME intent.safe = Absent
               PROVE  disk'.intact = disk'.durable /\ disk'.torn = {}
    BY <1>2 DEF LooseAlone
  <2>1. ~Fault
    BY LooseIntentIsTheFailure
  <2>2. r.end # "oserror"
    BY <1>1, <1>4, <2>1, EndIsClean
  <2>3. QED
    BY <1>1, <2>2 DEF MediumOK, LooseAlone, Adds
<1>7. AckedOK'
  BY <1>2 DEF MediumOK, AckedOK
<1>8. DrawnOK'
  <2>1. job[p].id \in drawn
    BY DEF MediumOK, IntentOK, IntentShape
  <2>2. \A x \in disk'.intact : x[2] \in drawn'
    BY <1>1, <1>2, <2>1 DEF MediumOK, DrawnOK, Adds
  <2>3. QED
    BY <1>2, <2>2 DEF MediumOK, DrawnOK, Grows
<1>9. QED
  BY <1>3, <1>5, <1>6, <1>7, <1>8

\* A receipt stays what it is while the files around it only grow.
LEMMA ReceiptStays ==
    ASSUME MediumOK, Grows, UNCHANGED <<intent, current>>,
           NEW r \in disk.intact, IsReceipt(r)
    PROVE  ReceiptOK(r)'
<1>1. r[5] => Certified(r[2])'
  BY CertifiedStays DEF MediumOK, ReceiptsOK, ReceiptOK, Grows
<1>2. QED
  BY <1>1 DEF MediumOK, ReceiptsOK, ReceiptOK, Grows

LEMMA GrowthMediumQED ==
    ASSUME OneFailure, TypeOK, MediumOK, Grows, NEW p \in Operators, NEW o \in Objects, NEW next,
           Write(p, o, next), intent.seen = job[p], job[p] \in Intents, o[2] = job[p].id,
           IsReceipt(o) /\ o \notin disk.intact /\ o \in disk'.intact => ReceiptOK(o)'
    PROVE  MediumOK'
<1>1. UNCHANGED <<intent, current>> /\ disk'.intact \subseteq disk.intact \cup {o}
  BY WriteEffect DEF Write, Adds
<1>2. ASSUME NEW r \in disk'.intact, IsReceipt(r)
      PROVE  ReceiptOK(r)'
  <2>1. CASE r \in disk.intact
    BY <1>1, <1>2, <2>1, ReceiptStays
  <2>2. CASE r = o /\ o \notin disk.intact
    BY <1>2, <2>2
  <2>3. QED
    BY <1>1, <2>1, <2>2
<1>3. ReceiptsOK'
  BY <1>2 DEF ReceiptsOK
<1>4. QED
  BY <1>3, GrowthMedium DEF MediumOK

-----------------------------------------------------------------------------
(* Processes.                                                              *)

LEMMA CalledStays ==
    ASSUME Grows, NEW q \in Operators, Called(q), pc'[q] = pc[q], job'[q] = job[q],
           mode'[q] = mode[q], intent'.seen = Absent => intent.seen = Absent
    PROVE  Called(q)'
<1>1. PICK j : j = job[q]
  OBVIOUS
<1>2. IntentShape(j) => IntentShape(j)'
  BY ShapeStays
<1>3. pc[q] = "repair_lock" => IntentShape(j)' /\ j = job'[q]
  BY <1>1, <1>2 DEF Called
<1>4. QED
  BY <1>3 DEF Called, Grows

\* Nobody else is under the lock.
LEMMA OthersOutside ==
    ASSUME ProcessesOK, Grows, NEW p \in Operators, idlock \in {p, Nobody},
           \A q \in Operators \ {p} :
             pc'[q] = pc[q] /\ job'[q] = job[q] /\ mode'[q] = mode[q],
           intent'.seen = Absent => intent.seen = Absent
    PROVE  \A q \in Operators \ {p} : Called(q)' /\ pc'[q] \notin Working
<1> SUFFICES ASSUME NEW q \in Operators \ {p}
             PROVE  Called(q)' /\ pc'[q] \notin Working
  OBVIOUS
<1>1. Called(q)'
  BY CalledStays DEF ProcessesOK
<1>2. pc[q] \notin Working
  BY NamesAssumption DEF ProcessesOK, Knows
<1>3. QED
  BY <1>1, <1>2

LEMMA LockedStep ==
    ASSUME TypeOK, ProcessesOK, Grows, NEW p \in Operators, idlock \in {p, Nobody},
           \A q \in Operators \ {p} :
             pc'[q] = pc[q] /\ job'[q] = job[q] /\ mode'[q] = mode[q],
           intent'.seen = Absent => intent.seen = Absent,
           pc'[p] \notin {"lock", "repair_lock"}, pc'[p] \in Working => Knows(p)'
    PROVE  ProcessesOK'
<1>1. \A q \in Operators \ {p} : Called(q)' /\ pc'[q] \notin Working
  BY OthersOutside
<1>2. Called(p)'
  BY DEF Called
<1>3. QED
  BY <1>1, <1>2 DEF ProcessesOK

LEMMA EndProcesses ==
    ASSUME TypeOK, ProcessesOK, Grows, NEW p \in Operators, idlock \in {p, Nobody}, End(p),
           intent'.seen = Absent => intent.seen = Absent
    PROVE  ProcessesOK'
<1>1. pc'[p] = "idle" /\ \A q \in Operators \ {p} :
        pc'[q] = pc[q] /\ job'[q] = job[q] /\ mode'[q] = mode[q]
  BY DEF End, TypeOK, CallsOK
<1>2. QED
  BY <1>1, LockedStep DEF Working

LEMMA GotoProcesses ==
    ASSUME TypeOK, ProcessesOK, Grows, NEW p \in Operators, NEW next \in Working, idlock = p,
           Goto(p, next), intent'.seen = Absent => intent.seen = Absent, Knows(p)'
    PROVE  ProcessesOK'
<1>1. pc'[p] = next /\ \A q \in Operators \ {p} :
        pc'[q] = pc[q] /\ job'[q] = job[q] /\ mode'[q] = mode[q]
  BY DEF Goto, TypeOK, CallsOK
<1>2. next \notin {"lock", "repair_lock"}
  BY DEF Working
<1>3. QED
  BY <1>1, <1>2, LockedStep

\* A process that a step does not touch.
LEMMA UntouchedKnows ==
    ASSUME Grows, UNCHANGED files, NEW q \in Operators, Knows(q),
           pc'[q] = pc[q], job'[q] = job[q], mode'[q] = mode[q],
           idlock' = q, wlock = q => wlock' = q
    PROVE  Knows(q)'
<1>1. UNCHANGED <<intent, disk, current>>
  BY DEF files
<1>2. PICK j : j = job[q] /\ j = job'[q]
  OBVIOUS
<1>3. FirstIntent(j) => FirstIntent(j)'
  <2>1. IntentShape(j) => IntentShape(j)'
    BY ShapeStays
  <2>2. QED
    BY <1>1, <2>1 DEF FirstIntent, Legacy, Foreign
<1>4. Certified(j.id) => Certified(j.id)'
  BY <1>1 DEF Certified
<1>5. CurrentIsOurs(j) => CurrentIsOurs(j)'
  BY <1>1 DEF CurrentIsOurs
<1>6. QED
  BY <1>1, <1>2, <1>3, <1>4, <1>5 DEF Knows

-----------------------------------------------------------------------------
(* A store from before identities stays one, and no other becomes one.     *)

LEMMA ReplaceEffect ==
    ASSUME TypeOK, MediumOK, NEW p \in Operators, ReplaceCurrent(p), Knows(p)
    PROVE  /\ current.seen = <<>> /\ current.safe = <<>>
           /\ \/ UNCHANGED current
              \/ /\ current'.seen = <<job[p].id>>
                 /\ current'.safe = <<>> \/ current'.safe = <<job[p].id>>
<1>1. current.seen = <<>>
  BY DEF ReplaceCurrent, Knows
<1>2. current.safe = <<>>
  <2>1. PICK n : n = Len(current.safe)
    OBVIOUS
  <2>2. n <= 0 /\ n \in Nat
    BY <1>1, <2>1, SeenTypes, EmptySeq DEF MediumOK, CurrentOK, Prefix
  <2>3. QED
    BY <2>1, <2>2, SeenTypes DEF TypeOK, FilesOK, CellOf
<1>3. <<job[p].id>> \in Revs
  BY JobTypes DEF Revs, ReplaceCurrent, Working
<1>4. \/ current' = current
      \/ current'.seen = <<job[p].id>> /\ current'.safe \in {current.safe, <<job[p].id>>}
  BY <1>3, AtomicWriteEffect DEF ReplaceCurrent, TypeOK, FilesOK
<1>5. QED
  BY <1>1, <1>2, <1>4

\* The only steps that change CURRENT.
LEMMA CurrentSteps ==
    ASSUME [Next]_vars
    PROVE  \/ UNCHANGED current
           \/ \E p \in Operators : ReplaceCurrent(p) \/ Sync(p)
           \/ \E w \in Writers : Commit(w)
           \/ PowerLoss
<1>1. ASSUME NEW p \in Operators, Step(p), ~ReplaceCurrent(p), ~Sync(p)
      PROVE  UNCHANGED current
  BY <1>1 DEF Step, InitializeCall, InitializeLock, Adopt, RepairCall, RepairLock,
     PublishIntent, PublishAs, WriteCore, WriteIdentities, WriteReceipt, Write, WriteRoot,
     TakeWriteLock, Return, Die, files
<1>2. ASSUME NEW w \in Writers, Preflight(w)
      PROVE  UNCHANGED current
  BY <1>2 DEF Preflight, files
<1>3. plan_adoption \/ UNCHANGED vars => UNCHANGED current
  BY DEF plan_adoption, vars, files
<1>4. QED
  BY <1>1, <1>2, <1>3 DEF Next

LEMMA LegacyStays ==
    ASSUME IndInv, [Next]_vars
    PROVE  Legacy' <=> Legacy
<1> USE DEF IndInv
<1>1. ASSUME NEW p \in Operators, ReplaceCurrent(p)
      PROVE  Legacy' <=> Legacy
  <2>1. pc[p] \in Working /\ Knows(p)
    BY <1>1 DEF ProcessesOK, ReplaceCurrent, Working
  <2>2. current.seen = <<>> /\ (UNCHANGED current \/ current'.seen = <<job[p].id>>)
    BY <1>1, <2>1, ReplaceEffect
  <2>3. job[p].id # Unlinked
    BY <2>1, JobTypes, NamesAssumption
  <2>4. QED
    BY <2>2, <2>3 DEF Legacy
<1>2. ASSUME NEW p \in Operators, Sync(p)
      PROVE  Legacy' <=> Legacy
  BY <1>2 DEF Sync, Cell, Legacy
<1>3. ASSUME NEW w \in Writers, Commit(w)
      PROVE  Legacy' <=> Legacy
  <2>1. CASE UNCHANGED current
    BY <2>1 DEF Legacy
  <2>2. CASE /\ Unchanged(bound[w]) /\ bound[w] \in Identities /\ wlock = Nobody
             /\ current' = Cell(Append(current.seen, bound[w]))
    <3>1. current.seen # <<>>
      BY <2>2 DEF Unchanged, HasCurrent
    <3>2. PICK s : s = Append(current.seen, bound[w])
      OBVIOUS
    <3>3. s # <<>> /\ s[1] = current.seen[1]
      BY <2>2, <3>1, <3>2, AppendedRevision, SeenTypes DEF TypeOK, FilesOK, CellOf
    <3>4. current'.seen = s
      BY <2>2, <3>2 DEF Cell
    <3>5. QED
      BY <3>1, <3>3, <3>4 DEF Legacy
  <2>3. QED
    BY <1>3, <2>1, <2>2, CommitEffect
<1>4. ASSUME PowerLoss
      PROVE  Legacy' <=> Legacy
  <2>1. current'.seen = current.seen \/ current'.seen = current.safe
    BY <1>4 DEF PowerLoss, CellsAfterPowerLoss, Cell
  <2>2. QED
    BY <2>1, LegacySafe DEF Legacy, MediumOK
<1>5. QED
  BY <1>1, <1>2, <1>3, <1>4, CurrentSteps DEF Legacy

LEMMA StepGrows ==
    ASSUME IndInv, [Next]_vars
    PROVE  Grows
<1>1. disk.durable \subseteq disk'.durable /\ (Legacy' <=> Legacy)
  BY DurableStays, LegacyStays DEF IndInv
<1>2. drawn \subseteq drawn'
  <2>1. ASSUME NEW p \in Operators, Step(p)
        PROVE  drawn \subseteq drawn'
    BY <2>1 DEF Step, InitializeCall, InitializeLock, Adopt, RepairCall, RepairLock,
       PublishIntent, PublishAs, WriteCore, WriteIdentities, WriteReceipt, Write, WriteRoot,
       TakeWriteLock, ReplaceCurrent, Sync, Return, Die
  <2>2. ASSUME NEW w \in Writers, Preflight(w) \/ Commit(w)
        PROVE  drawn \subseteq drawn'
    BY <2>2 DEF Preflight, Commit
  <2>3. plan_adoption \/ PowerLoss \/ UNCHANGED vars => drawn \subseteq drawn'
    BY DEF plan_adoption, PowerLoss, vars
  <2>4. QED
    BY <2>1, <2>2, <2>3 DEF Next
<1>3. QED
  BY <1>1, <1>2 DEF Grows

-----------------------------------------------------------------------------
(* What identity_status says.                                              *)

LEMMA StatusLegacy ==
    identity_status = "legacy_unadopted" <=>
      /\ Present("store") = {} /\ Present("project") = {} /\ HasCurrent /\ intent.seen = Absent
  BY DEF identity_status

\* Files of an identity that agree, with an intent that was read.
Agree ==
  /\ Present("store") # {} /\ Present("project") # {}
  /\ intent.seen # Torn /\ \E i \in Identities : Bound(i)
  /\ HasCurrent => \E i \in Identities : Bound(i) /\ Linked(i)

LEMMA StatusComplete ==
    identity_status = "complete" <=>
      /\ Agree /\ HasCurrent /\ HasIntent /\ intent.seen.stage = "complete"
      /\ ValidReceipts(intent.seen, current.seen) # {}
  BY DEF identity_status, Agree

LEMMA PresentFiles ==
    ASSUME TypeOK, LooseAlone, intent.safe = Absent
    PROVE  /\ Present("store") = {} <=> \A j \in Identities : Store(j) \notin disk.durable
           /\ Present("project") = {} <=> \A j \in Identities : Project(j) \notin disk.durable
<1>1. disk.torn = {} /\ disk.intact = disk.durable /\ disk.intact \subseteq Objects
  BY DEF LooseAlone, TypeOK, FilesOK, DiskOf
<1>2. \A o \in Objects :
        /\ o[1] = "store" <=> \E j \in Identities : o = Store(j)
        /\ o[1] = "project" <=> \E j \in Identities : o = Project(j)
  <2>1. \A o \in Kinds \X Identities :
          /\ o[1] = "store" <=> \E j \in Identities : o = Store(j)
          /\ o[1] = "project" <=> \E j \in Identities : o = Project(j)
    BY DEF Kinds, Store, Project
  <2>2. \A o \in ReceiptNames : o[1] = "receipt"
    BY DEF ReceiptNames, Receipt
  <2>3. \A j \in Identities : Store(j) \in Kinds \X Identities /\ Project(j) \in Kinds \X Identities
    BY DEF Kinds, Store, Project
  <2>4. QED
    BY <2>1, <2>2, ObjectNames DEF Objects
<1>3. QED
  BY <1>1, <1>2 DEF Present

\* A certified identity has its files on the medium, and CURRENT with it.
LEMMA CertifiedFacts ==
    ASSUME TypeOK, MediumOK, NEW i, Certified(i)
    PROVE  /\ i \in Identities /\ Protected(i) \subseteq disk.durable
           /\ current.safe # <<>> /\ current.seen # <<>>
<1>1. PICK r \in disk.durable : IsReceipt(r) /\ r[2] = i
  BY DEF Certified
<1>2. r \in disk.intact /\ r \in Objects
  BY DEF TypeOK, FilesOK, DiskOf
<1>3. /\ i \in Identities /\ r[4] \in Revs /\ r[4] # <<>>
      /\ Protected(i) \subseteq disk.durable /\ Prefix(r[4], current.safe)
  BY <1>1, <1>2, ObjectFields DEF MediumOK, ReceiptsOK, ReceiptOK
<1>4. Len(r[4]) >= 1 /\ Len(current.safe) >= 1 /\ Len(current.seen) >= 1
  BY <1>3, SeenTypes DEF Prefix, MediumOK, CurrentOK
<1>5. QED
  BY <1>3, <1>4, SeenTypes DEF TypeOK, FilesOK, CellOf

\* A legacy store is one from before identities, and nothing was written in it.
LEMMA LegacyIsUntouched ==
    ASSUME TypeOK, MediumOK, identity_status = "legacy_unadopted"
    PROVE  /\ current.seen = <<Unlinked>> /\ Legacy
           /\ \A r \in disk.intact : ~IsReceipt(r)
<1>1. Present("store") = {} /\ HasCurrent /\ intent.seen = Absent
  BY StatusLegacy
<1>2. intent.safe = Absent
  BY <1>1 DEF MediumOK, IntentOK
<1>3. \A j \in Identities : Store(j) \notin disk.durable
  BY <1>1, <1>2, PresentFiles DEF MediumOK
<1>4. \A i : ~Certified(i)
  BY <1>3, CertifiedFacts, ObjectNames
<1>5. \A r \in disk.intact : ~IsReceipt(r)
  BY <1>2, <1>4 DEF MediumOK, LooseAlone, Certified
<1>6. current.seen # <<>>
  BY <1>1 DEF HasCurrent
<1>7. ~(Len(current.seen) >= 2)
  BY <1>4, SeenTypes DEF MediumOK, CurrentOK
<1>8. Len(current.seen) = 1
  <2>1. current.seen \in Revs
    BY DEF TypeOK, FilesOK, CellOf
  <2>2. Len(current.seen) >= 1 /\ Len(current.seen) \in Nat
    BY <1>6, <2>1, SeenTypes
  <2>3. \A n \in Nat : n >= 1 /\ ~(n >= 2) => n = 1
    OBVIOUS
  <2>4. QED
    BY <1>7, <2>2, <2>3, Zenon
<1>9. current.seen[1] = Unlinked
  <2> SUFFICES ASSUME current.seen[1] # Unlinked PROVE FALSE
    OBVIOUS
  <2>1. current.seen[1] \in Identities
    BY <1>8, SeenTypes
  <2>2. intent.safe \in Intents
    BY <1>3, <1>6, <2>1 DEF MediumOK, RootOwned
  <2>3. QED
    BY <1>2, <2>2, NamesAssumption
<1>10. current.seen = <<Unlinked>>
  <2>1. current.seen \in Revs
    BY DEF TypeOK, FilesOK, CellOf
  <2>2. current.seen = <<current.seen[1]>>
    BY <1>8, <2>1, SingleElement
  <2>3. QED
    BY <1>9, <2>2
<1>11. QED
  BY <1>5, <1>6, <1>9, <1>10 DEF Legacy

-----------------------------------------------------------------------------
(* The steps that touch no file.                                           *)

LEMMA InitializeCallKept ==
    ASSUME IndInv, Grows, NEW p \in Operators, InitializeCall(p)
    PROVE  MediumOK' /\ ProcessesOK'
<1> USE DEF IndInv
<1>1. /\ UNCHANGED <<files, drawn, plan, locks, bound, acked, counts>>
      /\ pc[p] = "idle" /\ identity_status # "legacy_unadopted"
      /\ Begin(p, "initialize", Absent, "lock")
  BY DEF InitializeCall
<1>2. MediumOK'
  <2>1. DrawnOK'
    BY <1>1 DEF MediumOK, DrawnOK, files, Grows
  <2>2. QED
    BY <1>1, <2>1, BoundFrame, QuietMedium DEF counts
<1>3. pc'[p] = "lock" /\ \A q \in Operators \ {p} :
        pc'[q] = pc[q] /\ job'[q] = job[q] /\ mode'[q] = mode[q]
  BY <1>1 DEF Begin, TypeOK, CallsOK
<1>4. Called(p)'
  <2> SUFFICES ASSUME intent.seen = Absent, Legacy
               PROVE  \E j \in Identities : Store(j) \in disk.durable \/ Project(j) \in disk.durable
    BY <1>1, <1>3 DEF Called, files, Legacy, Store, Project
  <2>1. intent.safe = Absent
    BY DEF MediumOK, IntentOK
  <2>2. Present("store") # {} \/ Present("project") # {}
    BY <1>1, StatusLegacy DEF Legacy, HasCurrent
  <2>3. QED
    BY <2>1, <2>2, PresentFiles DEF MediumOK
<1>5. ASSUME NEW q \in Operators \ {p}
      PROVE  Called(q)' /\ (pc'[q] \in Working => Knows(q)')
  <2>1. Called(q)'
    BY <1>1, <1>3, CalledStays DEF ProcessesOK, files
  <2>2. ASSUME pc[q] \in Working
        PROVE  Knows(q)'
    <3>1. Knows(q) /\ idlock' = q /\ wlock' = wlock
      BY <1>1, <2>2 DEF ProcessesOK, Knows, locks
    <3>2. QED
      BY <1>1, <1>3, <3>1, UntouchedKnows
  <2>3. QED
    BY <1>3, <2>1, <2>2
<1>6. QED
  BY <1>2, <1>3, <1>4, <1>5 DEF ProcessesOK, Working

LEMMA RepairCallKept ==
    ASSUME IndInv, Grows, NEW p \in Operators, RepairCall(p)
    PROVE  MediumOK' /\ ProcessesOK'
<1> USE DEF IndInv
<1>1. /\ UNCHANGED <<files, drawn, plan, locks, bound, acked, counts>>
      /\ pc[p] = "idle" /\ HasIntent
      /\ Begin(p, "repair", intent.seen, "repair_lock")
  BY DEF RepairCall
<1>2. MediumOK'
  <2>1. DrawnOK'
    BY <1>1 DEF MediumOK, DrawnOK, files, Grows
  <2>2. QED
    BY <1>1, <2>1, BoundFrame, QuietMedium DEF counts
<1>3. /\ pc'[p] = "repair_lock" /\ job'[p] = intent.seen /\ mode'[p] = "repair"
      /\ \A q \in Operators \ {p} :
           pc'[q] = pc[q] /\ job'[q] = job[q] /\ mode'[q] = mode[q]
  BY <1>1 DEF Begin, TypeOK, CallsOK
<1>4. Called(p)'
  <2>1. PICK v : v = intent.seen
    OBVIOUS
  <2>2. IntentShape(v)
    BY <1>1, <2>1 DEF MediumOK, IntentOK, HasIntent, TypeOK, FilesOK, CellOf
  <2>3. IntentShape(v)'
    BY <2>2, ShapeStays
  <2>4. QED
    BY <1>3, <2>1, <2>3 DEF Called
<1>5. ASSUME NEW q \in Operators \ {p}
      PROVE  Called(q)' /\ (pc'[q] \in Working => Knows(q)')
  <2>1. Called(q)'
    BY <1>1, <1>3, CalledStays DEF ProcessesOK, files
  <2>2. ASSUME pc[q] \in Working
        PROVE  Knows(q)'
    <3>1. Knows(q) /\ idlock' = q /\ wlock' = wlock
      BY <1>1, <2>2 DEF ProcessesOK, Knows, locks
    <3>2. QED
      BY <1>1, <1>3, <3>1, UntouchedKnows
  <2>3. QED
    BY <1>3, <2>1, <2>2
<1>6. QED
  BY <1>3, <1>2, <1>4, <1>5 DEF ProcessesOK, Working

LEMMA RepairLockKept ==
    ASSUME IndInv, Grows, NEW p \in Operators, RepairLock(p)
    PROVE  MediumOK' /\ ProcessesOK'
<1> USE DEF IndInv
<1>1. /\ UNCHANGED <<files, drawn, plan, bound, acked, counts>>
      /\ pc[p] = "repair_lock" /\ idlock = Nobody
  BY DEF RepairLock
<1>2. MediumOK'
  <2>1. DrawnOK'
    BY <1>1 DEF MediumOK, DrawnOK, files, Grows
  <2>2. QED
    BY <1>1, <2>1, BoundFrame, QuietMedium DEF counts
<1>3. ASSUME intent.seen = job[p]
      PROVE  ProcessesOK'
  <2>1. /\ idlock' = p /\ pc'[p] = "object" /\ job' = job /\ mode' = mode /\ wlock' = wlock
        /\ \A q \in Operators \ {p} : pc'[q] = pc[q]
    BY <1>3 DEF RepairLock, TypeOK, CallsOK
  <2>2. mode[p] = "repair"
    BY <1>1 DEF ProcessesOK, Called
  <2>3. Knows(p)'
    BY <1>1, <1>3, <2>1, <2>2 DEF Knows, files, Locks, StoreWritten
  <2>4. QED
    BY <1>1, <2>1, <2>3, LockedStep DEF files
<1>4. ASSUME intent.seen # job[p]
      PROVE  ProcessesOK'
  BY <1>1, <1>4, EndProcesses DEF RepairLock, files
<1>5. QED
  BY <1>2, <1>3, <1>4

LEMMA DieKept ==
    ASSUME IndInv, Grows, NEW p \in Operators, Die(p)
    PROVE  MediumOK' /\ ProcessesOK'
<1> USE DEF IndInv
<1>1. UNCHANGED <<files, drawn, plan, bound, acked, counts>> /\ End(p)
  BY DEF Die
<1>2. MediumOK'
  <2>1. DrawnOK'
    BY <1>1 DEF MediumOK, DrawnOK, files, Grows
  <2>2. QED
    BY <1>1, <2>1, BoundFrame, QuietMedium DEF counts
<1>3. pc'[p] = "idle" /\ \A q \in Operators \ {p} :
        pc'[q] = pc[q] /\ job'[q] = job[q] /\ mode'[q] = mode[q]
  BY <1>1 DEF End, TypeOK, CallsOK
<1>4. ASSUME NEW q \in Operators \ {p}
      PROVE  Called(q)' /\ (pc'[q] \in Working => Knows(q)')
  <2>1. Called(q)'
    BY <1>1, <1>3, CalledStays DEF ProcessesOK, files
  <2>2. ASSUME pc[q] \in Working
        PROVE  Knows(q)'
    <3>1. Knows(q) /\ idlock' = q /\ (wlock = q => wlock' = q)
      BY <1>1, <2>2 DEF ProcessesOK, Knows, End
    <3>2. QED
      BY <1>1, <1>3, <3>1, UntouchedKnows
  <2>3. QED
    BY <1>3, <2>1, <2>2
<1>5. QED
  BY <1>2, <1>3, <1>4 DEF ProcessesOK, Working, Called

\* No process moves, no file and no lock changes.
LEMMA AllUntouched ==
    ASSUME ProcessesOK, Grows, UNCHANGED <<files, locks, calls>>
    PROVE  ProcessesOK'
<1>1. ASSUME NEW q \in Operators
      PROVE  Called(q)' /\ (pc'[q] \in Working => Knows(q)')
  <2>1. Called(q)'
    BY CalledStays DEF ProcessesOK, files, calls
  <2>2. ASSUME pc[q] \in Working
        PROVE  Knows(q)'
    <3>1. Knows(q) /\ idlock' = q /\ wlock' = wlock
      BY <2>2 DEF ProcessesOK, Knows, locks
    <3>2. QED
      BY <3>1, UntouchedKnows DEF calls
  <2>3. QED
    BY <2>1, <2>2 DEF calls
<1>2. QED
  BY <1>1 DEF ProcessesOK

LEMMA PlanKept ==
    ASSUME IndInv, Grows, plan_adoption
    PROVE  MediumOK' /\ ProcessesOK'
<1> USE DEF IndInv
<1>1. UNCHANGED <<files, locks, calls, bound, acked, counts>>
  BY DEF plan_adoption
<1>2. PICK i \in Identities \ drawn :
        drawn' = drawn \cup {i} /\ plan' = plan \cup {[id |-> i, base |-> current.seen]}
  BY DEF plan_adoption
<1>3. current.seen = <<Unlinked>> /\ Legacy
  BY LegacyIsUntouched DEF plan_adoption
<1>4. DrawnOK'
  <2>1. \A q \in plan' : q.id \in drawn' /\ q.base = <<Unlinked>> /\ Legacy'
    BY <1>2, <1>3 DEF MediumOK, DrawnOK, Grows
  <2>2. QED
    BY <1>1, <2>1 DEF MediumOK, DrawnOK, Grows, files
<1>5. QED
  BY <1>1, <1>4, BoundFrame, QuietMedium, AllUntouched DEF counts

\* Writers are let in once a receipt certifies the identity they read.
LEMMA PreflightKept ==
    ASSUME IndInv, Grows, NEW w \in Writers, Preflight(w)
    PROVE  MediumOK' /\ ProcessesOK'
<1> USE DEF IndInv
<1>1. UNCHANGED <<files, drawn, plan, locks, calls, acked, counts>> /\ identity_status = "complete"
  BY DEF Preflight
<1>2. PICK i \in Identities : Bound(i) /\ bound' = [bound EXCEPT ![w] = i]
  BY DEF Preflight
<1>3. Certified(i)
  <2>1. HasIntent /\ intent.seen.stage = "complete"
    BY <1>1, StatusComplete
  <2>2. intent.seen \in Intents
    BY <2>1 DEF HasIntent, TypeOK, FilesOK, CellOf
  <2>3. Certified(intent.seen.id)
    BY <2>1, <2>2 DEF MediumOK, IntentOK, IntentShape
  <2>4. intent.seen.id \in Identities /\ Store(intent.seen.id) \in disk.intact
    BY <2>3, CertifiedFacts, ObjectNames DEF TypeOK, FilesOK
  <2>5. i = intent.seen.id
    BY <1>2, <2>4 DEF OneIdentity, Bound
  <2>6. QED
    BY <2>3, <2>5
<1>4. BoundOK'
  <2>1. \A x \in Writers : bound'[x] # Nobody => Certified(bound'[x])
    BY <1>2, <1>3 DEF MediumOK, BoundOK, TypeOK, RestOK
  <2>2. QED
    BY <1>1, <2>1 DEF BoundOK, Certified, files
<1>5. DrawnOK'
  BY <1>1 DEF MediumOK, DrawnOK, files, Grows
<1>6. QED
  BY <1>1, <1>4, <1>5, QuietMedium, AllUntouched DEF counts

LEMMA StutterKept ==
    ASSUME IndInv, Grows, UNCHANGED vars
    PROVE  MediumOK' /\ ProcessesOK'
<1>1. DrawnOK'
  BY DEF IndInv, MediumOK, DrawnOK, vars, Grows
<1>2. QED
  BY <1>1, BoundFrame, QuietMedium, AllUntouched DEF IndInv, vars, files, locks, calls

LEMMA TakeWriteLockKept ==
    ASSUME IndInv, Grows, NEW p \in Operators, TakeWriteLock(p)
    PROVE  MediumOK' /\ ProcessesOK'
<1> USE DEF IndInv
<1>1. /\ UNCHANGED <<files, drawn, plan, bound, acked, counts>>
      /\ pc[p] = "root" /\ wlock = Nobody
  BY DEF TakeWriteLock
<1>2. Knows(p) /\ pc[p] \in Working /\ job[p] \in Intents /\ job[p].id \in Identities
  BY <1>1, JobTypes DEF ProcessesOK, Working
<1>3. MediumOK'
  <2>1. DrawnOK'
    BY <1>1 DEF MediumOK, DrawnOK, files, Grows
  <2>2. QED
    BY <1>1, <2>1, BoundFrame, QuietMedium DEF counts
<1>4. mode[p] # "adopt" /\ idlock = p /\ intent.seen = job[p]
      /\ Store(job[p].id) \in disk.intact
  BY <1>1, <1>2, NamesAssumption DEF Knows, StoreWritten
<1>5. ASSUME NEW next \in {"sync", "candidate"}, wlock' = p, pc' = [pc EXCEPT ![p] = next],
             UNCHANGED <<mode, job, idlock>>,
             next = "sync" => CurrentIsOurs(job[p]),
             next = "candidate" => current.seen = <<>> /\ job[p].op = "initialize"
      PROVE  ProcessesOK'
  <2>1. pc'[p] = next /\ \A q \in Operators \ {p} :
          pc'[q] = pc[q] /\ job'[q] = job[q] /\ mode'[q] = mode[q]
    BY <1>5 DEF TypeOK, CallsOK
  <2>2. PICK j : j = job[p] /\ j = job'[p]
    BY <1>5
  <2>3. CurrentIsOurs(j) => CurrentIsOurs(j)'
    BY <1>1 DEF CurrentIsOurs, files
  <2>4. Knows(p)'
    BY <1>1, <1>4, <1>5, <2>1, <2>2, <2>3 DEF Knows, files, Locks, StoreWritten
  <2>5. QED
    BY <1>1, <1>4, <2>1, <2>4, LockedStep DEF files
<1>6. ASSUME HasCurrent, MayCertify(job[p], mode[p])
      PROVE  CurrentIsOurs(job[p])
  <2>1. current.seen \in Revs /\ job[p].id \in Identities
    BY <1>2 DEF TypeOK, FilesOK, CellOf
  <2>2. job[p].op = "adopt" => job[p].base = <<Unlinked>>
    BY <1>2, <1>4 DEF MediumOK, IntentOK, IntentShape
  <2>3. CASE mode[p] = "initialize"
    <3>1. PICK s : s = current.seen
      OBVIOUS
    <3>2. s = <<job[p].id>>
      BY <1>6, <2>3, <3>1 DEF MayCertify
    <3>3. Len(s) = 1 /\ s[1] = job[p].id /\ s # <<>>
      BY <3>2
    <3>4. QED
      BY <3>1, <3>3 DEF CurrentIsOurs
  <2>4. CASE mode[p] # "initialize" /\ job[p].op = "initialize"
    <3>1. BoundSince(current.seen, <<job[p].id>>, job[p].id, FALSE)
      BY <1>6, <2>4 DEF MayCertify
    <3>2. current.seen = <<job[p].id>> \/ current.seen[Len(current.seen)] = job[p].id
      BY <2>1, <3>1, BoundSinceFirst
    <3>3. current.seen = <<job[p].id>> => current.seen[Len(current.seen)] = job[p].id
      <4>1. PICK s : s = current.seen
        OBVIOUS
      <4>2. s = <<job[p].id>> => Len(s) = 1 /\ s[1] = job[p].id
        OBVIOUS
      <4>3. QED
        BY <4>1, <4>2
    <3>4. current.seen[Len(current.seen)] = job[p].id
      BY <3>2, <3>3, Zenon
    <3>5. QED
      BY <1>6, <3>4 DEF CurrentIsOurs, HasCurrent
  <2>5. CASE mode[p] # "initialize" /\ job[p].op = "adopt"
    <3>1. BoundSince(current.seen, <<Unlinked>>, job[p].id, TRUE)
      BY <1>6, <2>2, <2>5 DEF MayCertify
    <3>2. TRUE \in BOOLEAN /\ Unlinked \in Identities \cup {Unlinked}
      OBVIOUS
    <3>3. current.seen = <<Unlinked>> \/ current.seen[Len(current.seen)] = job[p].id
      <4>1. PICK s \in Revs : s = current.seen
        BY <2>1
      <4>2. PICK x \in Identities \cup {Unlinked} : x = Unlinked
        BY <3>2
      <4>3. BoundSince(s, <<x>>, job[p].id, TRUE)
        BY <3>1, <4>1, <4>2
      <4>4. s = <<x>> \/ s[Len(s)] = job[p].id
        BY <3>2, <4>3, BoundSinceFirst
      <4>5. QED
        BY <4>1, <4>2, <4>4
    <3>4. QED
      BY <1>6, <2>5, <3>3 DEF CurrentIsOurs, HasCurrent
  <2>6. QED
    BY <1>2, <2>3, <2>4, <2>5 DEF Intents
<1>7. CASE HasCurrent /\ MayCertify(job[p], mode[p])
  BY <1>3, <1>5, <1>6, <1>7 DEF TakeWriteLock
<1>8. CASE ~HasCurrent /\ job[p].op = "initialize"
  BY <1>3, <1>5, <1>8 DEF TakeWriteLock, HasCurrent
<1>9. CASE End(p)
  BY <1>1, <1>3, <1>4, <1>9, EndProcesses DEF files
<1>10. QED
  BY <1>7, <1>8, <1>9 DEF TakeWriteLock

\* init under its lock: a new identity has no receipt, and in a store from before
\* identities it meets the files of another one.
LEMMA InitializeLockKept ==
    ASSUME IndInv, Grows, NEW p \in Operators, InitializeLock(p)
    PROVE  MediumOK' /\ ProcessesOK'
<1> USE DEF IndInv
<1>1. /\ UNCHANGED <<files, plan, bound, acked, counts>>
      /\ pc[p] = "lock" /\ idlock = Nobody
  BY DEF InitializeLock
<1>2. MediumOK'
  <2>1. DrawnOK'
    BY <1>1 DEF MediumOK, DrawnOK, files, Grows
  <2>2. QED
    BY <1>1, <2>1, BoundFrame, QuietMedium DEF counts
<1>3. ASSUME NEW v, NEW next \in {"intent", "object"}, idlock' = p, UNCHANGED wlock,
             Begin(p, "initialize", v, next), Knows(p)'
      PROVE  ProcessesOK'
  <2>1. pc'[p] = next /\ \A q \in Operators \ {p} :
          pc'[q] = pc[q] /\ job'[q] = job[q] /\ mode'[q] = mode[q]
    BY <1>3 DEF Begin, TypeOK, CallsOK
  <2>2. QED
    BY <1>1, <1>3, <2>1, LockedStep DEF files
<1>4. ASSUME intent.seen = Absent, NEW i \in Identities \ drawn, drawn' = drawn \cup {i},
             idlock' = p, UNCHANGED wlock,
             Begin(p, "initialize", NewIntent("initialize", i, <<>>), "intent")
      PROVE  ProcessesOK'
  <2>1. PICK v : v = NewIntent("initialize", i, <<>>)
    OBVIOUS
  <2>2. v.op = "initialize" /\ v.id = i /\ v.base = <<>> /\ v.stage = "intent_only"
    BY <2>1 DEF NewIntent
  <2>3. pc'[p] = "intent" /\ job'[p] = v /\ mode'[p] = "initialize"
    BY <1>4, <2>1 DEF Begin, TypeOK, CallsOK
  <2>4. \A r \in disk.intact : r[2] # i
    BY <1>4 DEF MediumOK, DrawnOK
  <2>5. Legacy => Foreign(i)
    <3> SUFFICES ASSUME Legacy PROVE Foreign(i)
      OBVIOUS
    <3>1. PICK j \in Identities : Store(j) \in disk.durable \/ Project(j) \in disk.durable
      BY <1>1, <1>4 DEF ProcessesOK, Called
    <3>2. Store(j)[2] = j /\ Project(j)[2] = j /\ disk.durable \subseteq disk.intact
      BY ObjectNames DEF TypeOK, FilesOK
    <3>3. j # i
      BY <2>4, <3>1, <3>2
    <3>4. QED
      BY <3>1, <3>3 DEF Foreign
  <2>6. FirstIntent(v)'
    <3>1. IntentShape(v)'
      BY <1>4, <2>2 DEF IntentShape
    <3>2. QED
      BY <1>1, <1>4, <2>2, <2>4, <2>5, <3>1 DEF FirstIntent, files, Legacy, Foreign
  <2>7. Knows(p)'
    BY <1>4, <2>3, <2>6 DEF Knows, Locks, StoreWritten
  <2>8. QED
    BY <1>3, <1>4, <2>7
<1>5. ASSUME HasIntent, ~Finished, idlock' = p, UNCHANGED wlock,
             Begin(p, "initialize", intent.seen, "object")
      PROVE  ProcessesOK'
  <2>1. pc'[p] = "object" /\ job'[p] = intent.seen /\ mode'[p] = "initialize"
    BY <1>5 DEF Begin, TypeOK, CallsOK
  <2>2. intent.seen.stage # "complete"
    <3> SUFFICES ASSUME intent.seen.stage = "complete" PROVE FALSE
      OBVIOUS
    <3>1. Certified(intent.seen.id)
      BY <1>5 DEF MediumOK, IntentOK, IntentShape, HasIntent, TypeOK, FilesOK, CellOf
    <3>2. HasCurrent
      BY <3>1, CertifiedFacts DEF HasCurrent
    <3>3. QED
      BY <1>5, <3>2 DEF Finished
  <2>3. Knows(p)'
    BY <1>1, <1>5, <2>1, <2>2 DEF Knows, Locks, StoreWritten, files
  <2>4. QED
    BY <1>3, <1>5, <2>3
<1>6. ASSUME End(p)
      PROVE  ProcessesOK'
  BY <1>1, <1>6, EndProcesses DEF files
<1>7. QED
  BY <1>2, <1>4, <1>5, <1>6 DEF InitializeLock

\* adopt under both locks: CURRENT is the unlinked base of the plan.
LEMMA AdoptKept ==
    ASSUME IndInv, Grows, NEW p \in Operators, Adopt(p)
    PROVE  MediumOK' /\ ProcessesOK'
<1> USE DEF IndInv
<1>1. /\ UNCHANGED <<files, drawn, plan, bound, acked, counts>>
      /\ pc[p] = "idle" /\ idlock = Nobody /\ idlock' = p /\ wlock' = p
  BY DEF Adopt
<1>2. MediumOK'
  <2>1. DrawnOK'
    BY <1>1 DEF MediumOK, DrawnOK, files, Grows
  <2>2. QED
    BY <1>1, <2>1, BoundFrame, QuietMedium DEF counts
<1>3. PICK q \in plan :
        /\ current.seen = q.base
        /\ \/ /\ intent.seen = Absent /\ identity_status = "legacy_unadopted"
              /\ Begin(p, "adopt", NewIntent("adopt", q.id, q.base), "intent")
           \/ /\ HasIntent /\ intent.seen.op = "adopt"
              /\ Begin(p, "adopt", intent.seen, "object")
  BY DEF Adopt
<1>4. q.id \in drawn /\ current.seen = <<Unlinked>> /\ Legacy
  BY <1>3 DEF MediumOK, DrawnOK
<1>5. ASSUME NEW v, NEW next \in {"intent", "object"}, Begin(p, "adopt", v, next), Knows(p)'
      PROVE  ProcessesOK'
  <2>1. pc'[p] = next /\ \A x \in Operators \ {p} :
          pc'[x] = pc[x] /\ job'[x] = job[x] /\ mode'[x] = mode[x]
    BY <1>5 DEF Begin, TypeOK, CallsOK
  <2>2. QED
    BY <1>1, <1>5, <2>1, LockedStep DEF files
<1>6. ASSUME intent.seen = Absent, identity_status = "legacy_unadopted",
             Begin(p, "adopt", NewIntent("adopt", q.id, q.base), "intent")
      PROVE  ProcessesOK'
  <2>1. PICK v : v = NewIntent("adopt", q.id, q.base)
    OBVIOUS
  <2>2. v.op = "adopt" /\ v.id = q.id /\ v.base = q.base /\ v.stage = "intent_only"
    BY <2>1 DEF NewIntent
  <2>3. pc'[p] = "intent" /\ job'[p] = v /\ mode'[p] = "adopt"
    BY <1>6, <2>1 DEF Begin, TypeOK, CallsOK
  <2>4. \A r \in disk.intact : ~IsReceipt(r)
    BY <1>6, LegacyIsUntouched
  <2>5. FirstIntent(v)'
    <3>1. IntentShape(v)
      BY <1>3, <1>4, <2>2 DEF IntentShape
    <3>2. IntentShape(v)'
      BY <3>1, ShapeStays
    <3>3. QED
      BY <1>1, <1>6, <2>2, <2>4, <3>2 DEF FirstIntent, files
  <2>6. Knows(p)'
    BY <1>1, <1>4, <2>2, <2>3, <2>5 DEF Knows, Locks, StoreWritten, files
  <2>7. QED
    BY <1>5, <1>6, <2>6
<1>7. ASSUME HasIntent, intent.seen.op = "adopt", Begin(p, "adopt", intent.seen, "object")
      PROVE  ProcessesOK'
  <2>1. pc'[p] = "object" /\ job'[p] = intent.seen /\ mode'[p] = "adopt"
    BY <1>7 DEF Begin, TypeOK, CallsOK
  <2>2. Knows(p)'
    BY <1>1, <1>4, <1>7, <2>1 DEF Knows, Locks, StoreWritten, files
  <2>3. QED
    BY <1>5, <1>7, <2>2
<1>8. QED
  BY <1>2, <1>3, <1>6, <1>7

-----------------------------------------------------------------------------
(* The steps that write one object.                                        *)

\* A write that goes on ends behind what it wrote; any other ends the call.
LEMMA WriteKept ==
    ASSUME OneFailure, IndInv, Grows, NEW p \in Operators, NEW o \in Objects,
           NEW next \in Working, pc[p] \in Working \ {"intent"}, o[2] = job[p].id,
           Write(p, o, next),
           IsReceipt(o) /\ o \notin disk.intact /\ o \in disk'.intact => ReceiptOK(o)',
           o \in disk'.intact /\ disk.intact \subseteq disk'.intact /\ Goto(p, next) => Knows(p)'
    PROVE  MediumOK' /\ ProcessesOK'
<1> USE DEF IndInv
<1>1. Knows(p) /\ job[p] \in Intents
  BY JobTypes DEF ProcessesOK
<1>2. idlock = p /\ intent.seen = job[p] /\ UNCHANGED intent
  BY <1>1 DEF Knows, Write
<1>3. MediumOK'
  BY <1>1, <1>2, GrowthMediumQED
<1>4. PICK r \in CreateOrMatch(o) :
        disk' = r.disk /\ After(p, r.end, next) /\ Adds(disk, o, r)
  BY WriteEffect
<1>5. CASE r.end = "ok"
  <2>1. Goto(p, next) /\ o \in disk'.intact /\ disk.intact \subseteq disk'.intact
    BY <1>4, <1>5 DEF After, Adds
  <2>2. QED
    BY <1>2, <1>3, <2>1, GotoProcesses
<1>6. CASE r.end # "ok"
  <2>1. End(p)
    BY <1>4, <1>6 DEF After
  <2>2. QED
    BY <1>2, <1>3, <2>1, EndProcesses
<1>7. QED
  BY <1>5, <1>6

LEMMA WriteCoreKept ==
    ASSUME OneFailure, IndInv, Grows, NEW p \in Operators, WriteCore(p)
    PROVE  MediumOK' /\ ProcessesOK'
<1> USE DEF IndInv
<1>1. pc[p] = "core" /\ pc[p] \in Working \ {"intent"}
  BY DEF WriteCore, Working
<1>2. PICK i \in Identities : i = job[p].id
  BY <1>1, JobTypes
<1>3. PICK next : next = AfterCore[job[p].stage]
  OBVIOUS
<1>4. /\ \/ job[p].stage = "intent_only" /\ next = "object"
         \/ job[p].stage = "identities_ready_root_pending" /\ next = "root"
         \/ job[p].stage = "complete" /\ next = "return"
      /\ next \in Working
  BY <1>1, <1>3, JobTypes DEF AfterCore, Working
<1>5. /\ Core(i) \in Objects /\ Core(i)[2] = i /\ ~IsReceipt(Core(i))
      /\ Write(p, Core(i), next)
  BY <1>1, <1>2, <1>3, ObjectFields, ObjectNames DEF WriteCore, IsReceipt
<1>6. Knows(p)
  BY <1>1 DEF ProcessesOK
<1>7. ASSUME disk.intact \subseteq disk'.intact, Goto(p, next)
      PROVE  Knows(p)'
  <2>1. pc'[p] = next /\ UNCHANGED <<intent, current, mode, job, idlock, wlock>>
    BY <1>5, <1>7 DEF Goto, Write, locks, TypeOK, CallsOK
  <2>2. QED
    BY <1>1, <1>4, <1>6, <1>7, <2>1 DEF Knows, Locks, StoreWritten
<1>8. QED
  BY <1>1, <1>2, <1>4, <1>5, <1>7, WriteKept

LEMMA WriteIdentitiesKept ==
    ASSUME OneFailure, IndInv, Grows, NEW p \in Operators, WriteIdentities(p)
    PROVE  MediumOK' /\ ProcessesOK'
<1> USE DEF IndInv
<1>1. pc[p] \in {"object", "store", "project"} /\ pc[p] \in Working \ {"intent"}
  BY DEF WriteIdentities, Working
<1>2. PICK i \in Identities : i = job[p].id
  BY <1>1, JobTypes
<1>3. Knows(p) /\ mode[p] \in Modes
  BY <1>1, JobTypes DEF ProcessesOK
<1>4. PICK o \in Objects, next \in Working :
        /\ Write(p, o, next) /\ o[2] = i /\ ~IsReceipt(o)
        /\ \/ pc[p] = "object" /\ next = "store"
           \/ pc[p] = "store" /\ next = "project" /\ o = Store(i)
           \/ pc[p] = "project" /\ next = AfterIdentities[mode[p]]
  <2>1. \A o \in Protected(i) : o \in Objects
    BY ObjectFields
  <2>2. /\ Object(i) \in Objects /\ Object(i)[2] = i /\ ~IsReceipt(Object(i))
        /\ Store(i) \in Objects /\ Store(i)[2] = i /\ ~IsReceipt(Store(i))
        /\ Project(i) \in Objects /\ Project(i)[2] = i /\ ~IsReceipt(Project(i))
    BY <2>1, ObjectNames DEF IsReceipt
  <2>3. {"store", "project"} \subseteq Working /\ AfterIdentities[mode[p]] \in Working
    BY <1>3 DEF AfterIdentities, Working, Modes
  <2>4. CASE pc[p] = "object" /\ Write(p, Object(i), "store")
    BY <2>2, <2>3, <2>4
  <2>5. CASE pc[p] = "store" /\ Write(p, Store(i), "project")
    BY <2>2, <2>3, <2>5
  <2>6. CASE pc[p] = "project" /\ Write(p, Project(i), AfterIdentities[mode[p]])
    BY <2>2, <2>3, <2>6
  <2>7. QED
    BY <1>2, <2>4, <2>5, <2>6 DEF WriteIdentities
<1>5. ASSUME o \in disk'.intact, disk.intact \subseteq disk'.intact, Goto(p, next)
      PROVE  Knows(p)'
  <2>1. pc'[p] = next /\ UNCHANGED <<intent, current, mode, job, idlock, wlock>>
    BY <1>4, <1>5 DEF Goto, Write, locks, TypeOK, CallsOK
  <2>2. CASE pc[p] = "object" /\ next = "store"
    BY <1>3, <2>1, <2>2 DEF Knows, Locks, StoreWritten
  <2>3. CASE pc[p] = "store" /\ next = "project" /\ o = Store(i)
    BY <1>2, <1>3, <1>5, <2>1, <2>3 DEF Knows, Locks, StoreWritten
  <2>4. CASE pc[p] = "project" /\ next = AfterIdentities[mode[p]]
    <3>1. Store(job[p].id) \in disk'.intact
      BY <1>3, <1>5, <2>4 DEF Knows, StoreWritten
    <3>2. CASE mode[p] = "initialize" /\ next = "ready"
      BY <1>3, <2>1, <2>4, <3>1, <3>2 DEF Knows, Locks, StoreWritten
    <3>3. CASE mode[p] = "repair" /\ next = "root"
      BY <1>3, <2>1, <2>4, <3>1, <3>3 DEF Knows, Locks, StoreWritten
    <3>4. CASE mode[p] = "adopt" /\ next = "sync"
      <4>1. /\ wlock = p /\ job[p].op = "adopt" /\ current.seen = <<Unlinked>>
            /\ current.seen # <<>>
        <5>1. wlock = p /\ job[p].op = "adopt" /\ current.seen = <<Unlinked>>
          BY <1>3, <3>4 DEF Knows
        <5>2. QED
          BY <5>1, OneRevision, Zenon
      <4>2. CurrentIsOurs(job[p])'
        BY <2>1, <4>1 DEF CurrentIsOurs
      <4>3. QED
        BY <1>3, <2>1, <2>4, <3>4, <4>1, <4>2 DEF Knows, Locks, StoreWritten
    <3>5. QED
      BY <1>3, <2>4, <3>2, <3>3, <3>4 DEF AfterIdentities, Modes
  <2>5. QED
    BY <1>4, <2>2, <2>3, <2>4
<1>6. QED
  BY <1>1, <1>2, <1>4, <1>5, WriteKept

\* The receipt is about files that were flushed before it.  One that was found
\* already there had a receipt before it, or is the one that certifies.
LEMMA WriteReceiptKept ==
    ASSUME OneFailure, IndInv, Grows, NEW p \in Operators, WriteReceipt(p)
    PROVE  MediumOK' /\ ProcessesOK'
<1> USE DEF IndInv
<1>1. pc[p] = "receipt" /\ pc[p] \in Working \ {"intent"} /\ "complete" \in Working
  BY DEF WriteReceipt, Working
<1>2. /\ Knows(p) /\ mode[p] \in Modes /\ job[p] \in Intents
      /\ intent.seen = job[p] /\ CurrentIsOurs(job[p]) /\ wlock = p
  BY <1>1, JobTypes DEF ProcessesOK, Knows, Locks
<1>3. PICK i \in Identities : i = job[p].id
  BY <1>1, JobTypes
<1>4. PICK s \in Revs : s = current.seen
  BY DEF TypeOK, FilesOK, CellOf
<1>5. PICK again \in BOOLEAN : again = (ValidReceipts(job[p], s) # {})
  OBVIOUS
<1>6. PICK o \in Objects : o = Receipt(mode[p], i, s, again)
  BY <1>2, ObjectFields
<1>7. IsReceipt(o) /\ o[2] = i /\ o[4] = s /\ o[5] = again
  BY <1>6, ObjectNames DEF IsReceipt
<1>8. Write(p, o, "complete")
  BY <1>3, <1>4, <1>5, <1>6 DEF WriteReceipt
<1>9. /\ s # <<>> /\ Len(s) >= 1 /\ Len(s) \in Nat
      /\ s[Len(s)] = i \/ (s = <<Unlinked>> /\ s[Len(s)] = Unlinked /\ job[p].op = "adopt")
  <2>1. s # <<>> /\ (s[Len(s)] = i \/ (s = <<Unlinked>> /\ job[p].op = "adopt"))
    BY <1>2, <1>3, <1>4 DEF CurrentIsOurs
  <2>2. Len(s) >= 1 /\ Len(s) \in Nat
    BY <2>1, SeenTypes
  <2>3. s = <<Unlinked>> => Len(s) = 1 /\ s[1] = Unlinked
    BY OneRevision
  <2>4. QED
    BY <2>1, <2>2, <2>3
<1>10. PICK r \in CreateOrMatch(o) :
        disk' = r.disk /\ After(p, r.end, "complete") /\ Adds(disk, o, r)
  BY <1>8, WriteEffect
<1>11. UNCHANGED <<intent, current>>
  BY <1>8 DEF Write
<1>12. \A x \in ValidReceipts(job[p], s) : x \in disk.intact /\ IsReceipt(x) /\ x[2] = i
  BY <1>3 DEF ValidReceipts, Receipts, IsReceipt
<1>13. ASSUME o \notin disk.intact, o \in disk'.intact
       PROVE  ReceiptOK(o)'
  <2>1. again => Certified(i)'
    <3> SUFFICES ASSUME again PROVE \E x \in disk'.durable : IsReceipt(x) /\ x[2] = i
      BY DEF Certified
    <3>1. CASE r.end = "ok"
      BY <1>7, <1>10, <1>13, <3>1 DEF Adds
    <3>2. CASE r.end = "oserror"
      <4>1. faults = 0
        <5>1. Fault
          BY <1>10, <3>2 DEF After
        <5>2. \A n \in Nat : n < MaxFaults => n = 0
          BY IdentityAssumption DEF OneFailure
        <5>3. QED
          BY <5>1, <5>2 DEF Fault, TypeOK, RestOK
      <4>2. PICK x \in ValidReceipts(job[p], s) : TRUE
        BY <1>5
      <4>3. x \in disk.durable
        BY <1>12, <4>1, <4>2 DEF MediumOK, NothingLoose
      <4>4. QED
        BY <1>12, <4>3 DEF Grows
    <3>3. CASE r.end \notin {"ok", "oserror"}
      BY <1>10, <1>13, <3>3 DEF Adds
    <3>4. QED
      BY <3>1, <3>2, <3>3
  <2>2. Protected(i) \subseteq disk'.durable
    BY <1>1, <1>2, <1>3 DEF Knows, Grows
  <2>3. current.safe = s /\ Prefix(s, s)
    BY <1>1, <1>2, <1>4, PrefixReflexive DEF Knows
  <2>4. \A k \in Len(s) + 1 .. Len(s) : s[k] = i
    BY <1>9
  <2>5. \A v \in Intents : SameIntent(job[p], v) => AdoptedBy(v, o)
    BY <1>7, <1>9, NamesAssumption DEF AdoptedBy, SameIntent
  <2>6. AdoptedBy(intent.seen, o)
    BY <1>2, <2>5 DEF SameIntent
  <2>7. intent.safe \in Intents => AdoptedBy(intent.safe, o)
    BY <1>2, <2>5 DEF MediumOK, IntentOK
  <2>8. s[Len(s)] \in {i, Unlinked}
    BY <1>9
  <2>9. QED
    BY <1>4, <1>7, <1>9, <1>11, <2>1, <2>2, <2>3, <2>4, <2>6, <2>7, <2>8 DEF ReceiptOK, AdoptedBy
<1>14. ASSUME o \in disk.intact
       PROVE  Certified(i)
  <2>1. Protected(i) \subseteq disk.intact
    BY <1>1, <1>2, <1>3 DEF Knows, TypeOK, FilesOK
  <2>2. job[p].op = "adopt" => job[p].base = <<Unlinked>>
    BY <1>2 DEF MediumOK, IntentOK, IntentShape
  <2>3. PICK legacy \in BOOLEAN : legacy = (job[p].op = "adopt" /\ s = job[p].base)
    OBVIOUS
  <2>4. BoundSince(s, s, i, legacy)
    <3>1. Prefix(s, s) /\ \A k \in Len(s) + 1 .. Len(s) : s[k] = i
      BY <1>9, PrefixReflexive
    <3>2. s[Len(s)] = i \/ (legacy /\ s[Len(s)] = Unlinked)
      BY <1>9, <2>2, <2>3
    <3>3. QED
      BY <1>9, <3>1, <3>2, BoundSinceRevisions
  <2>5. o \in ValidReceipts(job[p], s)
    BY <1>3, <1>7, <1>14, <2>1, <2>3, <2>4 DEF ValidReceipts, Receipts, IsReceipt
  <2>6. o[5]
    BY <1>5, <1>7, <2>5
  <2>7. QED
    BY <1>7, <1>14, <2>6 DEF MediumOK, ReceiptsOK, ReceiptOK
<1>15. ASSUME o \in disk'.intact, disk.intact \subseteq disk'.intact, Goto(p, "complete")
       PROVE  Knows(p)'
  <2>1. Certified(i)'
    <3>1. CASE o \in disk.intact
      BY <1>14, <3>1, CertifiedStays DEF Grows
    <3>2. CASE o \notin disk.intact
      <4>1. r.end = "ok"
        <5>1. pc'[p] = "complete"
          BY <1>15 DEF Goto, TypeOK, CallsOK
        <5>2. End(p) => pc'[p] = "idle"
          BY DEF End, TypeOK, CallsOK
        <5>3. QED
          BY <1>10, <5>1, <5>2 DEF After
      <4>2. o \in disk'.durable
        BY <1>10, <3>2, <4>1 DEF Adds
      <4>3. QED
        BY <1>7, <4>2 DEF Certified
    <3>3. QED
      BY <3>1, <3>2
  <2>2. pc'[p] = "complete" /\ UNCHANGED <<intent, current, mode, job, idlock, wlock>>
    BY <1>11, <1>15 DEF Goto, locks, TypeOK, CallsOK
  <2>3. job'[p].id = i /\ job'[p] = job[p]
    BY <1>3, <2>2
  <2>4. QED
    BY <1>1, <1>2, <2>1, <2>2, <2>3 DEF Knows, Locks, StoreWritten, Certified
<1>16. QED
  BY <1>1, <1>3, <1>7, <1>8, <1>13, <1>15, WriteKept

\* The root revision is no receipt.
LEMMA WriteRootKept ==
    ASSUME OneFailure, IndInv, Grows, NEW p \in Operators, WriteRoot(p)
    PROVE  MediumOK' /\ ProcessesOK'
<1> USE DEF IndInv
<1>1. /\ pc[p] = "candidate" /\ pc[p] \in Working /\ "replace" \in Working
      /\ UNCHANGED <<intent, current, drawn, plan, bound, acked>>
  BY DEF WriteRoot, Working
<1>2. Knows(p) /\ job[p] \in Intents /\ intent.seen = job[p] /\ idlock = p
  BY <1>1, JobTypes DEF ProcessesOK, Knows
<1>3. PICK i \in Identities : i = job[p].id
  BY <1>1, JobTypes
<1>4. PICK o : o = Root(i) /\ o[1] = "root" /\ o[2] = i
  BY <1>3, ObjectNames
<1>5. PICK r \in WriteImmutable(disk, o) :
        /\ Adds(disk, o, r) /\ After(p, r.end, "replace")
        /\ disk'.intact = r.disk.intact /\ disk'.torn = r.disk.torn
        /\ r.end # "ok" => disk'.durable = r.disk.durable
        /\ r.end = "ok" => disk'.durable = r.disk.durable \cup {o}
  BY <1>3, <1>4, RootEffect
<1>6. /\ disk'.intact \subseteq disk.intact \cup {o}
      /\ r.end # "oserror" => disk'.torn \subseteq disk.torn
      /\ r.end # "oserror" /\ disk.intact = disk.durable => disk'.intact = disk'.durable
  BY <1>5 DEF Adds
<1>7. IntentOK' /\ LostAdoption' /\ CurrentOK' /\ RootOwned' /\ BoundOK'
  BY <1>1, IntentFrame, CurrentFrame, RootFrame, BoundFrame
<1>8. faults \in Nat
  BY DEF TypeOK, RestOK
<1>9. NothingLoose'
  <2> SUFFICES ASSUME faults' = 0
               PROVE  disk'.intact = disk'.durable /\ disk'.torn = {} /\ intent.safe = intent.seen
    BY <1>1 DEF NothingLoose
  <2>1. r.end # "oserror" /\ faults = 0
    BY <1>5, <1>8, EndIsClean
  <2>2. QED
    BY <1>6, <2>1 DEF MediumOK, NothingLoose
<1>10. LooseAlone'
  <2> SUFFICES ASSUME intent.safe = Absent
               PROVE  disk'.intact = disk'.durable /\ disk'.torn = {}
    BY <1>1 DEF LooseAlone
  <2>1. ~Fault
    BY <1>2, LooseIntentIsTheFailure
  <2>2. r.end # "oserror"
    BY <1>5, <1>8, <2>1, EndIsClean
  <2>3. QED
    BY <1>6, <2>2 DEF MediumOK, LooseAlone
<1>11. AckedOK'
  BY <1>1 DEF MediumOK, AckedOK
<1>12. DrawnOK'
  <2>1. i \in drawn
    BY <1>2, <1>3 DEF MediumOK, IntentOK, IntentShape
  <2>2. \A x \in disk'.intact : x[2] \in drawn'
    BY <1>1, <1>4, <1>6, <2>1 DEF MediumOK, DrawnOK
  <2>3. QED
    BY <1>1, <2>2 DEF MediumOK, DrawnOK, Grows
<1>13. ReceiptsOK'
  <2> SUFFICES ASSUME NEW x \in disk'.intact, IsReceipt(x)
               PROVE  ReceiptOK(x)'
    BY DEF ReceiptsOK
  <2>1. x \in disk.intact
    BY <1>4, <1>6 DEF IsReceipt
  <2>2. QED
    BY <1>1, <2>1, ReceiptStays
<1>14. MediumOK'
  BY <1>7, <1>9, <1>10, <1>11, <1>12, <1>13 DEF MediumOK
<1>15. CASE r.end = "ok"
  <2>1. Goto(p, "replace")
    BY <1>5, <1>15 DEF After
  <2>2. pc'[p] = "replace" /\ UNCHANGED <<mode, job, idlock, wlock>>
    BY <2>1 DEF Goto, locks, TypeOK, CallsOK
  <2>3. Root(job[p].id) \in disk'.durable
    BY <1>3, <1>4, <1>5, <1>15
  <2>4. Store(job[p].id) \in disk'.intact
    BY <1>1, <1>2, <1>5 DEF Knows, StoreWritten, Adds
  <2>5. Root(job[p].id)' = Root(job[p].id)
    BY <2>2
  <2>6. Knows(p)'
    BY <1>1, <1>2, <2>2, <2>3, <2>4, <2>5 DEF Knows, Locks, StoreWritten
  <2>7. QED
    BY <1>1, <1>2, <1>14, <2>1, <2>6, GotoProcesses
<1>16. CASE r.end # "ok"
  <2>1. End(p)
    BY <1>5, <1>16 DEF After
  <2>2. QED
    BY <1>1, <1>2, <1>14, <2>1, EndProcesses
<1>17. QED
  BY <1>15, <1>16

\* The answer: the intent that says complete is on the medium.
LEMMA ReturnKept ==
    ASSUME IndInv, Grows, NEW p \in Operators, Return(p)
    PROVE  MediumOK' /\ ProcessesOK'
<1> USE DEF IndInv
<1>1. /\ UNCHANGED <<files, drawn, plan, bound, counts>> /\ End(p)
      /\ pc[p] = "return" /\ pc[p] \in Working /\ acked' = acked \cup {job[p].id}
  BY DEF Return, Working
<1>2. /\ idlock = p /\ intent.seen = job[p] /\ job[p] \in Intents
      /\ intent.safe = intent.seen /\ job[p].stage = "complete"
  BY <1>1, JobTypes DEF ProcessesOK, Knows
<1>3. AckedOK'
  BY <1>1, <1>2 DEF MediumOK, AckedOK, files
<1>4. DrawnOK'
  BY <1>1 DEF MediumOK, DrawnOK, files, Grows
<1>5. MediumOK'
  BY <1>1, <1>3, <1>4, BoundFrame, FilesKept DEF counts
<1>6. QED
  BY <1>1, <1>2, <1>5, EndProcesses DEF files

\* The fsyncs in front of the receipt.
LEMMA SyncKept ==
    ASSUME IndInv, Grows, NEW p \in Operators, Sync(p)
    PROVE  MediumOK' /\ ProcessesOK'
<1> USE DEF IndInv
<1>1. /\ pc[p] = "sync" /\ pc[p] \in Working /\ "receipt" \in Working
      /\ UNCHANGED <<intent, drawn, plan, bound, acked>>
  BY DEF Sync, Working
<1>2. /\ Knows(p) /\ job[p] \in Intents /\ intent.seen = job[p] /\ idlock = p
      /\ CurrentIsOurs(job[p])
  BY <1>1, JobTypes DEF ProcessesOK, Knows
<1>3. PICK i \in Identities : i = job[p].id
  BY <1>1, JobTypes
<1>4. CASE /\ CanSync(disk, Protected(job[p].id))
           /\ disk' = SyncProtected(disk, Protected(job[p].id))
           /\ current' = Cell(current.seen)
           /\ Goto(p, "receipt") /\ UNCHANGED counts
  <2>1. /\ disk'.intact = disk.intact /\ disk'.torn = disk.torn
        /\ disk'.durable = disk.durable \cup Protected(i) /\ Protected(i) \subseteq disk.intact
    BY <1>3, <1>4, SyncTypes DEF CanSync, TypeOK, FilesOK
  <2>2. current'.seen = current.seen /\ current'.safe = current.seen /\ faults' = faults
    BY <1>4 DEF Cell, counts
  <2>3. PICK s \in Revs : s = current.seen
    BY DEF TypeOK, FilesOK, CellOf
  <2>4. IntentOK' /\ LostAdoption' /\ BoundOK'
    BY <1>1, IntentFrame, BoundFrame
  <2>5. NothingLoose' /\ LooseAlone'
    BY <1>1, <2>1, <2>2 DEF MediumOK, NothingLoose, LooseAlone
  <2>6. CurrentOK'
    <3>1. Prefix(s, s)
      BY PrefixReflexive
    <3>2. \A k \in 2..Len(s) : Certified(s[k])'
      BY <2>3, CertifiedStays DEF MediumOK, CurrentOK, Grows
    <3>3. QED
      BY <2>2, <2>3, <3>1, <3>2 DEF MediumOK, CurrentOK, Legacy, Prefix
  <2>7. RootOwned'
    BY <1>1, <2>2 DEF MediumOK, RootOwned, Grows
  <2>8. ReceiptsOK'
    <3> SUFFICES ASSUME NEW r \in disk.intact, IsReceipt(r)
                 PROVE  ReceiptOK(r)'
      BY <2>1 DEF ReceiptsOK
    <3>1. ReceiptOK(r)
      BY DEF MediumOK, ReceiptsOK
    <3>2. r[4] \in Revs
      BY ObjectFields DEF TypeOK, FilesOK, DiskOf
    <3>3. Prefix(r[4], s)
      BY <2>3, <3>1, <3>2, PrefixTransitive DEF ReceiptOK, MediumOK, CurrentOK, TypeOK, FilesOK, CellOf
    <3>4. r[5] => Certified(r[2])'
      BY <3>1, CertifiedStays DEF ReceiptOK, Grows
    <3>5. QED
      BY <1>1, <2>2, <2>3, <3>1, <3>3, <3>4 DEF ReceiptOK, Grows, AdoptedBy
  <2>9. AckedOK' /\ DrawnOK'
    BY <1>1, <2>1 DEF MediumOK, AckedOK, DrawnOK, Grows
  <2>10. MediumOK'
    BY <2>4, <2>5, <2>6, <2>7, <2>8, <2>9 DEF MediumOK
  <2>11. Knows(p)'
    <3>1. pc'[p] = "receipt" /\ UNCHANGED <<mode, job, idlock, wlock>>
      BY <1>4 DEF Goto, locks, TypeOK, CallsOK
    <3>2. Protected(job'[p].id) \subseteq disk'.durable
      BY <1>3, <2>1, <3>1
    <3>3. CurrentIsOurs(job[p])'
      BY <1>2, <2>2, <3>1 DEF CurrentIsOurs
    <3>4. Protected(job[p].id)' = Protected(job[p].id)
      BY <3>1
    <3>5. QED
      BY <1>1, <1>2, <2>2, <3>1, <3>2, <3>3, <3>4 DEF Knows, Locks, StoreWritten
  <2>12. QED
    BY <1>1, <1>2, <1>4, <2>10, <2>11, GotoProcesses
<1>5. CASE End(p) /\ Fault /\ UNCHANGED <<disk, current>>
  <2>1. faults' # 0 /\ UNCHANGED files
    BY <1>1, <1>5 DEF Fault, TypeOK, RestOK, files
  <2>2. AckedOK' /\ DrawnOK'
    BY <1>1, <1>5 DEF MediumOK, AckedOK, DrawnOK, Grows
  <2>3. MediumOK'
    BY <1>1, <2>1, <2>2, BoundFrame, FilesKept
  <2>4. QED
    BY <1>1, <1>2, <1>5, <2>3, EndProcesses
<1>6. QED
  BY <1>4, <1>5 DEF Sync

\* Where there is no CURRENT there is no receipt.
LEMMA NoCurrentNoReceipt ==
    ASSUME TypeOK, MediumOK, current.safe = <<>>
    PROVE  \A r \in disk.intact : ~IsReceipt(r)
<1> SUFFICES ASSUME NEW r \in disk.intact, IsReceipt(r) PROVE FALSE
  OBVIOUS
<1>1. r[4] \in Revs
  BY ObjectFields DEF TypeOK, FilesOK, DiskOf
<1>2. r[4] # <<>> /\ Prefix(r[4], current.safe)
  BY DEF MediumOK, ReceiptsOK, ReceiptOK
<1>3. Len(r[4]) >= 1 /\ Len(current.safe) >= 1
  BY <1>1, <1>2, SeenTypes DEF Prefix
<1>4. QED
  BY <1>3, EmptySeq

\* The identity that writes the first CURRENT has its root on the medium, and
\* its intent or its identity.
LEMMA ReplaceCurrentKept ==
    ASSUME IndInv, Grows, NEW p \in Operators, ReplaceCurrent(p)
    PROVE  MediumOK' /\ ProcessesOK'
<1> USE DEF IndInv
<1>1. /\ pc[p] = "replace" /\ pc[p] \in Working /\ "sync" \in Working
      /\ UNCHANGED <<intent, disk, drawn, plan, bound, acked>>
  BY DEF ReplaceCurrent, Working
<1>2. /\ Knows(p) /\ job[p] \in Intents /\ intent.seen = job[p] /\ idlock = p
      /\ wlock = p /\ job[p].op = "initialize" /\ mode[p] # "adopt"
  BY <1>1, JobTypes DEF ProcessesOK, Knows, Locks
<1>3. PICK i \in Identities : i = job[p].id
  BY <1>1, JobTypes
<1>4. PICK s \in Revs : s = <<i>> /\ s # <<>> /\ Len(s) = 1 /\ s[1] = i
  <2>1. <<i>> \in Revs
    BY DEF Revs
  <2>2. QED
    BY <2>1, OneRevision, Zenon
<1>5. PICK r \in AtomicWrite(current, s) :
        /\ current' = r.cell
        /\ \/ After(p, r.end, "sync")
           \/ r.end = "oserror" /\ r.cell.seen = s /\ Goto(p, "sync") /\ Fault
  BY <1>3, <1>4 DEF ReplaceCurrent
<1>6. current.seen = <<>> /\ current.safe = <<>>
  BY <1>2, ReplaceEffect
<1>7. /\ r.end = "ok" => current'.seen = s
      /\ \/ UNCHANGED current
         \/ current'.seen = s /\ current'.safe \in {current.safe, s}
  <2>1. /\ r.cell = current \/ (r.cell.seen = s /\ r.cell.safe \in {current.safe, s})
        /\ r.end = "ok" => r.cell = Cell(s)
    BY AtomicWriteEffect DEF TypeOK, FilesOK
  <2>2. QED
    BY <1>5, <2>1 DEF Cell
<1>8. \A x \in disk.intact : ~IsReceipt(x)
  BY <1>6, NoCurrentNoReceipt
<1>9. IntentOK' /\ LostAdoption' /\ BoundOK'
  BY <1>1, IntentFrame, BoundFrame
<1>10. NothingLoose' /\ LooseAlone'
  <2>1. faults' = 0 => faults = 0
    BY <1>5 DEF After, Fault, counts, TypeOK, RestOK
  <2>2. QED
    BY <1>1, <2>1 DEF MediumOK, NothingLoose, LooseAlone
<1>11. ASSUME current'.seen = s, current'.safe \in {current.safe, s}
       PROVE  CurrentOK' /\ RootOwned'
  <2>1. CurrentOK'
    <3>1. Prefix(s, s) /\ Prefix(current.safe, s)
      <4>1. Len(current.safe) = 0
        BY <1>6, EmptySeq
      <4>2. QED
        BY <1>4, <4>1, PrefixReflexive DEF Prefix
    <3>2. ~Legacy
      BY <1>6 DEF Legacy
    <3>3. \A k \in 2..Len(s) : FALSE
      BY <1>4
    <3>4. Prefix(current'.safe, current'.seen)
      BY <1>11, <3>1
    <3>5. QED
      BY <1>11, <3>2, <3>3, <3>4 DEF CurrentOK, Grows, Prefix
  <2>2. RootOwned'
    <3>1. Root(i) \in disk.durable /\ Store(i) \in disk.intact
      BY <1>1, <1>2, <1>3 DEF Knows, StoreWritten
    <3>2. CASE intent.safe = Absent
      BY <1>1, <1>4, <1>11, <3>1, <3>2 DEF MediumOK, LooseAlone, RootOwned
    <3>3. CASE intent.safe # Absent
      <4>1. intent.safe \in Intents
        BY <1>2, <3>3, NamesAssumption DEF MediumOK, IntentOK, TypeOK, FilesOK, CellOf
      <4>2. intent.safe.id = i /\ intent.safe.op = "initialize"
        BY <1>2, <1>3, <4>1 DEF MediumOK, IntentOK, SameIntent
      <4>3. QED
        BY <1>1, <1>4, <1>11, <3>1, <4>1, <4>2 DEF RootOwned
    <3>4. QED
      BY <3>2, <3>3
  <2>3. QED
    BY <2>1, <2>2
<1>12. ASSUME UNCHANGED current
       PROVE  CurrentOK' /\ RootOwned'
  BY <1>1, <1>12, CurrentFrame, RootFrame
<1>13. ReceiptsOK' /\ AckedOK' /\ DrawnOK'
  BY <1>1, <1>8 DEF MediumOK, ReceiptsOK, AckedOK, DrawnOK, Grows
<1>14. MediumOK'
  BY <1>7, <1>9, <1>10, <1>11, <1>12, <1>13 DEF MediumOK
<1>15. CASE End(p)
  BY <1>1, <1>2, <1>14, <1>15, EndProcesses
<1>16. CASE Goto(p, "sync") /\ current'.seen = s
  <2>1. pc'[p] = "sync" /\ UNCHANGED <<mode, job, idlock, wlock>>
    BY <1>16 DEF Goto, locks, TypeOK, CallsOK
  <2>2. CurrentIsOurs(job[p])'
    BY <1>3, <1>4, <1>16, <2>1 DEF CurrentIsOurs
  <2>3. Knows(p)'
    BY <1>1, <1>2, <2>1, <2>2 DEF Knows, Locks, StoreWritten
  <2>4. QED
    BY <1>1, <1>2, <1>14, <1>16, <2>3, GotoProcesses
<1>17. QED
  BY <1>5, <1>7, <1>15, <1>16 DEF After

\* What an intent that is about to be published says.
Publishable(p, v) ==
  /\ v \in Intents /\ IntentShape(v)
  /\ \/ /\ pc[p] = "intent" /\ v = job[p] /\ FirstIntent(v)
     \/ /\ pc[p] \in {"ready", "complete"} /\ intent.seen = job[p] /\ SameIntent(v, job[p])
        /\ pc[p] = "ready" => v.stage = "identities_ready_root_pending"
        /\ pc[p] = "complete" => v.stage = "complete" /\ (job[p].stage = "complete" => v = job[p])

\* The intent is replaced by one with the same identity, or is the first one.
LEMMA PublishedIntent ==
    ASSUME IndInv, Grows, NEW p \in Operators, pc[p] \in Working, NEW v, Publishable(p, v),
           intent'.seen = v, intent'.safe \in {intent.safe, v}
    PROVE  IntentOK' /\ LostAdoption'
<1> USE DEF IndInv
<1>1. v \in Intents /\ v # Absent /\ v # Torn /\ IntentShape(v)'
  BY NamesAssumption, ShapeStays DEF Publishable
<1>2. job[p] \in Intents
  BY JobTypes
<1>3. intent.safe # Torn
  BY <1>2, NamesAssumption DEF Publishable, FirstIntent, MediumOK, IntentOK
<1>4. PICK w : w = intent.safe
  OBVIOUS
<1>5. IntentOK'
  <2>1. w \in Intents => SameIntent(v, w) /\ IntentShape(w)
    <3> SUFFICES ASSUME w \in Intents PROVE SameIntent(v, w) /\ IntentShape(w)
      OBVIOUS
    <3>1. intent.seen = job[p] /\ SameIntent(v, job[p])
      BY <1>4, NamesAssumption DEF Publishable, FirstIntent, MediumOK, IntentOK
    <3>2. QED
      BY <1>2, <1>4, <3>1 DEF MediumOK, IntentOK, SameIntent
  <2>2. w \in Intents => IntentShape(w)'
    BY <2>1, ShapeStays
  <2>3. SameIntent(v, v)
    BY DEF SameIntent
  <2>4. QED
    BY <1>1, <1>3, <1>4, <2>1, <2>2, <2>3 DEF IntentOK
<1>6. LostAdoption'
  <2>1. v.op = "initialize" /\ Legacy => Foreign(v.id)
    BY <1>2 DEF Publishable, FirstIntent, SameIntent, MediumOK, LostAdoption
  <2>2. Foreign(v.id) => Foreign(v.id)'
    BY ForeignStays DEF Grows
  <2>3. QED
    BY <2>1, <2>2 DEF LostAdoption, Grows, Foreign
<1>7. QED
  BY <1>5, <1>6

\* The intent of this call: what a receipt, the root and an answer rely on stays.
LEMMA PublishKept ==
    ASSUME OneFailure, IndInv, Grows, NEW p \in Operators, pc[p] \in Working, Knows(p),
           NEW v, Publishable(p, v), PublishAs(p, v)
    PROVE  MediumOK' /\ ProcessesOK'
<1> USE DEF IndInv
<1>1. PICK r \in (IF intent.seen = Absent THEN CreateIntent(v) ELSE AtomicWrite(intent, v)) :
        /\ intent' = r.cell
        /\ IF r.end = "ok"
           THEN /\ job' = [job EXCEPT ![p] = v]
                /\ pc' = [pc EXCEPT ![p] = "core"]
                /\ UNCHANGED <<mode, locks, counts>>
           ELSE End(p) /\ Fault
  BY DEF PublishAs
<1>2. UNCHANGED <<disk, current, drawn, plan, bound, acked>>
  BY DEF PublishAs
<1>3. /\ v \in Intents /\ v # Absent /\ v # Torn /\ job[p] \in Intents
      /\ job[p] # Absent /\ job[p] # Torn
  BY JobTypes, NamesAssumption DEF Publishable
<1>4. /\ r.end \in {"ok", "oserror"}
      /\ \/ r.cell = intent
         \/ r.cell.seen = v /\ r.cell.safe \in {intent.safe, v}
         \/ intent.seen = Absent /\ r.cell.seen = Torn /\ r.cell.safe = intent.safe
      /\ r.end = "ok" => r.cell.seen = v /\ r.cell.safe = v
  <2>1. FilesOK /\ v \in Intents
    BY <1>3 DEF TypeOK
  <2>2. /\ r.end \in {"ok", "oserror"} /\ (r.end = "ok" => r.cell = Cell(v))
        /\ \/ r.cell = intent
           \/ r.cell.seen = v /\ r.cell.safe \in {intent.safe, v}
           \/ intent.seen = Absent /\ r.cell.seen = Torn /\ r.cell.safe = intent.safe
    BY <2>1, PublishEffect
  <2>3. QED
    BY <2>2 DEF Cell
<1>5. IntentOK' /\ LostAdoption'
  <2>1. CASE intent' = intent
    BY <2>1, IntentFrame
  <2>2. CASE intent'.seen = v /\ intent'.safe \in {intent.safe, v}
    BY <2>2, PublishedIntent
  <2>3. CASE intent.seen = Absent /\ intent'.seen = Torn /\ intent'.safe = intent.safe
    BY <2>3, NamesAssumption DEF IntentOK, LostAdoption, MediumOK
  <2>4. QED
    BY <1>1, <1>4, <2>1, <2>2, <2>3
<1>6. intent'.seen = Absent => intent.seen = Absent
  BY <1>1, <1>3, <1>4, NamesAssumption
<1>7. intent.safe \in Intents => intent'.safe \in Intents /\ SameIntent(intent.safe, intent'.safe)
  <2>1. intent.safe \in Intents => SameIntent(intent.safe, v)
    BY <1>3, NamesAssumption DEF Publishable, FirstIntent, MediumOK, IntentOK, SameIntent
  <2>2. intent'.safe \in {intent.safe, v}
    BY <1>1, <1>4
  <2>3. QED
    BY <1>3, <2>1, <2>2 DEF SameIntent
<1>8. CurrentOK' /\ RootOwned' /\ BoundOK' /\ DrawnOK'
  <2>1. CurrentOK' /\ RootOwned' /\ BoundOK'
    BY <1>2, <1>7, CurrentFrame, RootFrame, BoundFrame
  <2>2. DrawnOK'
    BY <1>2 DEF MediumOK, DrawnOK, Grows
  <2>3. QED
    BY <2>1, <2>2
<1>9. NothingLoose'
  <2>1. r.end # "ok" => faults' # 0
    BY <1>1 DEF Fault, TypeOK, RestOK
  <2>2. r.end = "ok" => faults' = faults /\ intent'.safe = intent'.seen
    BY <1>1, <1>4 DEF counts
  <2>3. QED
    BY <1>2, <2>1, <2>2 DEF MediumOK, NothingLoose
<1>10. LooseAlone'
  BY <1>1, <1>2, <1>3, <1>4 DEF MediumOK, LooseAlone
<1>11. ReceiptsOK'
  <2> SUFFICES ASSUME NEW x \in disk.intact, IsReceipt(x)
               PROVE  ReceiptOK(x)'
    BY <1>2 DEF ReceiptsOK
  <2>1. ReceiptOK(x)
    BY DEF MediumOK, ReceiptsOK
  <2>2. AdoptedBy(v, x)
    <3>1. CASE FirstIntent(v)
      BY <3>1 DEF FirstIntent, AdoptedBy
    <3>2. CASE intent.seen = job[p] /\ SameIntent(v, job[p])
      BY <1>3, <2>1, <3>2 DEF ReceiptOK, AdoptedBy, SameIntent
    <3>3. QED
      BY <3>1, <3>2 DEF Publishable
  <2>3. intent'.seen \in Intents => AdoptedBy(intent'.seen, x)
    BY <1>1, <1>4, <2>1, <2>2, NamesAssumption DEF ReceiptOK
  <2>4. intent'.safe \in Intents => AdoptedBy(intent'.safe, x)
    BY <1>1, <1>4, <2>1, <2>2 DEF ReceiptOK
  <2>5. x[5] => Certified(x[2])'
    BY <2>1, CertifiedStays DEF ReceiptOK, Grows
  <2>6. QED
    BY <1>2, <2>1, <2>3, <2>4, <2>5 DEF ReceiptOK, AdoptedBy
<1>12. AckedOK'
  <2> SUFFICES ASSUME NEW i \in acked
               PROVE  /\ intent'.seen \in Intents /\ intent'.seen.id = i
                      /\ intent'.seen.stage = "complete" /\ intent'.safe = intent'.seen
    BY <1>2 DEF AckedOK
  <2>1. /\ intent.seen \in Intents /\ intent.seen.id = i /\ intent.seen.stage = "complete"
        /\ intent.safe = intent.seen
    BY DEF MediumOK, AckedOK
  <2>2. intent.seen # Absent /\ intent.seen = job[p] /\ pc[p] # "ready"
    BY <2>1, NamesAssumption DEF Publishable, FirstIntent, Knows
  <2>3. v = intent.seen
    BY <2>1, <2>2 DEF Publishable, FirstIntent
  <2>4. QED
    BY <1>1, <1>4, <2>1, <2>2, <2>3
<1>13. MediumOK'
  BY <1>5, <1>8, <1>9, <1>10, <1>11, <1>12 DEF MediumOK
<1>14. idlock = p
  BY DEF Knows
<1>15. CASE r.end = "ok"
  <2>1. /\ pc'[p] = "core" /\ job'[p] = v /\ UNCHANGED <<mode, idlock, wlock>>
        /\ \A q \in Operators \ {p} :
             pc'[q] = pc[q] /\ job'[q] = job[q] /\ mode'[q] = mode[q]
    BY <1>1, <1>15 DEF TypeOK, CallsOK, locks
  <2>2. intent'.seen = v /\ intent'.safe = v
    BY <1>1, <1>4, <1>15
  <2>3. mode[p] = "adopt" => wlock = p /\ v.op = "adopt" /\ current.seen = <<Unlinked>>
    BY DEF Knows, Publishable, SameIntent
  <2>4. v.stage = "identities_ready_root_pending" => Store(v.id) \in disk.intact
    <3>1. v.stage = "identities_ready_root_pending" => pc[p] = "ready"
      BY DEF Publishable, FirstIntent
    <3>2. pc[p] = "ready" => v.id = job[p].id /\ Store(job[p].id) \in disk.intact
      BY DEF Publishable, SameIntent, Knows, StoreWritten
    <3>3. QED
      BY <3>1, <3>2
  <2>5. Knows(p)'
    BY <1>2, <1>14, <2>1, <2>2, <2>3, <2>4 DEF Knows, Locks, StoreWritten, Store
  <2>6. QED
    BY <1>6, <1>13, <1>14, <2>1, <2>5, LockedStep
<1>16. CASE r.end # "ok"
  BY <1>1, <1>6, <1>13, <1>14, <1>16, EndProcesses
<1>17. QED
  BY <1>15, <1>16

LEMMA PublishIntentKept ==
    ASSUME OneFailure, IndInv, Grows, NEW p \in Operators, PublishIntent(p)
    PROVE  MediumOK' /\ ProcessesOK'
<1> USE DEF IndInv
<1>1. pc[p] \in Working
  BY DEF PublishIntent, Working
<1>2. Knows(p) /\ job[p] \in Intents
  BY <1>1, JobTypes DEF ProcessesOK
<1>3. CASE pc[p] = "intent" /\ PublishAs(p, job[p])
  <2>1. Publishable(p, job[p])
    BY <1>2, <1>3 DEF Publishable, Knows, FirstIntent
  <2>2. QED
    BY <1>1, <1>2, <1>3, <2>1, PublishKept
<1>4. ASSUME NEW s \in {"identities_ready_root_pending", "complete"},
             pc[p] = IF s = "complete" THEN "complete" ELSE "ready",
             PublishAs(p, [job[p] EXCEPT !.stage = s])
      PROVE  MediumOK' /\ ProcessesOK'
  <2>1. PICK v : v = [job[p] EXCEPT !.stage = s]
    OBVIOUS
  <2>2. /\ v \in Intents /\ v.op = job[p].op /\ v.id = job[p].id /\ v.base = job[p].base
        /\ v.stage = s
    BY <1>2, <2>1, StageTypes
  <2>3. job[p].stage = "complete" /\ s = "complete" => v = job[p]
    BY <1>2, <2>1 DEF Intents
  <2>4. intent.seen = job[p] /\ IntentShape(job[p])
    BY <1>2, <1>4 DEF Knows, MediumOK, IntentOK
  <2>5. s = "complete" => Certified(v.id)
    BY <1>2, <1>4, <2>2 DEF Knows
  <2>6. IntentShape(v)
    BY <2>2, <2>4, <2>5 DEF IntentShape
  <2>7. Publishable(p, v)
    BY <1>4, <2>2, <2>3, <2>4, <2>6 DEF Publishable, SameIntent
  <2>8. QED
    BY <1>1, <1>2, <1>4, <2>1, <2>7, PublishKept
<1>5. QED
  BY <1>3, <1>4 DEF PublishIntent

-----------------------------------------------------------------------------
(* Writers, power losses, and the invariant.                               *)

\* A commit appends a revision of the one identity.
LEMMA CommitMedium ==
    ASSUME IndInv, Grows, NEW w \in Writers, Commit(w),
           Unchanged(bound[w]), bound[w] \in Identities,
           current' = Cell(Append(current.seen, bound[w])),
           Append(current.seen, bound[w]) \in Revs, BoundOK', DrawnOK'
    PROVE  MediumOK'
<1> USE DEF IndInv
<1>1. UNCHANGED <<intent, disk, acked, faults>>
  BY DEF Commit, counts
<1>2. PICK b \in Identities : b = bound[w]
  OBVIOUS
<1>3. Certified(b)
  BY <1>2, NamesAssumption DEF MediumOK, BoundOK, Commit
<1>4. current.seen \in Revs /\ current.safe \in Revs /\ current.seen # <<>>
  BY DEF TypeOK, FilesOK, CellOf, Unchanged, HasCurrent
<1>5. PICK n \in Nat : n = Len(current.seen) /\ n >= 1
  BY <1>4, SeenTypes
<1>6. PICK s \in Revs :
        /\ s = Append(current.seen, b) /\ Len(s) = n + 1 /\ s # <<>>
        /\ \A k \in 1..n : s[k] = current.seen[k]
        /\ s[n + 1] = b
  <2>1. PICK s \in Revs : s = Append(current.seen, b)
    BY <1>2
  <2>2. /\ Len(s) = n + 1 /\ s # <<>> /\ \A k \in 1..n : s[k] = current.seen[k]
        /\ s[Len(s)] = b
    BY <1>5, <2>1, AppendedRevision
  <2>3. QED
    BY <2>1, <2>2
<1>7. current'.seen = s /\ current'.safe = s
  BY <1>2, <1>6 DEF Cell
<1>8. \A k \in 1..Len(s) : k \in 1..n \/ k = n + 1
  BY <1>6
<1>9. Prefix(current.seen, s) /\ Prefix(s, s)
  BY <1>5, <1>6, PrefixReflexive DEF Prefix
<1>10. CurrentOK'
  <2>1. \A k \in 2..Len(s) : s[k] \in Identities /\ Certified(s[k])
    <3> SUFFICES ASSUME NEW k \in 2..Len(s) PROVE s[k] \in Identities /\ Certified(s[k])
      OBVIOUS
    <3>1. CASE k = n + 1
      BY <1>3, <1>6, <3>1
    <3>2. CASE k \in 2..n
      <4>1. s[k] = current.seen[k]
        BY <1>6, <3>2
      <4>2. current.seen[k] \in Identities /\ Certified(current.seen[k])
        BY <1>5, <3>2 DEF MediumOK, CurrentOK
      <4>3. QED
        BY <4>1, <4>2
    <3>3. QED
      BY <1>6, <3>1, <3>2
  <2>2. \A k \in 2..Len(s) : Certified(s[k])'
    BY <2>1, CertifiedStays DEF Grows
  <2>3. QED
    BY <1>6, <1>7, <1>9, <2>1, <2>2 DEF CurrentOK, Prefix
<1>11. RootOwned'
  <2>1. s[1] = current.seen[1]
    BY <1>5, <1>6
  <2>2. QED
    BY <1>1, <1>4, <1>7, <2>1 DEF MediumOK, RootOwned
<1>12. ReceiptsOK'
  <2> SUFFICES ASSUME NEW r \in disk.intact, IsReceipt(r)
               PROVE  ReceiptOK(r)'
    BY <1>1 DEF ReceiptsOK
  <2>1. ReceiptOK(r)
    BY DEF MediumOK, ReceiptsOK
  <2>2. r[4] \in Revs /\ r[2] \in Identities /\ Len(r[4]) \in Nat
    BY ObjectFields, SeenTypes DEF TypeOK, FilesOK, DiskOf
  <2>3. Prefix(r[4], s)
    <3>1. Prefix(r[4], current.safe) /\ Prefix(current.safe, current.seen)
      BY <2>1 DEF ReceiptOK, MediumOK, CurrentOK
    <3>2. Prefix(r[4], current.seen)
      BY <1>4, <2>2, <3>1, PrefixTransitive
    <3>3. QED
      BY <1>4, <1>9, <2>2, <3>2, PrefixTransitive
  <2>4. b = r[2]
    <3>1. Store(b) \in disk.intact
      BY <1>2 DEF Unchanged, Bound
    <3>2. Store(r[2]) \in disk.intact
      BY <2>1, <2>2, ObjectNames DEF ReceiptOK, TypeOK, FilesOK
    <3>3. QED
      BY <2>2, <3>1, <3>2 DEF OneIdentity
  <2>5. \A k \in Len(r[4]) + 1 .. Len(s) : s[k] = r[2]
    <3> SUFFICES ASSUME NEW k \in Len(r[4]) + 1 .. Len(s) PROVE s[k] = r[2]
      OBVIOUS
    <3>1. CASE k = n + 1
      BY <1>6, <2>4, <3>1
    <3>2. CASE k \in Len(r[4]) + 1 .. n
      <4>1. k \in 1..n
        BY <2>2, <3>2
      <4>2. s[k] = current.seen[k]
        BY <1>6, <4>1
      <4>3. current.seen[k] = r[2]
        BY <1>5, <2>1, <3>2 DEF ReceiptOK
      <4>4. QED
        BY <4>2, <4>3
    <3>3. QED
      BY <1>6, <2>2, <3>1, <3>2
  <2>6. r[5] => Certified(r[2])'
    BY <2>1, CertifiedStays DEF ReceiptOK, Grows
  <2>7. QED
    BY <1>1, <1>7, <2>1, <2>3, <2>5, <2>6 DEF ReceiptOK, AdoptedBy
<1>13. IntentOK' /\ LostAdoption'
  BY <1>1, IntentFrame
<1>14. NothingLoose' /\ LooseAlone' /\ AckedOK'
  BY <1>1 DEF MediumOK, NothingLoose, LooseAlone, AckedOK
<1>15. QED
  BY <1>10, <1>11, <1>12, <1>13, <1>14 DEF MediumOK

\* While a writer commits nobody else has the write lock.
LEMMA CommitKept ==
    ASSUME IndInv, Grows, NEW w \in Writers, Commit(w)
    PROVE  MediumOK' /\ ProcessesOK'
<1> USE DEF IndInv
<1>1. /\ UNCHANGED <<intent, disk, drawn, plan, locks, calls, acked, counts>>
      /\ wlock = Nobody /\ bound' = [bound EXCEPT ![w] = Nobody]
  BY DEF Commit
<1>2. DrawnOK'
  BY <1>1 DEF MediumOK, DrawnOK, Grows
<1>3. BoundOK'
  <2>1. \A x \in Writers : bound'[x] # Nobody => Certified(bound'[x])
    BY <1>1 DEF MediumOK, BoundOK, TypeOK, RestOK
  <2>2. QED
    BY <1>1, <2>1 DEF BoundOK, Certified
<1>4. MediumOK'
  <2>1. CASE UNCHANGED current
    BY <1>1, <1>2, <1>3, <2>1, QuietMedium DEF files, counts
  <2>2. CASE /\ Unchanged(bound[w]) /\ bound[w] \in Identities
             /\ current' = Cell(Append(current.seen, bound[w]))
             /\ Append(current.seen, bound[w]) \in Revs
    BY <1>2, <1>3, <2>2, CommitMedium
  <2>3. QED
    BY <2>1, <2>2, CommitEffect
<1>5. ASSUME NEW q \in Operators
      PROVE  Called(q)' /\ (pc'[q] \in Working => Knows(q)')
  <2>1. Called(q)'
    BY <1>1, CalledStays DEF ProcessesOK, calls
  <2>2. ASSUME pc[q] \in Working
        PROVE  Knows(q)'
    <3>1. Knows(q) /\ pc[q] \notin Locks /\ mode[q] # "adopt"
      BY <1>1, <2>2, NamesAssumption DEF ProcessesOK, Knows
    <3>2. PICK j : j = job[q] /\ j = job'[q]
      BY <1>1 DEF calls
    <3>3. FirstIntent(j) => FirstIntent(j)'
      <4>1. IntentShape(j) => IntentShape(j)'
        BY ShapeStays
      <4>2. QED
        BY <1>1, <4>1 DEF FirstIntent, Grows, Foreign
    <3>4. QED
      BY <1>1, <2>2, <3>1, <3>2, <3>3 DEF Knows, Locks, StoreWritten, calls, locks
  <2>3. QED
    BY <1>1, <2>1, <2>2 DEF calls
<1>6. QED
  BY <1>4, <1>5 DEF ProcessesOK

\* What the medium holds says of itself what the files said before.
LEMMA PowerLossKept ==
    ASSUME IndInv, Grows, PowerLoss
    PROVE  MediumOK' /\ ProcessesOK'
<1> USE DEF IndInv
<1>1. /\ UNCHANGED <<drawn, plan, mode, job, acked, faults>>
      /\ \A q \in Operators : pc'[q] = "idle"
      /\ \A x \in Writers : bound'[x] = Nobody
  BY DEF PowerLoss
<1>2. /\ disk.durable \subseteq disk'.durable /\ disk'.durable = disk'.intact
      /\ disk'.intact \subseteq disk.intact
      /\ disk.intact = disk.durable => disk'.torn \subseteq disk.torn
  BY PowerLossEffect DEF PowerLoss, TypeOK, FilesOK
<1>3. PICK v : /\ intent'.seen = v /\ intent'.safe = v
               /\ \/ v = intent.seen \/ v = intent.safe
                  \/ v = Torn /\ intent.safe = Absent /\ intent.seen # Absent
  BY DEF PowerLoss, IntentsAfterPowerLoss, CellsAfterPowerLoss, Cell
<1>4. PICK s \in Revs : /\ current'.seen = s /\ current'.safe = s
                        /\ s = current.seen \/ s = current.safe
  BY DEF PowerLoss, CellsAfterPowerLoss, Cell, TypeOK, FilesOK, CellOf
<1>5. current.seen \in Revs /\ current.safe \in Revs /\ Prefix(current.safe, current.seen)
  BY DEF TypeOK, FilesOK, CellOf, MediumOK, CurrentOK
<1>6. Prefix(s, current.seen) /\ Prefix(current.safe, s) /\ Prefix(s, s)
  BY <1>4, <1>5, PrefixReflexive
<1>7. /\ Len(s) \in Nat /\ Len(current.seen) \in Nat /\ Len(s) <= Len(current.seen)
      /\ \A k \in 1..Len(s) : s[k] = current.seen[k]
      /\ s # <<>> => Len(s) >= 1 /\ current.seen # <<>> /\ s[1] = current.seen[1]
  <2>1. Len(s) \in Nat /\ Len(current.seen) \in Nat /\ (s # <<>> => Len(s) >= 1)
    BY <1>5, SeenTypes
  <2>2. Len(s) <= Len(current.seen) /\ \A k \in 1..Len(s) : s[k] = current.seen[k]
    BY <1>6 DEF Prefix
  <2>3. s # <<>> => current.seen # <<>>
    BY <1>5, <2>1, <2>2, SeenTypes
  <2>4. QED
    BY <2>1, <2>2, <2>3
<1>8. v \in Intents =>
        /\ intent.seen \in Intents /\ SameIntent(v, intent.seen) /\ IntentShape(v)
  BY <1>3, NamesAssumption DEF MediumOK, IntentOK, SameIntent, TypeOK, FilesOK, CellOf
<1>9. NothingLoose'
  BY <1>1, <1>2, <1>3 DEF MediumOK, NothingLoose
<1>10. LooseAlone'
  <2>1. v = Absent => intent.safe = Absent
    BY <1>3, NamesAssumption DEF MediumOK, IntentOK
  <2>2. QED
    BY <1>2, <1>3, <2>1 DEF MediumOK, LooseAlone
<1>11. IntentOK'
  <2>1. v \in Intents => IntentShape(v)'
    BY <1>8, ShapeStays
  <2>2. QED
    BY <1>3, <2>1, NamesAssumption DEF IntentOK, SameIntent
<1>12. CurrentOK'
  <2>1. \A k \in 2..Len(s) : s[k] \in Identities /\ Certified(s[k])
    <3> SUFFICES ASSUME NEW k \in 2..Len(s) PROVE s[k] \in Identities /\ Certified(s[k])
      OBVIOUS
    <3>1. k \in 2..Len(current.seen) /\ s[k] = current.seen[k]
      BY <1>7
    <3>2. QED
      BY <3>1 DEF MediumOK, CurrentOK
  <2>2. \A k \in 2..Len(s) : Certified(s[k])'
    BY <2>1, CertifiedStays DEF Grows
  <2>3. QED
    BY <1>4, <1>6, <2>1, <2>2 DEF CurrentOK, Prefix, Legacy
<1>13. RootOwned'
  <2> SUFFICES ASSUME NEW i \in Identities, s # <<>>, s[1] = i
               PROVE  /\ Root(i) \in disk'.durable
                      /\ \/ v \in Intents /\ v.id = i /\ v.op = "initialize"
                         \/ Store(i) \in disk'.durable
    BY <1>3, <1>4 DEF RootOwned
  <2>1. /\ Root(i) \in disk.durable
        /\ \/ intent.safe \in Intents /\ intent.safe.id = i /\ intent.safe.op = "initialize"
           \/ Store(i) \in disk.durable
    BY <1>7 DEF MediumOK, RootOwned
  <2>2. ASSUME intent.safe \in Intents, intent.safe.id = i, intent.safe.op = "initialize"
        PROVE  v \in Intents /\ v.id = i /\ v.op = "initialize"
    BY <1>3, <2>2, NamesAssumption DEF MediumOK, IntentOK, SameIntent, TypeOK, FilesOK, CellOf
  <2>3. QED
    BY <1>2, <2>1, <2>2
<1>14. ReceiptsOK'
  <2> SUFFICES ASSUME NEW r \in disk'.intact, IsReceipt(r)
               PROVE  ReceiptOK(r)'
    BY DEF ReceiptsOK
  <2>1. ReceiptOK(r) /\ r \in disk.intact
    BY <1>2 DEF MediumOK, ReceiptsOK
  <2>2. r[4] \in Revs /\ Len(r[4]) \in Nat
    BY <2>1, ObjectFields, SeenTypes DEF TypeOK, FilesOK, DiskOf
  <2>3. Prefix(r[4], s)
    BY <1>5, <1>6, <2>1, <2>2, PrefixTransitive DEF ReceiptOK
  <2>4. \A k \in Len(r[4]) + 1 .. Len(s) : s[k] = r[2]
    <3> SUFFICES ASSUME NEW k \in Len(r[4]) + 1 .. Len(s) PROVE s[k] = r[2]
      OBVIOUS
    <3>1. k \in 1..Len(s) /\ k \in Len(r[4]) + 1 .. Len(current.seen)
      BY <1>7, <2>2
    <3>2. s[k] = current.seen[k]
      BY <1>7, <3>1
    <3>3. QED
      BY <2>1, <3>1, <3>2 DEF ReceiptOK
  <2>5. v \in Intents => AdoptedBy(v, r)
    BY <1>8, <2>1 DEF ReceiptOK, AdoptedBy, SameIntent
  <2>6. r[5] => Certified(r[2])'
    BY <2>1, CertifiedStays DEF ReceiptOK, Grows
  <2>7. QED
    BY <1>2, <1>3, <1>4, <2>1, <2>3, <2>4, <2>5, <2>6 DEF ReceiptOK, AdoptedBy
<1>15. LostAdoption'
  <2>1. v \in Intents /\ v.op = "initialize" /\ Legacy => Foreign(v.id)
    BY <1>8 DEF MediumOK, LostAdoption, SameIntent
  <2>2. Foreign(v.id) => Foreign(v.id)'
    BY <1>2, ForeignStays
  <2>3. QED
    BY <1>3, <2>1, <2>2 DEF LostAdoption, Grows, Foreign
<1>16. AckedOK'
  BY <1>1, <1>3, NamesAssumption DEF MediumOK, AckedOK
<1>17. BoundOK' /\ DrawnOK'
  BY <1>1, <1>2 DEF MediumOK, BoundOK, DrawnOK, Grows
<1>18. MediumOK'
  BY <1>9, <1>10, <1>11, <1>12, <1>13, <1>14, <1>15, <1>16, <1>17 DEF MediumOK
<1>19. ProcessesOK'
  BY <1>1 DEF ProcessesOK, Called, Working
<1>20. QED
  BY <1>18, <1>19

LEMMA InitKept == Init => IndInv
<1> SUFFICES ASSUME Init PROVE IndInv
  OBVIOUS
<1>1. TypeOK /\ OneIdentity
  BY InitTypes
<1>2. /\ intent.seen = Absent /\ intent.safe = Absent
      /\ disk.intact = {} /\ disk.durable = {} /\ disk.torn = {}
      /\ acked = {} /\ plan = {}
      /\ \A w \in Writers : bound[w] = Nobody
      /\ \A p \in Operators : pc[p] = "idle"
  BY DEF Init, Cell, EmptyDisk
<1>3. PICK s \in Revs : /\ current.seen = s /\ current.safe = s
                        /\ s = <<>> \/ (Len(s) = 1 /\ s[1] = Unlinked)
  <2>1. current.seen = current.safe /\ current.seen \in {<<>>, <<Unlinked>>}
    BY DEF Init, Cell
  <2>2. current.seen \in Revs
    BY <1>1 DEF TypeOK, FilesOK, CellOf
  <2>3. QED
    BY <2>1, <2>2, OneRevision
<1>4. CurrentOK
  <2>1. Prefix(s, s) /\ \A k \in 2..Len(s) : FALSE
    <3>1. Len(s) = 0 \/ Len(s) = 1
      BY <1>3, EmptySeq
    <3>2. QED
      BY <3>1, PrefixReflexive
  <2>2. QED
    BY <1>3, <2>1 DEF CurrentOK, Legacy
<1>5. RootOwned
  BY <1>3, NamesAssumption DEF RootOwned
<1>6. NothingLoose /\ LooseAlone /\ LostAdoption /\ AckedOK /\ BoundOK
  BY <1>2, NamesAssumption DEF NothingLoose, LooseAlone, LostAdoption, AckedOK, BoundOK
<1>7. IntentOK /\ ReceiptsOK /\ DrawnOK
  BY <1>2, NamesAssumption DEF IntentOK, ReceiptsOK, DrawnOK
<1>8. ProcessesOK
  BY <1>2 DEF ProcessesOK, Called, Working
<1>9. QED
  BY <1>1, <1>4, <1>5, <1>6, <1>7, <1>8 DEF IndInv, MediumOK

LEMMA NextKept ==
    ASSUME OneFailure, IndInv, [Next]_vars
    PROVE  IndInv'
<1>1. TypeOK' /\ OneIdentity'
  BY NextTypes DEF IndInv
<1>2. Grows
  BY StepGrows
<1>3. ASSUME NEW p \in Operators, Step(p)
      PROVE  MediumOK' /\ ProcessesOK'
  BY <1>2, <1>3, InitializeCallKept, InitializeLockKept, AdoptKept, RepairCallKept,
     RepairLockKept, PublishIntentKept, WriteCoreKept, WriteIdentitiesKept,
     TakeWriteLockKept, WriteRootKept, ReplaceCurrentKept, SyncKept, WriteReceiptKept,
     ReturnKept, DieKept DEF Step
<1>4. ASSUME NEW w \in Writers, Preflight(w) \/ Commit(w)
      PROVE  MediumOK' /\ ProcessesOK'
  BY <1>2, <1>4, PreflightKept, CommitKept
<1>5. CASE plan_adoption
  BY <1>1, <1>2, <1>5, PlanKept DEF IndInv
<1>6. CASE PowerLoss
  BY <1>1, <1>2, <1>6, PowerLossKept DEF IndInv
<1>7. CASE UNCHANGED vars
  BY <1>1, <1>2, <1>7, StutterKept DEF IndInv
<1>8. QED
  BY <1>1, <1>3, <1>4, <1>5, <1>6, <1>7 DEF Next, IndInv

\* While at most one write fails, wherever the processes or the power stop:
\* what the files on the medium say about each other, and what the holder of
\* the identity lock knows of them.
THEOREM IdentityInvariant ==
    ASSUME OneFailure
    PROVE  Spec => []IndInv
  BY InitKept, NextKept, PTL DEF Spec

-----------------------------------------------------------------------------
(* What follows from the invariant.                                        *)

\* A chain that begins with one revision and goes on with those of an identity.
LEMMA BoundSinceBuilt ==
    ASSUME NEW s \in Revs, NEW x \in Identities \cup {Unlinked}, NEW i,
           NEW legacy \in BOOLEAN, s # <<>>, s[1] = x, \A k \in 2..Len(s) : s[k] = i,
           x = i \/ (legacy /\ x = Unlinked)
    PROVE  BoundSince(s, <<x>>, i, legacy)
<1>1. PICK b \in Revs : b = <<x>> /\ b # <<>> /\ Len(b) = 1 /\ b[1] = x
  <2>1. <<x>> \in Revs
    BY DEF Revs
  <2>2. QED
    BY <2>1, OneRevision, Zenon
<1>2. Len(s) >= 1 /\ Len(s) \in Nat
  BY EmptySeq DEF Revs
<1>3. Prefix(b, s)
  BY <1>1, <1>2 DEF Prefix
<1>4. \A k \in Len(b) + 1 .. Len(s) : s[k] = i
  BY <1>1
<1>5. b[Len(b)] = i \/ (legacy /\ b[Len(b)] = Unlinked)
  BY <1>1
<1>6. BoundSince(s, b, i, legacy)
  BY <1>1, <1>3, <1>4, <1>5, BoundSinceRevisions
<1>7. QED
  BY <1>1, <1>6

\* A receipt is valid for CURRENT as it is read and as the medium holds it.
LEMMA ReceiptBounds ==
    ASSUME TypeOK, MediumOK, NEW r \in disk.intact, IsReceipt(r)
    PROVE  /\ r[2] \in Identities /\ r[4] \in Revs /\ Len(r[4]) \in Nat /\ Len(r[4]) >= 1
           /\ Prefix(r[4], current.seen) /\ Prefix(r[4], current.safe)
           /\ \A k \in Len(r[4]) + 1 .. Len(current.safe) : current.safe[k] = r[2]
           /\ r[4][Len(r[4])] = Unlinked => r[4] = <<Unlinked>>
<1>1. /\ current.seen \in Revs /\ current.safe \in Revs
      /\ Len(current.seen) \in Nat /\ Len(current.safe) \in Nat
  BY SeenTypes DEF TypeOK, FilesOK, CellOf
<1>2. ReceiptOK(r)
  BY DEF MediumOK, ReceiptsOK
<1>3. r[2] \in Identities /\ r[4] \in Revs /\ r[4] # <<>> /\ Len(r[4]) \in Nat /\ Len(r[4]) >= 1
  BY <1>2, ObjectFields, SeenTypes DEF ReceiptOK, TypeOK, FilesOK, DiskOf
<1>4. Prefix(r[4], current.safe) /\ Prefix(current.safe, current.seen)
  BY <1>2 DEF ReceiptOK, MediumOK, CurrentOK
<1>5. Prefix(r[4], current.seen)
  BY <1>1, <1>3, <1>4, PrefixTransitive
<1>6. ASSUME NEW k \in Len(r[4]) + 1 .. Len(current.safe)
      PROVE  current.safe[k] = r[2]
  <2>1. /\ k \in 1..Len(current.safe) /\ Len(current.safe) <= Len(current.seen)
        /\ k \in Len(r[4]) + 1 .. Len(current.seen)
    BY <1>1, <1>3, <1>4 DEF Prefix
  <2>2. current.safe[k] = current.seen[k]
    BY <1>4, <2>1 DEF Prefix
  <2>3. QED
    BY <1>2, <2>1, <2>2 DEF ReceiptOK
<1>7. ASSUME r[4][Len(r[4])] = Unlinked
      PROVE  r[4] = <<Unlinked>>
  <2>1. PICK n \in Nat : n = Len(r[4]) /\ n >= 1 /\ n <= Len(current.seen)
    BY <1>3, <1>5 DEF Prefix
  <2>2. current.seen[n] = Unlinked
    BY <1>5, <1>7, <2>1 DEF Prefix
  <2>3. ~(n >= 2)
    <3>1. \A k \in 2..Len(current.seen) : current.seen[k] \in Identities
      BY DEF MediumOK, CurrentOK
    <3>2. n >= 2 => n \in 2..Len(current.seen)
      BY <1>1, <2>1
    <3>3. QED
      BY <2>2, <3>1, <3>2, NamesAssumption
  <2>4. n = 1
    <3>1. \A m \in Nat : m >= 1 /\ ~(m >= 2) => m = 1
      OBVIOUS
    <3>2. QED
      BY <2>1, <2>3, <3>1, Zenon
  <2>5. QED
    <3>1. PICK b \in Revs : b = r[4] /\ Len(b) = 1 /\ b[1] = Unlinked
      BY <1>3, <1>7, <2>1, <2>4
    <3>2. b = <<b[1]>>
      BY <3>1, SingleElement
    <3>3. QED
      BY <3>1, <3>2
<1>8. QED
  BY <1>3, <1>4, <1>5, <1>6, <1>7

LEMMA InvariantWritesCertified ==
    ASSUME IndInv
    PROVE  WritesCertified
<1> USE DEF IndInv
<1>1. ASSUME NEW r \in Receipts
      PROVE  Protected(r[2]) \subseteq disk.durable /\ BoundSince(current.safe, r[4], r[2], TRUE)
  <2>1. r \in disk.intact /\ IsReceipt(r)
    BY <1>1 DEF Receipts, IsReceipt
  <2>2. ReceiptOK(r)
    BY <2>1 DEF MediumOK, ReceiptsOK
  <2>3. PICK s \in Revs : s = current.safe
    BY DEF TypeOK, FilesOK, CellOf
  <2>4. PICK b \in Revs : b = r[4]
    BY <2>1, ReceiptBounds
  <2>5. /\ b # <<>> /\ Prefix(b, s) /\ \A k \in Len(b) + 1 .. Len(s) : s[k] = r[2]
        /\ b[Len(b)] = r[2] \/ b[Len(b)] = Unlinked
    BY <2>1, <2>2, <2>3, <2>4, ReceiptBounds DEF ReceiptOK
  <2>6. BoundSince(s, b, r[2], TRUE)
    BY <2>5, BoundSinceRevisions
  <2>7. QED
    BY <2>2, <2>3, <2>4, <2>6 DEF ReceiptOK
<1>2. ASSUME NEW k \in 2..Len(current.seen)
      PROVE  \E r \in Receipts : r \in disk.durable /\ r[2] = current.seen[k]
  <2>1. PICK r \in disk.durable : IsReceipt(r) /\ r[2] = current.seen[k]
    BY <1>2 DEF MediumOK, CurrentOK, Certified
  <2>2. r \in Receipts
    BY <2>1 DEF Receipts, IsReceipt, TypeOK, FilesOK
  <2>3. QED
    BY <2>1, <2>2
<1>3. QED
  BY <1>1, <1>2 DEF WritesCertified

LEMMA InvariantAcked ==
    ASSUME IndInv
    PROVE  AckedIdentityHolds
<1> USE DEF IndInv
<1> SUFFICES ASSUME NEW i \in acked
             PROVE  identity_status = "complete" /\ Bound(i) /\ Linked(i)
  BY DEF AckedIdentityHolds
<1>1. PICK v \in Intents : /\ v = intent.seen /\ v.id = i /\ v.stage = "complete" /\ IntentShape(v)
                           /\ v # Absent /\ v # Torn
  BY NamesAssumption DEF MediumOK, AckedOK, IntentOK
<1>2. PICK r \in disk.durable : IsReceipt(r) /\ r[2] = i
  BY <1>1 DEF IntentShape, Certified
<1>3. r \in disk.intact /\ ReceiptOK(r)
  BY <1>2 DEF MediumOK, ReceiptsOK, TypeOK, FilesOK
<1>4. PICK s \in Revs : s = current.seen
  BY DEF TypeOK, FilesOK, CellOf
<1>5. PICK b \in Revs : b = r[4]
  BY <1>2, <1>3, ReceiptBounds
<1>6. /\ i \in Identities /\ Len(b) \in Nat /\ Len(b) >= 1 /\ b # <<>> /\ Len(s) \in Nat
      /\ Prefix(b, s) /\ \A k \in Len(b) + 1 .. Len(s) : s[k] = i
      /\ b[Len(b)] = i \/ (b[Len(b)] = Unlinked /\ v.op = "adopt" /\ b = <<Unlinked>>)
  <2>1. i \in Identities /\ Len(b) \in Nat /\ Len(b) >= 1 /\ Prefix(b, s) /\ Len(s) \in Nat
    BY <1>2, <1>3, <1>4, <1>5, ReceiptBounds, SeenTypes
  <2>2. b # <<>> /\ \A k \in Len(b) + 1 .. Len(s) : s[k] = i
    BY <1>2, <1>3, <1>4, <1>5 DEF ReceiptOK
  <2>3. b[Len(b)] = i \/ b[Len(b)] = Unlinked
    BY <1>2, <1>3, <1>5 DEF ReceiptOK
  <2>4. b[Len(b)] = Unlinked => v.op = "adopt" /\ b = <<Unlinked>>
    BY <1>1, <1>2, <1>3, <1>5, ReceiptBounds DEF ReceiptOK, AdoptedBy
  <2>5. QED
    BY <2>1, <2>2, <2>3, <2>4
<1>7. v.op = "adopt" => v.base = <<Unlinked>>
  BY <1>1 DEF IntentShape
<1>8. Protected(i) \subseteq disk.intact
  BY <1>2, <1>3 DEF ReceiptOK, TypeOK, FilesOK
<1>9. r \in ValidReceipts(v, s)
  <2>1. PICK legacy \in BOOLEAN : legacy = (v.op = "adopt" /\ b = v.base)
    OBVIOUS
  <2>2. BoundSince(s, b, i, legacy)
    BY <1>6, <1>7, <2>1, BoundSinceRevisions
  <2>3. QED
    BY <1>1, <1>2, <1>3, <1>5, <1>8, <2>1, <2>2 DEF ValidReceipts, Receipts, IsReceipt
<1>10. Bound(i)
  BY <1>6, <1>8, ObjectNames DEF Bound
<1>11. s # <<>> /\ HasCurrent /\ HasIntent
  <2>1. Len(s) >= 1
    BY <1>6 DEF Prefix
  <2>2. QED
    BY <1>1, <1>4, <2>1, EmptySeq DEF HasCurrent, HasIntent
<1>12. Linked(i)
  <2>1. CASE s[Len(s)] = i
    BY <1>4, <2>1 DEF Linked
  <2>2. CASE s[Len(s)] # i
    <3>1. Len(b) = Len(s)
      <4>1. ~(Len(b) < Len(s))
        BY <1>6, <2>2
      <4>2. QED
        BY <1>6, <4>1 DEF Prefix
    <3>2. b[Len(b)] # i
      BY <1>6, <2>2, <3>1 DEF Prefix
    <3>3. v.op = "adopt" /\ b = <<Unlinked>> /\ v.base = b
      BY <1>6, <1>7, <3>2
    <3>4. Len(b) = 1 /\ b[1] = Unlinked
      BY <3>3, OneRevision
    <3>5. Len(s) = 1 /\ s[1] = Unlinked
      BY <1>6, <3>1, <3>4 DEF Prefix
    <3>6. s = b
      BY <3>3, <3>5, SingleElement
    <3>7. QED
      BY <1>1, <1>4, <1>9, <1>11, <3>3, <3>5, <3>6 DEF Linked
  <2>3. QED
    BY <2>1, <2>2
<1>13. identity_status = "complete"
  <2>1. /\ Store(i) \in disk.intact /\ Store(i)[1] = "store"
        /\ Project(i) \in disk.intact /\ Project(i)[1] = "project"
    BY <1>6, <1>8, ObjectNames
  <2>2. Agree
    BY <1>1, <1>6, <1>10, <1>12, <2>1 DEF Agree, Present
  <2>3. QED
    BY <1>1, <1>4, <1>9, <1>11, <2>2, StatusComplete
<1>14. QED
  BY <1>10, <1>12, <1>13

LEMMA InvariantRepair ==
    ASSUME IndInv
    PROVE  RepairResumes
<1> USE DEF IndInv
<1> SUFFICES ASSUME HasIntent, IntentChooses
             PROVE  /\ HasCurrent => MayCertify(intent.seen, "repair")
                    /\ ~HasCurrent => intent.seen.op = "initialize"
  BY DEF RepairResumes
<1>1. PICK v \in Intents : v = intent.seen /\ IntentShape(v) /\ v.id \in Identities
  BY DEF HasIntent, TypeOK, FilesOK, CellOf, MediumOK, IntentOK, Intents
<1>2. v.op \in {"initialize", "adopt"}
  BY DEF Intents
<1>3. ~HasCurrent => v.op = "initialize"
  BY <1>1, <1>2 DEF IntentShape, Legacy, HasCurrent
<1>4. ASSUME NEW j \in Identities, Store(j) \in disk.durable \/ Project(j) \in disk.durable
      PROVE  v.id = j
  BY <1>1, <1>4 DEF IntentChooses, TypeOK, FilesOK
<1>5. ASSUME HasCurrent
      PROVE  MayCertify(v, "repair")
  <2>1. PICK s \in Revs : s = current.seen /\ s # <<>>
    BY <1>5 DEF HasCurrent, TypeOK, FilesOK, CellOf
  <2>2. Len(s) >= 1 /\ Len(s) \in Nat /\ s[1] \in Identities \cup {Unlinked}
    BY <2>1, SeenTypes
  <2>3. \A k \in 2..Len(s) : s[k] = v.id
    <3> SUFFICES ASSUME NEW k \in 2..Len(s) PROVE s[k] = v.id
      OBVIOUS
    <3>1. PICK j : j = s[k] /\ j \in Identities /\ Certified(j)
      BY <2>1 DEF MediumOK, CurrentOK
    <3>2. Store(j) \in disk.durable
      BY <3>1, CertifiedFacts, ObjectNames
    <3>3. QED
      BY <1>4, <3>1, <3>2
  <2>4. CASE v.op = "initialize"
    <3>1. ~Legacy
      <4> SUFFICES ASSUME Legacy PROVE FALSE
        OBVIOUS
      <4>1. Foreign(v.id)
        BY <1>1, <2>4 DEF MediumOK, LostAdoption
      <4>2. QED
        BY <1>4, <4>1 DEF Foreign
    <3>2. PICK j \in Identities : j = s[1]
      BY <2>1, <2>2, <3>1 DEF Legacy
    <3>3. /\ Root(j) \in disk.durable
          /\ (intent.safe \in Intents /\ intent.safe.id = j) \/ Store(j) \in disk.durable
      BY <2>1, <3>2 DEF MediumOK, RootOwned
    <3>4. j = v.id
      BY <1>1, <1>4, <3>3 DEF MediumOK, IntentOK, SameIntent
    <3>5. BoundSince(s, <<v.id>>, v.id, FALSE)
      BY <1>1, <2>1, <2>3, <3>2, <3>4, BoundSinceBuilt
    <3>6. QED
      BY <2>1, <2>4, <3>3, <3>4, <3>5 DEF MayCertify, TypeOK, FilesOK
  <2>5. CASE v.op = "adopt"
    <3>1. v.base = <<Unlinked>> /\ s[1] = Unlinked
      BY <1>1, <2>1, <2>5 DEF IntentShape, Legacy
    <3>2. PICK x \in Identities \cup {Unlinked} : x = Unlinked
      OBVIOUS
    <3>3. BoundSince(s, <<x>>, v.id, TRUE)
      BY <2>1, <2>3, <3>1, <3>2, BoundSinceBuilt
    <3>4. QED
      BY <2>1, <2>5, <3>1, <3>2, <3>3 DEF MayCertify
  <2>6. QED
    BY <1>2, <2>4, <2>5
<1>6. QED
  BY <1>1, <1>3, <1>5

\* What bootstrap_initialize, adopt or repair reported complete stays complete
\* with the same identity through every later crash, power loss, retry and
\* write, if at most one write fails: the receipt that was durable before the
\* intent said complete is there for good and stays valid.
THEOREM AckedIdentity ==
    ASSUME OneFailure
    PROVE  Spec => []AckedIdentityHolds
  BY IdentityInvariant, InvariantAcked, PTL

\* A receipt that can be read is never ahead of the medium, and no writer
\* commits before one of its identity is durable, although
\* _write_create_or_match does not fsync a file it finds there already.
THEOREM ReceiptsNeverAhead ==
    ASSUME OneFailure
    PROVE  Spec => []WritesCertified
  BY IdentityInvariant, InvariantWritesCertified, PTL

\* With the intent that the files were written for, repair passes every check
\* it makes, wherever init, adopt, a writer or the power stopped.
THEOREM RepairAlwaysResumes ==
    ASSUME OneFailure
    PROVE  Spec => []RepairResumes
  BY IdentityInvariant, InvariantRepair, PTL
=============================================================================

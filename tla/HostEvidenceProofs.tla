------------------------- MODULE HostEvidenceProofs -------------------------
(***************************************************************************)
(* Proofs about HostEvidence, for any number of processes, receipts, runs, *)
(* keys, failures and power losses.                                        *)
(***************************************************************************)
EXTENDS HostEvidence, TLAPS, FiniteSetTheorems, SequenceTheorems

\* The steps taken under the write lock.
Held == {"consume", "commit", "publish", "restore"}

KeyFiles == Keys \cup {Short, Empty, Absent}

\* The key on the medium is the one in sight, or there is none on it.
KeyOK == key \in CellOf(KeyFiles) /\ (key.safe # key.seen => key.safe = Absent)

DiskOK ==
  /\ disk \in DiskOf(disk.intact \cup disk.torn)
  /\ disk.durable \subseteq disk.intact
  /\ \A o \in disk.intact : o[1] = "receipt" => o[2].id \in ReceiptIds

\* The receipts behind a CURRENT: no two the same, and each with its tombstone on
\* the medium.
Burned(s) ==
  /\ \A i, j \in 1 .. Len(s) : s[i] = s[j] => i = j
  /\ \A i \in 1 .. Len(s) : Tombstone(s[i]) \in disk.durable

CurrentOK ==
  current \in CellOf(Seq(ReceiptIds)) /\ Burned(current.seen) /\ Burned(current.safe)

LockOK ==
  /\ DOMAIN pc = Agents /\ DOMAIN job = Agents
  /\ \A a \in Agents : pc[a] \in Held => lock = a

\* What a process at a step knows of its arguments.
Justified(step, x) ==
  /\ step \in {"planned", "consume", "commit"} => x.receipt[2].id \in ReceiptIds
  /\ step \in {"consume", "commit"} =>
       \A i \in 1 .. Len(current.seen) : current.seen[i] # x.receipt[2].id
  /\ step = "commit" => Tombstone(x.receipt[2].id) \in disk.durable
  /\ step \in {"mint", "publish"} => x.run \in RunIds
  /\ step = "publish" => Matches(x.run) = {}
  /\ step = "restore" => x.entry \in Entries /\ x.entry[2].run \in RunIds

JobsOK == \A a \in Agents : Justified(pc[a], job[a])

\* One entry for each run_id of the host.
RunsOK ==
  \A o, p \in Entries : o[2].run \in RunIds /\ o[2].run = p[2].run => o = p

AckedOK ==
  acked \subseteq disk.durable /\ \A o \in acked : o[1] = "run" /\ o[2].run \in RunIds

IndInv ==
  KeyOK /\ DiskOK /\ CurrentOK /\ LockOK /\ JobsOK /\ RunsOK /\ AckedOK

-----------------------------------------------------------------------------
(* The results of the storage primitives, for any objects and values.      *)

\* The create on a free name, or on a name whose torn file was moved aside.
LEMMA CreateEffect ==
    ASSUME NEW O, NEW d \in DiskOf(O), NEW o \in O, NEW r \in Create(d, o)
    PROVE  /\ r.disk \in DiskOf(O)
           /\ d.intact \subseteq r.disk.intact
           /\ r.disk.intact \subseteq d.intact \cup {o}
           /\ d.durable \subseteq r.disk.durable
           /\ r.disk.durable \subseteq d.durable \cup {o}
           /\ d.durable \subseteq d.intact => r.disk.durable \subseteq r.disk.intact
           /\ r.end = "ok" => o \in r.disk.intact
           /\ r.end = "ok" => o \in r.disk.durable
<1> USE DEF DiskOf
<1>1. CASE r = [disk |-> [d EXCEPT !.intact = @ \cup {o}, !.durable = @ \cup {o}],
                end |-> "ok"]
  <2>1. /\ r.disk.intact = d.intact \cup {o} /\ r.disk.durable = d.durable \cup {o}
        /\ r.disk \in DiskOf(O)
    BY <1>1
  <2>2. QED
    BY <2>1
<1>2. CASE r = [disk |-> d, end |-> "oserror"]
  BY <1>2
<1>3. CASE r = [disk |-> [d EXCEPT !.torn = @ \cup {o}], end |-> "oserror"]
  BY <1>3
<1>4. CASE r = [disk |-> [d EXCEPT !.intact = @ \cup {o}], end |-> "oserror"]
  BY <1>4
<1>5. QED
  BY <1>1, <1>2, <1>3, <1>4 DEF Create

\* storage_primitives.atomic_write: each copy of the file is the old one or
\* the new value, and both are new when the call returned.
LEMMA AtomicWriteEffect ==
    ASSUME NEW V, NEW cell \in CellOf(V), NEW v \in V,
           NEW r \in AtomicWrite(cell, v)
    PROVE  /\ r.cell \in CellOf(V)
           /\ r.cell.seen \in {cell.seen, v}
           /\ r.cell.safe \in {cell.safe, v}
           /\ r.cell.seen = cell.seen => r.cell.safe = cell.safe \/ v = cell.seen
           /\ r.cell.safe # cell.safe => r.cell.seen = v /\ r.cell.safe = v
           /\ r.end = "ok" => r.cell.seen = v /\ r.cell.safe = v
<1> USE DEF CellOf
<1>1. CASE r = [cell |-> Cell(v), end |-> "ok"]
  BY <1>1 DEF Cell
<1>2. CASE r = [cell |-> cell, end |-> "oserror"]
  BY <1>2
<1>3. CASE r = [cell |-> [cell EXCEPT !.seen = v], end |-> "oserror"]
  BY <1>3
<1>4. QED
  BY <1>1, <1>2, <1>3 DEF AtomicWrite

\* A power loss keeps the durable objects and invents none.
LEMMA PowerLossEffect ==
    ASSUME NEW O, NEW d \in DiskOf(O), d.durable \subseteq d.intact,
           NEW after \in DisksAfterPowerLoss(d)
    PROVE  /\ after \in DiskOf(O)
           /\ d.durable \subseteq after.durable
           /\ after.durable = after.intact
           /\ after.intact \subseteq d.intact
<1>1. PICK kept \in SUBSET (d.intact \ d.durable) :
        \E bad \in SUBSET (d.torn \cup ((d.intact \ d.durable) \ kept)) :
           after = [intact |-> d.durable \cup kept, durable |-> d.durable \cup kept,
                    torn |-> bad, quarantined |-> d.quarantined]
  BY DEF DisksAfterPowerLoss
<1>2. PICK bad \in SUBSET (d.torn \cup ((d.intact \ d.durable) \ kept)) :
        after = [intact |-> d.durable \cup kept, durable |-> d.durable \cup kept,
                 torn |-> bad, quarantined |-> d.quarantined]
  BY <1>1
<1>3. QED
  BY <1>2 DEF DiskOf

-----------------------------------------------------------------------------
(* Frames.                                                                 *)

\* What a process knows outside the lock is about its arguments alone.
LEMMA QuietJustified ==
    ASSUME NEW s, NEW x, s \notin Held, Justified(s, x)
    PROVE  Justified(s, x)'
  BY DEF Justified, Held

\* New objects that are no entries of the host's runs disturb nobody.
Grows ==
  /\ disk.durable \subseteq disk'.durable /\ disk.intact \subseteq disk'.intact
  /\ \A o \in disk'.intact \ disk.intact : o[1] # "run" \/ o[2].run \notin RunIds

LEMMA GrowsJustified ==
    ASSUME NEW s, NEW x, Justified(s, x), UNCHANGED current, Grows
    PROVE  Justified(s, x)'
<1>1. /\ s \in {"planned", "consume", "commit"} => x.receipt[2].id \in ReceiptIds
      /\ s \in {"mint", "publish"} => x.run \in RunIds
      /\ s \in {"consume", "commit"} =>
           \A i \in 1 .. Len(current'.seen) : current'.seen[i] # x.receipt[2].id
  BY DEF Justified
<1>2. s = "commit" => Tombstone(x.receipt[2].id) \in disk'.durable
  BY DEF Justified, Grows
<1>3. s = "publish" => Matches(x.run)' = {}
  <2> SUFFICES ASSUME s = "publish" PROVE Matches(x.run)' = {}
    OBVIOUS
  <2>1. Matches(x.run) = {} /\ x.run \in RunIds
    BY DEF Justified
  <2>2. ASSUME NEW o \in disk'.intact, o[1] = "run", o[2].run = x.run PROVE FALSE
    BY <2>1, <2>2 DEF Matches, Entries, Grows
  <2>3. QED
    BY <2>2 DEF Matches, Entries
<1>4. s = "restore" => x.entry \in Entries' /\ x.entry[2].run \in RunIds
  BY DEF Justified, Grows, Entries
<1>5. QED
  BY <1>1, <1>2, <1>3, <1>4 DEF Justified, Tombstone

LEMMA GrowsRuns ==
    ASSUME RunsOK, Grows
    PROVE  RunsOK'
<1> SUFFICES ASSUME NEW o \in Entries', NEW p \in Entries', o[2].run \in RunIds,
                    o[2].run = p[2].run
             PROVE  o = p
  BY DEF RunsOK
<1>1. o \in Entries /\ p \in Entries
  BY DEF Grows, Entries
<1>2. QED
  BY <1>1 DEF RunsOK

LEMMA BurnedGrows ==
    ASSUME NEW s, Burned(s), disk.durable \subseteq disk'.durable
    PROVE  Burned(s)'
  BY DEF Burned, Tombstone

\* What a step of a process does to its step, its arguments and the lock.
Moves(a, step, x) ==
  /\ Goto(a, step, x)
  /\ \/ lock' = lock /\ (step \in Held => lock = a)
     \/ lock = Nobody /\ lock' = a
     \/ step = "idle" /\ lock' = IF lock = a THEN Nobody ELSE lock

LEMMA MovesLock ==
    ASSUME LockOK, NEW a \in Agents, NEW step, NEW x, Moves(a, step, x)
    PROVE  LockOK'
<1>1. DOMAIN pc' = Agents /\ DOMAIN job' = Agents
  BY DEF LockOK, Moves, Goto
<1>2. ASSUME NEW b \in Agents, pc'[b] \in Held PROVE lock' = b
  <2>1. CASE b = a
    <3>1. pc'[b] = step
      BY <2>1 DEF LockOK, Moves, Goto
    <3>2. QED
      BY <1>2, <2>1, <3>1 DEF Moves, Held
  <2>2. CASE b # a
    <3>1. pc'[b] = pc[b]
      BY <2>2 DEF LockOK, Moves, Goto
    <3>2. lock = b
      BY <1>2, <3>1 DEF LockOK
    <3>3. QED
      BY <2>2, <3>2, NamesAssumption DEF Moves
  <2>3. QED
    BY <2>1, <2>2
<1>3. QED
  BY <1>1, <1>2 DEF LockOK

\* The others keep what they know: nobody else is under the lock, or nothing they
\* know of is disturbed.
LEMMA MovesJobs ==
    ASSUME LockOK, JobsOK, NEW a \in Agents, NEW step, NEW x, Moves(a, step, x),
           Justified(step, x)',
           pc[a] \in Held \/ lock = Nobody \/ (UNCHANGED current /\ Grows)
    PROVE  JobsOK'
<1> SUFFICES ASSUME NEW b \in Agents PROVE Justified(pc[b], job[b])'
  BY DEF JobsOK
<1>1. CASE b = a
  <2>1. pc'[b] = step /\ job'[b] = x
    BY <1>1 DEF LockOK, Moves, Goto
  <2>2. QED
    BY <2>1 DEF Justified, Matches, Entries
<1>2. CASE b # a
  <2>1. PICK s : s = pc[b]
    OBVIOUS
  <2>2. PICK y : y = job[b]
    OBVIOUS
  <2>3. pc'[b] = s /\ job'[b] = y
    BY <1>2, <2>1, <2>2 DEF LockOK, Moves, Goto
  <2>4. Justified(s, y)
    BY <2>1, <2>2 DEF JobsOK
  <2>5. Justified(s, y)'
    <3>1. CASE UNCHANGED current /\ Grows
      BY <2>4, <3>1, GrowsJustified
    <3>2. CASE pc[a] \in Held \/ lock = Nobody
      <4>1. s \notin Held
        BY <1>2, <2>1, <3>2, NamesAssumption DEF LockOK
      <4>2. QED
        BY <2>4, <4>1, QuietJustified
    <3>3. QED
      BY <3>1, <3>2
  <2>6. QED
    BY <2>3, <2>5 DEF Justified, Matches, Entries
<1>3. QED
  BY <1>1, <1>2

\* A step that changes no file but the key, if that.
LEMMA MovesStep ==
    ASSUME IndInv, NEW a \in Agents, NEW step, NEW x, Moves(a, step, x),
           UNCHANGED <<disk, current, acked>>, KeyOK', Justified(step, x)
    PROVE  IndInv'
<1>1. Grows /\ UNCHANGED current
  BY DEF Grows
<1>2. LockOK'
  BY MovesLock DEF IndInv
<1>3. Justified(step, x)'
  BY <1>1, GrowsJustified
<1>4. JobsOK'
  BY <1>1, <1>3, MovesJobs DEF IndInv
<1>5. DiskOK' /\ AckedOK'
  BY DEF IndInv, DiskOK, AckedOK
<1>6. CurrentOK'
  BY BurnedGrows DEF IndInv, CurrentOK
<1>7. RunsOK'
  BY <1>1, GrowsRuns DEF IndInv
<1>8. QED
  BY <1>2, <1>4, <1>5, <1>6, <1>7 DEF IndInv

\* Steps that end where nothing is known of the arguments.
Plain == {"idle", "key", "whitelist", "command"}

LEMMA PlainStep ==
    ASSUME IndInv, NEW a \in Agents, NEW step, step \in Plain, NEW x, Moves(a, step, x),
           UNCHANGED <<disk, current, acked>>, KeyOK'
    PROVE  IndInv'
<1>1. Justified(step, x)
  BY DEF Justified, Plain
<1>2. QED
  BY <1>1, MovesStep

LEMMA EndMoves ==
    ASSUME NEW a, End(a)
    PROVE  Moves(a, "idle", Nobody)
  BY DEF End, Moves

-----------------------------------------------------------------------------
(* The key files.                                                          *)

LEMMA KeyCreated ==
    ASSUME KeyOK, NEW k \in Keys, NEW r \in CreateFile(key, k, {Empty, Short})
    PROVE  /\ r.cell \in CellOf(KeyFiles) /\ (r.cell.safe # r.cell.seen => r.cell.safe = Absent)
           /\ r.cell.safe = key.safe \/ (key.safe = Absent /\ r.cell.safe = k)
<1>1. key \in [seen : KeyFiles, safe : KeyFiles] /\ k \in KeyFiles
  BY DEF KeyOK, CellOf, KeyFiles
<1>2. CASE key.seen # Absent
  BY <1>1, <1>2 DEF CreateFile, KeyOK
<1>3. CASE key.seen = Absent /\ r = [cell |-> Cell(k), end |-> "ok"]
  BY <1>1, <1>3 DEF Cell, CellOf, KeyOK
<1>4. CASE key.seen = Absent /\ \E s \in {Absent, k} \cup {Empty, Short} :
             r = [cell |-> [key EXCEPT !.seen = s], end |-> "oserror"]
  <2>1. PICK s \in {Absent, k} \cup {Empty, Short} :
          r = [cell |-> [key EXCEPT !.seen = s], end |-> "oserror"]
    BY <1>4
  <2>2. s \in KeyFiles
    BY <1>1 DEF KeyFiles
  <2>3. r.cell = [seen |-> s, safe |-> key.safe] /\ key.safe = Absent
    BY <1>1, <1>4, <2>1 DEF KeyOK
  <2>4. QED
    BY <1>1, <2>2, <2>3 DEF CellOf
<1>5. QED
  BY <1>2, <1>3, <1>4 DEF CreateFile

LEMMA KeyPowerLoss ==
    ASSUME KeyOK, NEW c \in FilesAfterPowerLoss(key, {Empty, Short})
    PROVE  /\ c \in CellOf(KeyFiles) /\ c.safe = c.seen
           /\ c.safe = key.safe \/ key.safe = Absent
<1>1. key \in [seen : KeyFiles, safe : KeyFiles] /\ {Empty, Short} \subseteq KeyFiles
  BY DEF KeyOK, CellOf, KeyFiles
<1>2. CASE c \in {Cell(key.seen), Cell(key.safe)}
  BY <1>1, <1>2 DEF Cell, CellOf, KeyOK
<1>3. CASE key.safe # key.seen /\ c \in {Cell(b) : b \in {Empty, Short}}
  BY <1>1, <1>3 DEF Cell, CellOf, KeyOK
<1>4. QED
  BY <1>2, <1>3 DEF FilesAfterPowerLoss, CellsAfterPowerLoss

LEMMA AttestFilesStep ==
    ASSUME IndInv, NEW a \in Agents,
           EnsureKey(a) \/ CreateKey(a) \/ CreateWhitelist(a) \/ AttestStart(a) \/ Die(a)
    PROVE  IndInv'
<1>0. KeyOK /\ LockOK
  BY DEF IndInv
<1>1. CASE EnsureKey(a) \/ AttestStart(a)
  <2>0. "key" \in Plain /\ "command" \in Plain
    BY DEF Plain
  <2>1. PICK step, x : step \in Plain /\ Goto(a, step, x)
    <3>1. CASE EnsureKey(a)
      BY <2>0, <3>1 DEF EnsureKey
    <3>2. CASE AttestStart(a)
      <4>1. PICK c : Goto(a, "command", [key |-> key.seen, list |-> whitelist.seen, command |-> c])
        BY <3>2 DEF AttestStart
      <4>2. QED
        BY <2>0, <4>1
    <3>3. QED
      BY <1>1, <3>1, <3>2
  <2>2. Moves(a, step, x) /\ UNCHANGED <<key, disk, current, acked, lock>>
    BY <1>1, <2>1 DEF Moves, EnsureKey, AttestStart, keyfiles, Plain, Held
  <2>3. KeyOK'
    BY <1>0, <2>2 DEF KeyOK
  <2>4. QED
    BY <2>1, <2>2, <2>3, PlainStep
<1>2. CASE CreateWhitelist(a) \/ Die(a)
  <2>1. End(a) /\ UNCHANGED <<key, disk, current, acked>>
    BY <1>2 DEF CreateWhitelist, Die, keyfiles
  <2>2. Moves(a, "idle", Nobody) /\ "idle" \in Plain /\ KeyOK'
    BY <1>0, <2>1, EndMoves DEF Plain, KeyOK
  <2>3. QED
    BY <2>1, <2>2, PlainStep
<1>3. CASE CreateKey(a)
  <2>0. PICK k \in Keys : \E r \in CreateFile(key, k, {Empty, Short}) :
          /\ key' = r.cell
          /\ End(a) \/ (Goto(a, "whitelist", Nobody) /\ UNCHANGED lock)
    BY <1>3 DEF CreateKey
  <2>1. PICK r \in CreateFile(key, k, {Empty, Short}) :
          /\ key' = r.cell
          /\ End(a) \/ (Goto(a, "whitelist", Nobody) /\ UNCHANGED lock)
    BY <2>0
  <2>2. KeyOK'
    BY <1>0, <2>1, KeyCreated DEF KeyOK
  <2>3. UNCHANGED <<disk, current, acked>>
    BY <1>3 DEF CreateKey
  <2>4. CASE End(a)
    BY <2>2, <2>3, <2>4, EndMoves, PlainStep DEF Plain
  <2>5. CASE Goto(a, "whitelist", Nobody) /\ UNCHANGED lock
    <3>1. Moves(a, "whitelist", Nobody) /\ "whitelist" \in Plain
      BY <2>5 DEF Moves, Held, Plain
    <3>2. QED
      BY <2>2, <2>3, <3>1, PlainStep
  <2>6. QED
    BY <2>1, <2>4, <2>5
<1>4. QED
  BY <1>1, <1>2, <1>3

-----------------------------------------------------------------------------
(* Receipts, tombstones and revisions.                                     *)

\* The create of an object that is no entry of the host's runs.
LEMMA CreateGrows ==
    ASSUME DiskOK, NEW o, NEW r \in Create(disk, o), disk' = r.disk,
           o[1] = "receipt" => o[2].id \in ReceiptIds
    PROVE  /\ DiskOK' /\ disk.durable \subseteq disk'.durable /\ disk.intact \subseteq disk'.intact
           /\ disk'.intact \subseteq disk.intact \cup {o}
           /\ r.end = "ok" => o \in disk'.durable
           /\ (o[1] # "run" \/ o[2].run \notin RunIds) => Grows
<1> DEFINE O == disk.intact \cup disk.torn \cup {o}
<1>1. disk \in DiskOf(O) /\ o \in O
  BY DEF DiskOK, DiskOf
<1> HIDE DEF O
<1>2. /\ disk' \in DiskOf(O)
      /\ disk.intact \subseteq disk'.intact /\ disk'.intact \subseteq disk.intact \cup {o}
      /\ disk.durable \subseteq disk'.durable /\ disk'.durable \subseteq disk'.intact
      /\ r.end = "ok" => o \in disk'.durable
  BY <1>1, CreateEffect DEF DiskOK
<1>3. disk' \in DiskOf(disk'.intact \cup disk'.torn)
  BY <1>2 DEF DiskOf
<1>4. \A q \in disk'.intact : q[1] = "receipt" => q[2].id \in ReceiptIds
  BY <1>2 DEF DiskOK
<1>5. QED
  BY <1>2, <1>3, <1>4 DEF DiskOK, Grows

\* A step that creates such an object and ends.
LEMMA CreateStep ==
    ASSUME IndInv, NEW a \in Agents, NEW o, NEW r \in Create(disk, o), disk' = r.disk,
           o[1] = "receipt" => o[2].id \in ReceiptIds, o[1] # "run" \/ o[2].run \notin RunIds,
           UNCHANGED <<key, current, acked>>,
           NEW step, NEW x, Moves(a, step, x), Justified(step, x)'
    PROVE  IndInv'
<1>1. DiskOK' /\ Grows /\ disk.durable \subseteq disk'.durable
  BY CreateGrows DEF IndInv
<1>2. LockOK' /\ JobsOK'
  BY <1>1, MovesLock, MovesJobs DEF IndInv
<1>3. KeyOK' /\ AckedOK'
  BY <1>1 DEF IndInv, KeyOK, AckedOK
<1>4. CurrentOK'
  BY <1>1, BurnedGrows DEF IndInv, CurrentOK
<1>5. RunsOK'
  BY <1>1, GrowsRuns DEF IndInv
<1>6. QED
  BY <1>1, <1>2, <1>3, <1>4, <1>5 DEF IndInv

LEMMA IdleJustified == Justified("idle", Nobody)'
  BY DEF Justified

LEMMA AttestEndStep ==
    ASSUME IndInv, NEW a \in Agents, AttestEnd(a)
    PROVE  IndInv'
<1>1. End(a) /\ UNCHANGED <<key, current, acked>> /\ Moves(a, "idle", Nobody)
  BY EndMoves DEF AttestEnd, keyfiles
<1>2. CASE UNCHANGED disk
  <2>1. KeyOK' /\ "idle" \in Plain
    BY <1>1 DEF IndInv, KeyOK, Plain
  <2>2. QED
    BY <1>1, <1>2, <2>1, PlainStep
<1>3. ASSUME NEW id \in ReceiptIds, NEW ok, 
             \E r \in Create(disk, <<"receipt", [id |-> id, ok |-> ok, key |-> job[a].key,
                                     list |-> job[a].list, command |-> job[a].command]>>) :
                disk' = r.disk
      PROVE  IndInv'
  <2>1. PICK o : o = <<"receipt", [id |-> id, ok |-> ok, key |-> job[a].key,
                                   list |-> job[a].list, command |-> job[a].command]>>
    OBVIOUS
  <2>2. o[1] = "receipt" /\ o[2].id = id
    BY <2>1
  <2>3. PICK r \in Create(disk, o) : disk' = r.disk
    BY <1>3, <2>1
  <2>4. QED
    BY <1>1, <2>2, <2>3, IdleJustified, CreateStep
<1>4. QED
  BY <1>2, <1>3 DEF AttestEnd

LEMMA MintFreshStep ==
    ASSUME IndInv, NEW a \in Agents, MintFresh(a)
    PROVE  IndInv'
<1>1. PICK h, s, run : /\ run \in FreshIds
                       /\ \E r \in Create(disk, Entry(run, h.id, s)) : disk' = r.disk
  BY DEF MintFresh
<1>2. UNCHANGED <<key, current, acked, lock, pc, job>>
  BY DEF MintFresh, keyfiles
<1>3. PICK o : o = Entry(run, h.id, s)
  OBVIOUS
<1>4. o[1] = "run" /\ o[2].run \notin RunIds
  BY <1>1, <1>3, NamesAssumption DEF Entry
<1>5. PICK r \in Create(disk, o) : disk' = r.disk
  BY <1>1, <1>3
<1>6. DiskOK' /\ Grows /\ disk.durable \subseteq disk'.durable
  BY <1>4, <1>5, CreateGrows DEF IndInv
<1>7. LockOK'
  BY <1>2 DEF IndInv, LockOK
<1>8. JobsOK'
  <2> SUFFICES ASSUME NEW b \in Agents PROVE Justified(pc[b], job[b])'
    BY DEF JobsOK
  <2>1. PICK s1 : s1 = pc[b]
    OBVIOUS
  <2>2. PICK y : y = job[b]
    OBVIOUS
  <2>3. Justified(s1, y)'
    BY <1>2, <1>6, <2>1, <2>2, GrowsJustified DEF IndInv, JobsOK
  <2>4. QED
    BY <1>2, <2>1, <2>2, <2>3 DEF Justified, Matches, Entries
<1>9. KeyOK' /\ AckedOK'
  BY <1>2, <1>6 DEF IndInv, KeyOK, AckedOK
<1>10. CurrentOK'
  BY <1>2, <1>6, BurnedGrows DEF IndInv, CurrentOK
<1>11. RunsOK'
  BY <1>6, GrowsRuns DEF IndInv
<1>12. QED
  BY <1>6, <1>7, <1>8, <1>9, <1>10, <1>11 DEF IndInv

LEMMA PlanWriteStep ==
    ASSUME IndInv, NEW a \in Agents, PlanWrite(a)
    PROVE  IndInv'
<1>1. PICK o \in Receipts : Goto(a, "planned", [receipt |-> o, base |-> current.seen])
  BY DEF PlanWrite
<1>2. UNCHANGED <<key, disk, current, acked, lock>>
  BY DEF PlanWrite, keyfiles
<1>3. PICK x : x = [receipt |-> o, base |-> current.seen]
  OBVIOUS
<1>4. x.receipt[2].id \in ReceiptIds
  BY <1>3 DEF IndInv, DiskOK, Receipts
<1>5. Justified("planned", x)
  BY <1>4 DEF Justified
<1>6. Moves(a, "planned", x)
  BY <1>1, <1>2, <1>3 DEF Moves, Held
<1>7. KeyOK'
  BY <1>2 DEF IndInv, KeyOK
<1>8. QED
  BY <1>2, <1>5, <1>6, <1>7, MovesStep

\* Under the lock the receipt is found without a tombstone, so it is behind no
\* revision of CURRENT.
LEMMA CommitLockStep ==
    ASSUME IndInv, NEW a \in Agents, CommitLock(a)
    PROVE  IndInv'
<1>1. UNCHANGED <<key, disk, current, acked>> /\ KeyOK'
  BY DEF CommitLock, keyfiles, IndInv, KeyOK
<1>2. PICK x : x = job[a]
  OBVIOUS
<1>3. Justified("planned", x)
  <2>1. Justified(pc[a], job[a]) /\ pc[a] = "planned"
    BY DEF IndInv, JobsOK, CommitLock
  <2>2. QED
    BY <1>2, <2>1
<1>4. CASE End(a)
  <2>1. Moves(a, "idle", Nobody) /\ "idle" \in Plain
    BY <1>4, EndMoves DEF Plain
  <2>2. QED
    BY <1>1, <2>1, PlainStep
<1>5. CASE Verified(x.receipt) /\ Goto(a, "consume", x) /\ lock = Nobody /\ lock' = a
  <2>1. \A i \in 1 .. Len(current.seen) : current.seen[i] # x.receipt[2].id
    <3> SUFFICES ASSUME NEW i \in 1 .. Len(current.seen), current.seen[i] = x.receipt[2].id
                 PROVE  FALSE
      OBVIOUS
    <3>1. Tombstone(current.seen[i]) \in disk.intact
      BY DEF IndInv, CurrentOK, Burned, DiskOK
    <3>2. QED
      BY <1>5, <3>1 DEF Verified, Exists
  <2>2. Justified("consume", x)
    BY <1>3, <2>1 DEF Justified
  <2>3. Moves(a, "consume", x)
    BY <1>5 DEF Moves
  <2>4. QED
    BY <1>1, <2>2, <2>3, MovesStep
<1>6. QED
  BY <1>2, <1>4, <1>5 DEF CommitLock

LEMMA ConsumeStep ==
    ASSUME IndInv, NEW a \in Agents, Consume(a)
    PROVE  IndInv'
<1>1. PICK x : x = job[a]
  OBVIOUS
<1>2. PICK o : o = Tombstone(x.receipt[2].id)
  OBVIOUS
<1>3. PICK r \in Create(disk, o) :
        /\ disk' = r.disk
        /\ IF r.end = "ok"
           THEN Goto(a, "commit", x) /\ UNCHANGED lock
           ELSE End(a)
  BY <1>1, <1>2 DEF Consume
<1>4. UNCHANGED <<key, current, acked>> /\ pc[a] = "consume"
  BY DEF Consume, keyfiles
<1>5. o[1] = "tombstone"
  BY <1>2 DEF Tombstone
<1>6. Justified("consume", x) /\ lock = a
  <2>1. Justified(pc[a], job[a]) /\ lock = a
    BY <1>4 DEF IndInv, JobsOK, LockOK, Held
  <2>2. QED
    BY <1>1, <1>4, <2>1
<1>7. DiskOK' /\ (r.end = "ok" => o \in disk'.durable)
  BY <1>3, <1>5, CreateGrows DEF IndInv
<1>8. CASE r.end = "ok"
  <2>1. Justified("commit", x)'
    BY <1>2, <1>4, <1>6, <1>7, <1>8 DEF Justified, Tombstone
  <2>2. Moves(a, "commit", x)
    BY <1>3, <1>6, <1>8 DEF Moves
  <2>3. QED
    BY <1>3, <1>4, <1>5, <2>1, <2>2, CreateStep
<1>9. CASE r.end # "ok"
  <2>1. Moves(a, "idle", Nobody)
    BY <1>3, <1>9, EndMoves
  <2>2. QED
    BY <1>3, <1>4, <1>5, <2>1, IdleJustified, CreateStep
<1>10. QED
  BY <1>8, <1>9

\* A sequence of distinct receipts with one more that is not in it.
LEMMA BurnedAppend ==
    ASSUME NEW s \in Seq(ReceiptIds), NEW id \in ReceiptIds, Burned(s),
           \A i \in 1 .. Len(s) : s[i] # id, Tombstone(id) \in disk.durable
    PROVE  Burned(Append(s, id)) /\ Append(s, id) \in Seq(ReceiptIds)
<1>1. /\ Append(s, id) \in Seq(ReceiptIds) /\ Len(Append(s, id)) = Len(s) + 1 /\ Len(s) \in Nat
      /\ \A i \in 1 .. Len(s) : Append(s, id)[i] = s[i]
      /\ Append(s, id)[Len(s) + 1] = id
  OBVIOUS
<1>2. PICK t : t = Append(s, id)
  OBVIOUS
<1>3. \A i \in 1 .. Len(t) : \/ i \in 1 .. Len(s) /\ t[i] = s[i]
                             \/ i = Len(s) + 1 /\ t[i] = id
  <2>1. \A i \in 1 .. Len(s) + 1 : i \in 1 .. Len(s) \/ i = Len(s) + 1
    BY <1>1
  <2>2. QED
    BY <1>1, <1>2, <2>1
<1>4. Burned(t)
  BY <1>3 DEF Burned
<1>5. QED
  BY <1>1, <1>2, <1>4

LEMMA CommitWriteStep ==
    ASSUME IndInv, NEW a \in Agents, CommitWrite(a)
    PROVE  IndInv'
<1>1. End(a) /\ UNCHANGED <<key, disk, acked>> /\ pc[a] = "commit"
  BY DEF CommitWrite, keyfiles
<1>2. Moves(a, "idle", Nobody) /\ "idle" \in Plain /\ KeyOK'
  BY <1>1, EndMoves DEF Plain, IndInv, KeyOK
<1>3. CASE UNCHANGED current
  BY <1>1, <1>2, <1>3, PlainStep
<1>4. CASE \E r \in AtomicWrite(current, Append(current.seen, job[a].receipt[2].id)) :
             current' = r.cell
  <2>1. PICK id : id = job[a].receipt[2].id
    OBVIOUS
  <2>2. PICK s : s = Append(current.seen, id)
    OBVIOUS
  <2>3. /\ id \in ReceiptIds /\ Tombstone(id) \in disk.durable
        /\ \A i \in 1 .. Len(current.seen) : current.seen[i] # id
    BY <1>1, <2>1 DEF IndInv, JobsOK, Justified
  <2>4. current.seen \in Seq(ReceiptIds) /\ current \in CellOf(Seq(ReceiptIds))
        /\ Burned(current.seen) /\ Burned(current.safe)
    BY DEF IndInv, CurrentOK, CellOf
  <2>5. Burned(s) /\ s \in Seq(ReceiptIds)
    BY <2>2, <2>3, <2>4, BurnedAppend
  <2>6. /\ current' \in CellOf(Seq(ReceiptIds))
        /\ current'.seen \in {current.seen, s} /\ current'.safe \in {current.safe, s}
    <3>1. PICK r \in AtomicWrite(current, s) : current' = r.cell
      BY <1>4, <2>1, <2>2
    <3>2. PICK V : V = Seq(ReceiptIds)
      OBVIOUS
    <3>3. r.cell \in CellOf(V) /\ r.cell.seen \in {current.seen, s} /\ r.cell.safe \in {current.safe, s}
      BY <2>4, <2>5, <3>2, AtomicWriteEffect
    <3>4. QED
      BY <3>1, <3>2, <3>3
  <2>7. ASSUME NEW u, Burned(u) PROVE Burned(u)'
    BY <1>1, <2>7, BurnedGrows
  <2>8. \A u \in {current.seen, current.safe, s} : Burned(u)
    BY <2>4, <2>5
  <2>9. PICK u : u = current'.seen
    OBVIOUS
  <2>10. PICK v : v = current'.safe
    OBVIOUS
  <2>11. Burned(u)' /\ Burned(v)'
    BY <2>6, <2>7, <2>8, <2>9, <2>10
  <2>12. CurrentOK'
    BY <2>6, <2>9, <2>10, <2>11 DEF CurrentOK, Burned
  <2>13. LockOK' /\ JobsOK'
    BY <1>1, <1>2, IdleJustified, MovesLock, MovesJobs DEF IndInv, Held
  <2>14. DiskOK' /\ AckedOK' /\ RunsOK'
    BY <1>1 DEF IndInv, DiskOK, AckedOK, RunsOK, Entries
  <2>15. QED
    BY <1>2, <2>12, <2>13, <2>14 DEF IndInv
<1>5. QED
  BY <1>3, <1>4 DEF CommitWrite

-----------------------------------------------------------------------------
(* Runs.                                                                   *)

LEMMA MintCallStep ==
    ASSUME IndInv, NEW a \in Agents, MintCall(a)
    PROVE  IndInv'
<1>1. PICK run \in RunIds, h \in Hooks, s \in Subjects :
        Goto(a, "mint", [run |-> run, hook |-> h, subject |-> s])
  BY DEF MintCall
<1>2. UNCHANGED <<key, disk, current, acked, lock>>
  BY DEF MintCall, keyfiles
<1>3. PICK x : x = [run |-> run, hook |-> h, subject |-> s]
  OBVIOUS
<1>4. Justified("mint", x)
  BY <1>3 DEF Justified
<1>5. Moves(a, "mint", x) /\ KeyOK'
  BY <1>1, <1>2, <1>3 DEF Moves, Held, IndInv, KeyOK
<1>6. QED
  BY <1>2, <1>4, <1>5, MovesStep

\* Under the lock there is no entry for the run_id, or the one that there is.
LEMMA MintLockStep ==
    ASSUME IndInv, NEW a \in Agents, MintLock(a)
    PROVE  IndInv'
<1>1. UNCHANGED <<key, disk, current, acked>> /\ KeyOK' /\ lock = Nobody /\ pc[a] = "mint"
  BY DEF MintLock, keyfiles, IndInv, KeyOK
<1>2. PICK x : x = job[a]
  OBVIOUS
<1>3. x.run \in RunIds
  BY <1>1, <1>2 DEF IndInv, JobsOK, Justified
<1>4. CASE End(a)
  <2>1. Moves(a, "idle", Nobody) /\ "idle" \in Plain
    BY <1>4, EndMoves DEF Plain
  <2>2. QED
    BY <1>1, <2>1, PlainStep
<1>5. CASE Matches(x.run) = {} /\ Goto(a, "publish", x) /\ lock' = a
  <2>1. Justified("publish", x)
    BY <1>3, <1>5 DEF Justified
  <2>2. Moves(a, "publish", x)
    BY <1>1, <1>5 DEF Moves
  <2>3. QED
    BY <1>1, <2>1, <2>2, MovesStep
<1>6. ASSUME NEW o, o \in Matches(x.run), Goto(a, "restore", [entry |-> o]), lock' = a
      PROVE  IndInv'
  <2>1. PICK y : y = [entry |-> o]
    OBVIOUS
  <2>2. y.entry \in Entries /\ y.entry[2].run \in RunIds
    BY <1>3, <1>6, <2>1 DEF Matches
  <2>3. Justified("restore", y)
    BY <2>2 DEF Justified
  <2>4. Moves(a, "restore", y)
    BY <1>1, <1>6, <2>1 DEF Moves
  <2>5. QED
    BY <1>1, <2>3, <2>4, MovesStep
<1>7. QED
  BY <1>2, <1>4, <1>5, <1>6 DEF MintLock

LEMMA PublishStep ==
    ASSUME IndInv, NEW a \in Agents, Publish(a)
    PROVE  IndInv'
<1>1. PICK o : o = Entry(job[a].run, job[a].hook, job[a].subject)
  OBVIOUS
<1>2. PICK r \in Create(disk, o) :
        /\ disk' = r.disk
        /\ (r.end = "ok" /\ acked' = acked \cup {o}) \/ UNCHANGED acked
  BY <1>1 DEF Publish
<1>3. End(a) /\ UNCHANGED <<key, current>> /\ pc[a] = "publish"
  BY DEF Publish, keyfiles
<1>4. o[1] = "run" /\ o[2].run = job[a].run
  BY <1>1 DEF Entry
<1>5. o[2].run \in RunIds /\ Matches(o[2].run) = {}
  BY <1>3, <1>4 DEF IndInv, JobsOK, Justified
<1>6. /\ DiskOK' /\ disk.durable \subseteq disk'.durable
      /\ disk'.intact \subseteq disk.intact \cup {o}
      /\ r.end = "ok" => o \in disk'.durable
  BY <1>2, <1>4, CreateGrows DEF IndInv
<1>7. Moves(a, "idle", Nobody)
  BY <1>3, EndMoves
<1>8. LockOK' /\ JobsOK'
  BY <1>3, <1>7, IdleJustified, MovesLock, MovesJobs DEF IndInv, Held
<1>9. KeyOK' /\ CurrentOK'
  BY <1>3, <1>6, BurnedGrows DEF IndInv, KeyOK, CurrentOK
<1>10. AckedOK'
  BY <1>2, <1>4, <1>5, <1>6 DEF IndInv, AckedOK
<1>11. RunsOK'
  <2> SUFFICES ASSUME NEW p \in Entries', NEW q \in Entries', p[2].run \in RunIds,
                      p[2].run = q[2].run
               PROVE  p = q
    BY DEF RunsOK
  <2>1. p \in Entries \cup {o} /\ q \in Entries \cup {o}
    BY <1>6 DEF Entries
  <2>2. p \in Entries /\ q \in Entries => p = q
    BY DEF IndInv, RunsOK
  <2>3. \A e \in Entries : e[2].run # o[2].run
    BY <1>5 DEF Matches
  <2>4. QED
    BY <2>1, <2>2, <2>3
<1>12. QED
  BY <1>6, <1>8, <1>9, <1>10, <1>11 DEF IndInv

LEMMA RestoreStep ==
    ASSUME IndInv, NEW a \in Agents, Restore(a)
    PROVE  IndInv'
<1>1. End(a) /\ UNCHANGED <<key, current>> /\ pc[a] = "restore"
  BY DEF Restore, keyfiles
<1>2. Moves(a, "idle", Nobody) /\ "idle" \in Plain /\ KeyOK'
  BY <1>1, EndMoves DEF Plain, IndInv, KeyOK
<1>3. CASE UNCHANGED <<disk, acked>>
  BY <1>1, <1>2, <1>3, PlainStep
<1>4. CASE disk' = SyncProtected(disk, {job[a].entry}) /\ acked' = acked \cup {job[a].entry}
  <2>1. PICK o : o = job[a].entry
    OBVIOUS
  <2>2. o \in Entries /\ o[2].run \in RunIds
    BY <1>1, <2>1 DEF IndInv, JobsOK, Justified
  <2>3. /\ disk \in DiskOf(disk.intact \cup disk.torn) /\ disk.durable \subseteq disk.intact
        /\ o \in disk.intact /\ o[1] = "run"
    BY <2>2 DEF IndInv, DiskOK, Entries
  <2>4. /\ disk' \in DiskOf(disk.intact \cup disk.torn)
        /\ disk'.intact = disk.intact /\ disk'.torn = disk.torn
        /\ disk'.durable = disk.durable \cup {o}
    BY <1>4, <2>1, <2>3 DEF SyncProtected, DiskOf
  <2>5. DiskOK'
    BY <2>3, <2>4 DEF IndInv, DiskOK
  <2>6. LockOK' /\ JobsOK'
    BY <1>1, <1>2, IdleJustified, MovesLock, MovesJobs DEF IndInv, Held
  <2>7. CurrentOK'
    BY <1>1, <2>4, BurnedGrows DEF IndInv, CurrentOK
  <2>8. AckedOK'
    BY <1>4, <2>1, <2>2, <2>3, <2>4 DEF IndInv, AckedOK
  <2>9. RunsOK'
    BY <2>4 DEF IndInv, RunsOK, Entries
  <2>10. QED
    BY <1>2, <2>5, <2>6, <2>7, <2>8, <2>9 DEF IndInv
<1>5. QED
  BY <1>3, <1>4 DEF Restore

-----------------------------------------------------------------------------
(* The host, the clock, the power.                                         *)

LEMMA QuietStep ==
    ASSUME IndInv, UNCHANGED <<key, disk, current, acked, lock, pc, job>>
    PROVE  IndInv'
<1>1. Grows
  BY DEF Grows
<1>2. JobsOK'
  <2> SUFFICES ASSUME NEW b \in Agents PROVE Justified(pc[b], job[b])'
    BY DEF JobsOK
  <2>1. PICK s : s = pc[b]
    OBVIOUS
  <2>2. PICK y : y = job[b]
    OBVIOUS
  <2>3. Justified(s, y)'
    BY <1>1, <2>1, <2>2, GrowsJustified DEF IndInv, JobsOK
  <2>4. QED
    BY <2>1, <2>2, <2>3 DEF Justified, Matches, Entries
<1>3. LockOK' /\ KeyOK' /\ DiskOK' /\ AckedOK' /\ RunsOK'
  BY DEF IndInv, LockOK, KeyOK, DiskOK, AckedOK, RunsOK, Entries
<1>4. CurrentOK'
  BY BurnedGrows DEF IndInv, CurrentOK
<1>5. QED
  BY <1>2, <1>3, <1>4 DEF IndInv

LEMMA PowerLossStep ==
    ASSUME IndInv, PowerLoss
    PROVE  IndInv'
<1>1. /\ disk \in DiskOf(disk.intact \cup disk.torn) /\ disk.durable \subseteq disk.intact
      /\ disk' \in DisksAfterPowerLoss(disk) /\ UNCHANGED acked
  BY DEF IndInv, DiskOK, PowerLoss
<1>2. /\ disk' \in DiskOf(disk.intact \cup disk.torn)
      /\ disk.durable \subseteq disk'.durable /\ disk'.durable = disk'.intact
      /\ disk'.intact \subseteq disk.intact
  BY <1>1, PowerLossEffect
<1>3. DiskOK'
  <2>1. disk' \in DiskOf(disk'.intact \cup disk'.torn)
    BY <1>2 DEF DiskOf
  <2>2. QED
    BY <1>2, <2>1 DEF IndInv, DiskOK
<1>4. KeyOK'
  BY KeyPowerLoss DEF IndInv, PowerLoss, KeyOK
<1>5. CurrentOK'
  <2>1. PICK s \in {current.seen, current.safe} : current' = Cell(s)
    BY DEF PowerLoss, CellsAfterPowerLoss
  <2>2. s \in Seq(ReceiptIds) /\ Burned(s)
    BY DEF IndInv, CurrentOK, CellOf
  <2>3. Burned(s)'
    BY <1>2, <2>2, BurnedGrows
  <2>4. current'.seen = s /\ current'.safe = s /\ current' \in CellOf(Seq(ReceiptIds))
    BY <2>1, <2>2 DEF Cell, CellOf
  <2>5. QED
    BY <2>3, <2>4 DEF CurrentOK, Burned
<1>6. LockOK' /\ JobsOK'
  BY DEF PowerLoss, LockOK, JobsOK, Justified, Held
<1>7. AckedOK'
  BY <1>1, <1>2 DEF IndInv, AckedOK
<1>8. RunsOK'
  BY <1>2 DEF IndInv, RunsOK, Entries
<1>9. QED
  BY <1>3, <1>4, <1>5, <1>6, <1>7, <1>8 DEF IndInv

LEMMA InitHolds ==
    ASSUME Init
    PROVE  IndInv
<1>1. disk.intact = {} /\ disk.durable = {} /\ disk \in DiskOf({}) /\ disk.torn = {}
  BY QuotaAssumption DEF Init, EmptyDisk, DiskOf
<1>2. DiskOK
  BY <1>1 DEF DiskOK, DiskOf
<1>3. KeyOK
  BY DEF Init, KeyOK, Cell, CellOf, KeyFiles
<1>4. current = [seen |-> <<>>, safe |-> <<>>]
  BY DEF Init, Cell
<1>5. CurrentOK
  <2>1. << >> \in Seq(ReceiptIds) /\ Len(<< >>) = 0
    OBVIOUS
  <2>2. \A i \in 1 .. 0 : FALSE
    OBVIOUS
  <2>3. Burned(<< >>)
    BY <2>1, <2>2 DEF Burned
  <2>4. QED
    BY <1>4, <2>1, <2>3 DEF CurrentOK, CellOf
<1>6. LockOK /\ JobsOK
  BY DEF Init, LockOK, JobsOK, Justified, Held
<1>7. AckedOK /\ RunsOK
  BY <1>1 DEF Init, AckedOK, RunsOK, Entries
<1>8. QED
  BY <1>2, <1>3, <1>5, <1>6, <1>7 DEF IndInv

LEMMA StepHolds ==
    ASSUME IndInv, [Next]_vars
    PROVE  IndInv'
<1>1. CASE UNCHANGED vars \/ Declare \/ EditWhitelist \/ Tick
  <2>1. UNCHANGED <<key, disk, current, acked, lock, pc, job>>
    BY <1>1 DEF vars, Declare, EditWhitelist, Tick, keyfiles
  <2>2. QED
    BY <2>1, QuietStep
<1>2. CASE PowerLoss
  BY <1>2, PowerLossStep
<1>3. ASSUME NEW a \in Agents, Attest(a) \/ Write(a) \/ Mint(a) \/ Die(a)
      PROVE  IndInv'
  <2>1. CASE Attest(a) \/ Die(a)
    BY <2>1, AttestFilesStep, AttestEndStep DEF Attest
  <2>2. CASE Write(a)
    BY <2>2, PlanWriteStep, CommitLockStep, ConsumeStep, CommitWriteStep DEF Write
  <2>3. CASE Mint(a)
    BY <2>3, MintFreshStep, MintCallStep, MintLockStep, PublishStep, RestoreStep DEF Mint
  <2>4. QED
    BY <1>3, <2>1, <2>2, <2>3
<1>4. QED
  BY <1>1, <1>2, <1>3 DEF Next

-----------------------------------------------------------------------------
(* Theorems.                                                               *)

LEMMA Reached == Spec => []IndInv
  BY InitHolds, StepHolds, PTL DEF Spec

\* A receipt stands behind one revision at most (attest.consume_tombstone under
\* the lock of commit_write_plan), whoever races for it, dies after the tombstone
\* or loses power before CURRENT.
THEOREM ReceiptUsedOnce == Spec => []SingleUse
<1>1. IndInv => SingleUse
  BY DEF IndInv, CurrentOK, Burned, SingleUse
<1>2. QED
  BY <1>1, Reached, PTL

\* However often the host repeats a run_id there is one entry for it, and what a
\* call of hook_runs.mint_hook_run returned stays on the medium.
THEOREM RunsRecordedOnce == Spec => []AckedRunHolds
<1>1. ASSUME IndInv PROVE AckedRunHolds
  <2>1. ASSUME NEW run \in RunIds PROVE Cardinality(Matches(run)) <= 1
    <3>1. \A o, p \in Matches(run) : o = p
      BY <1>1 DEF IndInv, RunsOK, Matches
    <3>2. CASE Matches(run) = {}
      BY <3>2, FS_EmptySet
    <3>3. CASE Matches(run) # {}
      <4>1. PICK o : Matches(run) = {o}
        BY <3>1, <3>3
      <4>2. QED
        BY <4>1, FS_Singleton
    <3>4. QED
      BY <3>2, <3>3
  <2>2. acked \subseteq Entries /\ acked \subseteq disk.durable
    BY <1>1 DEF IndInv, AckedOK, DiskOK, Entries
  <2>3. \A o, p \in acked : o[2].run = p[2].run => o = p
    BY <1>1, <2>2 DEF IndInv, AckedOK, RunsOK
  <2>4. QED
    BY <2>1, <2>2, <2>3 DEF AckedRunHolds
<1>2. QED
  BY <1>1, Reached, PTL

\* integration_status_v2 never calls a required hook pending when a run of it was
\* recorded and is recent: a torn neighbour, a lost key or a directory beyond the
\* limit of the scan makes the answer indeterminate at worst.
THEOREM RecentRunCounts == Spec => []NeverWronglyPending
<1>1. ASSUME IndInv PROVE NeverWronglyPending
  <2> SUFFICES ASSUME NEW o \in acked, NEW read \in read_verified_runs, is_recent(o[2].at),
                      {h.id : h \in {x \in DeclaredHooks : x.required}} = {o[2].hook},
                      pending_continuity(read) = "required"
               PROVE  FALSE
    BY DEF NeverWronglyPending
  <2> DEFINE files == Entries \cup TornEntries
             valid(p) == p \in disk.intact /\ p[2].key = key.seen
             scanned == {s \in SUBSET files : IF Cardinality(files) <= MaxScan THEN s = files
                                              ELSE Cardinality(s) = MaxScan}
  <2>1. o \in Entries
    BY <1>1 DEF IndInv, AckedOK, DiskOK, Entries
  <2>2. ~read.degraded /\ ~({h.id : h \in {x \in DeclaredHooks : x.required /\ x.closes}}
                              \subseteq {p[2].hook : p \in {x \in read.runs : is_recent(x[2].at)}})
    BY DEF pending_continuity
  <2>3. \E s \in scanned : read = [runs |-> {p \in s : valid(p)},
                                   degraded |-> s # files \/ \E p \in s : ~valid(p)]
    <3>1. read # [runs |-> {}, degraded |-> TRUE]
      BY <2>2
    <3>2. \/ read \in {[runs |-> {}, degraded |-> TRUE]}
          \/ read \in {[runs |-> {p \in s : valid(p)},
                       degraded |-> s # files \/ \E p \in s : ~valid(p)] : s \in scanned}
      BY Zenon DEF read_verified_runs
    <3>3. QED
      BY <3>1, <3>2, Zenon
  <2>4. PICK s \in scanned : read = [runs |-> {p \in s : valid(p)},
                                     degraded |-> s # files \/ \E p \in s : ~valid(p)]
    BY <2>3
  <2>5. s = files /\ \A p \in s : valid(p)
    BY <2>2, <2>4
  <2>6. o \in read.runs
    BY <2>1, <2>4, <2>5
  <2>7. o[2].hook \in {p[2].hook : p \in {x \in read.runs : is_recent(x[2].at)}}
    BY <2>6
  <2>8. {h.id : h \in {x \in DeclaredHooks : x.required /\ x.closes}} \subseteq {o[2].hook}
    OBVIOUS
  <2>9. QED
    BY <2>2, <2>7, <2>8
<1>2. QED
  BY <1>1, Reached, PTL

\* A key that is on the medium is the key for good: ensure_attest_files never
\* writes over one, whoever else runs it and wherever it stops.
THEOREM KeyNeverReplaced == Spec => KeyAssigned
<1> DEFINE assigned == IF key.safe \in Keys \cup {Short} THEN {key.safe} ELSE {}
<1>1. Init => A!AssignmentInit
  BY NamesAssumption DEF Init, Cell, A!AssignmentInit
<1>2. ASSUME IndInv, [Next]_vars
      PROVE  (\E v \in Keys \cup {Short} : A!Assign(v)) \/ assigned' = assigned
  <2>1. key'.safe = key.safe \/ key.safe = Absent
    <3>1. CASE UNCHANGED key
      BY <3>1
    <3>2. CASE \E a \in Agents : CreateKey(a)
      BY <1>2, <3>2, KeyCreated DEF CreateKey, IndInv
    <3>3. CASE PowerLoss
      BY <1>2, <3>3, KeyPowerLoss DEF PowerLoss, IndInv
    <3>4. QED
      BY <1>2, <3>1, <3>2, <3>3
         DEF Next, vars, Attest, Write, Mint, EnsureKey, CreateWhitelist, AttestStart, AttestEnd,
             PlanWrite, CommitLock, Consume, CommitWrite, MintFresh, MintCall, MintLock, Publish,
             Restore, Die, Declare, EditWhitelist, Tick, keyfiles
  <2>2. CASE key'.safe = key.safe
    BY <2>2
  <2>3. CASE key.safe = Absent
    <3>1. assigned = {}
      BY <2>3, NamesAssumption
    <3>2. QED
      BY <3>1 DEF A!Assign
  <2>4. QED
    BY <2>1, <2>2, <2>3
<1>3. IndInv /\ [Next]_vars => [\E v \in Keys \cup {Short} : A!Assign(v)]_assigned
  BY <1>2
<1>4. QED
  BY <1>1, <1>3, Reached, PTL DEF Spec, KeyAssigned, A!AssignmentSpec
=============================================================================

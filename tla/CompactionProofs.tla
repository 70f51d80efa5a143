-------------------------- MODULE CompactionProofs --------------------------
(***************************************************************************)
(* Proofs about Compaction, for any number of transactions, epochs,        *)
(* records, processes, failures and power losses, in a store whose         *)
(* writers do not write a compacted record again (~ReuseRows; the run      *)
(* reuse shows what happens when they do).                                 *)
(***************************************************************************)
EXTENDS Compaction, TLAPS

(* The revisions and plans, which never change once they are fixed.        *)

EpochsOf(x) == manifest[x].epochs
KnownIds == {x \in Ids : Known(x)}

\* The objects that are written for a revision and for no other, and with its
\* segments all that is ever written for it.
Own(x) == {Revision(x), Stage(x), Journal(x), Intent(x), Observed(x), Catalog(x)}
Segments(x) == {Segment(S) : S \in manifest[x].segs}
Footprint(x) == Own(x) \cup Segments(x)

\* What the catalogs of a revision archive, and all the revisions before it.
Behind(x) == UNION {plan[f].archived : f \in EpochsOf(x)}
Past(x) == (Line(x) \ {x}) \cup Behind(x)

ManifestOf ==
  [parent : Ids, line : SUBSET Ids, segs : SUBSET SUBSET Rows, dead : SUBSET Rows,
   epochs : SUBSET Epochs]

JournalOf ==
  [stage : {"absent", "candidate_prepared", "committed"}, candidate : BOOLEAN,
   current : BOOLEAN, observed : BOOLEAN, cleaned : BOOLEAN]

GraphTypes ==
  /\ manifest \in [Ids -> ManifestOf]
  /\ DOMAIN plan = Epochs
  /\ manifest[Root] = Genesis
  /\ \A e \in Epochs : Known(e) <=> plan[e] # NoPlan

\* A writer's revision adds one new record to its parent and retires at most one
\* active one.
Wrote(x) ==
  LET b == manifest[x].parent
  IN  /\ Line(x) = Line(b) \cup {x} /\ EpochsOf(x) = EpochsOf(b)
      /\ \E r \in Rows \ RowsOf(b), d \in {{}} \cup {{a} : a \in Active(b)} :
           /\ manifest[x].segs = manifest[b].segs \cup {{r}}
           /\ manifest[x].dead = manifest[b].dead \cup d

\* A compaction keeps the active records of its base, starts a line of its own and
\* archives all that is before it.
Compacted(x) ==
  LET b == manifest[x].parent
  IN  /\ plan[x].base = b
      /\ plan[x].segs = manifest[x].segs
      /\ manifest[x].segs = project_snapshot(b)
      /\ manifest[x].dead = {}
      /\ manifest[x].line = {x}
      /\ plan[x].prev = EpochsOf(b)
      /\ EpochsOf(x) = plan[x].prev \cup {x} /\ x \notin plan[x].prev
      /\ plan[x].archived = Line(b) \cup Behind(b)

\* Along a line everything accumulates, and the epochs are those of its start.
LineOK(x) ==
  /\ x \in Line(x)
  /\ \A y \in Line(x) :
       /\ y \in KnownIds
       /\ Line(y) \subseteq Line(x)
       /\ manifest[y].segs \subseteq manifest[x].segs
       /\ EpochsOf(y) = EpochsOf(x)

\* The catalogs of a revision chain back from a newest one, which archives what
\* they all do.
ChainOK(x) ==
  /\ \A f \in EpochsOf(x) : f \in KnownIds /\ EpochsOf(f) \subseteq EpochsOf(x)
  /\ EpochsOf(x) # {} => \E n \in EpochsOf(x) : EpochsOf(n) = EpochsOf(x)

\* The past of a revision is closed, holds its parent and not itself.
PastOK(x) ==
  /\ x \notin Past(x)
  /\ x # Root => manifest[x].parent \in Past(x)
  /\ \A y \in Past(x) : y \in KnownIds /\ Past(y) \subseteq Past(x)

Graph ==
  /\ GraphTypes
  /\ \A x \in KnownIds :
       /\ manifest[x].parent \in KnownIds
       /\ manifest[x].dead \subseteq RowsOf(x)
       /\ x \in Txs => Wrote(x)
       /\ x \in Epochs => Compacted(x)
       /\ LineOK(x) /\ ChainOK(x) /\ PastOK(x)

-----------------------------------------------------------------------------
(* What a compaction may delete.                                           *)

\* Every object in the store, on the medium or in a plan belongs to a revision.
Owned(F) == \A f \in F : \E x \in KnownIds : f \in Footprint(x)

\* A row that no deleted segment holds.
Fresh(r, e) == \A S \in SUBSET Rows : Segment(S) \in DeleteFiles(e) => r \notin S

\* A revision behind an epoch holds none of what the epoch deletes, and what it
\* shows is what the epoch showed, or something new.
Spared(x) ==
  \A e \in EpochsOf(x) :
    /\ Footprint(x) \cap DeleteFiles(e) = {}
    /\ Active(x) = Active(e) \/ \E r \in Active(x) : Fresh(r, e)

Cleanup ==
  /\ Owned(files) /\ Owned(durable)
  /\ \A e \in Epochs : plan[e] # NoPlan =>
       Owned(DeleteFiles(e)) /\ \A x \in Ids : Catalog(x) \notin DeleteFiles(e)
  /\ \A x \in KnownIds : Spared(x)

-----------------------------------------------------------------------------
(* CURRENT, its history and the journals.                                  *)

Heads == {current, stable}
Kept == files \cap durable

\* A CURRENT that is not on the medium is a compaction without its receipt: it
\* shows the same records and nothing has been deleted for it.
HeadsOK ==
  /\ Heads \subseteq KnownIds /\ stable \in committed /\ committed \subseteq KnownIds
  /\ \A y \in Heads : Needed(y) \subseteq Kept /\ committed \subseteq Line(y) \cup Behind(y)
  /\ stable # current =>
       /\ current \in Epochs /\ ~journal[current].current
       /\ Active(stable) = Active(current)
       /\ EpochsOf(stable) \subseteq EpochsOf(current)

TombstonedBy(y, x) == \E e \in EpochsOf(y) : Journal(x) \in DeleteFiles(e)

\* The journal of each revision that was CURRENT is there or tombstoned.
Traced ==
  \A x \in committed \cup {current}, y \in Heads :
    x # Root => Journal(x) \in Kept \/ TombstonedBy(y, x)

JournalsOK ==
  /\ journal \in [Epochs -> JournalOf]
  /\ \A e \in Epochs : journal[e].cleaned =>
       /\ e \in EpochsOf(current) /\ e \in EpochsOf(stable)
       /\ DeleteFiles(e) \cap (files \cup durable) = {}

-----------------------------------------------------------------------------
(* The processes.                                                          *)

FromCatalog == {"catalog", "revision", "intent", "stage", "journal", "receipt", "replace"}
FromRevision == FromCatalog \ {"catalog"}
FromIntent == FromRevision \ {"revision"}
FromJournal == {"journal", "receipt", "replace"}
FromReceipt == {"receipt", "replace"}
Committing == FromCatalog \cup {"segments"}
Cleaning == {"delete", "sync_parents", "cleanup_receipt"}
Steps == Committing \cup Cleaning \cup {"idle", "sync", "current_receipt", "reconcile"}

\* Under the lock, a compaction on its way to CURRENT.
OnTheWay(s, e) ==
  /\ s \in Committing => e \notin Line(current) /\ current = manifest[e].parent
  /\ s \in FromCatalog => Segments(e) \subseteq files
  /\ s \in FromRevision => Catalog(e) \in files
  /\ s \in FromIntent => Revision(e) \in files
  /\ s \in FromJournal => Stage(e) \in files
  /\ s \in FromReceipt => Journal(e) \in Kept /\ ~journal[e].current
  /\ s = "replace" => Needed(e) \subseteq durable

\* One that has got there.
Arrived(s, e) ==
  /\ s \in {"sync", "current_receipt"} => current = e
  /\ s = "sync" => ~journal[e].current
  /\ s = "current_receipt" => stable = current
  /\ s = "reconcile" => e \in Line(current)
  /\ s \in Cleaning => e \in Line(current) /\ stable = current
  /\ s \in {"sync_parents", "cleanup_receipt"} => DeleteFiles(e) \cap files = {}
  /\ s = "cleanup_receipt" => DeleteFiles(e) \cap durable = {}

CompactorsOK ==
  /\ pc \in [Compactors -> Steps] /\ job \in [Compactors -> Epochs]
  /\ \A c \in Compactors : pc[c] # "idle" =>
       lock = c /\ job[c] \in KnownIds /\ OnTheWay(pc[c], job[c]) /\ Arrived(pc[c], job[c])

WriterOK ==
  /\ lock \in {Nobody} \cup Txs \cup Compactors
  /\ lock \in Txs =>
       lock \in KnownIds /\ manifest[lock].parent = current /\ Objects(lock) \subseteq files

\* A reader inside the gate: no compactor is, and its snapshot is complete.
ReadersOK ==
  /\ rpc \in [Readers -> {"out", "chain", "segments"}] /\ seen \in [Readers -> Ids]
  /\ \A r \in Readers : rpc[r] # "out" =>
       /\ \A c \in Compactors : pc[c] = "idle"
       /\ seen[r] \in KnownIds /\ Needed(seen[r]) \subseteq files

IndInv ==
  /\ Graph /\ Cleanup /\ HeadsOK /\ Traced /\ JournalsOK
  /\ CompactorsOK /\ WriterOK /\ ReadersOK

-----------------------------------------------------------------------------
(* Names of objects.                                                       *)

LEMMA OwnDisjoint ==
  ASSUME NEW x, NEW y, NEW f, f \in Own(x), f \in Own(y)
  PROVE  x = y
<1>1. f[2] = x
  BY DEF Own, Revision, Stage, Journal, Intent, Observed, Catalog
<1>2. f[2] = y
  BY DEF Own, Revision, Stage, Journal, Intent, Observed, Catalog
<1>3. QED
  BY <1>1, <1>2

LEMMA SegmentNames ==
  /\ \A x, S : Segment(S) \notin Own(x)
  /\ \A S, T : Segment(S) = Segment(T) => S = T
<1>1. ASSUME NEW x, NEW S, NEW f, f \in Own(x) PROVE f # Segment(S)
  <2>1. f[1] # "segment"
    BY <1>1 DEF Own, Revision, Stage, Journal, Intent, Observed, Catalog
  <2>2. Segment(S)[1] = "segment"
    BY DEF Segment
  <2>3. QED
    BY <2>1, <2>2
<1>2. ASSUME NEW S, NEW T, Segment(S) = Segment(T) PROVE S = T
  <2>1. Segment(S)[2] = S /\ Segment(T)[2] = T
    BY DEF Segment
  <2>2. QED
    BY <2>1, <1>2
<1>3. QED
  BY <1>1, <1>2

LEMMA OwnNames ==
  ASSUME NEW x
  PROVE  {Revision(x), Stage(x), Journal(x), Intent(x), Observed(x), Catalog(x)} \subseteq Own(x)
BY DEF Own

LEMMA CatalogStays == \A x : ~Deletable(Catalog(x))
<1> SUFFICES ASSUME NEW x PROVE ~Deletable(Catalog(x))
  OBVIOUS
<1>1. Catalog(x)[1] = "catalog"
  BY DEF Catalog
<1>2. DOMAIN Kinds = 1 .. 4 /\ Kinds[1] = {"ref-log"} /\ Kinds[2] = {"revision"}
      /\ Kinds[3] = {"segment"} /\ Kinds[4] = {"transaction", "stage"}
  BY DEF Kinds
<1>3. \A i \in 1 .. 4 : i = 1 \/ i = 2 \/ i = 3 \/ i = 4
  OBVIOUS
<1>4. QED
  BY <1>1, <1>2, <1>3 DEF Deletable

-----------------------------------------------------------------------------
(* Revisions and plans are written once.                                   *)

\* No step changes a revision or a plan that there is.
Keeps ==
  \A x \in KnownIds :
    /\ x \in KnownIds' /\ manifest'[x] = manifest[x]
    /\ x \in Epochs => plan'[x] = plan[x]

LEMMA SameBehind ==
  ASSUME Graph, Keeps, NEW x \in KnownIds
  PROVE  Behind(x)' = Behind(x)
<1>1. manifest'[x] = manifest[x]
  BY DEF Keeps
<1>2. \A f \in EpochsOf(x) : f \in KnownIds /\ f \in Epochs
  BY DEF Graph, ChainOK, GraphTypes, ManifestOf, EpochsOf, KnownIds
<1>3. \A f \in EpochsOf(x) : plan'[f] = plan[f]
  BY <1>2 DEF Keeps
<1>4. QED
  BY <1>1, <1>3 DEF Behind, EpochsOf

LEMMA Same ==
  ASSUME Graph, Keeps, NEW x \in KnownIds
  PROVE  /\ manifest'[x] = manifest[x]
         /\ Line(x)' = Line(x) /\ EpochsOf(x)' = EpochsOf(x)
         /\ RowsOf(x)' = RowsOf(x) /\ Active(x)' = Active(x)
         /\ Segments(x)' = Segments(x) /\ Footprint(x)' = Footprint(x)
         /\ Past(x)' = Past(x)
         /\ Needed(x)' = Needed(x) /\ Objects(x)' = Objects(x)
         /\ project_snapshot(x)' = project_snapshot(x)
         /\ x \in Epochs => DeleteFiles(x)' = DeleteFiles(x)
<1>1. manifest'[x] = manifest[x] /\ (x \in Epochs => plan'[x] = plan[x])
  BY DEF Keeps
<1>2. Line(x)' = Line(x) /\ EpochsOf(x)' = EpochsOf(x) /\ RowsOf(x)' = RowsOf(x)
  BY <1>1 DEF Line, EpochsOf, RowsOf
<1>3. Active(x)' = Active(x)
  BY <1>1, <1>2 DEF Active
<1>4. Segments(x)' = Segments(x)
  BY <1>1 DEF Segments
<1>5. Footprint(x)' = Footprint(x)
  BY <1>4 DEF Footprint, Own
<1>6. Past(x)' = Past(x)
  BY <1>2, SameBehind DEF Past
<1>7. Needed(x)' = Needed(x)
  BY <1>1 DEF Needed, Line
<1>8. Objects(x)' = Objects(x)
  BY <1>1 DEF Objects
<1>9. project_snapshot(x)' = project_snapshot(x)
  BY <1>3 DEF project_snapshot
<1>10. x \in Epochs => DeleteFiles(x)' = DeleteFiles(x)
  BY <1>1 DEF DeleteFiles
<1>11. QED
  BY <1>1, <1>2, <1>3, <1>4, <1>5, <1>6, <1>7, <1>8, <1>9, <1>10

\* What holds of a revision goes on to hold.
RevisionOK(x) ==
  /\ manifest[x].parent \in KnownIds
  /\ manifest[x].dead \subseteq RowsOf(x)
  /\ x \in Txs => Wrote(x)
  /\ x \in Epochs => Compacted(x)
  /\ LineOK(x) /\ ChainOK(x) /\ PastOK(x)

LEMMA GraphParts == Graph <=> GraphTypes /\ \A x \in KnownIds : RevisionOK(x)
BY Zenon DEF Graph, RevisionOK

LEMMA RevisionStays ==
  ASSUME Graph, Keeps, NEW x \in KnownIds
  PROVE  RevisionOK(x)'
<1>0. RevisionOK(x)
  BY GraphParts
<1>1. PICK b \in KnownIds : b = manifest[x].parent
  BY <1>0 DEF RevisionOK
<1>2. manifest'[x] = manifest[x] /\ (x \in Epochs => plan'[x] = plan[x])
  BY DEF Keeps
<1>3. b \in KnownIds' /\ manifest'[b] = manifest[b]
  BY DEF Keeps
<1>4. RowsOf(x)' = RowsOf(x) /\ RowsOf(b)' = RowsOf(b) /\ Active(b)' = Active(b)
      /\ project_snapshot(b)' = project_snapshot(b) /\ Line(b)' = Line(b)
      /\ EpochsOf(b)' = EpochsOf(b) /\ EpochsOf(x)' = EpochsOf(x) /\ Line(x)' = Line(x)
  BY Same
<1>5. manifest'[x].parent \in KnownIds' /\ manifest'[x].dead \subseteq RowsOf(x)'
  BY <1>0, <1>1, <1>2, <1>3, <1>4 DEF RevisionOK
<1>6. x \in Txs => Wrote(x)'
  <2> SUFFICES ASSUME x \in Txs PROVE Wrote(x)'
    OBVIOUS
  <2>1. Wrote(x)
    BY <1>0 DEF RevisionOK
  <2>2. PICK r \in Rows \ RowsOf(b), d \in {{}} \cup {{a} : a \in Active(b)} :
          /\ manifest[x].segs = manifest[b].segs \cup {{r}}
          /\ manifest[x].dead = manifest[b].dead \cup d
    BY <2>1, <1>1 DEF Wrote
  <2>3. /\ manifest'[x].segs = manifest'[b].segs \cup {{r}}
        /\ manifest'[x].dead = manifest'[b].dead \cup d
    BY <2>2, <1>2, <1>3
  <2>4. r \in Rows \ RowsOf(b)' /\ d \in {{}} \cup {{a} : a \in Active(b)'}
    BY <2>2, <1>4
  <2>5. manifest'[x].parent = b
    BY <1>1, <1>2
  <2>6. Line(x)' = Line(b)' \cup {x} /\ EpochsOf(x)' = EpochsOf(b)'
    BY <2>1, <1>1, <1>4 DEF Wrote
  <2>7. QED
    BY <2>3, <2>4, <2>5, <2>6 DEF Wrote
<1>7. x \in Epochs => Compacted(x)'
  <2> SUFFICES ASSUME x \in Epochs PROVE Compacted(x)'
    OBVIOUS
  <2>1. Compacted(x)
    BY <1>0 DEF RevisionOK
  <2>2. Behind(b)' = Behind(b)
    BY SameBehind
  <2>3. manifest'[x].parent = b
    BY <1>1, <1>2
  <2>4. QED
    BY <2>1, <2>2, <2>3, <1>1, <1>2, <1>4 DEF Compacted
<1>8. LineOK(x)'
  <2>1. LineOK(x)
    BY <1>0 DEF RevisionOK
  <2>2. \A y \in Line(x) : y \in KnownIds /\ y \in KnownIds' /\ manifest'[y] = manifest[y]
    BY <2>1 DEF LineOK, Keeps
  <2>3. QED
    BY <2>1, <2>2, <1>2 DEF LineOK, Line, EpochsOf
<1>9. ChainOK(x)'
  <2>1. ChainOK(x)
    BY <1>0 DEF RevisionOK
  <2>2. \A y \in EpochsOf(x) : y \in KnownIds /\ y \in KnownIds' /\ manifest'[y] = manifest[y]
    BY <2>1 DEF ChainOK, Keeps
  <2>3. QED
    BY <2>1, <2>2, <1>2 DEF ChainOK, EpochsOf
<1>10. PastOK(x)'
  <2>1. PastOK(x)
    BY <1>0 DEF RevisionOK
  <2>2. Past(x)' = Past(x)
    BY Same
  <2>3. ASSUME NEW y \in Past(x) PROVE y \in KnownIds' /\ Past(y)' \subseteq Past(x)
    <3>1. y \in KnownIds /\ Past(y) \subseteq Past(x)
      BY <2>1 DEF PastOK
    <3>2. Past(y)' = Past(y)
      BY <3>1, Same
    <3>3. QED
      BY <3>1, <3>2 DEF Keeps
  <2>4. QED
    BY <2>1, <2>2, <2>3, <1>2 DEF PastOK
<1>11. QED
  BY <1>5, <1>6, <1>7, <1>8, <1>9, <1>10 DEF RevisionOK

\* A new revision behind CURRENT.
Adds(n, b) ==
  /\ Keeps /\ GraphTypes' /\ n \in Ids \ KnownIds /\ b \in KnownIds
  /\ KnownIds' = KnownIds \cup {n}
  /\ manifest'[n].parent = b

LEMMA PastGrows ==
  ASSUME Graph, NEW n, NEW b, Adds(n, b), Past(n)' = {b} \cup Past(b)
  PROVE  PastOK(n)'
<1>1. PastOK(b)
  BY DEF Graph, Adds
<1>2. n \notin Past(n)'
  BY <1>1 DEF PastOK, Adds
<1>3. ASSUME NEW y \in Past(n)' PROVE y \in KnownIds' /\ Past(y)' \subseteq Past(n)'
  <2>1. y \in KnownIds /\ Past(y) \subseteq Past(b)
    BY <1>1 DEF PastOK, Adds
  <2>2. Past(y)' = Past(y)
    BY <2>1, Same DEF Adds
  <2>3. QED
    BY <2>1, <2>2 DEF Adds
<1>4. manifest'[n].parent \in Past(n)'
  BY DEF Adds
<1>5. QED
  BY <1>2, <1>3, <1>4 DEF PastOK

LEMMA GraphGrows ==
  ASSUME Graph, NEW n, NEW b, Adds(n, b), RevisionOK(n)'
  PROVE  Graph'
<1>1. \A x \in KnownIds' : RevisionOK(x)'
  BY RevisionStays DEF Adds
<1>2. GraphTypes'
  BY DEF Adds
<1>3. QED
  BY <1>1, <1>2, Zenon DEF Graph, RevisionOK

\* What a writer fixes when it prepares its candidate.
Candidate(t, b, r, d) ==
  [parent |-> b, line |-> Line(b) \cup {t}, segs |-> manifest[b].segs \cup {{r}},
   dead |-> manifest[b].dead \cup d, epochs |-> EpochsOf(b)]

LEMMA PrepareAdds ==
  ASSUME Graph, NEW t \in Txs, ~Known(t), NEW b \in KnownIds,
         NEW r \in Rows \ RowsOf(b), NEW d \in {{}} \cup {{a} : a \in Active(b)},
         manifest' = [manifest EXCEPT ![t] = Candidate(t, b, r, d)], UNCHANGED plan
  PROVE  /\ Adds(t, b) /\ manifest'[t] = Candidate(t, b, r, d)
         /\ Graph'
<1> DEFINE m == Candidate(t, b, r, d)
<1>1. GraphTypes
  BY DEF Graph
<1>2. t \in Ids /\ b \in Ids /\ t \notin Epochs /\ t # Root /\ t # b
  BY NamesAssumption DEF Ids, KnownIds
<1>3. manifest'[t] = m /\ \A x \in Ids : x # t => manifest'[x] = manifest[x]
  BY <1>1, <1>2 DEF GraphTypes
<1>4. Active(b) \subseteq RowsOf(b) /\ RowsOf(b) \subseteq Rows /\ d \subseteq Active(b)
  BY <1>1, <1>2 DEF Active, RowsOf, GraphTypes, ManifestOf
<1>5. m \in ManifestOf
  <2>1. manifest[b] \in ManifestOf
    BY <1>1, <1>2 DEF GraphTypes
  <2>2. QED
    BY <2>1, <1>2, <1>4 DEF ManifestOf, Candidate, Line, EpochsOf
<1>6. m.line # {} /\ m # NoManifest
  BY DEF Candidate, NoManifest
<1>7. manifest' \in [Ids -> ManifestOf]
  BY <1>1, <1>5 DEF GraphTypes
<1>8. GraphTypes'
  BY <1>1, <1>2, <1>3, <1>7 DEF GraphTypes, Known, Ids
<1>9. KnownIds' = KnownIds \cup {t}
  BY <1>2, <1>3, <1>6 DEF KnownIds, Known
<1>10. Keeps
  BY <1>2, <1>3, <1>9 DEF Keeps, KnownIds
<1>11. Adds(t, b)
  BY <1>2, <1>3, <1>8, <1>9, <1>10 DEF Adds, KnownIds, Candidate
<1>12. RevisionOK(b) /\ b \in Line(b)
  BY GraphParts DEF RevisionOK, LineOK
<1>13. RowsOf(b)' = RowsOf(b) /\ Active(b)' = Active(b) /\ manifest'[b] = manifest[b]
  BY Same, <1>10
<1>14. /\ manifest'[t].parent = b /\ Line(t)' = Line(b) \cup {t} /\ EpochsOf(t)' = EpochsOf(b)
       /\ manifest'[t].segs = manifest[b].segs \cup {{r}}
       /\ manifest'[t].dead = manifest[b].dead \cup d
  BY <1>3 DEF Candidate, Line, EpochsOf
<1>15. RowsOf(t)' = RowsOf(b) \cup {r}
  BY <1>14 DEF RowsOf
<1>16. manifest'[t].parent \in KnownIds' /\ manifest'[t].dead \subseteq RowsOf(t)'
  BY <1>4, <1>9, <1>12, <1>14, <1>15 DEF RevisionOK
<1>17. Wrote(t)'
  <2>1. Line(b)' = Line(b) /\ EpochsOf(b)' = EpochsOf(b)
    BY Same, <1>10
  <2>2. QED
    BY <2>1, <1>13, <1>14 DEF Wrote
<1>18. LineOK(t)'
  <2>1. ASSUME NEW y \in Line(b)
        PROVE  /\ y \in KnownIds' /\ Line(y)' \subseteq Line(t)'
               /\ manifest'[y].segs \subseteq manifest'[t].segs /\ EpochsOf(y)' = EpochsOf(t)'
    <3>1. /\ y \in KnownIds /\ Line(y) \subseteq Line(b)
          /\ manifest[y].segs \subseteq manifest[b].segs /\ EpochsOf(y) = EpochsOf(b)
      BY <1>12 DEF RevisionOK, LineOK
    <3>2. manifest'[y] = manifest[y]
      BY <3>1, <1>10 DEF Keeps
    <3>3. QED
      BY <3>1, <3>2, <1>9, <1>14 DEF Line, EpochsOf
  <2>2. t \in KnownIds' /\ t \in Line(t)'
    BY <1>9, <1>14
  <2>3. ASSUME NEW y \in Line(t)'
        PROVE  /\ y \in KnownIds' /\ Line(y)' \subseteq Line(t)'
               /\ manifest'[y].segs \subseteq manifest'[t].segs /\ EpochsOf(y)' = EpochsOf(t)'
    BY <2>1, <2>2, <1>14
  <2>4. QED
    BY <2>2, <2>3 DEF LineOK
<1>19. ChainOK(t)'
  <2>1. ChainOK(b)'
    BY <1>10, RevisionStays DEF RevisionOK
  <2>2. EpochsOf(b)' = EpochsOf(t)'
    BY <1>10, <1>14, Same
  <2>3. QED
    BY <2>1, <2>2 DEF ChainOK
<1>20. PastOK(t)'
  <2>1. Behind(t)' = Behind(b)
    BY <1>14 DEF Behind
  <2>2. t \notin Line(b)
    BY <1>12 DEF RevisionOK, LineOK, KnownIds
  <2>3. Past(t)' = {b} \cup Past(b)
    BY <2>1, <2>2, <1>12, <1>14 DEF Past
  <2>4. QED
    BY <2>3, <1>11, PastGrows
<1>21. RevisionOK(t)'
  BY <1>2, <1>16, <1>17, <1>18, <1>19, <1>20 DEF RevisionOK
<1>22. Graph'
  BY <1>11, <1>21, GraphGrows
<1>23. QED
  BY <1>3, <1>11, <1>22

\* What plan_compaction fixes.
Proposal(e, b) ==
  [parent |-> b, line |-> {e}, segs |-> project_snapshot(b), dead |-> {},
   epochs |-> EpochsOf(b) \cup {e}]

LEMMA PlanAdds ==
  ASSUME Graph, NEW e \in Epochs, plan[e] = NoPlan, NEW b \in KnownIds,
         manifest' = [manifest EXCEPT ![e] = Proposal(e, b)],
         plan' = [plan EXCEPT ![e] = Built(e, b)]
  PROVE  /\ Adds(e, b) /\ manifest'[e] = Proposal(e, b) /\ plan'[e] = Built(e, b)
         /\ Graph'
<1> DEFINE m == Proposal(e, b)
<1>1. GraphTypes
  BY DEF Graph
<1>2. e \in Ids /\ b \in Ids /\ e \notin Txs /\ e # Root /\ ~Known(e) /\ e # b
  BY <1>1, NamesAssumption DEF Ids, KnownIds, GraphTypes
<1>3. manifest'[e] = m /\ \A x \in Ids : x # e => manifest'[x] = manifest[x]
  BY <1>1, <1>2 DEF GraphTypes
<1>3a. plan'[e] = Built(e, b) /\ \A f \in Epochs : f # e => plan'[f] = plan[f]
  BY <1>1 DEF GraphTypes
<1>4. Active(b) \subseteq RowsOf(b) /\ RowsOf(b) \subseteq Rows
  BY <1>1, <1>2 DEF Active, RowsOf, GraphTypes, ManifestOf
<1>5. m \in ManifestOf
  <2>1. manifest[b] \in ManifestOf
    BY <1>1, <1>2 DEF GraphTypes
  <2>2. project_snapshot(b) \in SUBSET SUBSET Rows
    BY <1>4 DEF project_snapshot
  <2>3. QED
    BY <2>1, <2>2, <1>2 DEF ManifestOf, Proposal, EpochsOf
<1>6. m.line # {} /\ m # NoManifest
  BY DEF Proposal, NoManifest
<1>6a. Built(e, b) # NoPlan
  <2>1. Built(e, b).base = b /\ NoPlan.base = Nobody
    BY DEF Built, NoPlan
  <2>2. QED
    BY <2>1, <1>2, NamesAssumption DEF Ids
<1>7. manifest' \in [Ids -> ManifestOf] /\ DOMAIN plan' = Epochs
  BY <1>1, <1>5 DEF GraphTypes
<1>8. GraphTypes'
  <2>1. \A f \in Epochs : Known(f)' <=> plan'[f] # NoPlan
    BY <1>1, <1>2, <1>3, <1>3a, <1>6, <1>6a DEF GraphTypes, Known, Ids
  <2>2. manifest'[Root] = Genesis
    BY <1>1, <1>2, <1>3 DEF GraphTypes, Ids
  <2>3. QED
    BY <2>1, <2>2, <1>7 DEF GraphTypes
<1>9. KnownIds' = KnownIds \cup {e}
  BY <1>2, <1>3, <1>6 DEF KnownIds, Known
<1>10. Keeps
  BY <1>2, <1>3, <1>3a, <1>9 DEF Keeps, KnownIds
<1>11. Adds(e, b)
  BY <1>2, <1>3, <1>8, <1>9, <1>10 DEF Adds, KnownIds, Proposal
<1>12. RevisionOK(b) /\ b \in Line(b)
  BY GraphParts DEF RevisionOK, LineOK
<1>13. /\ Active(b)' = Active(b) /\ manifest'[b] = manifest[b] /\ EpochsOf(b)' = EpochsOf(b)
       /\ Line(b)' = Line(b) /\ project_snapshot(b)' = project_snapshot(b)
       /\ Behind(b)' = Behind(b)
  BY Same, SameBehind, <1>10
<1>14. /\ manifest'[e].parent = b /\ Line(e)' = {e} /\ EpochsOf(e)' = EpochsOf(b) \cup {e}
       /\ manifest'[e].segs = project_snapshot(b)
       /\ manifest'[e].dead = {}
  BY <1>3 DEF Proposal, Line, EpochsOf
<1>15. /\ plan'[e].base = b /\ plan'[e].segs = project_snapshot(b)
       /\ plan'[e].prev = EpochsOf(b) /\ plan'[e].archived = Line(b) \cup Behind(b)
  BY <1>3a DEF Built, Archived, Behind, EpochsOf
<1>16. manifest'[e].parent \in KnownIds' /\ manifest'[e].dead \subseteq RowsOf(e)'
  BY <1>9, <1>14
<1>17. Compacted(e)'
  <2>1. e \notin EpochsOf(b)
    BY <1>2, <1>12 DEF RevisionOK, ChainOK, KnownIds
  <2>2. QED
    BY <2>1, <1>13, <1>14, <1>15 DEF Compacted, EpochsOf, Line
<1>18. LineOK(e)'
  BY <1>9, <1>14 DEF LineOK
<1>19. ChainOK(e)'
  <2>1. ASSUME NEW f \in EpochsOf(b) PROVE f \in KnownIds' /\ EpochsOf(f)' \subseteq EpochsOf(e)'
    <3>1. f \in KnownIds /\ EpochsOf(f) \subseteq EpochsOf(b)
      BY <1>12 DEF RevisionOK, ChainOK
    <3>2. EpochsOf(f)' = EpochsOf(f)
      BY <3>1, <1>10, Same
    <3>3. QED
      BY <3>1, <3>2, <1>9, <1>14
  <2>2. e \in EpochsOf(e)' /\ e \in KnownIds'
    BY <1>9, <1>14
  <2>3. QED
    BY <2>1, <2>2, <1>14 DEF ChainOK
<1>20. PastOK(e)'
  <2>1. ASSUME NEW f \in EpochsOf(b) PROVE plan'[f] = plan[f]
    <3>1. f \in KnownIds /\ f \in Epochs
      BY <1>1, <1>12 DEF RevisionOK, ChainOK, GraphTypes, ManifestOf, EpochsOf, KnownIds
    <3>2. QED
      BY <3>1, <1>2, <1>3a DEF KnownIds
  <2>2. Behind(e)' = Behind(b) \cup plan'[e].archived
    BY <2>1, <1>14 DEF Behind
  <2>3. Past(e)' = {b} \cup Past(b)
    BY <2>2, <1>12, <1>14, <1>15 DEF Past
  <2>4. QED
    BY <2>3, <1>11, PastGrows
<1>21. RevisionOK(e)'
  BY <1>2, <1>16, <1>17, <1>18, <1>19, <1>20 DEF RevisionOK
<1>22. Graph'
  BY <1>11, <1>21, GraphGrows
<1>23. QED
  BY <1>3, <1>3a, <1>11, <1>22

LEMMA GraphStutters ==
  ASSUME Graph, UNCHANGED <<manifest, plan>>
  PROVE  Graph' /\ Keeps /\ KnownIds' = KnownIds
<1>1. KnownIds' = KnownIds
  BY DEF KnownIds, Known
<1>2. Keeps
  BY <1>1 DEF Keeps
<1>3. GraphTypes'
  BY DEF Graph, GraphTypes, Known
<1>4. \A x \in KnownIds' : RevisionOK(x)'
  BY <1>1, <1>2, RevisionStays
<1>5. Graph'
  BY <1>3, <1>4, Zenon DEF Graph, RevisionOK
<1>6. QED
  BY <1>1, <1>2, <1>5

-----------------------------------------------------------------------------
(* What a revision shows and needs.                                        *)

LEMMA ActiveOfEpoch ==
  ASSUME Graph, NEW e \in Epochs, e \in KnownIds
  PROVE  /\ Active(e) = Active(manifest[e].parent)
         /\ Active(e) # {} => Segment(Active(e)) \in Footprint(e)
         /\ Line(e) = {e} /\ e \in EpochsOf(e)
<1>1. PICK b : b = manifest[e].parent
  OBVIOUS
<1>2. Compacted(e)
  BY DEF Graph
<1>3. manifest[e].segs = project_snapshot(b) /\ manifest[e].dead = {}
  BY <1>1, <1>2 DEF Compacted
<1>4. RowsOf(e) = Active(b)
  BY <1>3 DEF RowsOf, project_snapshot
<1>5. Active(e) = Active(b)
  BY <1>3, <1>4 DEF Active
<1>6. Active(e) # {} => Segment(Active(e)) \in Footprint(e)
  BY <1>3, <1>5 DEF Footprint, Segments, project_snapshot
<1>7. Line(e) = {e} /\ e \in EpochsOf(e)
  BY <1>2 DEF Compacted, Line
<1>8. QED
  BY <1>1, <1>5, <1>6, <1>7

LEMMA NeededWithin ==
  ASSUME Graph, NEW x \in KnownIds, NEW y \in Line(x)
  PROVE  Needed(y) \subseteq Needed(x)
<1>1. LineOK(x)
  BY DEF Graph
<1>2. Line(y) \subseteq Line(x) /\ manifest[y].segs \subseteq manifest[x].segs
      /\ manifest[y].epochs = manifest[x].epochs
  BY <1>1 DEF LineOK, EpochsOf
<1>3. QED
  BY <1>2 DEF Needed

LEMMA NeededOf ==
  ASSUME Graph, NEW x \in KnownIds, NEW f \in Needed(x)
  PROVE  (\E y \in Line(x) : f \in Footprint(y)) \/ \E e \in EpochsOf(x) : f = Catalog(e)
<1>1. LineOK(x)
  BY DEF Graph
<1>2. CASE f \in {Revision(i) : i \in Line(x)}
  BY <1>2, OwnNames DEF Footprint
<1>3. CASE f \in {Segment(S) : S \in manifest[x].segs}
  <2>1. f \in Footprint(x)
    BY <1>3 DEF Footprint, Segments
  <2>2. QED
    BY <2>1, <1>1 DEF LineOK
<1>4. CASE f \in {Catalog(e) : e \in manifest[x].epochs}
  BY <1>4 DEF EpochsOf
<1>5. CASE f \in {Stage(i) : i \in Line(x)}
  BY <1>5, OwnNames DEF Footprint
<1>6. QED
  BY <1>2, <1>3, <1>4, <1>5 DEF Needed

\* No cleanup behind a revision removes what a reader of it needs.
LEMMA NeededSpared ==
  ASSUME Graph, Cleanup, NEW x \in KnownIds, NEW e \in EpochsOf(x)
  PROVE  Needed(x) \cap DeleteFiles(e) = {}
<1>1. LineOK(x) /\ ChainOK(x)
  BY DEF Graph
<1>2. e \in Epochs /\ e \in KnownIds /\ plan[e] # NoPlan
  BY <1>1 DEF ChainOK, Graph, GraphTypes, ManifestOf, EpochsOf, KnownIds
<1>3. ASSUME NEW f \in Needed(x) PROVE f \notin DeleteFiles(e)
  <2>1. ASSUME NEW y \in Line(x), f \in Footprint(y) PROVE f \notin DeleteFiles(e)
    <3>1. y \in KnownIds /\ e \in EpochsOf(y)
      BY <1>1 DEF LineOK
    <3>2. Spared(y)
      BY <3>1 DEF Cleanup
    <3>3. QED
      BY <2>1, <3>1, <3>2 DEF Spared
  <2>2. ASSUME NEW g \in EpochsOf(x), f = Catalog(g) PROVE f \notin DeleteFiles(e)
    <3>1. g \in Ids
      BY <1>1 DEF ChainOK, KnownIds
    <3>2. QED
      BY <3>1, <2>2, <1>2 DEF Cleanup
  <2>3. QED
    BY <2>1, <2>2, NeededOf
<1>4. QED
  BY <1>3

-----------------------------------------------------------------------------
(* Cleanup stays harmless.                                                 *)

LEMMA Unowned ==
  ASSUME NEW F, Owned(F), NEW n, n \notin KnownIds
  PROVE  Own(n) \cap F = {}
<1> SUFFICES ASSUME NEW f \in F, f \in Own(n) PROVE FALSE
  OBVIOUS
<1>1. PICK x \in KnownIds : f \in Footprint(x)
  BY DEF Owned
<1>2. f \in Own(x) => x = n
  BY OwnDisjoint
<1>3. f \notin Segments(x)
  BY SegmentNames DEF Segments
<1>4. QED
  BY <1>1, <1>2, <1>3 DEF Footprint

LEMMA SegmentOwned ==
  ASSUME NEW F, Owned(F), NEW S, Segment(S) \in F
  PROVE  \E x \in KnownIds : S \in manifest[x].segs
<1>1. PICK x \in KnownIds : Segment(S) \in Footprint(x)
  BY DEF Owned
<1>2. Segment(S) \in Segments(x)
  BY <1>1, SegmentNames DEF Footprint
<1>3. PICK T \in manifest[x].segs : Segment(S) = Segment(T)
  BY <1>2 DEF Segments
<1>4. S = T
  BY <1>3, SegmentNames
<1>5. QED
  BY <1>3, <1>4

LEMMA SparedStays ==
  ASSUME Graph, Cleanup, Keeps, NEW x \in KnownIds
  PROVE  Spared(x)'
<1>1. Spared(x) /\ ChainOK(x)
  BY DEF Cleanup, Graph
<1>2. EpochsOf(x)' = EpochsOf(x) /\ Footprint(x)' = Footprint(x) /\ Active(x)' = Active(x)
  BY Same
<1>3. ASSUME NEW e \in EpochsOf(x)
      PROVE  /\ Footprint(x)' \cap DeleteFiles(e)' = {}
             /\ Active(x)' = Active(e)' \/ \E r \in Active(x)' : Fresh(r, e)'
  <2>1. e \in KnownIds /\ e \in Epochs
    BY <1>1 DEF ChainOK, Graph, GraphTypes, ManifestOf, EpochsOf, KnownIds
  <2>2. DeleteFiles(e)' = DeleteFiles(e) /\ Active(e)' = Active(e)
    BY <2>1, Same
  <2>3. \A r : Fresh(r, e) => Fresh(r, e)'
    BY <2>2 DEF Fresh
  <2>4. QED
    BY <2>2, <2>3, <1>1, <1>2 DEF Spared
<1>4. QED
  BY <1>2, <1>3 DEF Spared

LEMMA CleanupGrows ==
  ASSUME Graph, Cleanup, Graph', Keeps,
         \A f \in files' \cup durable' :
           f \in files \cup durable \/ \E x \in KnownIds' : f \in Footprint(x)',
         \A x \in KnownIds' \ KnownIds :
           /\ Spared(x)'
           /\ x \in Epochs =>
                /\ \A f \in DeleteFiles(x)' : \E y \in KnownIds' : f \in Footprint(y)'
                /\ \A y \in Ids : Catalog(y) \notin DeleteFiles(x)'
  PROVE  Cleanup'
<1>1. ASSUME NEW f, NEW x \in KnownIds, f \in Footprint(x)
      PROVE  \E y \in KnownIds' : f \in Footprint(y)'
  BY <1>1, Same DEF Keeps
<1>2. \A f \in files' \cup durable' : \E x \in KnownIds' : f \in Footprint(x)'
  BY <1>1 DEF Cleanup, Owned
<1>3. Owned(files)' /\ Owned(durable)'
  BY <1>2 DEF Owned
<1>4. ASSUME NEW e \in Epochs, plan'[e] # NoPlan
      PROVE  /\ \A f \in DeleteFiles(e)' : \E y \in KnownIds' : f \in Footprint(y)'
             /\ \A x \in Ids : Catalog(x) \notin DeleteFiles(e)'
  <2>1. e \in KnownIds'
    BY <1>4 DEF Graph, GraphTypes, KnownIds, Ids
  <2>2. CASE e \in KnownIds
    <3>1. DeleteFiles(e)' = DeleteFiles(e) /\ plan[e] # NoPlan
      BY <2>2, Same DEF Graph, GraphTypes, KnownIds
    <3>2. Owned(DeleteFiles(e)) /\ \A x \in Ids : Catalog(x) \notin DeleteFiles(e)
      BY <3>1 DEF Cleanup
    <3>3. QED
      BY <3>1, <3>2, <1>1 DEF Owned
  <2>3. QED
    BY <2>1, <2>2
<1>5. \A x \in KnownIds' : Spared(x)'
  BY SparedStays
<1>6. QED
  BY <1>3, <1>4, <1>5 DEF Cleanup, Owned

LEMMA CleanupStep ==
  ASSUME Graph, Cleanup, UNCHANGED <<manifest, plan>>, NEW x \in KnownIds,
         files' \cup durable' \subseteq files \cup durable \cup Footprint(x)
  PROVE  Cleanup'
<1>1. Graph' /\ Keeps /\ KnownIds' = KnownIds
  BY GraphStutters
<1>2. Footprint(x)' = Footprint(x)
  BY <1>1, Same
<1>3. \A f \in files' \cup durable' :
           f \in files \cup durable \/ \E y \in KnownIds' : f \in Footprint(y)'
  BY <1>1, <1>2
<1>4. QED
  BY <1>1, <1>3, CleanupGrows

LEMMA PrepareSpares ==
  ASSUME Graph, Cleanup, NEW t \in Txs, ~Known(t), NEW b \in KnownIds,
         NEW r \in Rows \ RowsOf(b), NEW d \in {{}} \cup {{a} : a \in Active(b)},
         \A x \in Ids : r \notin RowsOf(x),
         manifest' = [manifest EXCEPT ![t] = Candidate(t, b, r, d)], UNCHANGED plan,
         files' = files \cup {Revision(t), Stage(t), Journal(t), Segment({r})},
         UNCHANGED durable
  PROVE  Cleanup'
<1>1. Adds(t, b) /\ manifest'[t] = Candidate(t, b, r, d) /\ Graph'
  BY PrepareAdds
<1>2. Keeps /\ KnownIds' = KnownIds \cup {t} /\ t \notin KnownIds
  BY <1>1 DEF Adds
<1>3. EpochsOf(t)' = EpochsOf(b) /\ manifest'[t].segs = manifest[b].segs \cup {{r}}
      /\ manifest'[t].dead = manifest[b].dead \cup d
  BY <1>1 DEF Candidate, EpochsOf
<1>4. Footprint(t)' = Own(t) \cup Segments(b) \cup {Segment({r})}
  BY <1>3 DEF Footprint, Segments, Own
<1>5. Spared(b) /\ ChainOK(b) /\ manifest[b].dead \subseteq RowsOf(b)
  BY DEF Cleanup, Graph
<1>6. r \in Active(t)'
  <2>1. r \in RowsOf(t)'
    BY <1>3 DEF RowsOf
  <2>2. r \notin manifest'[t].dead
    BY <1>3, <1>5 DEF Active
  <2>3. QED
    BY <2>1, <2>2 DEF Active
<1>7. ASSUME NEW e \in EpochsOf(b)
      PROVE  Footprint(t)' \cap DeleteFiles(e)' = {} /\ Fresh(r, e)'
  <2>1. e \in KnownIds /\ e \in Epochs /\ plan[e] # NoPlan
    BY <1>5 DEF ChainOK, Graph, GraphTypes, ManifestOf, EpochsOf, KnownIds
  <2>2. DeleteFiles(e)' = DeleteFiles(e)
    BY <2>1, <1>2, Same
  <2>3. Owned(DeleteFiles(e))
    BY <2>1 DEF Cleanup
  <2>4. Own(t) \cap DeleteFiles(e) = {}
    BY <2>3, <1>2, Unowned
  <2>5. Segments(b) \cap DeleteFiles(e) = {}
    BY <1>5 DEF Spared, Footprint
  <2>6. ASSUME NEW S, Segment(S) \in DeleteFiles(e) PROVE r \notin S
    BY <2>3, <2>6, SegmentOwned DEF RowsOf, KnownIds
  <2>7. QED
    BY <2>2, <2>4, <2>5, <2>6, <1>4 DEF Fresh
<1>8. Spared(t)'
  BY <1>3, <1>6, <1>7 DEF Spared
<1>9. \A f \in files' \cup durable' :
           f \in files \cup durable \/ \E y \in KnownIds' : f \in Footprint(y)'
  BY <1>2, <1>4, OwnNames
<1>10. t \notin Epochs
  BY NamesAssumption
<1>11. QED
  BY <1>1, <1>2, <1>8, <1>9, <1>10, CleanupGrows

LEMMA PlanSpares ==
  ASSUME Graph, Cleanup, NEW e \in Epochs, plan[e] = NoPlan, NEW b \in KnownIds,
         manifest' = [manifest EXCEPT ![e] = Proposal(e, b)],
         plan' = [plan EXCEPT ![e] = Built(e, b)],
         UNCHANGED <<files, durable>>
  PROVE  Cleanup'
<1>1. Adds(e, b) /\ manifest'[e] = Proposal(e, b) /\ plan'[e] = Built(e, b) /\ Graph'
  BY PlanAdds
<1>2. Keeps /\ KnownIds' = KnownIds \cup {e} /\ e \notin KnownIds
  BY <1>1 DEF Adds
<1>3. EpochsOf(e)' = EpochsOf(b) \cup {e} /\ manifest'[e].segs = project_snapshot(b)
  BY <1>1 DEF Proposal, EpochsOf
<1>4. Footprint(e)' = Own(e) \cup {Segment(S) : S \in project_snapshot(b)}
  BY <1>3 DEF Footprint, Segments, Own
<1>5. DeleteFiles(e)' = {g \in files : Deletable(g)} \ Protected(e, b)
  <2>1. DeleteFiles(e)' = {d.file : d \in Inventory(e, b)}
    BY <1>1 DEF DeleteFiles, Built
  <2> DEFINE G == {g \in files : Deletable(g)} \ Protected(e, b)
             B(f) == IF \E x \in Epochs : f = Journal(x) THEN journal[f[2]] ELSE NoJournal
  <2>2. Inventory(e, b) = {[file |-> f, bytes |-> B(f)] : f \in G}
    BY DEF Inventory
  <2> HIDE DEF G, B
  <2>3. \A d \in Inventory(e, b) : d.file \in G
    BY <2>2
  <2>4. \A f \in G : [file |-> f, bytes |-> B(f)] \in Inventory(e, b)
                    /\ [file |-> f, bytes |-> B(f)].file = f
    BY <2>2
  <2>5. {d.file : d \in Inventory(e, b)} = G
    BY <2>3, <2>4
  <2>6. QED
    BY <2>1, <2>5 DEF G
<1>6. Own(e) \cap files = {} /\ Owned(files)
  BY <1>2, Unowned DEF Cleanup
<1>7. Footprint(e)' \cap DeleteFiles(e)' = {}
  BY <1>4, <1>5, <1>6 DEF Protected
<1>8. Spared(b) /\ ChainOK(b)
  BY DEF Cleanup, Graph
<1>9. Active(e)' = Active(b)
  <2>1. e \in KnownIds' /\ Active(b)' = Active(b) /\ manifest'[e].parent = b
    BY <1>1, <1>2, Same DEF Adds
  <2>2. Compacted(e)'
    BY <1>1, <2>1 DEF Graph
  <2>3. RowsOf(e)' = Active(b) /\ manifest'[e].dead = {}
    BY <1>1 DEF RowsOf, project_snapshot, Proposal
  <2>4. QED
    BY <2>3 DEF Active
<1>10. ASSUME NEW f \in EpochsOf(b)
       PROVE  /\ Footprint(e)' \cap DeleteFiles(f)' = {}
              /\ Active(e)' = Active(f)' \/ \E r \in Active(e)' : Fresh(r, f)'
  <2>1. f \in KnownIds /\ f \in Epochs /\ plan[f] # NoPlan
    BY <1>8 DEF ChainOK, Graph, GraphTypes, ManifestOf, EpochsOf, KnownIds
  <2>2. DeleteFiles(f)' = DeleteFiles(f) /\ Active(f)' = Active(f)
    BY <2>1, <1>2, Same
  <2>3. Owned(DeleteFiles(f))
    BY <2>1 DEF Cleanup
  <2>4. Own(e) \cap DeleteFiles(f) = {}
    BY <2>3, <1>2, Unowned
  <2>5. Active(b) = Active(f) \/ \E r \in Active(b) : Fresh(r, f)
    BY <1>8 DEF Spared
  <2>6. ASSUME Active(b) # {} PROVE Segment(Active(b)) \notin DeleteFiles(f)
    <3>1. CASE Active(b) = Active(f)
      <4>1. Segment(Active(f)) \in Footprint(f) /\ f \in EpochsOf(f)
        BY <2>1, <2>6, <3>1, ActiveOfEpoch
      <4>2. Spared(f)
        BY <2>1 DEF Cleanup
      <4>3. QED
        BY <3>1, <4>1, <4>2 DEF Spared
    <3>2. CASE \E r \in Active(b) : Fresh(r, f)
      <4>1. Active(b) \in SUBSET Rows
        BY DEF Active, RowsOf, Graph, GraphTypes, ManifestOf, KnownIds
      <4>2. QED
        BY <3>2, <4>1 DEF Fresh
    <3>3. QED
      BY <2>5, <3>1, <3>2
  <2>7. Footprint(e)' \cap DeleteFiles(f) = {}
    BY <2>4, <2>6, <1>4 DEF project_snapshot
  <2>8. \A r : Fresh(r, f) => Fresh(r, f)'
    BY <2>2 DEF Fresh
  <2>9. QED
    BY <2>2, <2>5, <2>7, <2>8, <1>9
<1>11. Spared(e)'
  BY <1>3, <1>7, <1>10 DEF Spared
<1>12. ASSUME NEW f \in DeleteFiles(e)' PROVE \E y \in KnownIds' : f \in Footprint(y)'
  <2>1. PICK x \in KnownIds : f \in Footprint(x)
    BY <1>5, <1>6 DEF Owned
  <2>2. QED
    BY <2>1, <1>2, Same
<1>13. \A y \in Ids : Catalog(y) \notin DeleteFiles(e)'
  BY <1>5, CatalogStays
<1>14. QED
  BY <1>1, <1>2, <1>11, <1>12, <1>13, CleanupGrows

-----------------------------------------------------------------------------
(* Steps that leave CURRENT alone.                                         *)

StoreInv == Graph /\ Cleanup /\ HeadsOK /\ Traced /\ JournalsOK
ProcessInv == CompactorsOK /\ WriterOK /\ ReadersOK

LEMMA IndInvParts == IndInv <=> StoreInv /\ ProcessInv
BY DEF IndInv, StoreInv, ProcessInv

SameHeads == UNCHANGED <<current, stable, committed>>

LEMMA EpochsKnown ==
  ASSUME Graph, NEW x \in KnownIds, NEW e \in EpochsOf(x)
  PROVE  e \in Epochs /\ e \in KnownIds /\ plan[e] # NoPlan
BY DEF Graph, ChainOK, GraphTypes, ManifestOf, EpochsOf, KnownIds

LEMMA HeadsStay ==
  ASSUME Graph, Keeps, HeadsOK, SameHeads,
         \A y \in Heads : Needed(y) \subseteq Kept',
         stable # current => ~journal'[current].current
  PROVE  HeadsOK'
<1>1. PICK a, b : a = current /\ b = stable
  OBVIOUS
<1>2. a \in KnownIds /\ b \in KnownIds /\ Heads = {a, b} /\ Heads' = {a, b}
      /\ current' = a /\ stable' = b /\ committed' = committed
  BY <1>1 DEF HeadsOK, Heads, SameHeads
<1>3. Heads' \subseteq KnownIds' /\ stable' \in committed' /\ committed' \subseteq KnownIds'
  BY <1>1, <1>2 DEF HeadsOK, Keeps
<1>4. ASSUME NEW y \in {a, b}
      PROVE  Needed(y)' \subseteq Kept' /\ committed' \subseteq Line(y)' \cup Behind(y)'
  <2>1. Needed(y)' = Needed(y) /\ Line(y)' = Line(y) /\ Behind(y)' = Behind(y)
    BY <1>2, Same, SameBehind
  <2>2. QED
    BY <2>1, <1>2 DEF HeadsOK
<1>5. Active(a)' = Active(a) /\ Active(b)' = Active(b) /\ EpochsOf(a)' = EpochsOf(a)
      /\ EpochsOf(b)' = EpochsOf(b)
  BY <1>2, Same
<1>6. a # b => /\ a \in Epochs /\ ~journal'[a].current
               /\ Active(b)' = Active(a)' /\ EpochsOf(b)' \subseteq EpochsOf(a)'
  BY <1>1, <1>5 DEF HeadsOK
<1>7. Active(stable)' = Active(b)' /\ Active(current)' = Active(a)'
      /\ EpochsOf(stable)' = EpochsOf(b)' /\ EpochsOf(current)' = EpochsOf(a)'
  BY <1>2 DEF Active, RowsOf, EpochsOf
<1>8. \A y \in Heads' : Needed(y)' \subseteq Kept' /\ committed' \subseteq Line(y)' \cup Behind(y)'
  BY <1>2, <1>4
<1>9. QED
  BY <1>2, <1>3, <1>6, <1>7, <1>8 DEF HeadsOK

LEMMA TracedStays ==
  ASSUME Graph, Keeps, HeadsOK, Traced, SameHeads,
         \A x \in committed \cup {current}, y \in Heads :
           Journal(x) \in Kept => Journal(x) \in Kept' \/ TombstonedBy(y, x)
  PROVE  Traced'
<1>1. Heads' = Heads /\ committed' = committed /\ current' = current
  BY DEF SameHeads, Heads
<1>2. ASSUME NEW x \in committed \cup {current}, NEW y \in Heads, x # Root
      PROVE  Journal(x) \in Kept' \/ TombstonedBy(y, x)'
  <2>1. Journal(x) \in Kept' \/ TombstonedBy(y, x)
    BY <1>2 DEF Traced
  <2>2. y \in KnownIds
    BY DEF HeadsOK
  <2>3. ASSUME TombstonedBy(y, x) PROVE TombstonedBy(y, x)'
    <3>1. PICK e \in EpochsOf(y) : Journal(x) \in DeleteFiles(e)
      BY <2>3 DEF TombstonedBy
    <3>2. DeleteFiles(e)' = DeleteFiles(e) /\ EpochsOf(y)' = EpochsOf(y)
      BY <2>2, EpochsKnown, Same
    <3>3. QED
      BY <3>1, <3>2 DEF TombstonedBy
  <2>4. QED
    BY <2>1, <2>3
<1>3. QED
  BY <1>1, <1>2 DEF Traced, Journal

\* What the cleanup receipt of an epoch says.
Clean(e) ==
  /\ e \in EpochsOf(current) /\ e \in EpochsOf(stable)
  /\ DeleteFiles(e) \cap (files \cup durable) = {}

\* No object of a revision behind CURRENT's epochs was cleaned up.
LEMMA JournalsStay ==
  ASSUME Graph, Cleanup, HeadsOK, JournalsOK, Keeps, SameHeads, Cleanup',
         NEW n \in KnownIds', EpochsOf(current) \subseteq EpochsOf(n)',
         files' \cup durable' \subseteq files \cup durable \cup Footprint(n)',
         journal' \in [Epochs -> JournalOf],
         \A e \in Epochs : journal'[e].cleaned => journal[e].cleaned \/ Clean(e)
  PROVE  JournalsOK'
<1>1. PICK a, b : a = current /\ b = stable
  OBVIOUS
<1>2. a \in KnownIds /\ b \in KnownIds /\ current' = a /\ stable' = b
  BY <1>1 DEF HeadsOK, Heads, SameHeads
<1>3. EpochsOf(a)' = EpochsOf(a) /\ EpochsOf(b)' = EpochsOf(b)
  BY <1>2, Same
<1>4. ASSUME NEW e \in Epochs, journal'[e].cleaned
      PROVE  /\ e \in EpochsOf(a)' /\ e \in EpochsOf(b)'
             /\ DeleteFiles(e)' \cap (files' \cup durable') = {}
  <2>1. e \in EpochsOf(a) /\ e \in EpochsOf(b) /\ DeleteFiles(e) \cap (files \cup durable) = {}
    BY <1>1, <1>4 DEF JournalsOK, Clean
  <2>2. e \in KnownIds
    BY <2>1, <1>2, EpochsKnown
  <2>3. DeleteFiles(e)' = DeleteFiles(e)
    BY <2>2, Same
  <2>4. Spared(n)'
    BY DEF Cleanup
  <2>5. e \in EpochsOf(n)'
    BY <2>1, <1>1
  <2>6. Footprint(n)' \cap DeleteFiles(e)' = {}
    BY <2>4, <2>5 DEF Spared
  <2>7. QED
    BY <2>1, <2>3, <2>6, <1>3
<1>5. EpochsOf(current)' = EpochsOf(a)' /\ EpochsOf(stable)' = EpochsOf(b)'
  BY <1>2 DEF EpochsOf
<1>6. QED
  BY <1>4, <1>5 DEF JournalsOK

\* A step that writes objects of one revision behind CURRENT's epochs, or a journal.
Writes(n) ==
  /\ UNCHANGED <<manifest, plan>> /\ SameHeads
  /\ n \in KnownIds /\ EpochsOf(current) \subseteq EpochsOf(n)
  /\ files \subseteq files' /\ durable \subseteq durable'
  /\ files' \cup durable' \subseteq files \cup durable \cup Footprint(n)
  /\ journal' \in [Epochs -> JournalOf]
  /\ \A e \in Epochs : journal'[e].cleaned => journal[e].cleaned \/ Clean(e)
  /\ stable # current => ~journal'[current].current

LEMMA WritesKeeps ==
  ASSUME StoreInv, NEW n, Writes(n)
  PROVE  StoreInv' /\ Keeps /\ KnownIds' = KnownIds
<1>1. Graph' /\ Keeps /\ KnownIds' = KnownIds
  BY GraphStutters DEF StoreInv, Writes
<1>2. Cleanup'
  BY CleanupStep DEF StoreInv, Writes
<1>3. Kept \subseteq Kept'
  BY DEF Kept, Writes
<1>4. HeadsOK'
  <2>1. \A y \in Heads : Needed(y) \subseteq Kept'
    BY <1>3 DEF StoreInv, HeadsOK
  <2>2. QED
    BY <1>1, <2>1, HeadsStay DEF StoreInv, Writes
<1>5. Traced'
  BY <1>1, <1>3, TracedStays DEF StoreInv, Writes
<1>6. EpochsOf(n)' = EpochsOf(n) /\ Footprint(n)' = Footprint(n) /\ n \in KnownIds'
  BY <1>1, Same DEF StoreInv, Writes
<1>7. JournalsOK'
  BY <1>1, <1>2, <1>6, JournalsStay DEF StoreInv, Writes
<1>8. QED
  BY <1>1, <1>2, <1>4, <1>5, <1>7 DEF StoreInv

-----------------------------------------------------------------------------
(* The processes.                                                          *)

LEMMA Exclusion ==
  ASSUME ProcessInv
  PROVE  /\ \A c \in Compactors : lock # c => pc[c] = "idle"
         /\ \A c \in Compactors, r \in Readers : pc[c] # "idle" => rpc[r] = "out"
         /\ lock \in Txs => lock \notin Compactors
         /\ Nobody \notin Txs \cup Compactors
BY NamesAssumption DEF ProcessInv, CompactorsOK, ReadersOK

\* A compactor goes on to its next step.
LEMMA CompactorMoves ==
  ASSUME ProcessInv, NEW c \in Compactors, pc[c] # "idle", NEW s \in Steps, NEW e,
         e = job[c], Goto(c, s), UNCHANGED <<rpc, seen>>,
         e \in KnownIds', OnTheWay(s, e)', Arrived(s, e)'
  PROVE  ProcessInv'
<1>1. lock = c /\ lock' = c /\ job' = job /\ lock \notin Txs
  BY NamesAssumption DEF ProcessInv, CompactorsOK, Goto
<1>2. pc' = [pc EXCEPT ![c] = s] /\ pc \in [Compactors -> Steps]
  BY DEF Goto, ProcessInv, CompactorsOK
<1>3. pc' \in [Compactors -> Steps] /\ pc'[c] = s
      /\ \A d \in Compactors : d # c => pc'[d] = "idle"
  BY <1>1, <1>2, Exclusion
<1>4. job \in [Compactors -> Epochs] /\ job'[c] = e
  BY <1>1 DEF ProcessInv, CompactorsOK
<1>5. CompactorsOK'
  BY <1>1, <1>3, <1>4 DEF CompactorsOK
<1>6. WriterOK'
  BY <1>1 DEF WriterOK
<1>7. ReadersOK'
  <2>1. \A r \in Readers : rpc'[r] = "out"
    BY Exclusion
  <2>2. QED
    BY <2>1 DEF ReadersOK, ProcessInv
<1>8. QED
  BY <1>5, <1>6, <1>7 DEF ProcessInv

LEMMA CompactorEnds ==
  ASSUME ProcessInv, NEW c \in Compactors, pc[c] # "idle", Release(c), UNCHANGED <<rpc, seen>>
  PROVE  ProcessInv'
<1>1. lock = c /\ lock' = Nobody /\ job' = job /\ Nobody \notin Txs
  BY NamesAssumption DEF ProcessInv, CompactorsOK, Release
<1>2. pc' = [pc EXCEPT ![c] = "idle"] /\ pc \in [Compactors -> Steps]
  BY DEF Release, ProcessInv, CompactorsOK
<1>3. pc' \in [Compactors -> Steps] /\ \A d \in Compactors : pc'[d] = "idle"
  BY <1>1, <1>2, Exclusion DEF Steps
<1>4. CompactorsOK'
  BY <1>1, <1>3 DEF CompactorsOK, ProcessInv
<1>5. WriterOK'
  BY <1>1 DEF WriterOK
<1>6. ReadersOK'
  <2>1. \A r \in Readers : rpc'[r] = "out"
    BY Exclusion
  <2>2. QED
    BY <2>1 DEF ReadersOK, ProcessInv
<1>7. QED
  BY <1>4, <1>5, <1>6 DEF ProcessInv

\* A step while no compactor is inside.
LEMMA OthersStay ==
  ASSUME Graph, Keeps, ProcessInv, lock \notin Compactors, UNCHANGED <<pc, job, rpc, seen>>,
         files \subseteq files', WriterOK'
  PROVE  ProcessInv'
<1>1. \A c \in Compactors : pc'[c] = "idle"
  BY Exclusion
<1>2. CompactorsOK'
  BY <1>1 DEF CompactorsOK, ProcessInv
<1>3. ASSUME NEW r \in Readers, rpc'[r] # "out"
      PROVE  seen'[r] \in KnownIds' /\ Needed(seen[r])' \subseteq files'
  <2>1. PICK x : x = seen[r]
    OBVIOUS
  <2>2. x \in KnownIds /\ Needed(x) \subseteq files
    BY <1>3, <2>1 DEF ProcessInv, ReadersOK
  <2>3. Needed(x)' = Needed(x) /\ x \in KnownIds'
    BY <2>2, Same DEF Keeps
  <2>4. seen'[r] = x
    BY <2>1
  <2>5. Needed(seen[r])' = Needed(x)'
    BY <2>4 DEF Needed, Line
  <2>6. QED
    BY <2>2, <2>3, <2>4, <2>5
<1>4. ReadersOK'
  BY <1>1, <1>3 DEF ReadersOK, ProcessInv
<1>5. QED
  BY <1>2, <1>4 DEF ProcessInv

-----------------------------------------------------------------------------
(* Writers.                                                                *)

LEMMA Unlocked ==
  ASSUME lock' = Nobody
  PROVE  WriterOK'
BY NamesAssumption DEF WriterOK

LEMMA PrepareInv ==
  ASSUME IndInv, ~ReuseRows, NEW t \in Txs, Prepare(t), UNCHANGED <<proposals, compactor, reader>>
  PROVE  IndInv'
<1>1. StoreInv /\ ProcessInv
  BY IndInvParts
<1>2. PICK b : b = current
  OBVIOUS
<1>3. b \in KnownIds /\ Needed(b) \subseteq Kept
  BY <1>1, <1>2 DEF StoreInv, HeadsOK, Heads
<1>4. PICK r \in Rows \ RowsOf(b), d \in {{}} \cup {{a} : a \in Active(b)} :
        /\ \A x \in Ids : r \notin RowsOf(x)
        /\ manifest' = [manifest EXCEPT ![t] = Candidate(t, b, r, d)]
        /\ files' = files \cup {Revision(t), Stage(t), Journal(t), Segment({r})}
  BY <1>2 DEF Prepare, Candidate, Line, EpochsOf
<1>5. /\ ~Known(t) /\ lock = Nobody /\ lock' = t
      /\ UNCHANGED <<durable, current, stable, journal, committed, plan, pc, job, rpc, seen>>
  BY DEF Prepare, proposals, compactor, reader
<1>6. Adds(t, b) /\ manifest'[t] = Candidate(t, b, r, d) /\ Graph' /\ Cleanup'
  BY <1>1, <1>3, <1>4, <1>5, PrepareAdds, PrepareSpares DEF StoreInv
<1>7. Keeps /\ KnownIds' = KnownIds \cup {t}
  BY <1>6 DEF Adds
<1>8. /\ manifest'[t].parent = b /\ EpochsOf(t)' = EpochsOf(b)
      /\ manifest'[t].segs = manifest[b].segs \cup {{r}}
  BY <1>6 DEF Candidate, EpochsOf
<1>9. Kept \subseteq Kept' /\ SameHeads
  BY <1>4, <1>5 DEF Kept, SameHeads
<1>10. HeadsOK'
  <2>1. \A y \in Heads : Needed(y) \subseteq Kept'
    BY <1>1, <1>9 DEF StoreInv, HeadsOK
  <2>2. stable # current => ~journal'[current].current
    BY <1>1, <1>5 DEF StoreInv, HeadsOK
  <2>3. QED
    BY <1>1, <1>7, <1>9, <2>1, <2>2, HeadsStay DEF StoreInv
<1>11. Traced'
  BY <1>1, <1>7, <1>9, TracedStays DEF StoreInv
<1>12. JournalsOK'
  <2>1. files' \cup durable' \subseteq files \cup durable \cup Footprint(t)'
    BY <1>4, <1>5, <1>8 DEF Footprint, Own, Segments
  <2>2. t \in KnownIds' /\ EpochsOf(current) \subseteq EpochsOf(t)'
    BY <1>2, <1>7, <1>8
  <2>3. journal' \in [Epochs -> JournalOf]
        /\ \A e \in Epochs : journal'[e].cleaned => journal[e].cleaned
    BY <1>1, <1>5 DEF StoreInv, JournalsOK
  <2>4. QED
    BY <1>1, <1>6, <1>7, <1>9, <2>1, <2>2, <2>3, JournalsStay DEF StoreInv
<1>13. WriterOK'
  <2>1. \A S \in manifest[b].segs : Segment(S) \in files
    BY <1>3 DEF Needed, Kept
  <2>2. Objects(t)' \subseteq files'
    BY <2>1, <1>4, <1>8 DEF Objects
  <2>3. t \in KnownIds' /\ current' = b
    BY <1>2, <1>5, <1>7
  <2>4. Objects(lock)' = Objects(t)'
    BY <1>5 DEF Objects
  <2>5. QED
    BY <2>2, <2>3, <2>4, <1>5, <1>8 DEF WriterOK
<1>14. ProcessInv'
  <2>1. lock \notin Compactors /\ files \subseteq files'
    BY <1>4, <1>5, NamesAssumption
  <2>2. QED
    BY <1>1, <1>5, <1>7, <1>13, <2>1, OthersStay DEF StoreInv
<1>15. QED
  BY <1>6, <1>10, <1>11, <1>12, <1>14 DEF StoreInv, ProcessInv, IndInv

LEMMA WroteFacts ==
  ASSUME Graph, NEW t \in Txs, t \in KnownIds, NEW b, b = manifest[t].parent
  PROVE  /\ Line(t) = Line(b) \cup {t} /\ EpochsOf(t) = EpochsOf(b)
         /\ Behind(t) = Behind(b)
         /\ Needed(t) \subseteq Needed(b) \cup Objects(t)
         /\ Objects(t) \subseteq Footprint(t)
<1>1. Wrote(t)
  BY DEF Graph
<1>2. Line(t) = Line(b) \cup {t} /\ EpochsOf(t) = EpochsOf(b)
  BY <1>1 DEF Wrote
<1>3. Behind(t) = Behind(b)
  BY <1>2 DEF Behind
<1>4. Needed(t) \subseteq Needed(b) \cup Objects(t)
  BY <1>2 DEF Needed, Objects, EpochsOf
<1>5. Objects(t) \subseteq Footprint(t)
  BY DEF Objects, Footprint, Own, Segments
<1>6. QED
  BY <1>2, <1>3, <1>4, <1>5

LEMMA RetryInv ==
  ASSUME IndInv, NEW t \in Txs, Retry(t), UNCHANGED <<proposals, compactor, reader>>
  PROVE  IndInv'
<1>1. StoreInv /\ ProcessInv
  BY IndInvParts
<1>2. /\ t \in KnownIds /\ lock = Nobody /\ lock' = t /\ manifest[t].parent = current
      /\ files' = files \cup Objects(t)
      /\ UNCHANGED <<durable, current, stable, manifest, journal, committed, plan,
                     pc, job, rpc, seen>>
  BY DEF Retry, proposals, compactor, reader, KnownIds, Ids
<1>3. EpochsOf(t) = EpochsOf(current) /\ Objects(t) \subseteq Footprint(t)
  BY <1>1, <1>2, WroteFacts DEF StoreInv
<1>4. Writes(t)
  BY <1>1, <1>2, <1>3 DEF Writes, SameHeads, StoreInv, JournalsOK, HeadsOK
<1>5. StoreInv' /\ Keeps /\ KnownIds' = KnownIds
  BY <1>1, <1>4, WritesKeeps
<1>6. WriterOK'
  <2>1. Objects(lock)' = Objects(t)
    BY <1>2 DEF Objects
  <2>2. QED
    BY <2>1, <1>2, <1>5 DEF WriterOK
<1>7. ProcessInv'
  <2>1. lock \notin Compactors /\ files \subseteq files'
    BY <1>2, NamesAssumption
  <2>2. QED
    BY <1>1, <1>2, <1>5, <1>6, <2>1, OthersStay DEF StoreInv
<1>8. QED
  BY <1>5, <1>7 DEF StoreInv, ProcessInv, IndInv

LEMMA PublishInv ==
  ASSUME IndInv, NEW t \in Txs, Publish(t), UNCHANGED <<proposals, compactor, reader>>
  PROVE  IndInv'
<1>1. StoreInv /\ ProcessInv
  BY IndInvParts
<1>2. /\ lock = t /\ lock' = Nobody /\ durable' = durable \cup Objects(t)
      /\ current' = t /\ stable' = t /\ committed' = committed \cup {t}
      /\ UNCHANGED <<files, manifest, journal, plan, pc, job, rpc, seen>>
  BY DEF Publish, proposals, compactor, reader
<1>3. PICK b : b = current
  OBVIOUS
<1>4. t \in KnownIds /\ manifest[t].parent = b /\ Objects(t) \subseteq files
  BY <1>1, <1>2, <1>3 DEF ProcessInv, WriterOK
<1>5. /\ b \in KnownIds /\ Needed(b) \subseteq Kept /\ committed \subseteq Line(b) \cup Behind(b)
      /\ committed \subseteq KnownIds
  BY <1>1, <1>3 DEF StoreInv, HeadsOK, Heads
<1>6. /\ Line(t) = Line(b) \cup {t} /\ EpochsOf(t) = EpochsOf(b) /\ Behind(t) = Behind(b)
      /\ Needed(t) \subseteq Needed(b) \cup Objects(t) /\ Objects(t) \subseteq Footprint(t)
  BY <1>1, <1>4, WroteFacts DEF StoreInv
<1>7. Graph' /\ Keeps /\ KnownIds' = KnownIds
  BY <1>1, <1>2, GraphStutters DEF StoreInv
<1>8. Cleanup'
  BY <1>1, <1>2, <1>4, <1>6, CleanupStep DEF StoreInv
<1>9. Kept \subseteq Kept' /\ Objects(t) \subseteq Kept'
  BY <1>2, <1>4 DEF Kept
<1>10. /\ Needed(t)' = Needed(t) /\ Line(t)' = Line(t) /\ EpochsOf(t)' = EpochsOf(t)
       /\ Behind(t)' = Behind(t)
  BY <1>1, <1>4, <1>7, Same, SameBehind DEF StoreInv
<1>11. HeadsOK'
  <2>1. Heads' = {t} /\ stable' = current'
    BY <1>2 DEF Heads
  <2>2. Needed(t)' \subseteq Kept' /\ committed' \subseteq Line(t)' \cup Behind(t)'
    BY <1>2, <1>5, <1>6, <1>9, <1>10
  <2>3. QED
    BY <2>1, <2>2, <1>2, <1>4, <1>5, <1>7 DEF HeadsOK
<1>12. Traced'
  <2>1. ASSUME NEW x \in committed \cup {t}, x # Root
        PROVE  Journal(x) \in Kept' \/ TombstonedBy(t, x)'
    <3>1. CASE x = t
      BY <3>1, <1>9 DEF Objects
    <3>2. CASE x \in committed
      <4>1. Journal(x) \in Kept \/ TombstonedBy(b, x)
        BY <1>1, <1>3, <2>1, <3>2 DEF StoreInv, Traced, Heads
      <4>2. TombstonedBy(b, x) => TombstonedBy(t, x)'
        BY <1>2, <1>6, <1>10 DEF TombstonedBy, DeleteFiles, Journal
      <4>3. QED
        BY <4>1, <4>2, <1>9
    <3>3. QED
      BY <3>1, <3>2
  <2>2. Heads' = {t} /\ committed' \cup {current'} = committed \cup {t}
    BY <1>2 DEF Heads
  <2>3. QED
    BY <2>1, <2>2 DEF Traced, Journal
<1>13. JournalsOK'
  <2>1. ASSUME NEW e \in Epochs, journal[e].cleaned
        PROVE  e \in EpochsOf(t) /\ DeleteFiles(e)' \cap (files' \cup durable') = {}
    <3>1. e \in EpochsOf(b) /\ DeleteFiles(e) \cap (files \cup durable) = {}
      BY <1>1, <1>3, <2>1 DEF StoreInv, JournalsOK
    <3>2. DeleteFiles(e)' = DeleteFiles(e)
      BY <1>2 DEF DeleteFiles
    <3>3. QED
      BY <3>1, <3>2, <1>2, <1>4, <1>6
  <2>2. EpochsOf(current)' = EpochsOf(t) /\ EpochsOf(stable)' = EpochsOf(t)
    BY <1>2 DEF EpochsOf
  <2>3. journal' \in [Epochs -> JournalOf]
    BY <1>1, <1>2 DEF StoreInv, JournalsOK
  <2>4. QED
    BY <2>1, <2>2, <2>3, <1>2 DEF JournalsOK
<1>14. ProcessInv'
  <2>1. lock \notin Compactors /\ files \subseteq files'
    BY <1>2, NamesAssumption
  <2>2. QED
    BY <1>1, <1>2, <1>7, <2>1, Unlocked, OthersStay DEF StoreInv
<1>15. QED
  BY <1>7, <1>8, <1>11, <1>12, <1>13, <1>14 DEF StoreInv, ProcessInv, IndInv

\* A step that writes nothing.
LEMMA StoreStutters ==
  ASSUME StoreInv, UNCHANGED store, UNCHANGED plan
  PROVE  StoreInv' /\ Keeps /\ KnownIds' = KnownIds
<1>1. PICK b : b = current
  OBVIOUS
<1>2. UNCHANGED <<files, durable, current, stable, manifest, journal, committed>>
  BY DEF store
<1>3. Writes(b)
  BY <1>1, <1>2 DEF Writes, SameHeads, StoreInv, JournalsOK, HeadsOK, Heads
<1>4. QED
  BY <1>3, WritesKeeps

LEMMA AbandonInv ==
  ASSUME IndInv, NEW t \in Txs, Abandon(t), UNCHANGED <<proposals, compactor, reader>>
  PROVE  IndInv'
<1>1. StoreInv /\ ProcessInv
  BY IndInvParts
<1>2. lock = t /\ lock' = Nobody /\ UNCHANGED store /\ UNCHANGED <<files, plan, pc, job, rpc, seen>>
  BY DEF Abandon, proposals, compactor, reader, store
<1>3. StoreInv' /\ Keeps
  BY <1>1, <1>2, StoreStutters
<1>4. ProcessInv'
  <2>1. lock \notin Compactors
    BY <1>2, NamesAssumption
  <2>2. QED
    BY <1>1, <1>2, <1>3, <2>1, Unlocked, OthersStay DEF StoreInv
<1>5. QED
  BY <1>3, <1>4 DEF StoreInv, ProcessInv, IndInv

-----------------------------------------------------------------------------
(* Readers, exports and plans.                                             *)

\* A step of one reader that is outside, or inside with a complete snapshot.
LEMMA ReaderMoves ==
  ASSUME IndInv, UNCHANGED <<store, proposals, lock, compactor>>,
         NEW r \in Readers, NEW s \in {"out", "chain", "segments"}, NEW x \in Ids,
         rpc' = [rpc EXCEPT ![r] = s], seen' = [seen EXCEPT ![r] = x],
         s # "out" => /\ \A c \in Compactors : pc[c] = "idle"
                      /\ x \in KnownIds /\ Needed(x) \subseteq files
  PROVE  IndInv'
<1>1. StoreInv /\ ProcessInv
  BY IndInvParts
<1>2. UNCHANGED <<files, durable, current, stable, manifest, journal, committed, plan, pc, job>>
  BY DEF store, proposals, compactor
<1>3. StoreInv' /\ Keeps /\ KnownIds' = KnownIds
  BY <1>1, <1>2, StoreStutters
<1>4. CompactorsOK'
  <2>1. ASSUME NEW s1, NEW e1 PROVE OnTheWay(s1, e1)' = OnTheWay(s1, e1)
                                    /\ Arrived(s1, e1)' = Arrived(s1, e1)
    BY <1>2 DEF OnTheWay, Arrived, Line, Segments, Kept, Needed, DeleteFiles
  <2>2. QED
    BY <1>1, <1>2, <1>3, <2>1 DEF ProcessInv, CompactorsOK
<1>5. WriterOK'
  BY <1>1, <1>2, <1>3 DEF ProcessInv, WriterOK, Objects
<1>6. ReadersOK'
  <2>1. rpc' \in [Readers -> {"out", "chain", "segments"}] /\ seen' \in [Readers -> Ids]
    BY <1>1 DEF ProcessInv, ReadersOK
  <2>2. ASSUME NEW q \in Readers, rpc'[q] # "out", NEW y, y = seen'[q]
        PROVE  /\ \A c \in Compactors : pc[c] = "idle"
               /\ y \in KnownIds /\ Needed(y) \subseteq files
    <3>1. CASE q = r
      <4>1. rpc'[q] = s /\ y = x
        BY <1>1, <2>2, <3>1 DEF ProcessInv, ReadersOK
      <4>2. QED
        BY <2>2, <4>1
    <3>2. CASE q # r
      <4>1. rpc'[q] = rpc[q] /\ y = seen[q]
        BY <1>1, <2>2, <3>2 DEF ProcessInv, ReadersOK
      <4>2. QED
        BY <1>1, <2>2, <4>1 DEF ProcessInv, ReadersOK
    <3>3. QED
      BY <3>1, <3>2
  <2>3. \A y : Needed(y)' = Needed(y)
    BY <1>2 DEF Needed, Line
  <2>4. ASSUME NEW q \in Readers, rpc'[q] # "out"
        PROVE  seen'[q] \in KnownIds' /\ Needed(seen[q])' \subseteq files'
    <3>1. PICK y : y = seen'[q]
      OBVIOUS
    <3>2. y \in KnownIds /\ Needed(y) \subseteq files
      BY <2>2, <2>4, <3>1
    <3>3. Needed(seen[q])' = Needed(y)'
      BY <3>1 DEF Needed, Line
    <3>4. QED
      BY <3>1, <3>2, <3>3, <2>3, <1>2, <1>3
  <2>5. QED
    BY <2>1, <2>2, <2>4, <1>2 DEF ReadersOK
<1>7. QED
  BY <1>3, <1>4, <1>5, <1>6 DEF StoreInv, IndInv

LEMMA ReadInv ==
  ASSUME IndInv, NEW r \in Readers, Read(r), UNCHANGED <<store, proposals, lock, compactor>>
  PROVE  IndInv'
<1>1. StoreInv /\ ProcessInv
  BY IndInvParts
<1>2. rpc \in [Readers -> {"out", "chain", "segments"}] /\ seen \in [Readers -> Ids]
  BY <1>1 DEF ProcessInv, ReadersOK
<1>3. PICK x : x = seen[r]
  OBVIOUS
<1>4. ASSUME rpc[r] # "out"
      PROVE  /\ \A c \in Compactors : pc[c] = "idle"
             /\ x \in KnownIds /\ Needed(x) \subseteq files
  BY <1>1, <1>3, <1>4 DEF ProcessInv, ReadersOK
<1>5. x \in Ids /\ (UNCHANGED seen => seen' = [seen EXCEPT ![r] = x])
  BY <1>2, <1>3
<1>6. CASE ReadCurrent(r)
  <2>1. PICK b : b = current
    OBVIOUS
  <2>2. b \in KnownIds /\ Needed(b) \subseteq files /\ b \in Ids
    BY <1>1, <2>1 DEF StoreInv, HeadsOK, Heads, Kept, KnownIds
  <2>3. \A c \in Compactors : pc[c] = "idle"
    BY <1>1, <1>6, Exclusion DEF ReadCurrent, GateExclusive
  <2>4. rpc' = [rpc EXCEPT ![r] = "chain"] /\ seen' = [seen EXCEPT ![r] = b]
    BY <1>6, <2>1 DEF ReadCurrent
  <2>5. QED
    BY <2>2, <2>3, <2>4, ReaderMoves
<1>7. CASE ReadChain(r)
  <2>1. rpc[r] # "out" /\ UNCHANGED seen
    BY <1>7 DEF ReadChain
  <2>2. {f \in Needed(x) : f[1] # "segment"} \subseteq files
    BY <1>4, <2>1
  <2>3. rpc' = [rpc EXCEPT ![r] = "segments"]
    BY <1>3, <1>7, <2>2 DEF ReadChain
  <2>4. QED
    BY <1>4, <1>5, <2>1, <2>3, ReaderMoves
<1>8. CASE ReadSegments(r)
  <2>1. rpc[r] # "out" /\ UNCHANGED seen
    BY <1>8 DEF ReadSegments
  <2>2. {f \in Needed(x) : f[1] = "segment"} \subseteq files
    BY <1>4, <2>1
  <2>3. rpc' = [rpc EXCEPT ![r] = "out"]
    BY <1>3, <1>8, <2>2 DEF ReadSegments
  <2>4. QED
    BY <1>5, <2>1, <2>3, ReaderMoves
<1>9. QED
  BY <1>6, <1>7, <1>8 DEF Read

LEMMA ExportInv ==
  ASSUME IndInv, NEW e \in Epochs, Export(e), UNCHANGED <<store, lock, compactor, reader>>
  PROVE  IndInv'
<1>1. StoreInv /\ ProcessInv
  BY IndInvParts
<1>2. /\ lock = Nobody /\ lock' = lock /\ UNCHANGED store
      /\ UNCHANGED <<files, plan, pc, job, rpc, seen>>
  BY DEF Export, compactor, reader, store
<1>3. StoreInv' /\ Keeps
  BY <1>1, <1>2, StoreStutters
<1>4. ProcessInv'
  <2>1. lock \notin Compactors
    BY <1>2, NamesAssumption
  <2>2. QED
    BY <1>1, <1>2, <1>3, <2>1, Unlocked, OthersStay DEF StoreInv
<1>5. QED
  BY <1>3, <1>4 DEF StoreInv, ProcessInv, IndInv

LEMMA PlanInv ==
  ASSUME IndInv, NEW e \in Epochs, PlanCompaction(e), UNCHANGED <<lock, compactor, reader>>
  PROVE  IndInv'
<1>1. StoreInv /\ ProcessInv
  BY IndInvParts
<1>2. PICK b : b = current
  OBVIOUS
<1>3. b \in KnownIds
  BY <1>1, <1>2 DEF StoreInv, HeadsOK, Heads
<1>4. /\ plan[e] = NoPlan /\ lock \notin Compactors
      /\ plan' = [plan EXCEPT ![e] = Built(e, b)]
      /\ manifest' = [manifest EXCEPT ![e] = Proposal(e, b)]
      /\ UNCHANGED <<files, durable, current, stable, journal, committed, lock, pc, job, rpc, seen>>
  BY <1>2 DEF PlanCompaction, Proposal, EpochsOf, GateExclusive, compactor, reader
<1>5. Adds(e, b) /\ Graph' /\ Cleanup'
  BY <1>1, <1>3, <1>4, PlanAdds, PlanSpares DEF StoreInv
<1>6. Keeps /\ SameHeads /\ Kept' = Kept
  BY <1>4, <1>5 DEF Adds, SameHeads, Kept
<1>7. HeadsOK'
  <2>1. \A y \in Heads : Needed(y) \subseteq Kept'
    BY <1>1, <1>6 DEF StoreInv, HeadsOK
  <2>2. stable # current => ~journal'[current].current
    BY <1>1, <1>4 DEF StoreInv, HeadsOK
  <2>3. QED
    BY <1>1, <1>6, <2>1, <2>2, HeadsStay DEF StoreInv
<1>8. Traced'
  BY <1>1, <1>6, TracedStays DEF StoreInv
<1>9. JournalsOK'
  <2>1. files' \cup durable' \subseteq files \cup durable \cup Footprint(b)'
    BY <1>4
  <2>2. b \in KnownIds' /\ EpochsOf(current) \subseteq EpochsOf(b)'
    BY <1>1, <1>2, <1>3, <1>6, Same DEF Keeps, StoreInv
  <2>3. journal' \in [Epochs -> JournalOf]
        /\ \A f \in Epochs : journal'[f].cleaned => journal[f].cleaned
    BY <1>1, <1>4 DEF StoreInv, JournalsOK
  <2>4. QED
    BY <1>1, <1>5, <1>6, <2>1, <2>2, <2>3, JournalsStay DEF StoreInv
<1>10. WriterOK'
  <2>1. PICK t : t = lock
    OBVIOUS
  <2>2. ASSUME t \in Txs
        PROVE  t \in KnownIds' /\ manifest'[t].parent = current' /\ Objects(t)' \subseteq files'
    <3>1. t \in KnownIds /\ manifest[t].parent = current /\ Objects(t) \subseteq files
      BY <1>1, <2>1, <2>2 DEF ProcessInv, WriterOK
    <3>2. manifest'[t] = manifest[t] /\ Objects(t)' = Objects(t) /\ t \in KnownIds'
      BY <3>1, <1>1, <1>6, Same DEF Keeps, StoreInv
    <3>3. QED
      BY <3>1, <3>2, <1>4
  <2>3. lock' = t /\ Objects(lock)' = Objects(t)'
    BY <2>1, <1>4 DEF Objects
  <2>4. lock' \in {Nobody} \cup Txs \cup Compactors
    BY <1>1, <1>4 DEF ProcessInv, WriterOK
  <2>5. QED
    BY <2>2, <2>3, <2>4 DEF WriterOK
<1>11. ProcessInv'
  BY <1>1, <1>4, <1>6, <1>10, OthersStay DEF StoreInv
<1>12. QED
  BY <1>5, <1>7, <1>8, <1>9, <1>11 DEF StoreInv, ProcessInv, IndInv

LEMMA CommitLockInv ==
  ASSUME IndInv, NEW e \in Epochs, NEW c \in Compactors, CommitLock(c, e),
         UNCHANGED <<proposals, reader>>
  PROVE  IndInv'
<1>1. StoreInv /\ ProcessInv
  BY IndInvParts
<1>2. /\ pc[c] = "idle" /\ plan[e] # NoPlan /\ lock = Nobody /\ lock' = c
      /\ job' = [job EXCEPT ![c] = e]
      /\ pc' = [pc EXCEPT ![c] = IF e \in Line(current) THEN "reconcile" ELSE "segments"]
      /\ e \in Line(current) \/ CommitNew(e)
      /\ \A r \in Readers : rpc[r] \in {"out", "broken"}
      /\ UNCHANGED store
      /\ UNCHANGED <<files, durable, current, stable, manifest, journal, committed, plan, rpc, seen>>
  BY DEF CommitLock, proposals, reader, store
<1>3. StoreInv' /\ KnownIds' = KnownIds
  BY <1>1, <1>2, StoreStutters
<1>4. e \in KnownIds
  BY <1>1, <1>2 DEF StoreInv, Graph, GraphTypes, KnownIds, Ids
<1>5. PICK s : s = IF e \in Line(current) THEN "reconcile" ELSE "segments"
  OBVIOUS
<1>6. s \in Steps /\ s \in {"reconcile", "segments"}
  BY <1>5 DEF Steps, Committing
<1>7. /\ pc' \in [Compactors -> Steps] /\ job' \in [Compactors -> Epochs]
      /\ pc'[c] = s /\ job'[c] = e /\ \A d \in Compactors : d # c => pc'[d] = "idle"
  <2>1. \A d \in Compactors : pc[d] = "idle"
    BY <1>1, <1>2, Exclusion
  <2>2. pc \in [Compactors -> Steps] /\ job \in [Compactors -> Epochs]
    BY <1>1 DEF ProcessInv, CompactorsOK
  <2>3. QED
    BY <2>1, <2>2, <1>2, <1>5, <1>6
<1>8. s = "segments" => e \notin Line(current) /\ current = manifest[e].parent
  <2>1. Compacted(e)
    BY <1>1, <1>4 DEF StoreInv, Graph
  <2>2. QED
    BY <2>1, <1>2, <1>5 DEF CommitNew, Compacted
<1>9. OnTheWay(s, e)'
  BY <1>2, <1>6, <1>8 DEF OnTheWay, FromCatalog, FromRevision, FromIntent, FromJournal,
       FromReceipt, Committing, Line
<1>10. Arrived(s, e)'
  BY <1>2, <1>5, <1>6 DEF Arrived, Cleaning, Line
<1>11. CompactorsOK'
  BY <1>2, <1>3, <1>4, <1>7, <1>9, <1>10 DEF CompactorsOK
<1>12. WriterOK'
  BY <1>2, NamesAssumption DEF WriterOK
<1>13. ReadersOK'
  <2>1. \A r \in Readers : rpc'[r] = "out"
    BY <1>1, <1>2 DEF ProcessInv, ReadersOK
  <2>2. QED
    BY <2>1, <1>1, <1>2 DEF ProcessInv, ReadersOK
<1>14. QED
  BY <1>3, <1>11, <1>12, <1>13 DEF StoreInv, IndInv

-----------------------------------------------------------------------------
(* The steps of a compaction.                                              *)

LEMMA CompactorFacts ==
  ASSUME IndInv, NEW c \in Compactors, pc[c] # "idle", NEW e, e = job[c]
  PROVE  /\ e \in Epochs /\ e \in KnownIds /\ Compacted(e)
         /\ OnTheWay(pc[c], e) /\ Arrived(pc[c], e)
         /\ Line(e) = {e} /\ plan[e].segs = manifest[e].segs
         /\ pc[c] \in Committing => /\ EpochsOf(e) = EpochsOf(current) \cup {e}
                                    /\ current # e
         /\ e \in Line(current) => EpochsOf(e) = EpochsOf(current) /\ e \in EpochsOf(current)
<1>1. e \in Epochs /\ e \in KnownIds /\ OnTheWay(pc[c], e) /\ Arrived(pc[c], e)
  BY DEF IndInv, CompactorsOK
<1>2. Compacted(e) /\ Line(e) = {e} /\ e \in EpochsOf(e)
  BY <1>1, ActiveOfEpoch DEF IndInv, Graph
<1>3. current \in KnownIds /\ LineOK(current)
  BY DEF IndInv, HeadsOK, Heads, Graph
<1>4. pc[c] \in Committing => EpochsOf(e) = EpochsOf(current) \cup {e} /\ current # e
  BY <1>1, <1>2, <1>3 DEF OnTheWay, Compacted, LineOK
<1>5. e \in Line(current) => EpochsOf(e) = EpochsOf(current)
  BY <1>3 DEF LineOK
<1>6. plan[e].segs = manifest[e].segs
  BY <1>2 DEF Compacted
<1>7. QED
  BY <1>1, <1>2, <1>4, <1>5, <1>6

\* Where the step counters go.
LEMMA OrderOfSteps ==
  /\ FromCatalog = {"catalog", "revision", "intent", "stage", "journal", "receipt", "replace"}
  /\ FromRevision = {"revision", "intent", "stage", "journal", "receipt", "replace"}
  /\ FromIntent = {"intent", "stage", "journal", "receipt", "replace"}
  /\ Committing = FromCatalog \cup {"segments"}
BY DEF FromCatalog, FromRevision, FromIntent, Committing

LEMMA WriteObjectsInv ==
  ASSUME IndInv, NEW c \in Compactors, WriteObjects(c), UNCHANGED <<proposals, reader>>
  PROVE  IndInv'
<1>1. StoreInv /\ ProcessInv
  BY IndInvParts
<1>2. PICK e : e = job[c]
  OBVIOUS
<1>3. PICK S, s :
        /\ \/ pc[c] = "segments" /\ S = {Segment(G) : G \in plan[e].segs} /\ s = "catalog"
           \/ pc[c] = "catalog" /\ S = {Catalog(e)} /\ s = "revision"
           \/ pc[c] = "revision" /\ S = {Revision(e)} /\ s = "intent"
           \/ pc[c] = "intent" /\ S = {Intent(e)} /\ s = "stage"
           \/ pc[c] = "stage" /\ S = {Stage(e)} /\ s = "journal"
        /\ files' = files \cup S /\ Goto(c, s)
        /\ UNCHANGED <<durable, current, stable, manifest, journal, committed, plan, rpc, seen>>
  BY <1>2 DEF WriteObjects, proposals, reader
<1>4. pc[c] \in Committing /\ pc[c] # "idle" /\ s \in Steps /\ s \in FromCatalog
  BY <1>3 DEF Committing, FromCatalog, Steps
<1>5. /\ e \in Epochs /\ e \in KnownIds /\ OnTheWay(pc[c], e)
      /\ plan[e].segs = manifest[e].segs /\ EpochsOf(e) = EpochsOf(current) \cup {e}
  BY <1>2, <1>4, CompactorFacts
<1>6. S \subseteq Footprint(e)
  BY <1>3, <1>5 DEF Footprint, Own, Segments
<1>7. Writes(e)
  BY <1>1, <1>3, <1>5, <1>6 DEF Writes, SameHeads, StoreInv, JournalsOK, HeadsOK
<1>8. StoreInv' /\ Keeps /\ KnownIds' = KnownIds
  BY <1>1, <1>7, WritesKeeps
<1>9. OnTheWay(s, e)'
  <2>1. /\ current' = current /\ Line(current)' = Line(current) /\ manifest' = manifest
        /\ files \subseteq files' /\ S \subseteq files' /\ Segments(e)' = Segments(e)
    BY <1>3 DEF Line, Segments
  <2>2. e \notin Line(current) /\ current = manifest[e].parent
    BY <1>4, <1>5 DEF OnTheWay
  <2>3. Segments(e)' \subseteq files'
    BY <2>1, <1>3, <1>5 DEF OnTheWay, FromCatalog, Segments
  <2>4. s \in FromRevision => Catalog(e) \in files'
    BY <2>1, <1>3, <1>5, OrderOfSteps DEF OnTheWay
  <2>5. s \in FromIntent => Revision(e) \in files'
    BY <2>1, <1>3, <1>5, OrderOfSteps DEF OnTheWay
  <2>6. s \in FromJournal => Stage(e) \in files'
    BY <2>1, <1>3 DEF FromJournal
  <2>7. s \notin FromReceipt /\ s # "replace"
    BY <1>3 DEF FromReceipt
  <2>8. QED
    BY <2>1, <2>2, <2>3, <2>4, <2>5, <2>6, <2>7 DEF OnTheWay, Catalog, Revision, Stage
<1>10. Arrived(s, e)'
  BY <1>4 DEF Arrived, FromCatalog, Cleaning
<1>11. ProcessInv'
  BY <1>1, <1>2, <1>3, <1>4, <1>5, <1>8, <1>9, <1>10, CompactorMoves
<1>12. QED
  BY <1>8, <1>11 DEF StoreInv, ProcessInv, IndInv

LEMMA JournalPreparedInv ==
  ASSUME IndInv, NEW c \in Compactors, JournalPrepared(c), UNCHANGED <<proposals, reader>>
  PROVE  IndInv'
<1>1. StoreInv /\ ProcessInv
  BY IndInvParts
<1>2. PICK e, j : e = job[c] /\ j = [NoJournal EXCEPT !.stage = "candidate_prepared"]
  OBVIOUS
<1>3. /\ pc[c] = "journal" /\ Goto(c, "receipt")
      /\ journal' = [journal EXCEPT ![e] = j]
      /\ files' = files \cup {Journal(e)} /\ durable' = durable \cup {Journal(e)}
      /\ UNCHANGED <<current, stable, manifest, committed, plan, rpc, seen>>
  BY <1>2 DEF JournalPrepared, WriteJournal, proposals, reader
<1>4. pc[c] \in Committing /\ pc[c] # "idle" /\ "receipt" \in Steps
  BY <1>3 DEF Committing, FromCatalog, Steps
<1>5. /\ e \in Epochs /\ e \in KnownIds /\ OnTheWay(pc[c], e)
      /\ EpochsOf(e) = EpochsOf(current) \cup {e} /\ current # e
  BY <1>2, <1>4, CompactorFacts
<1>6. j \in JournalOf /\ ~j.cleaned /\ ~j.current
  BY <1>2 DEF NoJournal, JournalOf
<1>7. journal \in [Epochs -> JournalOf]
  BY <1>1 DEF StoreInv, JournalsOK
<1>8. /\ journal' \in [Epochs -> JournalOf] /\ journal'[e] = j
      /\ \A f \in Epochs : journal'[f].cleaned => journal[f].cleaned
      /\ stable # current => ~journal'[current].current
  BY <1>1, <1>3, <1>5, <1>6, <1>7 DEF StoreInv, HeadsOK
<1>9. Journal(e) \in Footprint(e)
  BY OwnNames DEF Footprint
<1>10. Writes(e)
  BY <1>3, <1>5, <1>8, <1>9 DEF Writes, SameHeads
<1>11. StoreInv' /\ Keeps /\ KnownIds' = KnownIds
  BY <1>1, <1>10, WritesKeeps
<1>12. OnTheWay("receipt", e)'
  <2>1. /\ current' = current /\ Line(current)' = Line(current) /\ manifest' = manifest
        /\ files \subseteq files' /\ Journal(e) \in Kept' /\ Segments(e)' = Segments(e)
    BY <1>3 DEF Line, Segments, Kept
  <2>2. /\ e \notin Line(current) /\ current = manifest[e].parent /\ Segments(e) \subseteq files
        /\ Catalog(e) \in files /\ Revision(e) \in files /\ Stage(e) \in files
    BY <1>3, <1>5, OrderOfSteps DEF OnTheWay, FromJournal
  <2>3. QED
    BY <2>1, <2>2, <1>6, <1>8 DEF OnTheWay, Catalog, Revision, Stage, Journal
<1>13. Arrived("receipt", e)'
  BY DEF Arrived, Cleaning
<1>14. ProcessInv'
  BY <1>1, <1>2, <1>3, <1>4, <1>5, <1>11, <1>12, <1>13, CompactorMoves
<1>15. QED
  BY <1>11, <1>14 DEF StoreInv, ProcessInv, IndInv

\* From its receipt on, the candidate is complete in the store.
LEMMA CandidateComplete ==
  ASSUME IndInv, NEW c \in Compactors, pc[c] \in FromReceipt, NEW e, e = job[c]
  PROVE  /\ Needed(e) \subseteq files /\ Journal(e) \in Kept /\ ~journal[e].current
         /\ e \notin Line(current) /\ current = manifest[e].parent
         /\ Segments(e) \subseteq files
         /\ Catalog(e) \in files /\ Revision(e) \in files /\ Stage(e) \in files
<1>1. pc[c] # "idle" /\ pc[c] \in Committing
  BY DEF FromReceipt, Committing, FromCatalog
<1>2. /\ e \in KnownIds /\ Compacted(e) /\ OnTheWay(pc[c], e)
      /\ Line(e) = {e} /\ EpochsOf(e) = EpochsOf(current) \cup {e}
  BY <1>1, CompactorFacts
<1>3. /\ Segments(e) \subseteq files /\ Catalog(e) \in files /\ Revision(e) \in files
      /\ Stage(e) \in files /\ Journal(e) \in Kept /\ ~journal[e].current
      /\ e \notin Line(current) /\ current = manifest[e].parent
  BY <1>1, <1>2, OrderOfSteps DEF OnTheWay, FromJournal, FromReceipt
<1>4. \A f \in EpochsOf(current) : Catalog(f) \in files
  <2>1. Needed(current) \subseteq files
    BY DEF IndInv, HeadsOK, Heads, Kept
  <2>2. QED
    BY <2>1 DEF Needed, EpochsOf
<1>5. Needed(e) \subseteq files
  BY <1>2, <1>3, <1>4 DEF Needed, Segments, EpochsOf
<1>6. QED
  BY <1>3, <1>5

LEMMA CandidateReceiptInv ==
  ASSUME IndInv, NEW c \in Compactors, CandidateReceipt(c), UNCHANGED <<proposals, reader>>
  PROVE  IndInv'
<1>1. StoreInv /\ ProcessInv
  BY IndInvParts
<1>2. PICK e, j : e = job[c] /\ j = [journal[e] EXCEPT !.candidate = TRUE]
  OBVIOUS
<1>3. /\ pc[c] = "receipt" /\ Goto(c, "replace")
      /\ journal' = [journal EXCEPT ![e] = j]
      /\ files' = files \cup {Journal(e)} /\ durable' = durable \cup Needed(e) \cup {Intent(e)}
      /\ UNCHANGED <<current, stable, manifest, committed, plan, rpc, seen>>
  BY <1>2 DEF CandidateReceipt, WriteJournal, proposals, reader
<1>4. pc[c] \in Committing /\ pc[c] # "idle" /\ "replace" \in Steps /\ pc[c] \in FromReceipt
  BY <1>3 DEF Committing, FromCatalog, Steps, FromReceipt
<1>5. /\ e \in Epochs /\ e \in KnownIds
      /\ EpochsOf(e) = EpochsOf(current) \cup {e} /\ current # e
  BY <1>2, <1>4, CompactorFacts
<1>6. /\ Needed(e) \subseteq files /\ Journal(e) \in Kept /\ ~journal[e].current
      /\ e \notin Line(current) /\ current = manifest[e].parent
      /\ Segments(e) \subseteq files
      /\ Catalog(e) \in files /\ Revision(e) \in files /\ Stage(e) \in files
  BY <1>2, <1>4, CandidateComplete
<1>7. journal \in [Epochs -> JournalOf]
  BY <1>1 DEF StoreInv, JournalsOK
<1>8. j \in JournalOf /\ j.cleaned = journal[e].cleaned /\ ~j.current
  BY <1>2, <1>5, <1>6, <1>7 DEF JournalOf
<1>9. /\ journal' \in [Epochs -> JournalOf] /\ journal'[e] = j
      /\ \A f \in Epochs : journal'[f].cleaned => journal[f].cleaned
      /\ stable # current => ~journal'[current].current
  BY <1>1, <1>3, <1>5, <1>7, <1>8 DEF StoreInv, HeadsOK
<1>10. Journal(e) \in Footprint(e) /\ Intent(e) \in Footprint(e)
  BY OwnNames DEF Footprint
<1>11. Writes(e)
  BY <1>3, <1>5, <1>6, <1>9, <1>10 DEF Writes, SameHeads
<1>12. StoreInv' /\ Keeps /\ KnownIds' = KnownIds
  BY <1>1, <1>11, WritesKeeps
<1>13. OnTheWay("replace", e)'
  <2>1. /\ current' = current /\ Line(current)' = Line(current) /\ manifest' = manifest
        /\ files \subseteq files' /\ Kept \subseteq Kept'
        /\ Segments(e)' = Segments(e) /\ Needed(e)' = Needed(e)
    BY <1>3 DEF Line, Segments, Kept, Needed
  <2>2. QED
    BY <2>1, <1>3, <1>6, <1>8, <1>9 DEF OnTheWay, Catalog, Revision, Stage, Journal
<1>14. Arrived("replace", e)'
  BY DEF Arrived, Cleaning
<1>15. ProcessInv'
  BY <1>1, <1>2, <1>3, <1>4, <1>5, <1>12, <1>13, <1>14, CompactorMoves
<1>16. QED
  BY <1>12, <1>15 DEF StoreInv, ProcessInv, IndInv

LEMMA ReplaceCurrentInv ==
  ASSUME IndInv, NEW c \in Compactors, ReplaceCurrent(c), UNCHANGED <<proposals, reader>>
  PROVE  IndInv'
<1>1. StoreInv /\ ProcessInv
  BY IndInvParts
<1>2. PICK e, b, s : e = job[c] /\ b = current /\ s = stable
  OBVIOUS
<1>3. /\ pc[c] = "replace" /\ Goto(c, "sync") /\ current' = e /\ stable' = s
      /\ UNCHANGED <<files, durable, stable, manifest, journal, committed, plan, rpc, seen>>
  BY <1>2 DEF ReplaceCurrent, proposals, reader
<1>4. pc[c] \in Committing /\ pc[c] # "idle" /\ "sync" \in Steps /\ pc[c] \in FromReceipt
  BY <1>3 DEF Committing, FromCatalog, Steps, FromReceipt
<1>5. /\ e \in Epochs /\ e \in KnownIds /\ Compacted(e) /\ OnTheWay(pc[c], e)
      /\ EpochsOf(e) = EpochsOf(b) \cup {e} /\ Line(e) = {e}
  BY <1>2, <1>4, CompactorFacts
<1>6. Needed(e) \subseteq Kept /\ Journal(e) \in Kept /\ ~journal[e].current
      /\ manifest[e].parent = b
  BY <1>2, <1>3, <1>4, <1>5, CandidateComplete DEF OnTheWay, Kept
<1>7. /\ b \in KnownIds /\ s \in KnownIds /\ s \in committed /\ committed \subseteq KnownIds
      /\ Needed(s) \subseteq Kept
      /\ committed \subseteq Line(s) \cup Behind(s) /\ committed \subseteq Line(b) \cup Behind(b)
      /\ Active(s) = Active(b) /\ EpochsOf(s) \subseteq EpochsOf(b)
  BY <1>1, <1>2 DEF StoreInv, HeadsOK, Heads
<1>8. Graph' /\ Keeps /\ KnownIds' = KnownIds
  BY <1>1, <1>3, GraphStutters DEF StoreInv
<1>9. Cleanup'
  BY <1>1, <1>3, <1>5, CleanupStep DEF StoreInv
<1>10. \A x \in {e, s, b} :
         /\ Needed(x)' = Needed(x) /\ Line(x)' = Line(x) /\ EpochsOf(x)' = EpochsOf(x)
         /\ Behind(x)' = Behind(x) /\ Active(x)' = Active(x)
  BY <1>1, <1>5, <1>7, <1>8, Same, SameBehind DEF StoreInv
<1>11. committed \subseteq Behind(e) /\ Active(e) = Active(b)
  <2>1. plan[e].archived = Line(b) \cup Behind(b)
    BY <1>5, <1>6 DEF Compacted
  <2>2. plan[e].archived \subseteq Behind(e)
    BY <1>5 DEF Behind
  <2>3. Active(e) = Active(b)
    BY <1>1, <1>5, <1>6, ActiveOfEpoch DEF StoreInv
  <2>4. QED
    BY <2>1, <2>2, <2>3, <1>7
<1>12. Kept' = Kept
  BY <1>3 DEF Kept
<1>13. HeadsOK'
  <2>1. Heads' = {e, s} /\ {e, s} \subseteq KnownIds'
    BY <1>3, <1>5, <1>7, <1>8 DEF Heads
  <2>2. \A y \in {e, s} :
          Needed(y)' \subseteq Kept' /\ committed' \subseteq Line(y)' \cup Behind(y)'
    BY <1>3, <1>6, <1>7, <1>10, <1>11, <1>12
  <2>3. /\ Active(stable)' = Active(s)' /\ Active(current)' = Active(e)'
        /\ EpochsOf(stable)' = EpochsOf(s)' /\ EpochsOf(current)' = EpochsOf(e)'
    BY <1>3 DEF Active, RowsOf, EpochsOf
  <2>4. Active(s)' = Active(e)' /\ EpochsOf(s)' \subseteq EpochsOf(e)'
    BY <1>5, <1>7, <1>10, <1>11
  <2>5. stable' \in committed' /\ committed' \subseteq KnownIds'
    BY <1>3, <1>7, <1>8
  <2>6. current' \in Epochs /\ ~journal'[current'].current
    BY <1>3, <1>5, <1>6
  <2>7. QED
    BY <2>1, <2>2, <2>3, <2>4, <2>5, <2>6 DEF HeadsOK
<1>14. Traced'
  <2>1. ASSUME NEW x \in committed \cup {e}, NEW y \in {e, s}, x # Root
        PROVE  Journal(x) \in Kept' \/ TombstonedBy(y, x)'
    <3>1. CASE x = e
      BY <3>1, <1>6, <1>12
    <3>2. CASE x \in committed
      <4>1. /\ Journal(x) \in Kept \/ TombstonedBy(b, x)
            /\ Journal(x) \in Kept \/ TombstonedBy(s, x)
        BY <1>1, <1>2, <2>1, <3>2 DEF StoreInv, Traced, Heads
      <4>2. TombstonedBy(b, x) => TombstonedBy(e, x)
        BY <1>5 DEF TombstonedBy
      <4>3. TombstonedBy(y, x) => TombstonedBy(y, x)'
        BY <1>3, <1>10 DEF TombstonedBy, DeleteFiles, Journal
      <4>4. QED
        BY <4>1, <4>2, <4>3, <1>12
    <3>3. QED
      BY <3>1, <3>2
  <2>2. Heads' = {e, s} /\ committed' \cup {current'} = committed \cup {e}
    BY <1>3 DEF Heads
  <2>3. QED
    BY <2>1, <2>2 DEF Traced, Journal
<1>15. JournalsOK'
  <2>1. ASSUME NEW f \in Epochs, journal[f].cleaned
        PROVE  /\ f \in EpochsOf(e) /\ f \in EpochsOf(s)
               /\ DeleteFiles(f)' \cap (files' \cup durable') = {}
    <3>1. f \in EpochsOf(b) /\ f \in EpochsOf(s) /\ DeleteFiles(f) \cap (files \cup durable) = {}
      BY <1>1, <1>2, <2>1 DEF StoreInv, JournalsOK
    <3>2. DeleteFiles(f)' = DeleteFiles(f)
      BY <1>3 DEF DeleteFiles
    <3>3. QED
      BY <3>1, <3>2, <1>3, <1>5
  <2>2. EpochsOf(current)' = EpochsOf(e) /\ EpochsOf(stable)' = EpochsOf(s)
    BY <1>3 DEF EpochsOf
  <2>3. journal' \in [Epochs -> JournalOf]
    BY <1>1, <1>3 DEF StoreInv, JournalsOK
  <2>4. QED
    BY <2>1, <2>2, <2>3, <1>3 DEF JournalsOK
<1>16. OnTheWay("sync", e)' /\ Arrived("sync", e)'
  BY <1>3, <1>6, OrderOfSteps DEF OnTheWay, Arrived, FromJournal, FromReceipt, Cleaning
<1>17. ProcessInv'
  BY <1>1, <1>2, <1>3, <1>4, <1>5, <1>8, <1>16, CompactorMoves
<1>18. QED
  BY <1>8, <1>9, <1>13, <1>14, <1>15, <1>17 DEF StoreInv, ProcessInv, IndInv

\* CURRENT as a reader sees it reaches the medium: the directory fsync, or the
\* CURRENT that a power loss leaves.
LEMMA SyncedHeads ==
  ASSUME StoreInv, UNCHANGED <<manifest, plan, journal>>, NEW h \in Heads,
         current' = h, stable' = h, committed' = committed \cup {h},
         Kept \subseteq Kept', files' \cup durable' \subseteq files \cup durable
  PROVE  StoreInv' /\ KnownIds' = KnownIds
<1>1. Graph' /\ Keeps /\ KnownIds' = KnownIds
  BY GraphStutters DEF StoreInv
<1>2. /\ h \in KnownIds /\ Needed(h) \subseteq Kept /\ committed \subseteq Line(h) \cup Behind(h)
      /\ committed \subseteq KnownIds
  BY DEF StoreInv, HeadsOK
<1>3. Cleanup'
  BY <1>2, CleanupStep DEF StoreInv
<1>4. /\ Needed(h)' = Needed(h) /\ Line(h)' = Line(h) /\ EpochsOf(h)' = EpochsOf(h)
      /\ Behind(h)' = Behind(h)
  BY <1>1, <1>2, Same, SameBehind DEF StoreInv
<1>5. h \in Line(h)
  BY <1>2 DEF StoreInv, Graph, LineOK
<1>6. Heads' = {h}
  BY DEF Heads
<1>7. HeadsOK'
  <2>1. Needed(h)' \subseteq Kept' /\ committed' \subseteq Line(h)' \cup Behind(h)'
    BY <1>2, <1>4, <1>5
  <2>2. QED
    BY <2>1, <1>1, <1>2, <1>6 DEF HeadsOK
<1>8. Traced'
  <2>1. ASSUME NEW x \in committed \cup {h}, x # Root
        PROVE  Journal(x) \in Kept' \/ TombstonedBy(h, x)'
    <3>1. x \in committed \cup {current}
      BY DEF Heads, StoreInv, HeadsOK
    <3>2. Journal(x) \in Kept \/ TombstonedBy(h, x)
      BY <3>1, <2>1 DEF StoreInv, Traced
    <3>3. TombstonedBy(h, x) => TombstonedBy(h, x)'
      BY <1>4 DEF TombstonedBy, DeleteFiles, Journal
    <3>4. QED
      BY <3>2, <3>3
  <2>2. committed' \cup {current'} = committed \cup {h}
    OBVIOUS
  <2>3. QED
    BY <2>1, <2>2, <1>6 DEF Traced, Journal
<1>9. JournalsOK'
  <2>1. ASSUME NEW f \in Epochs, journal[f].cleaned
        PROVE  f \in EpochsOf(h) /\ DeleteFiles(f)' \cap (files' \cup durable') = {}
    <3>1. f \in EpochsOf(h) /\ DeleteFiles(f) \cap (files \cup durable) = {}
      BY <2>1 DEF StoreInv, JournalsOK, Heads
    <3>2. DeleteFiles(f)' = DeleteFiles(f)
      BY DEF DeleteFiles
    <3>3. QED
      BY <3>1, <3>2
  <2>2. EpochsOf(current)' = EpochsOf(h) /\ EpochsOf(stable)' = EpochsOf(h)
    BY DEF EpochsOf
  <2>3. journal' \in [Epochs -> JournalOf]
    BY DEF StoreInv, JournalsOK
  <2>4. QED
    BY <2>1, <2>2, <2>3 DEF JournalsOK
<1>10. QED
  BY <1>1, <1>3, <1>7, <1>8, <1>9 DEF StoreInv

LEMMA SyncCurrentInv ==
  ASSUME IndInv, NEW c \in Compactors, SyncCurrent(c), UNCHANGED <<proposals, reader>>
  PROVE  IndInv'
<1>1. StoreInv /\ ProcessInv
  BY IndInvParts
<1>2. PICK e, h : e = job[c] /\ h = current
  OBVIOUS
<1>3. /\ pc[c] = "sync" /\ Goto(c, "current_receipt") /\ current' = h /\ stable' = h
      /\ committed' = committed \cup {h}
      /\ UNCHANGED <<files, durable, manifest, journal, plan, rpc, seen>>
  BY <1>2 DEF SyncCurrent, proposals, reader
<1>4. pc[c] # "idle" /\ "current_receipt" \in Steps
  BY <1>3 DEF Steps
<1>5. e \in KnownIds /\ h = e
  BY <1>2, <1>3, <1>4, CompactorFacts DEF Arrived
<1>6. StoreInv' /\ KnownIds' = KnownIds
  <2>1. h \in Heads /\ Kept' = Kept
    BY <1>2, <1>3 DEF Heads, Kept
  <2>2. QED
    BY <1>1, <1>3, <2>1, SyncedHeads
<1>7. OnTheWay("current_receipt", e)' /\ Arrived("current_receipt", e)'
  BY <1>3, <1>5, OrderOfSteps DEF OnTheWay, Arrived, FromJournal, FromReceipt, Cleaning
<1>8. ProcessInv'
  BY <1>1, <1>2, <1>3, <1>4, <1>5, <1>6, <1>7, CompactorMoves
<1>9. QED
  BY <1>6, <1>8 DEF StoreInv, ProcessInv, IndInv

LEMMA CurrentReceiptInv ==
  ASSUME IndInv, NEW c \in Compactors, CurrentReceipt(c), UNCHANGED <<proposals, reader>>
  PROVE  IndInv'
<1>1. StoreInv /\ ProcessInv
  BY IndInvParts
<1>2. PICK e, j : e = job[c] /\ j = [journal[e] EXCEPT !.stage = "committed", !.current = TRUE]
  OBVIOUS
<1>3. /\ pc[c] = "current_receipt" /\ Goto(c, "reconcile")
      /\ journal' = [journal EXCEPT ![e] = j] /\ files' = files \cup {Journal(e)}
      /\ UNCHANGED <<durable, current, stable, manifest, committed, plan, rpc, seen>>
  BY <1>2 DEF CurrentReceipt, WriteJournal, proposals, reader
<1>4. pc[c] # "idle" /\ "reconcile" \in Steps
  BY <1>3 DEF Steps
<1>5. e \in Epochs /\ e \in KnownIds /\ current = e /\ stable = current /\ Line(e) = {e}
  BY <1>2, <1>3, <1>4, CompactorFacts DEF Arrived
<1>6. journal \in [Epochs -> JournalOf]
  BY <1>1 DEF StoreInv, JournalsOK
<1>7. j \in JournalOf /\ j.cleaned = journal[e].cleaned
  BY <1>2, <1>5, <1>6 DEF JournalOf
<1>8. journal' \in [Epochs -> JournalOf]
      /\ \A f \in Epochs : journal'[f].cleaned => journal[f].cleaned
  BY <1>3, <1>5, <1>6, <1>7
<1>9. Journal(e) \in Footprint(e)
  BY OwnNames DEF Footprint
<1>10. Writes(e)
  BY <1>3, <1>5, <1>8, <1>9 DEF Writes, SameHeads
<1>11. StoreInv' /\ KnownIds' = KnownIds
  BY <1>1, <1>10, WritesKeeps
<1>12. OnTheWay("reconcile", e)' /\ Arrived("reconcile", e)'
  BY <1>3, <1>5, OrderOfSteps
  DEF OnTheWay, Arrived, FromJournal, FromReceipt, Cleaning, Line
<1>13. ProcessInv'
  BY <1>1, <1>2, <1>3, <1>4, <1>5, <1>11, <1>12, CompactorMoves
<1>14. QED
  BY <1>11, <1>13 DEF StoreInv, ProcessInv, IndInv

LEMMA ReconcileInv ==
  ASSUME IndInv, NEW c \in Compactors, Reconcile(c), UNCHANGED <<proposals, reader>>
  PROVE  IndInv'
<1>1. StoreInv /\ ProcessInv
  BY IndInvParts
<1>2. PICK e : e = job[c]
  OBVIOUS
<1>3. /\ pc[c] = "reconcile" /\ pc[c] # "idle"
      /\ UNCHANGED <<durable, current, stable, manifest, committed, plan, rpc, seen>>
  BY DEF Reconcile, proposals, reader
<1>4. /\ e \in Epochs /\ e \in KnownIds /\ e \in Line(current)
      /\ EpochsOf(e) = EpochsOf(current)
  BY <1>2, <1>3, CompactorFacts DEF Arrived
<1>5. CASE UNCHANGED <<files, journal>> /\ Release(c)
  <2>1. StoreInv'
    BY <1>1, <1>3, <1>5, StoreStutters DEF store
  <2>2. ProcessInv'
    BY <1>1, <1>3, <1>5, CompactorEnds
  <2>3. QED
    BY <2>1, <2>2 DEF StoreInv, ProcessInv, IndInv
<1>6. CASE /\ JournalObserved(e)
           /\ IF journal[e].candidate /\ journal[e].current
              THEN Goto(c, "delete") ELSE Release(c)
  <2>1. journal \in [Epochs -> JournalOf]
    BY <1>1 DEF StoreInv, JournalsOK
  <2>2. PICK j : j = [journal[e] EXCEPT !.stage = "committed", !.observed = TRUE]
    OBVIOUS
  <2>3. journal' = [journal EXCEPT ![e] = j] /\ files' = files \cup {Journal(e), Observed(e)}
    BY <1>4, <1>6, <2>1, <2>2 DEF JournalObserved, JournalOf
  <2>4. j \in JournalOf /\ j.cleaned = journal[e].cleaned /\ j.current = journal[e].current
    BY <1>4, <2>1, <2>2 DEF JournalOf
  <2>5. /\ journal' \in [Epochs -> JournalOf]
        /\ \A f \in Epochs : journal'[f].cleaned => journal[f].cleaned
        /\ \A f \in Epochs : journal'[f].current = journal[f].current
    BY <1>4, <2>1, <2>3, <2>4
  <2>6. stable # current => ~journal'[current].current
    BY <1>1, <2>5 DEF StoreInv, HeadsOK
  <2>7. Journal(e) \in Footprint(e) /\ Observed(e) \in Footprint(e)
    BY OwnNames DEF Footprint
  <2>8. Writes(e)
    BY <1>3, <1>4, <2>3, <2>5, <2>6, <2>7 DEF Writes, SameHeads
  <2>9. StoreInv' /\ KnownIds' = KnownIds
    BY <1>1, <2>8, WritesKeeps
  <2>10. ASSUME journal[e].current, Goto(c, "delete") PROVE ProcessInv'
    <3>1. stable = current
      <4>1. SUFFICES ASSUME stable # current PROVE FALSE
        OBVIOUS
      <4>2. current \in Epochs /\ current \in KnownIds /\ ~journal[current].current
        BY <1>1, <4>1 DEF StoreInv, HeadsOK, Heads
      <4>3. Line(current) = {current}
        BY <1>1, <4>2, ActiveOfEpoch DEF StoreInv
      <4>4. QED
        BY <1>4, <2>10, <4>2, <4>3
    <3>2. OnTheWay("delete", e)' /\ Arrived("delete", e)'
      BY <1>3, <1>4, <3>1, OrderOfSteps
      DEF OnTheWay, Arrived, FromJournal, FromReceipt, Cleaning, Line
    <3>3. "delete" \in Steps
      BY DEF Steps, Cleaning
    <3>4. QED
      BY <1>1, <1>2, <1>3, <1>4, <2>9, <2>10, <3>2, <3>3, CompactorMoves
  <2>11. ASSUME Release(c) PROVE ProcessInv'
    BY <1>1, <1>3, <2>11, CompactorEnds
  <2>12. QED
    BY <1>6, <2>9, <2>10, <2>11 DEF StoreInv, ProcessInv, IndInv
<1>7. QED
  BY <1>2, <1>5, <1>6 DEF Reconcile

-----------------------------------------------------------------------------
(* Cleanup, failures and power losses.                                     *)

\* A cleanup behind CURRENT's own epoch, whole or interrupted.
LEMMA Removes ==
  ASSUME StoreInv, NEW e \in Line(current), e \in Epochs, stable = current,
         UNCHANGED <<current, stable, manifest, journal, committed, plan>>,
         files' \subseteq files, durable' \subseteq durable,
         files \ files' \subseteq DeleteFiles(e), durable \ durable' \subseteq DeleteFiles(e)
  PROVE  StoreInv' /\ KnownIds' = KnownIds
<1>1. Graph' /\ Keeps /\ KnownIds' = KnownIds
  BY GraphStutters DEF StoreInv
<1>2. PICK h : h = current
  OBVIOUS
<1>3. h \in KnownIds /\ Needed(h) \subseteq Kept /\ Heads = {h}
  BY <1>2 DEF StoreInv, HeadsOK, Heads
<1>4. e \in EpochsOf(h)
  <2>1. LineOK(h)
    BY <1>3 DEF StoreInv, Graph
  <2>2. e \in KnownIds /\ EpochsOf(e) = EpochsOf(h)
    BY <1>2, <2>1 DEF LineOK
  <2>3. QED
    BY <2>2, ActiveOfEpoch DEF StoreInv
<1>5. Cleanup'
  BY <1>1, <1>3, CleanupStep DEF StoreInv
<1>6. SameHeads
  BY DEF SameHeads
<1>7. HeadsOK'
  <2>1. Needed(h) \cap DeleteFiles(e) = {}
    BY <1>3, <1>4, NeededSpared DEF StoreInv
  <2>2. \A y \in Heads : Needed(y) \subseteq Kept'
    BY <1>3, <2>1 DEF Kept
  <2>3. QED
    BY <1>1, <1>6, <2>2, HeadsStay DEF StoreInv
<1>8. Traced'
  <2>1. \A x \in committed \cup {current}, y \in Heads :
           Journal(x) \in Kept => Journal(x) \in Kept' \/ TombstonedBy(y, x)
    BY <1>3, <1>4 DEF Kept, TombstonedBy
  <2>2. QED
    BY <1>1, <1>6, <2>1, TracedStays DEF StoreInv
<1>9. JournalsOK'
  <2>1. EpochsOf(h)' = EpochsOf(h) /\ h \in KnownIds'
    BY <1>1, <1>3, Same DEF StoreInv
  <2>2. journal' \in [Epochs -> JournalOf]
    BY DEF StoreInv, JournalsOK
  <2>3. QED
    BY <1>1, <1>2, <1>5, <1>6, <2>1, <2>2, JournalsStay DEF StoreInv
<1>10. QED
  BY <1>1, <1>5, <1>7, <1>8, <1>9 DEF StoreInv

LEMMA DeleteInv ==
  ASSUME IndInv, NEW c \in Compactors, Delete(c), UNCHANGED <<proposals, reader>>
  PROVE  IndInv'
<1>1. StoreInv /\ ProcessInv
  BY IndInvParts
<1>2. PICK e : e = job[c]
  OBVIOUS
<1>3. /\ pc[c] = "delete" /\ Goto(c, "sync_parents") /\ files' = files \ DeleteFiles(e)
      /\ UNCHANGED <<durable, current, stable, manifest, journal, committed, plan, rpc, seen>>
  BY <1>2 DEF Delete, proposals, reader
<1>4. pc[c] # "idle" /\ "sync_parents" \in Steps
  BY <1>3 DEF Steps, Cleaning
<1>5. e \in Epochs /\ e \in KnownIds /\ e \in Line(current) /\ stable = current
  BY <1>2, <1>3, <1>4, CompactorFacts DEF Arrived, Cleaning
<1>6. StoreInv' /\ KnownIds' = KnownIds
  BY <1>1, <1>3, <1>5, Removes
<1>7. OnTheWay("sync_parents", e)' /\ Arrived("sync_parents", e)'
  BY <1>3, <1>5, OrderOfSteps
  DEF OnTheWay, Arrived, FromJournal, FromReceipt, Cleaning, Line, DeleteFiles
<1>8. ProcessInv'
  BY <1>1, <1>2, <1>3, <1>4, <1>5, <1>6, <1>7, CompactorMoves
<1>9. QED
  BY <1>6, <1>8 DEF StoreInv, ProcessInv, IndInv

LEMMA SyncParentsInv ==
  ASSUME IndInv, NEW c \in Compactors, SyncParents(c), UNCHANGED <<proposals, reader>>
  PROVE  IndInv'
<1>1. StoreInv /\ ProcessInv
  BY IndInvParts
<1>2. PICK e : e = job[c]
  OBVIOUS
<1>3. /\ pc[c] = "sync_parents" /\ Goto(c, "cleanup_receipt")
      /\ durable' = durable \ DeleteFiles(e)
      /\ UNCHANGED <<files, current, stable, manifest, journal, committed, plan, rpc, seen>>
  BY <1>2 DEF SyncParents, proposals, reader
<1>4. pc[c] # "idle" /\ "cleanup_receipt" \in Steps
  BY <1>3 DEF Steps, Cleaning
<1>5. /\ e \in Epochs /\ e \in KnownIds /\ e \in Line(current) /\ stable = current
      /\ DeleteFiles(e) \cap files = {}
  BY <1>2, <1>3, <1>4, CompactorFacts DEF Arrived, Cleaning
<1>6. StoreInv' /\ KnownIds' = KnownIds
  BY <1>1, <1>3, <1>5, Removes
<1>7. OnTheWay("cleanup_receipt", e)' /\ Arrived("cleanup_receipt", e)'
  <2>1. DeleteFiles(e)' = DeleteFiles(e) /\ Line(current)' = Line(current)
    BY <1>3 DEF DeleteFiles, Line
  <2>2. QED
    BY <2>1, <1>3, <1>5, OrderOfSteps
    DEF OnTheWay, Arrived, FromJournal, FromReceipt, Cleaning
<1>8. ProcessInv'
  BY <1>1, <1>2, <1>3, <1>4, <1>5, <1>6, <1>7, CompactorMoves
<1>9. QED
  BY <1>6, <1>8 DEF StoreInv, ProcessInv, IndInv

LEMMA CleanupReceiptInv ==
  ASSUME IndInv, NEW c \in Compactors, CleanupReceipt(c), UNCHANGED <<proposals, reader>>
  PROVE  IndInv'
<1>1. StoreInv /\ ProcessInv
  BY IndInvParts
<1>2. PICK e, j : e = job[c] /\ j = [journal[e] EXCEPT !.cleaned = TRUE]
  OBVIOUS
<1>3. /\ pc[c] = "cleanup_receipt" /\ pc[c] # "idle" /\ Release(c)
      /\ journal' = [journal EXCEPT ![e] = j] /\ files' = files \cup {Journal(e)}
      /\ UNCHANGED <<durable, current, stable, manifest, committed, plan, rpc, seen>>
  BY <1>2 DEF CleanupReceipt, WriteJournal, proposals, reader
<1>4. /\ e \in Epochs /\ e \in KnownIds /\ e \in Line(current) /\ stable = current
      /\ DeleteFiles(e) \cap files = {} /\ DeleteFiles(e) \cap durable = {}
      /\ EpochsOf(e) = EpochsOf(current) /\ e \in EpochsOf(current)
  BY <1>2, <1>3, CompactorFacts DEF Arrived, Cleaning
<1>5. journal \in [Epochs -> JournalOf]
  BY <1>1 DEF StoreInv, JournalsOK
<1>6. j \in JournalOf
  BY <1>2, <1>4, <1>5 DEF JournalOf
<1>7. Clean(e)
  BY <1>4 DEF Clean
<1>8. journal' \in [Epochs -> JournalOf]
      /\ \A f \in Epochs : journal'[f].cleaned => journal[f].cleaned \/ Clean(f)
  BY <1>3, <1>4, <1>5, <1>6, <1>7
<1>9. Journal(e) \in Footprint(e)
  BY OwnNames DEF Footprint
<1>10. Writes(e)
  BY <1>3, <1>4, <1>8, <1>9 DEF Writes, SameHeads
<1>11. StoreInv'
  BY <1>1, <1>10, WritesKeeps
<1>12. ProcessInv'
  BY <1>1, <1>3, CompactorEnds
<1>13. QED
  BY <1>11, <1>12 DEF StoreInv, ProcessInv, IndInv

LEMMA FailInv ==
  ASSUME IndInv, NEW c \in Compactors, Fail(c), UNCHANGED <<proposals, reader>>
  PROVE  IndInv'
<1>1. StoreInv /\ ProcessInv
  BY IndInvParts
<1>2. PICK e : e = job[c]
  OBVIOUS
<1>3. /\ pc[c] # "idle" /\ Release(c)
      /\ UNCHANGED <<durable, current, stable, manifest, journal, committed, plan, rpc, seen>>
  BY DEF Fail, proposals, reader
<1>4. ProcessInv'
  BY <1>1, <1>3, CompactorEnds
<1>5. CASE UNCHANGED files
  BY <1>1, <1>3, <1>4, <1>5, StoreStutters DEF store, StoreInv, ProcessInv, IndInv
<1>6. CASE pc[c] = "delete" /\ \E gone \in Interrupted(DeleteFiles(e)) : files' = files \ gone
  <2>1. PICK gone \in Interrupted(DeleteFiles(e)) : files' = files \ gone
    BY <1>6
  <2>2. gone \subseteq DeleteFiles(e)
    BY <2>1 DEF Interrupted, Prefixes
  <2>3. e \in Epochs /\ e \in Line(current) /\ stable = current
    BY <1>2, <1>3, <1>6, CompactorFacts DEF Arrived, Cleaning
  <2>4. StoreInv'
    BY <1>1, <1>3, <2>1, <2>2, <2>3, Removes
  <2>5. QED
    BY <2>4, <1>4 DEF StoreInv, ProcessInv, IndInv
<1>7. QED
  BY <1>2, <1>5, <1>6 DEF Fail

LEMMA PowerLossInv ==
  ASSUME IndInv, PowerLoss
  PROVE  IndInv'
<1>1. StoreInv /\ ProcessInv
  BY IndInvParts
<1>2. PICK S \in SUBSET ((files \ durable) \cup (durable \ files)) :
        files' = (files \cap durable) \cup S
  BY DEF PowerLoss
<1>3. PICK h : h = current'
  OBVIOUS
<1>4. /\ h \in Heads /\ current' = h /\ stable' = h /\ committed' = committed \cup {h}
      /\ durable' = files' /\ lock' = Nobody
      /\ pc' = [c \in Compactors |-> "idle"] /\ rpc' = [r \in Readers |-> "out"]
      /\ UNCHANGED <<manifest, journal, plan, job, seen>>
  BY <1>3 DEF PowerLoss, Heads
<1>5. Kept \subseteq Kept' /\ files' \cup durable' \subseteq files \cup durable
  BY <1>2, <1>4 DEF Kept
<1>6. StoreInv'
  BY <1>1, <1>4, <1>5, SyncedHeads
<1>7. CompactorsOK'
  BY <1>1, <1>4 DEF ProcessInv, CompactorsOK, Steps
<1>8. WriterOK'
  BY <1>4, Unlocked
<1>9. ReadersOK'
  BY <1>1, <1>4 DEF ProcessInv, ReadersOK
<1>10. QED
  BY <1>6, <1>7, <1>8, <1>9 DEF StoreInv, IndInv

-----------------------------------------------------------------------------
(* The invariant.                                                          *)

LEMMA InitInv == Init => IndInv
<1> SUFFICES ASSUME Init PROVE IndInv
  OBVIOUS
<1> USE NamesAssumption
<1>1. /\ manifest = [x \in Ids |-> IF x = Root THEN Genesis ELSE NoManifest]
      /\ plan = [e \in Epochs |-> NoPlan]
      /\ files = {Revision(Root)} /\ durable = files /\ current = Root /\ stable = Root
      /\ journal = [e \in Epochs |-> NoJournal] /\ lock = Nobody
      /\ pc = [c \in Compactors |-> "idle"] /\ job \in [Compactors -> Epochs]
      /\ rpc = [r \in Readers |-> "out"] /\ seen = [r \in Readers |-> Root]
      /\ committed = {Root}
  BY DEF Init
<1>2. Root \in Ids /\ Root \notin Epochs /\ Root \notin Txs
  BY DEF Ids
<1>3. Genesis # NoManifest /\ Genesis \in ManifestOf /\ NoManifest \in ManifestOf
      /\ Genesis.line = {Root} /\ Genesis.epochs = {} /\ Genesis.segs = {} /\ Genesis.dead = {}
      /\ Genesis.parent = Root
  BY <1>2 DEF Genesis, NoManifest, ManifestOf
<1>4. KnownIds = {Root}
  BY <1>1, <1>2, <1>3 DEF KnownIds, Known
<1>5. manifest[Root] = Genesis /\ Line(Root) = {Root} /\ EpochsOf(Root) = {}
      /\ Behind(Root) = {} /\ Past(Root) = {}
  BY <1>1, <1>2, <1>3 DEF Line, EpochsOf, Behind, Past
<1>6. GraphTypes
  BY <1>1, <1>2, <1>3 DEF GraphTypes, Known, Ids
<1>7. RevisionOK(Root)
  BY <1>2, <1>3, <1>4, <1>5 DEF RevisionOK, LineOK, ChainOK, PastOK, RowsOf
<1>8. Graph
  BY <1>4, <1>6, <1>7, GraphParts
<1>9. Needed(Root) = {Revision(Root)}
  BY <1>3, <1>5 DEF Needed
<1>10. Cleanup
  <2>1. Owned(files) /\ Owned(durable)
    BY <1>1, <1>4, OwnNames DEF Owned, Footprint
  <2>2. QED
    BY <2>1, <1>1, <1>4, <1>5 DEF Cleanup, Spared
<1>11. HeadsOK
  BY <1>1, <1>4, <1>5, <1>9 DEF HeadsOK, Heads, Kept
<1>12. Traced
  BY <1>1 DEF Traced
<1>13. JournalsOK
  BY <1>1 DEF JournalsOK, JournalOf, NoJournal
<1>14. CompactorsOK /\ WriterOK
  BY <1>1 DEF CompactorsOK, WriterOK, Steps
<1>15. ReadersOK
  BY <1>1, <1>2 DEF ReadersOK
<1>16. QED
  BY <1>8, <1>10, <1>11, <1>12, <1>13, <1>14, <1>15 DEF IndInv

LEMMA NextInv ==
  ASSUME ~ReuseRows, IndInv, [Next]_vars
  PROVE  IndInv'
<1>1. ASSUME NEW t \in Txs,
             \/ Write(t) /\ UNCHANGED faults
             \/ Abandon(t) /\ faults' = faults + 1,
             UNCHANGED <<proposals, compactor, reader, losses>>
      PROVE  IndInv'
  BY <1>1, PrepareInv, RetryInv, PublishInv, AbandonInv DEF Write
<1>2. ASSUME NEW r \in Readers, Read(r), UNCHANGED <<store, proposals, lock, compactor, counts>>
      PROVE  IndInv'
  BY <1>2, ReadInv
<1>3. ASSUME NEW e \in Epochs, Export(e), UNCHANGED <<store, lock, compactor, reader, counts>>
      PROVE  IndInv'
  BY <1>3, ExportInv
<1>4. ASSUME NEW e \in Epochs, PlanCompaction(e), UNCHANGED <<lock, compactor, reader, counts>>
      PROVE  IndInv'
  BY <1>4, PlanInv
<1>5. ASSUME NEW e \in Epochs, NEW c \in Compactors, CommitLock(c, e),
             UNCHANGED <<proposals, reader, counts>>
      PROVE  IndInv'
  BY <1>5, CommitLockInv
<1>6. ASSUME NEW c \in Compactors,
             \/ Step(c) /\ UNCHANGED faults
             \/ Fail(c) /\ faults' = faults + 1,
             UNCHANGED <<proposals, reader, losses>>
      PROVE  IndInv'
  BY <1>6, WriteObjectsInv, JournalPreparedInv, CandidateReceiptInv, ReplaceCurrentInv,
     SyncCurrentInv, CurrentReceiptInv, ReconcileInv, DeleteInv, SyncParentsInv,
     CleanupReceiptInv, FailInv DEF Step
<1>7. CASE UNCHANGED vars
  <2>1. UNCHANGED store /\ UNCHANGED <<plan, pc, job, rpc, seen, lock>>
    BY <1>7 DEF vars, store
  <2>2. StoreInv' /\ KnownIds' = KnownIds
    BY <2>1, StoreStutters, IndInvParts
  <2>3. UNCHANGED <<files, durable, current, stable, manifest, journal, committed>>
    BY <2>1 DEF store
  <2>4. ASSUME NEW s1, NEW e1 PROVE OnTheWay(s1, e1)' = OnTheWay(s1, e1)
                                    /\ Arrived(s1, e1)' = Arrived(s1, e1)
    BY <2>1, <2>3 DEF OnTheWay, Arrived, Line, Segments, Kept, Needed, DeleteFiles
  <2>5. CompactorsOK'
    BY <2>1, <2>2, <2>4 DEF IndInv, CompactorsOK
  <2>6. WriterOK'
    BY <2>1, <2>2, <2>3 DEF IndInv, WriterOK, Objects
  <2>7. ReadersOK'
    BY <2>1, <2>2, <2>3 DEF IndInv, ReadersOK, Needed, Line
  <2>8. QED
    BY <2>2, <2>5, <2>6, <2>7 DEF StoreInv, IndInv
<1>8. QED
  BY <1>1, <1>2, <1>3, <1>4, <1>5, <1>6, <1>7, PowerLossInv DEF Next

-----------------------------------------------------------------------------
(* The theorems.  In each of them a compacted record is not written again. *)

\* The store, the journals and the processes stay as IndInv says, through every
\* interleaving of writers, readers and compactors, failures and power losses.
THEOREM CompactionInvariant ==
  ASSUME ~ReuseRows
  PROVE  Spec => []IndInv
<1>1. IndInv /\ [Next]_vars => IndInv'
  BY NextInv
<1>2. QED
  BY <1>1, InitInv, PTL DEF Spec

\* The snapshot of CURRENT, and of the CURRENT that a power loss would leave, is
\* complete: delete_exact never removes what _snapshot_under_gate needs.
THEOREM SnapshotComplete ==
  ASSUME ~ReuseRows
  PROVE  Spec => []CurrentReadable
<1>1. IndInv => CurrentReadable
  BY DEF IndInv, HeadsOK, Heads, Kept, CurrentReadable, Readable
<1>2. QED
  BY <1>1, CompactionInvariant, PTL

\* A reader inside shared_reader_gate finishes the snapshot that it began.
THEOREM GateProtects ==
  ASSUME ~ReuseRows
  PROVE  Spec => []ReadersIntact
<1>1. IndInv => ReadersIntact
  BY DEF IndInv, ReadersOK, ReadersIntact
<1>2. QED
  BY <1>1, CompactionInvariant, PTL

\* A cleanup receipt is true: what it covers is not in the store and no power loss
\* brings it back.
THEOREM CleanupIsFinal ==
  ASSUME ~ReuseRows
  PROVE  Spec => []CleanedHolds
<1>1. IndInv => CleanedHolds
  BY DEF IndInv, JournalsOK, CleanedHolds
<1>2. QED
  BY <1>1, CompactionInvariant, PTL

\* The newest catalog of a revision archives what all its catalogs do.
LEMMA NewestArchives ==
  ASSUME Graph, NEW x \in KnownIds, EpochsOf(x) # {}
  PROVE  Newest(x) \in EpochsOf(x) /\ Behind(x) \subseteq plan[Newest(x)].archived
<1>1. ChainOK(x)
  BY DEF Graph
<1>2. PICK n \in EpochsOf(x) : EpochsOf(n) = EpochsOf(x)
  BY <1>1 DEF ChainOK
<1>3. n \in Epochs /\ n \in KnownIds
  BY <1>2, EpochsKnown
<1>4. EpochsOf(x) = plan[n].prev \cup {n}
  BY <1>2, <1>3 DEF Graph, Compacted
<1>5. PICK m : m = Newest(x)
  OBVIOUS
<1>6. m \in EpochsOf(x) /\ EpochsOf(x) = plan[m].prev \cup {m}
  BY <1>2, <1>4, <1>5 DEF Newest, EpochsOf
<1>7. m \in Epochs /\ m \in KnownIds
  BY <1>6, EpochsKnown
<1>8. PICK b : b = manifest[m].parent
  OBVIOUS
<1>9. plan[m].prev = EpochsOf(b) /\ plan[m].archived = Line(b) \cup Behind(b)
  BY <1>7, <1>8 DEF Graph, Compacted
<1>10. ASSUME NEW f \in EpochsOf(x) PROVE plan[f].archived \subseteq plan[m].archived
  <2>1. f = m \/ f \in EpochsOf(b)
    BY <1>6, <1>9
  <2>2. f \in EpochsOf(b) => plan[f].archived \subseteq Behind(b)
    BY DEF Behind
  <2>3. QED
    BY <2>1, <2>2, <1>9
<1>11. QED
  BY <1>5, <1>6, <1>10 DEF Behind

\* verify_revision of a revision that CURRENT has named.
LEMMA VerifiedRevision ==
  ASSUME IndInv, NEW x \in committed
  PROVE  verify_revision(x) \in {"archived", "present"}
<1>1. PICK b : b = current
  OBVIOUS
<1>2. /\ Graph /\ b \in KnownIds /\ x \in KnownIds /\ Needed(b) \subseteq files
      /\ x \in Line(b) \cup Behind(b)
  BY <1>1 DEF IndInv, HeadsOK, Heads, Kept
<1>3. CASE x \in Behind(b)
  <2>1. EpochsOf(b) # {}
    BY <1>3 DEF Behind
  <2>2. x \in plan[Newest(b)].archived
    BY <2>1, <1>2, <1>3, NewestArchives
  <2>3. QED
    BY <1>1, <2>1, <2>2 DEF verify_revision, EpochsOf
<1>4. CASE x \in Line(b)
  <2>1. Needed(x) \subseteq files
    BY <1>2, <1>4, NeededWithin
  <2>2. LineOK(x)
    BY <1>2 DEF Graph
  <2>3. Revision(x) \in Needed(x)
    BY <2>2 DEF LineOK, Needed
  <2>4. Readable(x) /\ Revision(x) \in files
    BY <2>1, <2>3 DEF Readable
  <2>5. QED
    BY <2>4 DEF verify_revision
<1>5. QED
  BY <1>2, <1>3, <1>4

\* inspect_transaction of a revision that CURRENT has named.
LEMMA InspectedTransaction ==
  ASSUME IndInv, NEW x \in committed, x # Root
  PROVE  inspect_transaction(x) \notin {"not_committed", "missing"}
<1>1. PICK b : b = current
  OBVIOUS
<1>2. /\ Graph /\ b \in KnownIds /\ x \in KnownIds
      /\ x \in Line(b) \cup Behind(b)
  BY <1>1 DEF IndInv, HeadsOK, Heads
<1>3. Journal(x) \in files \/ Tombstoned(x)
  BY <1>1 DEF IndInv, Traced, Heads, Kept, TombstonedBy, Tombstoned, EpochsOf
<1>4. x \notin Line(b) => b # manifest[x].parent
  <2> SUFFICES ASSUME x \notin Line(b) PROVE b # manifest[x].parent
    OBVIOUS
  <2>1. PastOK(b) /\ PastOK(x)
    BY <1>2 DEF Graph
  <2>2. x \in Past(b)
    BY <1>2 DEF Past
  <2>3. manifest[x].parent \in Past(b) /\ b \notin Past(b)
    BY <2>1, <2>2 DEF PastOK
  <2>4. QED
    BY <2>3
<1>5. CASE ~Evidence(x)
  <2>1. Tombstoned(x)
    BY <1>3, <1>5 DEF Evidence
  <2>2. QED
    BY <2>1, <1>5 DEF inspect_transaction
<1>6. CASE Evidence(x) /\ x \in Line(current)
  BY <1>6 DEF inspect_transaction
<1>7. CASE Evidence(x) /\ x \notin Line(current)
  <2>1. current # manifest[x].parent
    BY <1>1, <1>4, <1>7
  <2>2. QED
    BY <2>1, <1>7 DEF inspect_transaction
<1>8. QED
  BY <1>5, <1>6, <1>7

\* A revision that CURRENT has named is present or archived for verify_revision, and
\* its transaction never not committed or missing, whatever compactions have deleted.
THEOREM HistoryStaysKnown ==
  ASSUME ~ReuseRows
  PROVE  Spec => []Available
<1>1. IndInv => Available
  BY VerifiedRevision, InspectedTransaction DEF Available
<1>2. QED
  BY <1>1, CompactionInvariant, PTL

-----------------------------------------------------------------------------
(* The store implements the memory a reader sees.                          *)

Shown == Active(current)
MemoryStep == [M!MemoryNext]_Shown

\* A step that fixes new revisions at most and leaves CURRENT shows the same.
LEMMA ShowsTheSame ==
  ASSUME IndInv, Keeps, UNCHANGED current
  PROVE  MemoryStep
<1>1. PICK b : b = current
  OBVIOUS
<1>2. Graph /\ b \in KnownIds
  BY <1>1 DEF IndInv, HeadsOK, Heads
<1>3. Active(b)' = Active(b)
  BY <1>2, Same
<1>4. Shown' = Active(b)'
  BY <1>1 DEF Shown, Active, RowsOf
<1>5. Shown' = Shown
  BY <1>1, <1>3, <1>4 DEF Shown
<1>6. QED
  BY <1>5 DEF MemoryStep

LEMMA KeepsUnchanged ==
  ASSUME UNCHANGED <<manifest, plan>>
  PROVE  Keeps
BY DEF Keeps, KnownIds, Known

\* The rows of a writer's revision that it shows, those of its parent but one and
\* a new one.
LEMMA WroteActive ==
  ASSUME Graph, NEW t \in Txs, t \in KnownIds, NEW b, b = manifest[t].parent
  PROVE  \E r \in Rows : \E d \in {{}} \cup {{x} : x \in Rows} :
           /\ r \notin Active(b) /\ d \subseteq Active(b)
           /\ Active(t) = (Active(b) \ d) \cup {r}
<1>1. Wrote(t) /\ b \in KnownIds
  BY DEF Graph
<1>2. PICK r \in Rows \ RowsOf(b), d \in {{}} \cup {{a} : a \in Active(b)} :
        /\ manifest[t].segs = manifest[b].segs \cup {{r}}
        /\ manifest[t].dead = manifest[b].dead \cup d
  BY <1>1 DEF Wrote
<1>3. RowsOf(t) = RowsOf(b) \cup {r}
  BY <1>2 DEF RowsOf
<1>4. manifest[b].dead \subseteq RowsOf(b) /\ RowsOf(b) \subseteq Rows
  BY <1>1 DEF Graph, GraphTypes, ManifestOf, RowsOf, KnownIds
<1>5. r \notin Active(b) /\ d \subseteq Active(b) /\ Active(b) \subseteq Rows
  BY <1>2, <1>4 DEF Active
<1>6. d \subseteq RowsOf(b)
  BY <1>5 DEF Active
<1>7. Active(t) = (Active(b) \ d) \cup {r}
  BY <1>2, <1>3, <1>4, <1>6 DEF Active
<1>8. d \in {{}} \cup {{x} : x \in Rows}
  BY <1>2, <1>5
<1>9. QED
  BY <1>2, <1>5, <1>7, <1>8

LEMMA PublishMemory ==
  ASSUME IndInv, NEW t \in Txs, Publish(t)
  PROVE  MemoryStep
<1>1. PICK b : b = current
  OBVIOUS
<1>2. lock = t /\ current' = t /\ manifest' = manifest
  BY DEF Publish
<1>3. Graph /\ t \in KnownIds /\ manifest[t].parent = b
  BY <1>1, <1>2 DEF IndInv, WriterOK
<1>4. PICK r \in Rows : \E d \in {{}} \cup {{x} : x \in Rows} :
        /\ r \notin Active(b) /\ d \subseteq Active(b)
        /\ Active(t) = (Active(b) \ d) \cup {r}
  <2>1. b = manifest[t].parent
    BY <1>3
  <2>2. QED
    BY <1>3, <2>1, WroteActive, Zenon
<1>5. PICK d \in {{}} \cup {{x} : x \in Rows} :
        /\ r \notin Active(b) /\ d \subseteq Active(b)
        /\ Active(t) = (Active(b) \ d) \cup {r}
  BY <1>4
<1>6. Active(current)' = Active(t)
  BY <1>2 DEF Active, RowsOf
<1>7. M!WriteRecord(r, d)
  <2>1. r \notin Active(current) /\ d \subseteq Active(current)
    BY <1>1, <1>5
  <2>2. Active(current)' = (Active(current) \ d) \cup {r}
    BY <1>1, <1>5, <1>6
  <2>3. QED
    BY <2>1, <2>2 DEF M!WriteRecord
<1>8. M!MemoryNext
  BY <1>7 DEF M!MemoryNext
<1>9. QED
  BY <1>8 DEF MemoryStep

LEMMA ReplaceMemory ==
  ASSUME IndInv, NEW c \in Compactors, ReplaceCurrent(c)
  PROVE  MemoryStep
<1>1. PICK b, e : b = current /\ e = job[c]
  OBVIOUS
<1>2. pc[c] = "replace" /\ current' = e /\ manifest' = manifest
  BY <1>1 DEF ReplaceCurrent
<1>3. Graph /\ e \in Epochs /\ e \in KnownIds /\ manifest[e].parent = b
  BY <1>1, <1>2 DEF IndInv, CompactorsOK, OnTheWay, Committing, FromCatalog
<1>4. Active(e) = Active(b)
  BY <1>3, ActiveOfEpoch
<1>5. Active(current)' = Active(e)
  BY <1>2 DEF Active, RowsOf
<1>6. QED
  BY <1>1, <1>4, <1>5 DEF MemoryStep, Shown

LEMMA PowerLossMemory ==
  ASSUME IndInv, PowerLoss
  PROVE  MemoryStep
<1>1. PICK b, s : b = current /\ s = stable
  OBVIOUS
<1>2. current' \in {b, s} /\ manifest' = manifest
  BY <1>1 DEF PowerLoss
<1>3. Active(s) = Active(b)
  BY <1>1 DEF IndInv, HeadsOK
<1>4. Active(current)' = Active(b)
  BY <1>2, <1>3 DEF Active, RowsOf
<1>5. QED
  BY <1>1, <1>4 DEF MemoryStep, Shown

\* Every step of the store is a write of the memory or leaves it.
LEMMA NextMemory ==
  ASSUME IndInv, ~ReuseRows, [Next]_vars
  PROVE  MemoryStep
<1>0. StoreInv /\ current \in KnownIds
  BY IndInvParts DEF StoreInv, HeadsOK, Heads
<1>1. ASSUME NEW t \in Txs, Prepare(t), UNCHANGED proposals PROVE MemoryStep
  <2>1. PICK b \in KnownIds : b = current
    BY <1>0
  <2>2. PICK r \in Rows \ RowsOf(b), d \in {{}} \cup {{a} : a \in Active(b)} :
          manifest' = [manifest EXCEPT ![t] = Candidate(t, b, r, d)]
    BY <1>1, <2>1 DEF Prepare, Candidate, Line, EpochsOf
  <2>3. ~Known(t) /\ UNCHANGED <<current, plan>>
    BY <1>1 DEF Prepare, proposals
  <2>4. Keeps
    BY <1>0, <2>2, <2>3, PrepareAdds DEF StoreInv, Adds
  <2>5. QED
    BY <2>3, <2>4, ShowsTheSame
<1>2. ASSUME NEW t \in Txs, Retry(t) \/ Abandon(t), UNCHANGED proposals PROVE MemoryStep
  BY <1>2, KeepsUnchanged, ShowsTheSame DEF Retry, Abandon, store, proposals
<1>3. ASSUME UNCHANGED <<store, plan>> PROVE MemoryStep
  BY <1>3, KeepsUnchanged, ShowsTheSame DEF store
<1>4. ASSUME NEW e \in Epochs, PlanCompaction(e) PROVE MemoryStep
  <2>1. PICK b \in KnownIds : b = current
    BY <1>0
  <2>2. /\ plan[e] = NoPlan /\ plan' = [plan EXCEPT ![e] = Built(e, b)]
        /\ manifest' = [manifest EXCEPT ![e] = Proposal(e, b)] /\ UNCHANGED current
    BY <1>4, <2>1 DEF PlanCompaction, Proposal, EpochsOf
  <2>3. Keeps
    BY <1>0, <2>2, PlanAdds DEF StoreInv, Adds
  <2>4. QED
    BY <2>2, <2>3, ShowsTheSame
<1>5. ASSUME NEW c \in Compactors, Step(c), UNCHANGED proposals PROVE MemoryStep
  <2>1. CASE ReplaceCurrent(c)
    BY <2>1, ReplaceMemory
  <2>2. CASE ~ReplaceCurrent(c)
    <3>1. UNCHANGED <<current, manifest, plan>>
      BY <1>5, <2>2 DEF Step, WriteObjects, JournalPrepared, CandidateReceipt, SyncCurrent,
         CurrentReceipt, Reconcile, Delete, SyncParents, CleanupReceipt, proposals
    <3>2. QED
      BY <3>1, KeepsUnchanged, ShowsTheSame
  <2>3. QED
    BY <2>1, <2>2
<1>6. ASSUME NEW c \in Compactors, Fail(c), UNCHANGED proposals PROVE MemoryStep
  BY <1>6, KeepsUnchanged, ShowsTheSame DEF Fail, proposals
<1>7. CASE \E t \in Txs :
             /\ \/ Write(t) /\ UNCHANGED faults
                \/ Abandon(t) /\ faults' = faults + 1
             /\ UNCHANGED <<proposals, compactor, reader, losses>>
  BY <1>1, <1>2, <1>7, PublishMemory DEF Write
<1>8. CASE \E r \in Readers : Read(r) /\ UNCHANGED <<store, proposals, lock, compactor, counts>>
  BY <1>3, <1>8 DEF proposals
<1>9. CASE \E e \in Epochs :
             \/ Export(e) /\ UNCHANGED <<store, lock, compactor, reader, counts>>
             \/ PlanCompaction(e) /\ UNCHANGED <<lock, compactor, reader, counts>>
             \/ \E c \in Compactors :
                  CommitLock(c, e) /\ UNCHANGED <<proposals, reader, counts>>
  <2>1. ASSUME NEW e \in Epochs, Export(e), UNCHANGED store PROVE MemoryStep
    BY <2>1, <1>3 DEF Export
  <2>2. ASSUME NEW e \in Epochs, NEW c \in Compactors, CommitLock(c, e), UNCHANGED proposals
        PROVE  MemoryStep
    BY <2>2, <1>3 DEF CommitLock, proposals
  <2>3. QED
    BY <2>1, <2>2, <1>4, <1>9
<1>10. CASE \E c \in Compactors :
              /\ \/ Step(c) /\ UNCHANGED faults
                 \/ Fail(c) /\ faults' = faults + 1
              /\ UNCHANGED <<proposals, reader, losses>>
  BY <1>5, <1>6, <1>10
<1>11. CASE UNCHANGED vars
  BY <1>3, <1>11 DEF vars, store
<1>12. QED
  BY <1>7, <1>8, <1>9, <1>10, <1>11, PowerLossMemory DEF Next

\* What readers see of the active records changes with writes only: compactions,
\* their failures and replays, crashes and power losses are invisible.
THEOREM MemoryRefinement ==
  ASSUME ~ReuseRows
  PROVE  Spec => ImplementsMemory
<1>1. Init => M!MemoryInit
  <2> SUFFICES ASSUME Init PROVE Active(current) = {}
    BY DEF M!MemoryInit
  <2>1. current = Root /\ manifest[Root] = Genesis
    BY DEF Init, Ids
  <2>2. QED
    BY <2>1 DEF Active, RowsOf, Genesis, NoManifest
<1>2. MemoryStep = [M!MemoryNext]_(Active(current))
  BY DEF MemoryStep, Shown
<1>3. IndInv /\ [Next]_vars => [M!MemoryNext]_(Active(current))
  BY <1>2, NextMemory
<1>4. QED
  BY <1>1, <1>3, CompactionInvariant, PTL DEF Spec, ImplementsMemory, M!MemorySpec
=============================================================================

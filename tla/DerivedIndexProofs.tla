------------------------- MODULE DerivedIndexProofs -------------------------
(***************************************************************************)
(* Proofs about DerivedIndex, for any number of processes, records,        *)
(* revisions and faults.                                                   *)
(***************************************************************************)
EXTENDS DerivedIndex, TLAPS

-----------------------------------------------------------------------------
(* The answer of a retrieval.                                              *)

\* retrieve answers from the scan when it cannot use the index.
LEMMA ScanAgrees ==
    ASSUME NEW rev, NEW request, NEW d, NEW e
    PROVE  LET a == ScanFallback(rev, request, d)
               b == ScanFallback(rev, request, e)
           IN /\ a.rev = rev /\ a.request = request
              /\ a.selected = b.selected /\ a.excluded = b.excluded
  BY DEF ScanFallback, Result

\* narrow_ranked_with_index never drops a candidate the scan ranks.
LEMMA NarrowedAgrees ==
    ASSUME NEW rev, NEW request, NEW narrowed
    PROVE  LET a == NarrowedResult(rev, request, narrowed)
               b == ScanFallback(rev, request, "none")
           IN /\ a.rev = rev /\ a.request = request
              /\ a.selected = b.selected /\ a.excluded = b.excluded
<1> DEFINE ranked == Scored(history[rev])
<1>1. CASE ranked \subseteq narrowed
  <2>1. ranked \cap narrowed = ranked
    BY <1>1
  <2>2. NarrowedResult(rev, request, narrowed) = Result(rev, request, ranked, "index", "none")
    BY <1>1, <2>1 DEF NarrowedResult
  <2>3. QED
    BY <2>2 DEF ScanFallback, Result
<1>2. CASE ~(ranked \subseteq narrowed)
  <2>1. NarrowedResult(rev, request, narrowed)
          = ScanFallback(rev, request, "index_candidate_mismatch")
    BY <1>2 DEF NarrowedResult
  <2>2. QED
    BY <2>1, ScanAgrees
<1>3. QED
  BY <1>1, <1>2

\* What an answer has to be for ScanParity.
Agrees(a) ==
  \E rev, request :
    LET scan == ScanFallback(rev, request, "none")
    IN /\ a.rev = rev /\ a.request = request
       /\ a.selected = scan.selected /\ a.excluded = scan.excluded

\* Every step clears the last answer or, leaving the history alone, returns
\* one that agrees with the scan.
LEMMA AnswersAgree ==
    ASSUME Next
    PROVE  told' = None \/ (history' = history /\ Agrees(told'))
<1>1. CASE \E n \in DOMAIN dir : Rot(n)
  BY <1>1 DEF Rot
<1>2. ASSUME NEW p \in Procs, ResolveIndex(p) PROVE told' = None \/ (history' = history /\ Agrees(told'))
  BY <1>2, ScanAgrees DEF ResolveIndex, Answer, Agrees
<1>3. ASSUME NEW p \in Procs, CheckIntegrity(p) PROVE told' = None \/ (history' = history /\ Agrees(told'))
  BY <1>3, ScanAgrees DEF CheckIntegrity, Answer, Agrees
<1>4. ASSUME NEW p \in Procs, Narrow(p) PROVE told' = None \/ (history' = history /\ Agrees(told'))
  BY <1>4, ScanAgrees, NarrowedAgrees DEF Narrow, Answer, Agrees
<1>5. ASSUME NEW p \in Procs,
             \/ Commit(p) \/ MaybeReindex(p) \/ BuildIndex(p) \/ WriteImmutable(p)
             \/ FinishFile(p) \/ WriteReference(p) \/ StartPrune(p) \/ PruneIndexes(p)
             \/ Retrieve(p) \/ Crash(p)
      PROVE  told' = None
  BY <1>5 DEF Commit, MaybeReindex, BuildIndex, WriteImmutable, FinishFile,
              WriteReference, StartPrune, PruneIndexes, Retrieve, Crash
<1>6. QED
  BY <1>1, <1>2, <1>3, <1>4, <1>5 DEF Next

\* The index is a cache and never an authority: whatever builders, pruners,
\* crashes and rot do, retrieve answers what a scan of the revision answers.
THEOREM IndexNeverAuthority == Spec => []ScanParity
<1>1. Init => ScanParity
  BY DEF Init, ScanParity
<1>2. ScanParity /\ [Next]_vars => ScanParity'
  <2> SUFFICES ASSUME ScanParity, [Next]_vars PROVE ScanParity'
    OBVIOUS
  <2>1. CASE Next
    <3>1. CASE told' = None
      BY <3>1 DEF ScanParity
    <3>2. CASE history' = history /\ Agrees(told')
      BY <3>2 DEF ScanParity, Agrees, ScanFallback, Result
    <3>3. QED
      BY <2>1, <3>1, <3>2, AnswersAgree
  <2>2. CASE UNCHANGED vars
    BY <2>2 DEF vars, ScanParity, ScanFallback, Result
  <2>3. QED
    BY <2>1, <2>2
<1>3. QED
  BY <1>1, <1>2, PTL DEF Spec

-----------------------------------------------------------------------------
(* The builders.                                                           *)

Revisions == 1..MaxRevisions

BuildJobs == [pc : {"write", "finish", "reference"}, rev : Revisions]

Jobs ==
  {Idle}
  \cup [pc : {"refresh"}, rev : Revisions]
  \cup BuildJobs
  \cup [pc : {"prune"}, todo : SUBSET (Revisions \X {"ref", "files"})]
  \cup [pc : {"resolve", "integrity", "narrow"}, rev : Revisions, request : Requests]

Snapshots == UNION {[S -> [kind : Kinds, active : BOOLEAN]] : S \in SUBSET Ids}

\* What processes are doing, and the revisions there are.
JobsOK == job \in [Procs -> Jobs] /\ history \in Seq(Snapshots)

\* An undisturbed builder is the only one of its revision, there is no
\* pruner, and the file is the one it is writing or has written.
Undisturbed ==
  \A p \in alone :
    /\ job[p].pc = "finish" => dir[job[p].rev].file = p
    /\ job[p].pc = "reference" => dir[job[p].rev].file = "intact"
    /\ \A q \in Procs :
         /\ job[q].pc # "prune"
         /\ q # p /\ job[q] \in BuildJobs => job[q].rev # job[p].rev

IndInv == TypeOK /\ JobsOK /\ Undisturbed

-----------------------------------------------------------------------------
\* The shape of a job is told by its program counter.
LEMMA JobShape ==
    ASSUME JobsOK, NEW p \in Procs
    PROVE  /\ job[p] = Idle <=> job[p].pc = "idle"
           /\ job[p].pc = "refresh" => job[p].rev \in Revisions
           /\ job[p].pc \in {"write", "finish", "reference"} <=> job[p] \in BuildJobs
           /\ job[p] \in BuildJobs =>
                /\ job[p].rev \in Revisions
                /\ \A s \in {"write", "finish", "reference"} :
                     [job[p] EXCEPT !.pc = s] = [pc |-> s, rev |-> job[p].rev]
           /\ job[p].pc = "prune" =>
                /\ job[p].todo \subseteq Revisions \X {"ref", "files"}
                /\ \A x : [job[p] EXCEPT !.todo = @ \ {x}]
                            = [pc |-> "prune", todo |-> job[p].todo \ {x}]
           /\ job[p].pc \in {"resolve", "integrity", "narrow"} =>
                \A s \in {"resolve", "integrity", "narrow"} : [job[p] EXCEPT !.pc = s] \in Jobs
<1>1. job[p] \in Jobs
  BY DEF JobsOK
<1>2. CASE job[p] = Idle
  BY <1>2 DEF BuildJobs, Idle
<1>3. CASE job[p] \in [pc : {"refresh"}, rev : Revisions]
  BY <1>3 DEF BuildJobs, Idle
<1>4. CASE job[p] \in BuildJobs
  <2>1. PICK s \in {"write", "finish", "reference"}, n \in Revisions : job[p] = [pc |-> s, rev |-> n]
    BY <1>4 DEF BuildJobs
  <2>2. QED
    BY <1>4, <2>1 DEF Idle
<1>5. CASE job[p] \in [pc : {"prune"}, todo : SUBSET (Revisions \X {"ref", "files"})]
  <2>1. PICK t \in SUBSET (Revisions \X {"ref", "files"}) : job[p] = [pc |-> "prune", todo |-> t]
    BY <1>5
  <2>2. QED
    BY <2>1 DEF BuildJobs, Idle
<1>6. CASE job[p] \in [pc : {"resolve", "integrity", "narrow"}, rev : Revisions,
                        request : Requests]
  BY <1>6 DEF Jobs, BuildJobs, Idle
<1>7. QED
  BY <1>1, <1>2, <1>3, <1>4, <1>5, <1>6 DEF Jobs

\* A new job of p leaves the jobs of the others.
LEMMA BecomeJob ==
    ASSUME JobsOK, NEW p \in Procs, NEW j \in Jobs, Become(p, j)
    PROVE  /\ job' \in [Procs -> Jobs]
           /\ job'[p] = j
           /\ \A q \in Procs : q # p => job'[q] = job[q]
  BY DEF JobsOK, Become

LEMMA InitHolds == Init => IndInv
<1> SUFFICES ASSUME Init PROVE IndInv
  OBVIOUS
<1>1. Idle \in Jobs /\ job \in [Procs -> Jobs]
  BY DEF Init, Jobs
<1>2. history \in Seq(Snapshots) /\ Len(history) = 1
  <2>1. PICK S \in SUBSET Ids : \E records \in [S -> [kind : Kinds, active : {TRUE}]] :
          history = <<records>>
    BY DEF Init
  <2>2. PICK records \in [S -> [kind : Kinds, active : {TRUE}]] : history = <<records>>
    BY <2>1
  <2>3. records \in [S -> [kind : Kinds, active : BOOLEAN]]
    OBVIOUS
  <2>4. records \in Snapshots
    BY <2>3 DEF Snapshots
  <2>5. QED
    BY <2>2, <2>4
<1>3. dir \in [Revisions -> [file : {"absent"}, old : BOOLEAN, ref : {None, "old", "new"}]]
  <2>1. CASE dir = [n \in 1..MaxRevisions |-> EmptyDir]
    BY <2>1 DEF Revisions, EmptyDir
  <2>2. CASE dir = [n \in 1..MaxRevisions |->
                      IF n = 1 THEN [file |-> "absent", old |-> TRUE, ref |-> "old"]
                      ELSE EmptyDir]
    BY <2>2 DEF Revisions, EmptyDir
  <2>3. QED
    BY <2>1, <2>2 DEF Init
<1>4. TypeOK
  <2>1. \A n \in Revisions, p \in Procs : dir[n].file # p
    BY <1>3, NamesAssumption
  <2>2. CURRENT \in 1..MaxRevisions /\ quarantined \in 0..QuarantineQuota /\ faults \in 0..MaxFaults
    BY <1>2, BoundsAssumption DEF Init, CURRENT
  <2>3. QED
    BY <1>3, <2>1, <2>2 DEF TypeOK, Init, Revisions
<1>5. QED
  BY <1>1, <1>2, <1>4 DEF IndInv, JobsOK, Undisturbed, Init

\* A process that goes on to something that neither builds nor prunes.
LEMMA QuietStep ==
    ASSUME IndInv, NEW p \in Procs, NEW j \in Jobs, Become(p, j),
           job[p].pc # "finish",
           j.pc \notin {"write", "finish", "reference", "prune"},
           alone' = alone \ {p}, UNCHANGED <<dir, quarantined, faults>>,
           history' \in Seq(Snapshots), Len(history') \in Revisions
    PROVE  IndInv'
<1> USE DEF IndInv
<1>1. /\ job' \in [Procs -> Jobs] /\ job'[p] = j
      /\ \A q \in Procs : q # p => job'[q] = job[q]
  BY BecomeJob
<1>2. JobsOK'
  BY <1>1 DEF JobsOK
<1>3. TypeOK'
  BY <1>1 DEF TypeOK, CURRENT, Revisions
<1>4. j \notin BuildJobs
  BY DEF BuildJobs
<1>5. Undisturbed'
  BY <1>1, <1>4 DEF Undisturbed, TypeOK
<1>6. QED
  BY <1>2, <1>3, <1>5

LEMMA StartBuildStep ==
    ASSUME IndInv, NEW p \in Procs, NEW rev \in Revisions, StartBuild(p, rev),
           job[p].pc \in {"idle", "refresh"},
           UNCHANGED <<history, dir, quarantined, faults>>
    PROVE  IndInv'
<1> USE DEF IndInv
<1> DEFINE rivals == {q \in Procs \ {p} : job[q].pc \in {"write", "finish", "reference"}
                                          /\ job[q].rev = rev}
           clear == rivals = {} /\ ~\E q \in Procs : job[q].pc = "prune"
<1>1. Building(rev) = [pc |-> "write", rev |-> rev] /\ Building(rev) \in Jobs
  BY DEF Building, Jobs, BuildJobs
<1>2. /\ Become(p, Building(rev))
      /\ alone' = IF clear THEN alone \cup {p} ELSE alone \ (rivals \cup {p})
  BY DEF StartBuild
<1>3. /\ job' \in [Procs -> Jobs] /\ job'[p] = [pc |-> "write", rev |-> rev]
      /\ \A q \in Procs : q # p => job'[q] = job[q]
  BY <1>1, <1>2, BecomeJob
<1>4. \A q \in Procs : job[q] \in BuildJobs <=> job[q].pc \in {"write", "finish", "reference"}
  BY JobShape
<1> HIDE DEF rivals, clear
<1>5. JobsOK'
  BY <1>3 DEF JobsOK
<1>6. alone' \subseteq alone \cup {p} /\ alone \subseteq Procs /\ p \notin alone
  BY <1>2 DEF TypeOK
<1>7. TypeOK'
  BY <1>3, <1>6 DEF TypeOK, CURRENT, Revisions
<1>8. Undisturbed'
  <2> SUFFICES ASSUME NEW a \in alone', NEW q \in Procs
               PROVE  /\ job'[a].pc = "finish" => dir'[job'[a].rev].file = a
                      /\ job'[a].pc = "reference" => dir'[job'[a].rev].file = "intact"
                      /\ job'[q].pc # "prune"
                      /\ q # a /\ job'[q] \in BuildJobs => job'[q].rev # job'[a].rev
    BY DEF Undisturbed
  <2>1. CASE a = p
    <3>1. clear
      BY <1>2, <2>1, <1>6
    <3>2. QED
      BY <2>1, <3>1, <1>3, <1>4 DEF clear, rivals
  <2>2. CASE a # p
    <3>1. a \in alone /\ job'[a] = job[a] /\ a \in Procs
      BY <1>3, <1>6, <2>2
    <3>2. CASE q = p
      <4>1. a \notin rivals
        BY <1>2, <2>2, <3>1 DEF clear
      <4>2. job[a].rev # rev
        BY <4>1, <3>1, <2>2 DEF rivals, TypeOK
      <4>3. QED
        BY <3>1, <3>2, <4>2, <1>3 DEF Undisturbed
    <3>3. CASE q # p
      BY <3>1, <3>3, <1>3 DEF Undisturbed
    <3>4. QED
      BY <3>2, <3>3
  <2>3. QED
    BY <2>1, <2>2
<1>9. QED
  BY <1>5, <1>7, <1>8

LEMMA CommitStep ==
    ASSUME IndInv, NEW p \in Procs, Commit(p)
    PROVE  IndInv'
<1> USE DEF IndInv
<1> DEFINE records == history[CURRENT]
<1>1. CURRENT \in Revisions /\ CURRENT + 1 \in Revisions /\ history \in Seq(Snapshots)
      /\ Len(history) = CURRENT
  BY BoundsAssumption DEF Commit, TypeOK, JobsOK, Revisions, CURRENT
<1>2. PICK S \in SUBSET Ids : records \in [S -> [kind : Kinds, active : BOOLEAN]]
  <2>1. records \in Snapshots
    BY <1>1 DEF Revisions
  <2>2. QED
    BY <2>1 DEF Snapshots
<1> HIDE DEF records
<1>3. PICK child \in Snapshots : history' = Append(history, child)
  <2>1. CASE \E i \in Ids \ DOMAIN records, k \in Kinds :
               history' = Append(history,
                 [j \in DOMAIN records \cup {i} |->
                    IF j = i THEN [kind |-> k, active |-> TRUE] ELSE records[j]])
    <3>1. PICK i \in Ids \ DOMAIN records, k \in Kinds :
               history' = Append(history,
                 [j \in DOMAIN records \cup {i} |->
                    IF j = i THEN [kind |-> k, active |-> TRUE] ELSE records[j]])
      BY <2>1
    <3> DEFINE child == [j \in DOMAIN records \cup {i} |->
                           IF j = i THEN [kind |-> k, active |-> TRUE] ELSE records[j]]
    <3>2. child \in [S \cup {i} -> [kind : Kinds, active : BOOLEAN]]
      BY <1>2
    <3>3. S \cup {i} \in SUBSET Ids
      BY <3>1
    <3> HIDE DEF child
    <3>4. child \in Snapshots
      BY <3>2, <3>3 DEF Snapshots
    <3>5. QED
      BY <3>1, <3>4 DEF child
  <2>2. CASE \E i \in DOMAIN records : history' = Append(history, [records EXCEPT ![i].active = FALSE])
    <3>1. PICK i \in DOMAIN records : history' = Append(history, [records EXCEPT ![i].active = FALSE])
      BY <2>2
    <3> DEFINE child == [records EXCEPT ![i].active = FALSE]
    <3>2. child \in [S -> [kind : Kinds, active : BOOLEAN]]
      BY <1>2
    <3> HIDE DEF child
    <3>3. child \in Snapshots
      BY <3>2 DEF Snapshots
    <3>4. QED
      BY <3>1, <3>3 DEF child
  <2>3. QED
    BY <2>1, <2>2 DEF Commit, records
<1>4. history' \in Seq(Snapshots) /\ Len(history') \in Revisions
  BY <1>1, <1>3
<1> DEFINE j == [pc |-> "refresh", rev |-> CURRENT + 1]
<1>5. j \in Jobs /\ Become(p, j) /\ j.pc = "refresh" /\ job[p].pc = "idle" /\ p \notin alone
  BY <1>1 DEF Commit, Jobs, Idle, TypeOK
<1>6. UNCHANGED <<dir, quarantined, faults>> /\ alone' = alone \ {p}
  BY <1>5 DEF Commit
<1> HIDE DEF j, IndInv
<1>7. QED
  BY <1>4, <1>5, <1>6, QuietStep

\* The actions that leave the index directories and the history alone.
LEMMA LookingSteps ==
    ASSUME IndInv, NEW p \in Procs,
           \/ MaybeReindex(p) \/ BuildIndex(p) \/ Retrieve(p)
           \/ ResolveIndex(p) \/ CheckIntegrity(p) \/ Narrow(p)
    PROVE  IndInv'
<1>0. 1..CURRENT \subseteq Revisions
  BY BoundsAssumption DEF IndInv, TypeOK, Revisions
<1>1. /\ history \in Seq(Snapshots) /\ Len(history) \in Revisions
      /\ Idle \in Jobs /\ Idle.pc = "idle"
      /\ job[p].pc \notin {"write", "finish", "reference"} => p \notin alone
  BY DEF IndInv, JobsOK, TypeOK, CURRENT, Revisions, Jobs, Idle
<1>2. CASE MaybeReindex(p)
  <2>1. /\ job[p].pc = "refresh" /\ UNCHANGED <<history, dir, quarantined, faults>>
        /\ StartBuild(p, job[p].rev) \/ (Become(p, Idle) /\ UNCHANGED alone)
    BY <1>2 DEF MaybeReindex
  <2>2. job[p].rev \in Revisions
    BY <2>1, JobShape DEF IndInv
  <2>3. CASE StartBuild(p, job[p].rev)
    BY <2>1, <2>2, <2>3, StartBuildStep
  <2>4. CASE Become(p, Idle) /\ UNCHANGED alone
    <3>1. alone' = alone \ {p}
      BY <1>1, <2>1, <2>4
    <3>2. QED
      BY <1>1, <2>1, <2>4, <3>1, QuietStep
  <2>5. QED
    BY <2>1, <2>3, <2>4
<1>3. CASE BuildIndex(p)
  <2>1. /\ job[p].pc = "idle" /\ UNCHANGED <<history, dir, quarantined, faults>>
        /\ \E rev \in Revisions : StartBuild(p, rev)
    BY <1>0, <1>1, <1>3 DEF BuildIndex
  <2>2. QED
    BY <2>1, StartBuildStep
<1>4. ASSUME NEW j \in Jobs, Become(p, j),
             j.pc \in {"idle", "resolve", "integrity", "narrow"},
             job[p].pc \in {"idle", "resolve", "integrity", "narrow"},
             UNCHANGED <<history, dir, quarantined, alone, faults>>
      PROVE  IndInv'
  <2>1. alone' = alone \ {p}
    BY <1>1, <1>4
  <2>2. QED
    BY <1>1, <1>4, <2>1, QuietStep
<1>5. CASE Retrieve(p)
  <2>1. PICK rev \in 1..CURRENT, request \in Requests :
               Become(p, [pc |-> "resolve", rev |-> rev, request |-> request])
    BY <1>5 DEF Retrieve
  <2> DEFINE j == [pc |-> "resolve", rev |-> rev, request |-> request]
  <2>2. rev \in Revisions
    BY <1>0
  <2>3. j \in Jobs /\ j.pc = "resolve"
    BY <2>2 DEF Jobs
  <2>4. job[p].pc = "idle" /\ UNCHANGED <<history, dir, quarantined, alone, faults>>
    BY <1>1, <1>5 DEF Retrieve
  <2>5. Become(p, j)
    BY <2>1
  <2> HIDE DEF j
  <2>6. QED
    BY <1>4, <2>3, <2>4, <2>5
<1>6. CASE ResolveIndex(p) \/ CheckIntegrity(p) \/ Narrow(p)
  <2>1. /\ job[p].pc \in {"resolve", "integrity", "narrow"}
        /\ UNCHANGED <<history, dir, quarantined, alone, faults>>
        /\ \/ Become(p, [job[p] EXCEPT !.pc = "integrity"])
           \/ Become(p, [job[p] EXCEPT !.pc = "narrow"])
           \/ Become(p, Idle)
    BY <1>6 DEF ResolveIndex, CheckIntegrity, Narrow, Answer
  <2>2. \A s \in {"integrity", "narrow"} :
          [job[p] EXCEPT !.pc = s] \in Jobs /\ [job[p] EXCEPT !.pc = s].pc = s
    <3>1. job[p] \in [pc : {"resolve", "integrity", "narrow"}, rev : Revisions, request : Requests]
      <4>1. job[p] \in Jobs
        BY DEF IndInv, JobsOK
      <4>2. QED
        BY <4>1, <2>1 DEF Jobs, Idle, BuildJobs
    <3>2. QED
      BY <3>1 DEF Jobs
  <2>3. QED
    BY <1>1, <1>4, <2>1, <2>2
<1>7. QED
  BY <1>2, <1>3, <1>5, <1>6

\* The type of an index directory.
DirType == [file : {"absent", "torn", "intact"} \cup Procs, old : BOOLEAN,
            ref : {None, "old", "new"}]

\* A builder of a revision goes on to a job and leaves a directory behind: the
\* file it begins, the file it ends or finds, or nothing new when it gives up.
BuilderMove(p, s, rev, j, d) ==
  /\ job[p] = [pc |-> s, rev |-> rev]
  /\ Become(p, j)
  /\ dir' = [dir EXCEPT ![rev] = d]
  /\ \/ j = [pc |-> "finish", rev |-> rev] /\ d.file = p
     \/ /\ j = [pc |-> "reference", rev |-> rev]
        /\ d.file = "intact" \/ (d.file = dir[rev].file /\ d.file # p)
        /\ p \in alone => d.file = "intact"
     \/ j = Idle /\ d.file = dir[rev].file /\ s # "finish"
  /\ alone' = IF j = Idle THEN alone \ {p} ELSE alone
  /\ quarantined' \in 0..QuarantineQuota
  /\ UNCHANGED <<history, faults>>

LEMMA BuilderStep ==
    ASSUME IndInv, NEW p \in Procs, NEW s \in {"write", "finish", "reference"},
           NEW rev \in Revisions, NEW j \in Jobs, NEW d \in DirType,
           BuilderMove(p, s, rev, j, d)
    PROVE  IndInv'
<1> USE DEF IndInv, BuilderMove
<1>1. /\ job' \in [Procs -> Jobs] /\ job'[p] = j
      /\ \A q \in Procs : q # p => job'[q] = job[q]
  BY BecomeJob
<1>2. JobsOK'
  BY <1>1 DEF JobsOK
<1>3. /\ dir \in [Revisions -> DirType] /\ dir' \in [Revisions -> DirType]
      /\ dir'[rev] = d /\ \A n \in Revisions : n # rev => dir'[n] = dir[n]
  BY DEF TypeOK, DirType, Revisions
<1>4. /\ j = Idle \/ (j \in BuildJobs /\ j.rev = rev)
      /\ job[p] \in BuildJobs /\ job[p].rev = rev /\ job[p].pc = s
  BY DEF BuildJobs
<1>5. alone \subseteq Procs /\ alone' \subseteq alone /\ (p \in alone' => j # Idle)
  BY DEF TypeOK
<1>6. \A a \in alone : a # p =>
         job[a] \in BuildJobs /\ job[a].rev \in Revisions /\ job[a].rev # rev
  <2> SUFFICES ASSUME NEW a \in alone, a # p
               PROVE  job[a] \in BuildJobs /\ job[a].rev \in Revisions /\ job[a].rev # rev
    OBVIOUS
  <2>1. a \in Procs /\ job[a].pc \in {"write", "finish", "reference"}
    BY DEF TypeOK
  <2>2. job[a] \in BuildJobs /\ job[a].rev \in Revisions
    BY <2>1, JobShape
  <2>3. QED
    BY <2>2, <1>4 DEF Undisturbed
<1>7. \A q \in Procs, n \in Revisions : dir'[n].file = q => job'[q].pc = "finish" /\ job'[q].rev = n
  <2> SUFFICES ASSUME NEW q \in Procs, NEW n \in Revisions, dir'[n].file = q
               PROVE  job'[q].pc = "finish" /\ job'[q].rev = n
    OBVIOUS
  <2>1. \A m \in Revisions : dir[m].file = q => job[q].pc = "finish" /\ job[q].rev = m
    BY DEF TypeOK, Revisions
  <2>2. \A m \in Revisions : dir[m].file = p => job[p].pc = "finish" /\ job[p].rev = m
    BY DEF TypeOK, Revisions
  <2>3. q \notin {"absent", "torn", "intact"}
    BY NamesAssumption
  <2>4. CASE n = rev
    <3>1. d.file = q /\ q # "intact"
      BY <2>3, <2>4, <1>3
    <3>2. CASE j = [pc |-> "finish", rev |-> rev] /\ d.file = p
      BY <3>1, <3>2, <2>4, <1>1
    <3>3. CASE d.file = dir[rev].file /\ q # p
      BY <3>1, <3>3, <2>1, <2>4, <1>1
    <3>4. CASE d.file = dir[rev].file /\ q = p /\ s # "finish"
      BY <3>1, <3>4, <2>2, <1>4
    <3>5. \/ j = [pc |-> "finish", rev |-> rev] /\ d.file = p
          \/ d.file = dir[rev].file /\ (d.file # p \/ s # "finish")
      BY <3>1
    <3>6. QED
      BY <3>1, <3>2, <3>3, <3>4, <3>5
  <2>5. CASE n # rev
    BY <2>1, <2>5, <1>1, <1>3, <1>4
  <2>6. QED
    BY <2>4, <2>5
<1>8. TypeOK'
  <2>1. alone' \subseteq {q \in Procs : job'[q].pc \in {"write", "finish", "reference"}}
    BY <1>1, <1>4, <1>5 DEF TypeOK, BuildJobs
  <2>2. QED
    BY <1>3, <1>7, <2>1 DEF TypeOK, DirType, CURRENT, Revisions
<1>9. Undisturbed'
  <2> SUFFICES ASSUME NEW a \in alone', NEW q \in Procs
               PROVE  /\ job'[a].pc = "finish" => dir'[job'[a].rev].file = a
                      /\ job'[a].pc = "reference" => dir'[job'[a].rev].file = "intact"
                      /\ job'[q].pc # "prune"
                      /\ q # a /\ job'[q] \in BuildJobs => job'[q].rev # job'[a].rev
    BY DEF Undisturbed
  <2>0. job[q].pc # "prune" /\ a \in alone /\ a \in Procs
        /\ (q # a /\ job[q] \in BuildJobs => job[q].rev # job[a].rev)
    BY <1>5 DEF Undisturbed
  <2>1. job'[q].pc # "prune"
    BY <2>0, <1>1, <1>4 DEF BuildJobs, Idle
  <2>2. CASE a = p
    BY <2>0, <2>1, <2>2, <1>1, <1>3, <1>4, <1>5
  <2>3. CASE a # p
    <3>1. job'[a] = job[a] /\ dir'[job[a].rev] = dir[job[a].rev]
      BY <2>0, <2>3, <1>1, <1>3, <1>6
    <3>2. q # a /\ job'[q] \in BuildJobs => job'[q].rev # job'[a].rev
      BY <2>0, <2>3, <3>1, <1>1, <1>4, <1>6 DEF BuildJobs, Idle
    <3>3. QED
      BY <2>0, <2>1, <3>1, <3>2 DEF Undisturbed
  <2>4. QED
    BY <2>2, <2>3
<1>10. QED
  BY <1>2, <1>8, <1>9

LEMMA BuilderSteps ==
    ASSUME IndInv, NEW p \in Procs,
           WriteImmutable(p) \/ FinishFile(p) \/ WriteReference(p)
    PROVE  IndInv'
<1>1. /\ JobsOK /\ TypeOK /\ Undisturbed
      /\ dir \in [Revisions -> DirType]
      /\ job[p].pc \in {"write", "finish", "reference"}
  BY DEF IndInv, TypeOK, DirType, Revisions, WriteImmutable, FinishFile, WriteReference
<1>2. PICK s \in {"write", "finish", "reference"}, rev \in Revisions :
        job[p] = [pc |-> s, rev |-> rev]
  BY <1>1, JobShape DEF BuildJobs
<1>3. job[p].pc = s /\ job[p].rev = rev /\ dir[rev] \in DirType
  BY <1>1, <1>2
<1>4. /\ Idle \in Jobs
      /\ \A t \in {"write", "finish", "reference"} :
           /\ [job[p] EXCEPT !.pc = t] = [pc |-> t, rev |-> rev]
           /\ [pc |-> t, rev |-> rev] \in Jobs
           /\ [pc |-> t, rev |-> rev] # Idle
  BY <1>2 DEF Jobs, BuildJobs, Idle
<1>5. dir = [dir EXCEPT ![rev] = dir[rev]]
  BY <1>1
<1>6. dir[rev].file = p => s = "finish"
  BY <1>1, <1>3 DEF TypeOK, Revisions
<1>7. /\ p \in alone => dir[rev].file = IF s = "finish" THEN p ELSE dir[rev].file
      /\ p \in alone /\ s = "reference" => dir[rev].file = "intact"
  BY <1>1, <1>3 DEF Undisturbed
<1>8. CASE WriteImmutable(p)
  <2>1. /\ s = "write" /\ UNCHANGED <<history, faults>>
        /\ alone' = IF job'[p] = Idle THEN alone \ {p} ELSE alone
    BY <1>3, <1>8 DEF WriteImmutable
  <2>2. ASSUME NEW j \in Jobs, Become(p, j)
        PROVE  alone' = IF j = Idle THEN alone \ {p} ELSE alone
    BY <1>1, <2>1, <2>2, BecomeJob
  <2>3. quarantined \in 0..QuarantineQuota /\ QuarantineQuota \in Nat
    BY <1>1, BoundsAssumption DEF TypeOK
  <2>4. CASE dir[rev].file = "intact"
    <3>1. Become(p, [pc |-> "reference", rev |-> rev]) /\ UNCHANGED <<dir, quarantined>>
      BY <1>3, <1>4, <1>8, <2>4 DEF WriteImmutable
    <3>2. BuilderMove(p, s, rev, [pc |-> "reference", rev |-> rev], dir[rev])
      BY <1>2, <1>4, <1>5, <2>1, <2>2, <2>3, <2>4, <3>1 DEF BuilderMove
    <3>3. QED
      BY <1>3, <1>4, <3>2, BuilderStep
  <2>5. CASE dir[rev].file # "intact" /\ dir[rev].file # "absent"
             /\ quarantined >= QuarantineQuota
    <3>1. Become(p, Idle) /\ UNCHANGED <<dir, quarantined>>
      BY <1>3, <1>8, <2>5 DEF WriteImmutable
    <3>2. BuilderMove(p, s, rev, Idle, dir[rev])
      BY <1>2, <1>4, <1>5, <2>1, <2>2, <2>3, <3>1 DEF BuilderMove
    <3>3. QED
      BY <1>3, <1>4, <3>2, BuilderStep
  <2>6. CASE /\ dir[rev].file # "intact"
             /\ dir[rev].file = "absent" \/ ~(quarantined >= QuarantineQuota)
    <3> DEFINE d == [dir[rev] EXCEPT !.file = p]
    <3>1. /\ Become(p, [pc |-> "finish", rev |-> rev])
          /\ dir' = [dir EXCEPT ![rev].file = p]
          /\ quarantined' = IF dir[rev].file = "absent" THEN quarantined ELSE quarantined + 1
      BY <1>3, <1>4, <1>8, <2>6 DEF WriteImmutable
    <3>2. d \in DirType /\ d.file = p /\ dir' = [dir EXCEPT ![rev] = d]
      BY <1>3, <3>1 DEF DirType
    <3>3. quarantined' \in 0..QuarantineQuota
      BY <2>3, <2>6, <3>1
    <3> HIDE DEF d
    <3>4. BuilderMove(p, s, rev, [pc |-> "finish", rev |-> rev], d)
      BY <1>2, <1>4, <2>1, <2>2, <3>1, <3>2, <3>3 DEF BuilderMove
    <3>5. QED
      BY <1>4, <3>2, <3>4, BuilderStep
  <2>7. QED
    BY <2>4, <2>5, <2>6
<1>9. CASE FinishFile(p)
  <2> DEFINE d == IF dir[rev].file = p THEN [dir[rev] EXCEPT !.file = "intact"] ELSE dir[rev]
  <2>1. /\ s = "finish" /\ UNCHANGED <<history, quarantined, alone, faults>>
        /\ Become(p, [pc |-> "reference", rev |-> rev])
        /\ dir' = IF dir[rev].file = p THEN [dir EXCEPT ![rev].file = "intact"] ELSE dir
    BY <1>3, <1>4, <1>9 DEF FinishFile
  <2>2. d \in DirType /\ dir' = [dir EXCEPT ![rev] = d]
    BY <1>3, <1>5, <2>1 DEF DirType
  <2>3. d.file = "intact" \/ (d.file = dir[rev].file /\ d.file # p)
    BY <1>3 DEF DirType
  <2>4. p \in alone => d.file = "intact"
    BY <1>3, <1>7, <2>1 DEF DirType
  <2>5. quarantined' \in 0..QuarantineQuota
    BY <1>1, <2>1 DEF TypeOK
  <2> HIDE DEF d
  <2>6. BuilderMove(p, s, rev, [pc |-> "reference", rev |-> rev], d)
    BY <1>2, <1>4, <2>1, <2>2, <2>3, <2>4, <2>5 DEF BuilderMove
  <2>7. QED
    BY <1>4, <2>2, <2>6, BuilderStep
<1>10. CASE WriteReference(p)
  <2> DEFINE d == [dir[rev] EXCEPT !.ref = "new"]
  <2>1. /\ s = "reference" /\ UNCHANGED <<history, quarantined, faults>>
        /\ Become(p, Idle) /\ alone' = alone \ {p}
        /\ dir' = [dir EXCEPT ![rev].ref = "new"]
    BY <1>3, <1>10 DEF WriteReference
  <2>2. d \in DirType /\ d.file = dir[rev].file /\ dir' = [dir EXCEPT ![rev] = d]
    BY <1>3, <2>1 DEF DirType
  <2>3. quarantined' \in 0..QuarantineQuota
    BY <1>1, <2>1 DEF TypeOK
  <2> HIDE DEF d
  <2>4. BuilderMove(p, s, rev, Idle, d)
    BY <1>2, <2>1, <2>2, <2>3 DEF BuilderMove
  <2>5. QED
    BY <1>4, <2>2, <2>4, BuilderStep
<1>11. QED
  BY <1>8, <1>9, <1>10

LEMMA PruneSteps ==
    ASSUME IndInv, NEW p \in Procs, StartPrune(p) \/ PruneIndexes(p)
    PROVE  IndInv'
<1>0. /\ JobsOK /\ TypeOK /\ Undisturbed
      /\ dir \in [Revisions -> DirType]
  BY DEF IndInv, TypeOK, DirType, Revisions
<1>1. CASE StartPrune(p)
  <2>1. PICK keep \in 1..CURRENT :
          Become(p, [pc |-> "prune", todo |-> {n \in 1..MaxRevisions : n # keep /\ dir[n] # EmptyDir}
                                              \X {"ref", "files"}])
    BY <1>1 DEF StartPrune
  <2> DEFINE j == [pc |-> "prune", todo |-> {n \in 1..MaxRevisions : n # keep /\ dir[n] # EmptyDir}
                                            \X {"ref", "files"}]
  <2>2. j \in Jobs
    BY DEF Jobs, Revisions
  <2> HIDE DEF j
  <2>3. /\ job' \in [Procs -> Jobs] /\ \A q \in Procs : q # p => job'[q] = job[q]
    BY <1>0, <2>1, <2>2, BecomeJob DEF j
  <2>4. job[p].pc = "idle" /\ alone' = {} /\ UNCHANGED <<history, dir, quarantined, faults>>
    BY <1>1 DEF StartPrune, Idle
  <2>5. TypeOK' /\ JobsOK' /\ Undisturbed'
    BY <1>0, <2>3, <2>4 DEF TypeOK, JobsOK, Undisturbed, CURRENT
  <2>6. QED
    BY <2>5 DEF IndInv
<1>2. CASE PruneIndexes(p)
  <2>1. job[p].pc = "prune" /\ UNCHANGED <<history, quarantined, alone, faults>>
    BY <1>2 DEF PruneIndexes
  <2>2. alone = {}
    BY <1>0, <2>1 DEF Undisturbed
  <2>3. PICK x \in job[p].todo :
          /\ dir' = [dir EXCEPT ![x[1]] =
                       IF x[2] = "ref" THEN [@ EXCEPT !.ref = None]
                       ELSE [@ EXCEPT !.file = "absent", !.old = FALSE]]
          /\ Become(p, IF job[p].todo = {x} THEN Idle
                       ELSE [job[p] EXCEPT !.todo = @ \ {x}])
    BY <1>2 DEF PruneIndexes
  <2> DEFINE j == IF job[p].todo = {x} THEN Idle ELSE [job[p] EXCEPT !.todo = @ \ {x}]
  <2>4. j \in Jobs /\ x \in Revisions \X {"ref", "files"}
    <3>1. /\ job[p].todo \subseteq Revisions \X {"ref", "files"}
          /\ [job[p] EXCEPT !.todo = @ \ {x}] = [pc |-> "prune", todo |-> job[p].todo \ {x}]
      BY <1>0, <2>1, JobShape
    <3>2. QED
      BY <3>1 DEF Jobs
  <2>5. /\ job' \in [Procs -> Jobs] /\ \A q \in Procs : q # p => job'[q] = job[q]
    BY <1>0, <2>3, <2>4, BecomeJob
  <2>6. PICK n \in Revisions : x[1] = n
    BY <2>4
  <2>7. /\ dir' \in [Revisions -> DirType]
        /\ \A m \in Revisions : dir'[m].file \in {dir[m].file, "absent"}
    <3> DEFINE d == IF x[2] = "ref" THEN [dir[n] EXCEPT !.ref = None]
                    ELSE [dir[n] EXCEPT !.file = "absent", !.old = FALSE]
    <3>1. dir[n] \in DirType /\ dir' = [dir EXCEPT ![n] = d]
      BY <1>0, <2>3, <2>6
    <3>2. d \in DirType /\ d.file \in {dir[n].file, "absent"}
      BY <3>1 DEF DirType
    <3> HIDE DEF d
    <3>3. QED
      BY <1>0, <3>1, <3>2
  <2>8. TypeOK'
    <3>1. ASSUME NEW q \in Procs, NEW m \in Revisions, dir'[m].file = q
          PROVE  job'[q].pc = "finish" /\ job'[q].rev = m
      <4>1. dir[m].file = q
        BY <2>7, <3>1, NamesAssumption
      <4>2. job[q].pc = "finish" /\ job[q].rev = m
        BY <1>0, <4>1 DEF TypeOK, Revisions
      <4>3. QED
        BY <2>1, <2>5, <4>2
    <3>2. QED
      BY <1>0, <2>1, <2>2, <2>7, <3>1 DEF TypeOK, CURRENT, DirType, Revisions
  <2>9. JobsOK' /\ Undisturbed'
    BY <1>0, <2>1, <2>2, <2>5 DEF JobsOK, Undisturbed
  <2>10. QED
    BY <2>8, <2>9 DEF IndInv
<1>3. QED
  BY <1>1, <1>2

LEMMA FaultSteps ==
    ASSUME IndInv, (\E p \in Procs : Crash(p)) \/ (\E n \in DOMAIN dir : Rot(n))
    PROVE  IndInv'
<1>0. /\ JobsOK /\ TypeOK /\ Undisturbed
      /\ dir \in [Revisions -> DirType] /\ MaxFaults \in Nat
  BY BoundsAssumption DEF IndInv, TypeOK, DirType, Revisions
<1>1. ASSUME NEW p \in Procs, Crash(p) PROVE IndInv'
  <2>1. /\ Become(p, Idle) /\ alone' = alone \ {p} /\ UNCHANGED <<history, quarantined>>
        /\ faults' \in 0..MaxFaults
        /\ dir' = [n \in DOMAIN dir |->
                     IF dir[n].file = p THEN [dir[n] EXCEPT !.file = "torn"] ELSE dir[n]]
    BY <1>0, <1>1 DEF Crash, TypeOK
  <2>2. Idle \in Jobs
    BY DEF Jobs
  <2>3. /\ job' \in [Procs -> Jobs] /\ job'[p] = Idle
        /\ \A q \in Procs : q # p => job'[q] = job[q]
    BY <1>0, <2>1, <2>2, BecomeJob
  <2>4. /\ dir' \in [Revisions -> DirType]
        /\ \A n \in Revisions :
             /\ dir[n].file # p => dir'[n] = dir[n]
             /\ dir'[n].file # p
             /\ dir'[n].file \in {dir[n].file, "torn"}
    <3>1. ASSUME NEW n \in Revisions
          PROVE  /\ dir'[n] \in DirType
                 /\ dir[n].file # p => dir'[n] = dir[n]
                 /\ dir'[n].file # p
                 /\ dir'[n].file \in {dir[n].file, "torn"}
      <4>1. dir[n] \in DirType /\ p # "torn"
        BY <1>0, NamesAssumption
      <4>2. dir'[n] = IF dir[n].file = p THEN [dir[n] EXCEPT !.file = "torn"] ELSE dir[n]
        BY <1>0, <2>1
      <4>3. QED
        BY <4>1, <4>2 DEF DirType
    <3>2. DOMAIN dir' = Revisions /\ dir' = [n \in Revisions |-> dir'[n]]
      BY <1>0, <2>1
    <3>3. QED
      BY <3>1, <3>2
  <2>5. TypeOK'
    <3>1. ASSUME NEW q \in Procs, NEW m \in Revisions, dir'[m].file = q
          PROVE  job'[q].pc = "finish" /\ job'[q].rev = m
      <4>1. dir[m].file = q /\ q # p
        BY <2>4, <3>1, NamesAssumption
      <4>2. job[q].pc = "finish" /\ job[q].rev = m
        BY <1>0, <4>1 DEF TypeOK, Revisions
      <4>3. QED
        BY <2>3, <4>1, <4>2
    <3>2. alone' \subseteq {q \in Procs : job'[q].pc \in {"write", "finish", "reference"}}
      BY <1>0, <2>1, <2>3 DEF TypeOK
    <3>3. QED
      BY <1>0, <2>1, <2>4, <3>1, <3>2 DEF TypeOK, CURRENT, DirType, Revisions
  <2>6. Undisturbed'
    <3> SUFFICES ASSUME NEW a \in alone', NEW q \in Procs
                 PROVE  /\ job'[a].pc = "finish" => dir'[job'[a].rev].file = a
                        /\ job'[a].pc = "reference" => dir'[job'[a].rev].file = "intact"
                        /\ job'[q].pc # "prune"
                        /\ q # a /\ job'[q] \in BuildJobs => job'[q].rev # job'[a].rev
      BY DEF Undisturbed
    <3>1. /\ a \in alone /\ a # p /\ a \in Procs /\ job'[a] = job[a]
          /\ job[a].pc \in {"write", "finish", "reference"}
      BY <1>0, <2>1, <2>3 DEF TypeOK
    <3>2. job[a].rev \in Revisions
      BY <1>0, <3>1, JobShape
    <3>3. p \notin {"absent", "torn", "intact"}
      BY NamesAssumption
    <3>4. dir[job[a].rev].file # p => dir'[job[a].rev] = dir[job[a].rev]
      BY <2>4, <3>2
    <3>5. Idle \notin BuildJobs /\ Idle.pc # "prune"
      BY DEF Idle, BuildJobs
    <3>6. QED
      BY <1>0, <2>3, <3>1, <3>3, <3>4, <3>5 DEF Undisturbed
  <2>7. QED
    BY <1>0, <2>1, <2>3, <2>5, <2>6 DEF IndInv, JobsOK
<1>2. ASSUME NEW n \in DOMAIN dir, Rot(n) PROVE IndInv'
  <2> DEFINE d == [dir[n] EXCEPT !.file = "torn"]
  <2>1. /\ alone' = {} /\ UNCHANGED <<history, job, quarantined>>
        /\ faults' \in 0..MaxFaults /\ dir' = [dir EXCEPT ![n] = d]
    BY <1>0, <1>2 DEF Rot, TypeOK
  <2>2. n \in Revisions /\ d \in DirType /\ d.file = "torn"
    BY <1>0 DEF DirType
  <2> HIDE DEF d
  <2>3. /\ dir' \in [Revisions -> DirType] /\ dir'[n].file = "torn"
        /\ \A m \in Revisions : m # n => dir'[m] = dir[m]
    BY <1>0, <2>1, <2>2
  <2>4. ASSUME NEW q \in Procs, NEW m \in Revisions, dir'[m].file = q
        PROVE  job'[q].pc = "finish" /\ job'[q].rev = m
    <3>1. dir[m].file = q
      BY <2>3, <2>4, NamesAssumption
    <3>2. QED
      BY <1>0, <2>1, <3>1 DEF TypeOK, Revisions
  <2>5. TypeOK' /\ JobsOK' /\ Undisturbed'
    BY <1>0, <2>1, <2>3, <2>4 DEF TypeOK, JobsOK, Undisturbed, CURRENT, DirType, Revisions
  <2>6. QED
    BY <2>5 DEF IndInv
<1>3. QED
  BY <1>1, <1>2

LEMMA StepHolds == IndInv /\ [Next]_vars => IndInv'
<1> SUFFICES ASSUME IndInv, [Next]_vars PROVE IndInv'
  OBVIOUS
<1>1. CASE UNCHANGED vars
  BY <1>1 DEF vars, IndInv, TypeOK, JobsOK, Undisturbed, CURRENT
<1>2. CASE Next
  BY <1>2, CommitStep, LookingSteps, BuilderSteps, PruneSteps, FaultSteps DEF Next
<1>3. QED
  BY <1>1, <1>2

\* What every state consists of, who may be writing which file, and what an
\* undisturbed builder can rely on.
THEOREM BuildersKnown == Spec => []IndInv
  BY InitHolds, StepHolds, PTL DEF Spec

\* rebuild-index heals: a build that nobody disturbs and that returns leaves
\* an index the deep verification accepts.
THEOREM UndisturbedBuildHeals == Spec => RebuildHeals
<1> DEFINE Heals(p, n) ==
      job[p] = [pc |-> "reference", rev |-> n] /\ job'[p] = Idle /\ faults' = faults
      => VerifyIndexDeep(n)'
<1>1. ASSUME IndInv, Next, NEW p \in alone, NEW n \in Revisions PROVE Heals(p, n)
  <2> SUFFICES ASSUME job[p] = [pc |-> "reference", rev |-> n], job'[p] = Idle, faults' = faults
               PROVE  VerifyIndexDeep(n)'
    OBVIOUS
  <2>1. /\ p \in Procs /\ JobsOK /\ Idle.pc = "idle" /\ job[p].pc = "reference" /\ job[p].rev = n
        /\ dir \in [Revisions -> DirType] /\ dir[n].file = "intact" /\ job'[p] # job[p]
    BY <1>1 DEF IndInv, TypeOK, Undisturbed, Idle, DirType, Revisions
  <2>2. WriteReference(p)
    <3>1. ASSUME NEW q \in Procs, q # p,
                 \/ Commit(q) \/ MaybeReindex(q) \/ BuildIndex(q) \/ WriteImmutable(q)
                 \/ FinishFile(q) \/ WriteReference(q) \/ StartPrune(q) \/ PruneIndexes(q)
                 \/ Retrieve(q) \/ ResolveIndex(q) \/ CheckIntegrity(q) \/ Narrow(q)
          PROVE  job'[p] = job[p]
      <4>1. \E j : Become(q, j)
        BY <3>1 DEF Commit, MaybeReindex, BuildIndex, WriteImmutable, FinishFile,
                    WriteReference, StartPrune, PruneIndexes, Retrieve, ResolveIndex,
                    CheckIntegrity, Narrow, StartBuild, Answer
      <4>2. QED
        BY <2>1, <3>1, <4>1 DEF Become, JobsOK
    <3>2. ~(\E q \in Procs : Crash(q)) /\ ~(\E m \in DOMAIN dir : Rot(m))
      <4>1. faults \in Nat
        BY <1>1 DEF IndInv, TypeOK
      <4>2. QED
        BY <4>1 DEF Crash, Rot
    <3>3. ASSUME \/ Commit(p) \/ MaybeReindex(p) \/ BuildIndex(p) \/ WriteImmutable(p)
                 \/ FinishFile(p) \/ StartPrune(p) \/ PruneIndexes(p)
                 \/ Retrieve(p) \/ ResolveIndex(p) \/ CheckIntegrity(p) \/ Narrow(p)
          PROVE  FALSE
      BY <2>1, <3>3 DEF Commit, MaybeReindex, BuildIndex, WriteImmutable, FinishFile,
                        StartPrune, PruneIndexes, Retrieve, ResolveIndex, CheckIntegrity,
                        Narrow
    <3>4. QED
      BY <1>1, <2>1, <3>1, <3>2, <3>3 DEF Next
  <2>3. dir' = [dir EXCEPT ![n].ref = "new"]
    BY <2>1, <2>2 DEF WriteReference
  <2>4. dir'[n].file = "intact" /\ dir'[n].ref = "new"
    BY <2>1, <2>3 DEF DirType
  <2>5. QED
    BY <2>4, NamesAssumption DEF VerifyIndexDeep, IndexResolution, IndexIntegrityStatus
<1>2. IndInv /\ [Next]_vars => [\A p \in alone, n \in 1..MaxRevisions : Heals(p, n)]_vars
  BY <1>1 DEF Revisions
<1>3. IndInv /\ [Next]_vars =>
        [\A p \in alone, n \in 1..MaxRevisions :
           /\ job[p] = [pc |-> "reference", rev |-> n]
           /\ job'[p] = Idle
           /\ faults' = faults
           => VerifyIndexDeep(n)']_vars
  BY <1>2
<1>4. QED
  BY <1>3, BuildersKnown, PTL DEF Spec, RebuildHeals
=============================================================================

---------------------------- MODULE DerivedIndex ----------------------------
(***************************************************************************)
(* The derived full-text index of a revision (index), its refresh after a  *)
(* commit (index_refresh) and its pruning (index_maintenance), and the     *)
(* retrieval that narrows its candidates with it (retrieval).              *)
(*                                                                         *)
(* Builders, pruners and readers share only the reader gate, which they    *)
(* all hold shared or not at all: nothing keeps two builders of the same   *)
(* revision, or a builder and a pruner, from each other's files.  The      *)
(* index file is content addressed and written in place, so it can be seen *)
(* half written; a process may die and the file may rot.                   *)
(*                                                                         *)
(* A commit is one step (Transactions has its protocol).  A query is what  *)
(* it says of each record: its score and whether SQLite matches it.        *)
(***************************************************************************)
EXTENDS Naturals, FiniteSets, SequencesExt

CONSTANTS
  Procs,        \* processes
  Ids,          \* record ids, numbers: ties are broken by their order
  Kinds,        \* [score, cost, fts]: records as the query sees them; no cost is
                \* no text, and fts is whether the tokenizer of SQLite agrees
  Requests,     \* [budget, fixed, per]: the byte budget and the overheads
  None,         \* no reference, no answer
  MaxRevisions, \* bound on the revisions
  MaxFaults,    \* bound on processes dying and files rotting
  QuarantineQuota

ASSUME BoundsAssumption ==
  MaxRevisions \in Nat \ {0} /\ MaxFaults \in Nat /\ QuarantineQuota \in Nat

\* A file is a process exactly while that process writes it; the absent
\* reference is none of the references.
ASSUME NamesAssumption ==
  Procs \cap {"absent", "torn", "intact"} = {} /\ None \notin {"old", "new"}

VARIABLES
  history,      \* history[n]: the records of revision n, id -> kind and active
  dir,          \* dir[n]: the index directory of revision n
  job,          \* job[p]: what process p is doing
  told,         \* the result retrieve has just returned
  quarantined,  \* conflicting files moved aside
  alone,        \* ghost: the builders nobody has disturbed
  faults

vars == <<history, dir, job, told, quarantined, alone, faults>>

CURRENT == Len(history)

\* The file of the current layout is absent, torn, intact, or being written
\* by a process; old is an index of the layout before; ref is the reference.
EmptyDir == [file |-> "absent", old |-> FALSE, ref |-> None]

Idle == [pc |-> "idle"]

(***************************************************************************)
(* retrieval                                                               *)
(***************************************************************************)
IsActive(records, i) == records[i].active

\* The active records with text.
Ranked(records) ==
  {i \in DOMAIN records : IsActive(records, i) /\ records[i].kind.cost > 0}

Scored(records) == {i \in Ranked(records) : records[i].kind.score > 0}

RanksBefore(records, i, j) ==
  LET a == records[i].kind.score
      b == records[j].kind.score
  IN a > b \/ (a = b /\ i < j)

Select_StopsAtFirst(records, candidates, request) ==
  FoldLeft(LAMBDA acc, i :
             LET used == acc.used + records[i].kind.cost + request.per
             IN IF used > request.budget \/ acc.full
                THEN [acc EXCEPT !.full = TRUE]
                ELSE [acc EXCEPT !.used = used, !.ids = @ \cup {i}],
           [used |-> request.fixed, ids |-> {}, full |-> FALSE],
           SetToSortSeq(candidates, LAMBDA i, j : RanksBefore(records, i, j))).ids

\* In rank order, each record that still fits.
Select(records, candidates, request) ==
  FoldLeft(LAMBDA acc, i :
             LET used == acc.used + records[i].kind.cost + request.per
             IN IF used > request.budget THEN acc
                ELSE [used |-> used, ids |-> acc.ids \cup {i}],
           [used |-> request.fixed, ids |-> {}],
           SetToSortSeq(candidates, LAMBDA i, j : RanksBefore(records, i, j))).ids

\* The result of a retrieval whose candidates are narrowed to a set.
Result(rev, request, candidates, profile, degradation) ==
  LET records == history[rev]
      chosen  == Select(records, candidates, request)
  IN [rev |-> rev, request |-> request, profile |-> profile,
      degradation |-> degradation, selected |-> chosen,
      excluded |-> [inactive  |-> {i \in DOMAIN records : ~IsActive(records, i)},
                    no_text   |-> {i \in DOMAIN records : IsActive(records, i)}
                                    \ Ranked(records),
                    zero_score |-> Ranked(records) \ Scored(records),
                    budget    |-> candidates \ chosen]]

\* no_lexical_overlap, the one reason given for an empty selection.
EmptyReasonFor(result) ==
  /\ result.selected = {}
  /\ result.excluded.budget = {}
  /\ result.excluded.zero_score # {}

ScanFallback(rev, request, degradation) ==
  Result(rev, request, Scored(history[rev]), "scan", degradation)

NarrowedResult_Trusting(rev, request, narrowed) ==
  Result(rev, request, Scored(history[rev]) \cap narrowed, "index", "none")

NarrowedResult(rev, request, narrowed) ==
  LET ranked == Scored(history[rev])
  IN IF ranked \subseteq narrowed
     THEN Result(rev, request, ranked \cap narrowed, "index", "none")
     ELSE ScanFallback(rev, request, "index_candidate_mismatch")

\* What an intact index of a revision answers.
Matches(rev) == {i \in Ranked(history[rev]) : history[rev][i].kind.fts}

\* What a file answers: bytes that are not the index give an error, or rows.
NarrowWithIndex(rev) ==
  CASE dir[rev].file = "intact" -> {Matches(rev)}
    [] dir[rev].file = "absent" -> {None}
    [] OTHER -> {None} \cup SUBSET Ids

(***************************************************************************)
(* index                                                                   *)
(***************************************************************************)
\* A file that is not whole may still show the metadata asked of it.
IndexResolution(rev) ==
  IF dir[rev].ref = None THEN {"index_unavailable"}
  ELSE IF dir[rev].ref = "old"
  THEN {IF dir[rev].old THEN "index_obsolete" ELSE "index_unresolvable"}
  ELSE CASE dir[rev].file = "absent" -> {"index_unresolvable"}
         [] dir[rev].file = "intact" -> {"none"}
         [] OTHER -> {"index_obsolete", "none"}

IndexIntegrityStatus(rev) ==
  CASE dir[rev].file = "absent" -> "index_unresolvable"
    [] dir[rev].file = "intact" -> "none"
    [] OTHER -> "index_hash_mismatch"

VerifyIndexDeep(rev) ==
  IndexResolution(rev) = {"none"} /\ IndexIntegrityStatus(rev) = "none"

-----------------------------------------------------------------------------
Init ==
  /\ \E S \in SUBSET Ids :
       \E records \in [S -> [kind : Kinds, active : {TRUE}]] : history = <<records>>
  /\ dir \in {[n \in 1..MaxRevisions |-> EmptyDir],
              [n \in 1..MaxRevisions |->
                 IF n = 1 THEN [file |-> "absent", old |-> TRUE, ref |-> "old"]
                 ELSE EmptyDir]}
  /\ job = [p \in Procs |-> Idle]
  /\ told = None
  /\ quarantined = 0
  /\ alone = {}
  /\ faults = 0

Become(p, j) == job' = [job EXCEPT ![p] = j]

\* A commit adds a record or silences one; maybe_reindex then looks at the
\* index of the parent, and builds one for the child if that resolves.
Commit(p) ==
  /\ job[p] = Idle
  /\ CURRENT < MaxRevisions
  /\ LET records == history[CURRENT]
     IN \/ \E i \in Ids \ DOMAIN records, k \in Kinds :
             history' = Append(history,
               [j \in DOMAIN records \cup {i} |->
                  IF j = i THEN [kind |-> k, active |-> TRUE] ELSE records[j]])
        \/ \E i \in DOMAIN records :
             /\ records[i].active
             /\ history' = Append(history, [records EXCEPT ![i].active = FALSE])
  /\ Become(p, [pc |-> "refresh", rev |-> CURRENT + 1])
  /\ told' = None
  /\ UNCHANGED <<dir, quarantined, alone, faults>>

Building(rev) == [pc |-> "write", rev |-> rev]

\* Another builder of the revision at work means neither is undisturbed.
StartBuild(p, rev) ==
  LET rivals == {q \in Procs \ {p} : job[q].pc \in {"write", "finish", "reference"}
                                     /\ job[q].rev = rev}
  IN /\ Become(p, Building(rev))
     /\ alone' = IF rivals = {} /\ ~\E q \in Procs : job[q].pc = "prune"
                 THEN alone \cup {p} ELSE alone \ (rivals \cup {p})

MaybeReindex(p) ==
  /\ job[p].pc = "refresh"
  /\ \E status \in IndexResolution(job[p].rev - 1) :
       IF status = "none" THEN StartBuild(p, job[p].rev)
       ELSE Become(p, Idle) /\ UNCHANGED alone
  /\ told' = None
  /\ UNCHANGED <<history, dir, quarantined, faults>>

BuildIndex(p) ==
  /\ job[p] = Idle
  /\ \E rev \in 1..CURRENT : StartBuild(p, rev)
  /\ told' = None
  /\ UNCHANGED <<history, dir, quarantined, faults>>

WriteImmutable_AnyBytes(p) ==
  LET rev == job[p].rev
  IN /\ job[p].pc = "write"
     /\ IF dir[rev].file # "absent"
        THEN Become(p, [job[p] EXCEPT !.pc = "reference"]) /\ UNCHANGED dir
        ELSE /\ dir' = [dir EXCEPT ![rev].file = p]
             /\ Become(p, [job[p] EXCEPT !.pc = "finish"])
     /\ told' = None
     /\ UNCHANGED <<history, quarantined, alone, faults>>

\* write_immutable of the index file: a name with other bytes, a file some
\* builder is still writing included, is moved to the quarantine first.
WriteImmutable(p) ==
  LET rev  == job[p].rev
      file == dir[rev].file
  IN /\ job[p].pc = "write"
     /\ CASE file = "intact" ->
               /\ Become(p, [job[p] EXCEPT !.pc = "reference"])
               /\ UNCHANGED <<dir, quarantined>>
          [] file # "intact" /\ file # "absent" /\ quarantined >= QuarantineQuota ->
               Become(p, Idle) /\ UNCHANGED <<dir, quarantined>>
          [] OTHER ->
               /\ dir' = [dir EXCEPT ![rev].file = p]
               /\ quarantined' = IF file = "absent" THEN quarantined
                                 ELSE quarantined + 1
               /\ Become(p, [job[p] EXCEPT !.pc = "finish"])
     /\ alone' = IF job'[p] = Idle THEN alone \ {p} ELSE alone
     /\ told' = None
     /\ UNCHANGED <<history, faults>>

\* The last byte is written, wherever the file is by now.
FinishFile(p) ==
  /\ job[p].pc = "finish"
  /\ dir' = IF dir[job[p].rev].file = p
            THEN [dir EXCEPT ![job[p].rev].file = "intact"] ELSE dir
  /\ Become(p, [job[p] EXCEPT !.pc = "reference"])
  /\ told' = None
  /\ UNCHANGED <<history, quarantined, alone, faults>>

WriteReference(p) ==
  /\ job[p].pc = "reference"
  /\ dir' = [dir EXCEPT ![job[p].rev].ref = "new"]
  /\ Become(p, Idle)
  /\ alone' = alone \ {p}
  /\ told' = None
  /\ UNCHANGED <<history, quarantined, faults>>

\* prune_indexes lists the directories, keeps one revision, and removes the
\* files of the others one by one.
StartPrune(p) ==
  /\ job[p] = Idle
  /\ \E keep \in 1..CURRENT :
       LET others == {n \in 1..MaxRevisions : n # keep /\ dir[n] # EmptyDir}
       IN /\ others # {}
          /\ Become(p, [pc |-> "prune",
                        todo |-> others \X {"ref", "files"}])
  /\ alone' = {}
  /\ told' = None
  /\ UNCHANGED <<history, dir, quarantined, faults>>

PruneIndexes(p) ==
  /\ job[p].pc = "prune"
  /\ \E x \in job[p].todo :
       /\ dir' = [dir EXCEPT ![x[1]] =
                    IF x[2] = "ref" THEN [@ EXCEPT !.ref = None]
                    ELSE [@ EXCEPT !.file = "absent", !.old = FALSE]]
       /\ Become(p, IF job[p].todo = {x} THEN Idle
                    ELSE [job[p] EXCEPT !.todo = @ \ {x}])
  /\ told' = None
  /\ UNCHANGED <<history, quarantined, alone, faults>>

\* retrieve with the index profile: the snapshot, then each look at the index.
Retrieve(p) ==
  /\ job[p] = Idle
  /\ \E rev \in 1..CURRENT, request \in Requests :
       /\ request.fixed <= request.budget
       /\ Become(p, [pc |-> "resolve", rev |-> rev, request |-> request])
  /\ told' = None
  /\ UNCHANGED <<history, dir, quarantined, alone, faults>>

Answer(p, result) == told' = result /\ Become(p, Idle)

ResolveIndex(p) ==
  /\ job[p].pc = "resolve"
  /\ \E status \in IndexResolution(job[p].rev) :
       IF status = "none"
       THEN Become(p, [job[p] EXCEPT !.pc = "integrity"]) /\ told' = None
       ELSE Answer(p, ScanFallback(job[p].rev, job[p].request, status))
  /\ UNCHANGED <<history, dir, quarantined, alone, faults>>

CheckIntegrity(p) ==
  LET status == IndexIntegrityStatus(job[p].rev)
  IN /\ job[p].pc = "integrity"
     /\ IF status = "none"
        THEN Become(p, [job[p] EXCEPT !.pc = "narrow"]) /\ told' = None
        ELSE Answer(p, ScanFallback(job[p].rev, job[p].request, status))
     /\ UNCHANGED <<history, dir, quarantined, alone, faults>>

Narrow(p) ==
  /\ job[p].pc = "narrow"
  /\ \E narrowed \in NarrowWithIndex(job[p].rev) :
       Answer(p, IF narrowed = None
                 THEN ScanFallback(job[p].rev, job[p].request, "index_unresolvable")
                 ELSE NarrowedResult(job[p].rev, job[p].request, narrowed))
  /\ UNCHANGED <<history, dir, quarantined, alone, faults>>

\* A process dies; the file it was writing stays as it is.
Crash(p) ==
  /\ job[p] # Idle
  /\ faults < MaxFaults
  /\ faults' = faults + 1
  /\ dir' = [n \in DOMAIN dir |->
               IF dir[n].file = p THEN [dir[n] EXCEPT !.file = "torn"] ELSE dir[n]]
  /\ Become(p, Idle)
  /\ alone' = alone \ {p}
  /\ told' = None
  /\ UNCHANGED <<history, quarantined>>

Rot(n) ==
  /\ dir[n].file = "intact"
  /\ faults < MaxFaults
  /\ faults' = faults + 1
  /\ dir' = [dir EXCEPT ![n].file = "torn"]
  /\ alone' = {}
  /\ told' = None
  /\ UNCHANGED <<history, job, quarantined>>

Next ==
  \/ \E p \in Procs :
       \/ Commit(p) \/ MaybeReindex(p) \/ BuildIndex(p) \/ WriteImmutable(p)
       \/ FinishFile(p) \/ WriteReference(p) \/ StartPrune(p) \/ PruneIndexes(p)
       \/ Retrieve(p) \/ ResolveIndex(p) \/ CheckIntegrity(p) \/ Narrow(p)
       \/ Crash(p)
  \/ \E n \in DOMAIN dir : Rot(n)

Spec == Init /\ [][Next]_vars

-----------------------------------------------------------------------------
(* What every state consists of.                                           *)
TypeOK ==
  /\ CURRENT \in 1..MaxRevisions
  /\ dir \in [1..MaxRevisions ->
                [file : {"absent", "torn", "intact"} \cup Procs, old : BOOLEAN,
                 ref : {None, "old", "new"}]]
  /\ \A p \in Procs, n \in 1..MaxRevisions :
       dir[n].file = p => job[p].pc = "finish" /\ job[p].rev = n
  /\ alone \subseteq {p \in Procs : job[p].pc \in {"write", "finish", "reference"}}
  /\ quarantined \in 0..QuarantineQuota
  /\ faults \in 0..MaxFaults

(* The index is a cache and never an authority: whatever builders, pruners,*)
(* crashes and rot do to it before and during a retrieval, the answer is   *)
(* the one a scan of the same revision gives.                              *)
ScanParity ==
  told # None =>
    LET scan == ScanFallback(told.rev, told.request, "none")
    IN told.selected = scan.selected /\ told.excluded = scan.excluded

(* What the byte budget keeps out is what does not fit: a scored record is *)
(* selected exactly if it fits beside the selected ones that rank before   *)
(* it, and every record of the revision is selected or counted once.  The  *)
(* reason no_lexical_overlap is given exactly when it is the reason.       *)
BudgetExact ==
  told # None =>
    LET a       == told
        records == history[a.rev]
        Cost(S) == FoldFunction(+, 0, [i \in S |-> records[i].kind.cost + a.request.per])
        buckets == [b \in DOMAIN a.excluded \cup {"selected"} |->
                      IF b = "selected" THEN a.selected ELSE a.excluded[b]]
    IN /\ \A i \in Scored(records) :
            i \in a.selected <=>
              a.request.fixed
                + Cost({j \in a.selected : RanksBefore(records, j, i)} \cup {i})
                  <= a.request.budget
       /\ \A i \in DOMAIN records :
            \E b \in DOMAIN buckets :
              /\ i \in buckets[b]
              /\ \A c \in DOMAIN buckets \ {b} : i \notin buckets[c]
       /\ EmptyReasonFor(a) <=> Scored(records) = {} /\ Ranked(records) # {}

(* rebuild-index heals: a build that returns, and that no other builder,   *)
(* pruner or fault came across, leaves an index that the deep verification *)
(* accepts, whatever crashes and conflicts it found there.                 *)
RebuildHeals ==
  [][\A p \in alone, n \in 1..MaxRevisions :
       /\ job[p] = [pc |-> "reference", rev |-> n]
       /\ job'[p] = Idle
       /\ faults' = faults
       => VerifyIndexDeep(n)']_vars
=============================================================================

------------------------ MODULE ContextPackageProofs ------------------------
(***************************************************************************)
(* Proofs about ContextPackage, for any number of commands, template       *)
(* versions, texts, edits and crashes.                                     *)
(***************************************************************************)
EXTENDS ContextPackage, TLAPS

Installing == {"backup", "contract", "target", "manifest"}
Removing == {"remove", "remove_contract", "remove_manifest"}

PlannedJobs == [pc : {"planned"}, plan : Plans]
CheckedJobs == [pc : {"checked"}, plan : Plans, confirmed : BOOLEAN]
WorkJobs ==
  [pc : Installing \cup Removing, plan : Plans, confirmed : BOOLEAN,
   before : Documents \cup {Absent}, contract : Versions \cup {Absent, Modified},
   manifest : Manifests \cup {Absent}]

Jobs == {Idle} \cup PlannedJobs \cup CheckedJobs \cup WorkJobs

JobsOK == job \in [Callers -> Jobs]

\* A manifest, on disk or in the hands of a command: its block is of its
\* template and the original it names is backed up.
Sound(m) ==
  m # Absent =>
    /\ m.target.block = m.template
    /\ m.original # Absent => m.original \in backups

\* A plan in the hands of a command.
PlanSound(plan) ==
  /\ Sound(plan.manifest)
  /\ plan.kind = "adopt" <=> plan.op = "adopt"
  /\ plan.kind = "adopt" =>
       /\ plan.manifest # Absent /\ plan.target # Absent
       /\ plan.target.block = plan.manifest.template

ManifestsSound ==
  /\ Sound(manifest)
  /\ \A c \in Callers :
       /\ job[c] # Idle => PlanSound(job[c].plan)
       /\ job[c] \in WorkJobs => Sound(job[c].manifest)

\* The contract is written before the block, so it is never the older one.
PairOrdered ==
  BlockOf(target) \in Versions /\ contract \in Versions => BlockOf(target) <= contract

TextKept == "text" \notin raced => TextOf(target) = mine

\* What a command past its comparison has read, if nobody edited it since.
Fresh(j) ==
  /\ j.pc = "checked" /\ "base" \notin raced => target = j.plan.target
  /\ j \in WorkJobs =>
       /\ "base" \notin raced => j.before = j.plan.target
       /\ j.pc \in {"backup", "contract", "target", "remove"} /\ "text" \notin raced =>
            TextOf(j.before) = mine
       /\ j.plan.op \in {"install", "update", "uninstall"}
       /\ TransformDocument(j.plan.template, j.before, j.plan.op) # Refused
       /\ j.pc \in Removing <=> j.plan.op = "uninstall"

\* What an installation or update past its comparison knows of the files it
\* is going to replace.
Raising(j) ==
  j.pc \in Installing \cup {"checked"} /\ j.plan.op \in {"install", "update"} =>
    /\ j.pc # "manifest" /\ BlockOf(target) \in Versions =>
         BlockOf(target) <= j.plan.template
    /\ j.pc \in {"checked", "backup", "contract"} =>
         /\ contract \in Versions => contract <= j.plan.template
         /\ contract = Modified => "contract" \in raced
    /\ j.pc \in {"backup", "contract"} /\ contract \in Versions => contract = j.contract
    /\ j.pc = "target" /\ contract \in Versions => contract = j.plan.template
    /\ j.pc \in {"contract", "target", "manifest"} /\ j.manifest = Absent
         /\ j.before # Absent => j.before \in backups
    /\ \/ j.confirmed
       \/ j.plan.target = Absent
       \/ j.plan.manifest = Absent
       \/ j.plan.target = j.plan.manifest.target

CommandsOK == \A c \in Callers : Fresh(job[c]) /\ Raising(job[c])

IndInv ==
  TypeOK /\ JobsOK /\ ManifestsSound /\ PairOrdered /\ TextKept /\ CommandsOK

-----------------------------------------------------------------------------
(* The operators.                                                          *)

\* transform_document keeps the text, refuses, and otherwise writes the block
\* of the template or removes it.
LEMMA TransformKeepsText ==
    ASSUME NEW r \in Versions, NEW d \in Documents \cup {Absent},
           NEW op \in {"install", "update", "uninstall"},
           TransformDocument(r, d, op) # Refused
    PROVE  LET t == TransformDocument(r, d, op)
           IN /\ t \in Documents \cup {Absent}
              /\ TextOf(t) = TextOf(d)
              /\ op # "uninstall" => t \in Documents /\ t.text = TextOf(d) /\ t.block = r
              /\ op = "uninstall" => BlockOf(t) = None
<1> DEFINE t == TransformDocument(r, d, op)
<1>1. /\ TextOf(d) \in AllTexts /\ BlockOf(d) \in Versions \cup {None, Broken}
      /\ Empty \in AllTexts /\ Absent \notin Documents
  BY NamesAssumption DEF Documents, TextOf, BlockOf, AllTexts
<1>2. CASE op \in {"install", "update"}
  <2>1. t = [text |-> TextOf(d), block |-> r]
    BY <1>2 DEF TransformDocument, RenderManagedBlock
  <2>2. t \in Documents
    BY <1>1, <2>1 DEF Documents
  <2>3. TextOf(t) = TextOf(d)
    BY <1>1, <2>1, <2>2 DEF TextOf
  <2>4. QED
    BY <1>2, <2>1, <2>2, <2>3
<1>3. CASE op = "uninstall"
  <2>1. /\ BlockOf(d) # None
        /\ t = IF TextOf(d) = Empty THEN Absent ELSE [d EXCEPT !.block = None]
    BY <1>3 DEF TransformDocument
  <2>2. CASE TextOf(d) = Empty
    BY <1>3, <2>1, <2>2 DEF TextOf, BlockOf
  <2>3. CASE TextOf(d) # Empty
    <3>1. d # Absent /\ d \in Documents /\ TextOf(d) = d.text
      BY <2>3 DEF TextOf
    <3>2. t = [text |-> d.text, block |-> None]
      BY <2>1, <2>3, <3>1 DEF Documents
    <3>3. t \in Documents /\ t # Absent
      BY <1>1, <3>1, <3>2 DEF Documents
    <3>4. QED
      BY <1>3, <3>1, <3>2, <3>3 DEF TextOf, BlockOf
  <2>4. QED
    BY <2>2, <2>3
<1>4. QED
  BY <1>2, <1>3

\* What plan_context_change has checked when it returns a plan.
LEMMA PlanChecks ==
    ASSUME TypeOK, NEW kind \in {"context", "upgrade"},
           NEW op \in {"install", "update", "uninstall"}, NEW r \in Versions,
           NEW allow \in BOOLEAN, PlanContextChange(kind, op, r, allow) # Refused
    PROVE  /\ PlanContextChange(kind, op, r, allow) = Plan(kind, op, r)
           /\ op # "uninstall" =>
                /\ BlockOf(target) \in Versions => BlockOf(target) <= r
                /\ contract \in Versions => contract <= r
                /\ contract # Modified
                /\ \/ allow \/ target = Absent \/ manifest = Absent
                   \/ target = manifest.target
<1>1. /\ contract \in Versions \cup {Absent, Modified} /\ Modified \notin Versions
      /\ Absent \notin Versions \cup {Modified}
      /\ \A v \in Versions : v \in Nat
  BY NamesAssumption, VersionsAssumption DEF TypeOK
<1>2. PlanContextChange(kind, op, r, allow) = Plan(kind, op, r)
  BY DEF PlanContextChange
<1>3. ASSUME op # "uninstall"
      PROVE  /\ ~BlockNewerThanRuntime(r, BlockOf(target))
             /\ ~(~allow /\ target # Absent /\ TargetDrift(target, manifest))
             /\ \/ contract = Absent \/ contract = r
                \/ BlockOf(target) \in Versions /\ BlockOf(target) < r /\ contract = BlockOf(target)
  BY <1>3 DEF PlanContextChange, ContractEquivalent, KnownTemplateEquivalent
<1>4. QED
  BY <1>1, <1>2, <1>3 DEF BlockNewerThanRuntime, TargetDrift

\* A plan is made of the files as they are.
LEMMA PlanFields ==
    ASSUME TypeOK, NEW kind \in {"context", "upgrade", "adopt"},
           NEW op \in {"install", "update", "uninstall", "adopt"}, NEW r \in Versions
    PROVE  /\ Plan(kind, op, r) \in Plans
           /\ Plan(kind, op, r) # Refused
           /\ Plan(kind, op, r).kind = kind /\ Plan(kind, op, r).op = op
           /\ Plan(kind, op, r).template = r /\ Plan(kind, op, r).target = target
           /\ Plan(kind, op, r).contract = contract
           /\ Plan(kind, op, r).manifest = manifest
<1>1. Plan(kind, op, r) \in Plans
  BY DEF Plan, Plans, TypeOK
<1>2. QED
  BY <1>1, NamesAssumption DEF Plan

-----------------------------------------------------------------------------
(* Commands.                                                               *)

Quiet == {Idle} \cup PlannedJobs

LEMMA JobShape ==
    ASSUME NEW j \in Jobs
    PROVE  /\ j \in Quiet <=> j.pc \in {"idle", "planned"}
           /\ j = Idle <=> j.pc = "idle"
           /\ j \in PlannedJobs <=> j.pc = "planned"
           /\ j \in CheckedJobs <=> j.pc = "checked"
           /\ j \in WorkJobs <=> j.pc \in Installing \cup Removing
           /\ j # Idle => j.plan \in Plans
<1> USE DEF Quiet, PlannedJobs, CheckedJobs, WorkJobs, Installing, Removing, Idle
<1>1. CASE j = Idle
  BY <1>1
<1>2. CASE j \in PlannedJobs
  BY <1>2
<1>3. CASE j \in CheckedJobs
  BY <1>3
<1>4. CASE j \in WorkJobs
  BY <1>4
<1>5. QED
  BY <1>1, <1>2, <1>3, <1>4 DEF Jobs

\* Nothing is asked of a command that is not past its comparison.
LEMMA QuietIsFine ==
    ASSUME NEW j \in Quiet
    PROVE  Fresh(j) /\ Raising(j) /\ Fresh(j)' /\ Raising(j)'
<1>1. j \in Jobs /\ j.pc \in {"idle", "planned"} /\ j \notin WorkJobs
  BY JobShape DEF Quiet, Jobs, Installing, Removing
<1>2. QED
  BY <1>1 DEF Fresh, Raising, Installing

\* Backups are only added.
LEMMA SoundStays ==
    ASSUME NEW m, Sound(m), backups \subseteq backups'
    PROVE  Sound(m)'
  BY DEF Sound

\* Only the holder of the lock is past its comparison.
LEMMA OthersQuiet ==
    ASSUME TypeOK, JobsOK, NEW c \in Callers, lock # c
    PROVE  job[c] \in Quiet
<1>1. job[c] \in Jobs /\ job[c].pc \in {"idle", "planned"}
  BY DEF TypeOK, JobsOK
<1>2. QED
  BY <1>1, JobShape

\* A step of the command that holds the lock, takes it or releases it.
LEMMA CommandStep ==
    ASSUME IndInv, NEW c \in Callers, NEW j \in Jobs, job' = [job EXCEPT ![c] = j],
           UNCHANGED <<mine, raced, edits>>,
           crashes' \in 0..MaxCrashes, applies' \in 0..MaxApplies,
           lock \in {None, c}, lock' = IF j \in Quiet THEN None ELSE c,
           target' \in Documents \cup {Absent},
           contract' \in Versions \cup {Absent, Modified},
           manifest' \in Manifests \cup {Absent},
           backups \subseteq backups',
           backups' \subseteq Documents \cup [contract : Versions \cup {Modified}],
           Sound(manifest)', j # Idle => PlanSound(j.plan)',
           j \in WorkJobs => Sound(j.manifest)',
           PairOrdered', TextKept', Fresh(j)', Raising(j)'
    PROVE  IndInv'
<1> USE DEF IndInv
<1>1. /\ job' \in [Callers -> Jobs] /\ job'[c] = j
      /\ \A d \in Callers : d # c => job'[d] = job[d]
  BY DEF JobsOK
<1>2. JobsOK'
  BY <1>1 DEF JobsOK
<1>3. \A d \in Callers : d # c => job[d] \in Quiet /\ job[d] \notin WorkJobs
  <2> SUFFICES ASSUME NEW d \in Callers, d # c PROVE job[d] \in Quiet /\ job[d] \notin WorkJobs
    OBVIOUS
  <2>1. job[d] \in Quiet
    BY NamesAssumption, OthersQuiet
  <2>2. QED
    BY <2>1, JobShape DEF Quiet, Jobs, Installing, Removing
<1>4. \A d \in Callers : (job'[d].pc \notin {"idle", "planned"}) <=> (lock' = d)
  <2> SUFFICES ASSUME NEW d \in Callers
               PROVE  (job'[d].pc \notin {"idle", "planned"}) <=> (lock' = d)
    OBVIOUS
  <2>1. CASE d = c
    BY <1>1, <2>1, JobShape, NamesAssumption
  <2>2. CASE d # c
    BY <1>1, <1>3, <2>2, JobShape, NamesAssumption DEF Quiet, Jobs
  <2>3. QED
    BY <2>1, <2>2
<1>5. TypeOK'
  BY <1>4 DEF TypeOK
<1>6. ManifestsSound'
  <2>1. ASSUME NEW d \in Callers, d # c, job[d] # Idle
        PROVE  PlanSound(job[d].plan)'
    <3>1. PICK p : p = job[d].plan
      OBVIOUS
    <3>2. job'[d].plan = p
      BY <1>1, <2>1, <3>1
    <3>3. PlanSound(p)
      BY <2>1, <3>1 DEF ManifestsSound
    <3>4. PlanSound(p)'
      BY <3>3, SoundStays DEF PlanSound
    <3>5. QED
      BY <3>2, <3>4 DEF PlanSound, Sound
  <2>2. QED
    BY <1>1, <1>3, <2>1 DEF ManifestsSound, PlanSound, Sound
<1>7. CommandsOK'
  <2> SUFFICES ASSUME NEW d \in Callers PROVE Fresh(job[d])' /\ Raising(job[d])'
    BY DEF CommandsOK
  <2>1. PICK k : k = job'[d]
    OBVIOUS
  <2>2. Fresh(k)' /\ Raising(k)'
    BY <1>1, <1>3, <2>1, QuietIsFine
  <2>3. QED
    BY <2>1, <2>2 DEF Fresh, Raising
<1>8. QED
  BY <1>2, <1>5, <1>6, <1>7

\* A step of a command that holds no lock and goes on holding none.
LEMMA QuietStep ==
    ASSUME IndInv, NEW c \in Callers, NEW j \in Quiet, job' = [job EXCEPT ![c] = j],
           job[c] \in Quiet, j # Idle => PlanSound(j.plan),
           UNCHANGED <<files, lock, ghosts>>
    PROVE  IndInv'
<1> USE DEF IndInv, files, ghosts
<1>1. /\ job' \in [Callers -> Jobs] /\ job'[c] = j /\ j \in Jobs
      /\ \A d \in Callers : d # c => job'[d] = job[d]
  BY DEF JobsOK, Quiet, Jobs
<1>2. JobsOK'
  BY <1>1 DEF JobsOK
<1>3. /\ j.pc \in {"idle", "planned"} /\ job[c].pc \in {"idle", "planned"}
      /\ j \notin WorkJobs
  BY <1>1, JobShape DEF JobsOK, Installing, Removing
<1>4. TypeOK'
  BY <1>1, <1>3 DEF TypeOK
<1>5. ManifestsSound' /\ PairOrdered' /\ TextKept'
  BY <1>1, <1>3 DEF ManifestsSound, PlanSound, Sound, PairOrdered, TextKept
<1>6. CommandsOK'
  BY <1>1, QuietIsFine DEF CommandsOK, Fresh, Raising
<1>7. QED
  BY <1>2, <1>4, <1>5, <1>6

\* A plan that was not refused, of either command.
LEMMA PlanIsSound ==
    ASSUME IndInv, NEW r \in Versions, NEW p, p # Refused,
           \/ \E op \in {"install", "update", "uninstall"}, allow \in BOOLEAN :
                p = PlanContextChange("context", op, r, allow)
           \/ \E op \in {"install", "update"}, allow \in BOOLEAN :
                p = PlanContextChange("upgrade", op, r, allow)
           \/ p = PlanBaselineAdoption(r)
    PROVE  /\ p \in Plans /\ PlanSound(p)
           /\ p.template = r /\ p.target = target /\ p.contract = contract
           /\ p.manifest = manifest
<1> USE DEF IndInv
<1>1. CASE \E kind \in {"context", "upgrade"}, op \in {"install", "update", "uninstall"} :
             p = Plan(kind, op, r)
  BY <1>1, PlanFields DEF PlanSound, ManifestsSound
<1>2. CASE p = PlanBaselineAdoption(r)
  <2>1. p = Plan("adopt", "adopt", r) /\ BaselineAdoptionPreconditions(r)
    BY <1>2 DEF PlanBaselineAdoption
  <2>2. /\ p \in Plans /\ p.kind = "adopt" /\ p.op = "adopt"
        /\ p.template = r /\ p.target = target /\ p.contract = contract
        /\ p.manifest = manifest
    BY <2>1, PlanFields
  <2>3. manifest # Absent /\ BlockOf(target) = manifest.template /\ manifest.template \in Versions
    BY <2>1 DEF BaselineAdoptionPreconditions, TypeOK, Manifests
  <2>4. target # Absent /\ target.block = manifest.template
    BY <2>3, NamesAssumption DEF BlockOf
  <2>5. QED
    BY <2>2, <2>3, <2>4 DEF PlanSound, ManifestsSound
<1>3. QED
  BY <1>1, <1>2, PlanChecks

LEMMA MakePlanStep ==
    ASSUME IndInv, NEW c \in Callers, NEW r \in Versions, MakePlan(c, r)
    PROVE  IndInv'
<1>1. PICK p : /\ p # Refused
               /\ job' = [job EXCEPT ![c] = [pc |-> "planned", plan |-> p]]
               /\ p \in {PlanContextChange("context", op, r, FALSE) :
                           op \in {"install", "update", "uninstall"}}
                        \cup {PlanBaselineAdoption(r), InspectUpgrade(r)}
  BY DEF MakePlan
<1>2. p \in Plans /\ PlanSound(p)
  BY <1>1, PlanIsSound DEF InspectUpgrade
<1>3. PICK j : j = [pc |-> "planned", plan |-> p]
  OBVIOUS
<1>4. j \in Quiet /\ j.plan = p
  BY <1>2, <1>3 DEF Quiet, PlannedJobs
<1>5. job[c] \in Quiet /\ UNCHANGED <<files, lock, ghosts>>
  BY DEF MakePlan, Quiet
<1>6. QED
  BY <1>1, <1>2, <1>3, <1>4, <1>5, QuietStep

\* The command whose apply found the plan again holds the lock and knows what
\* the planning has checked.
LEMMA ApplyPlanStep ==
    ASSUME IndInv, NEW c \in Callers, NEW r \in Versions, NEW confirm \in BOOLEAN,
           ApplyPlan(c, r, confirm)
    PROVE  IndInv'
<1>1. /\ job[c] \in Jobs /\ job[c].pc = "planned" /\ TypeOK /\ ManifestsSound
      /\ UNCHANGED <<files, mine, raced, edits, crashes>>
  BY DEF IndInv, JobsOK, ApplyPlan
<1>2. job[c] \in PlannedJobs /\ job[c] \in Quiet /\ job[c] # Idle /\ Idle \in Quiet
  BY <1>1, JobShape DEF Quiet
<1>3. PICK p : p = job[c].plan
  OBVIOUS
<1>4. p \in Plans /\ p # Refused /\ PlanSound(p)
  BY <1>1, <1>2, <1>3, NamesAssumption DEF PlannedJobs, ManifestsSound
<1>5. CASE lock = None /\ Rebuilt(p, r, confirm) = p
  <2>1. /\ applies < MaxApplies /\ applies' = applies + 1 /\ lock' = c
        /\ job' = [job EXCEPT ![c] =
                     [pc |-> "checked", plan |-> p,
                      confirmed |-> confirm /\ p.kind = "upgrade"]]
    BY <1>3, <1>5 DEF ApplyPlan
  <2>2. PICK j : j = [pc |-> "checked", plan |-> p, confirmed |-> confirm /\ p.kind = "upgrade"]
    OBVIOUS
  <2>3. /\ j \in CheckedJobs /\ j \in Jobs /\ j \notin Quiet /\ j # Idle /\ j \notin WorkJobs
        /\ j.pc = "checked" /\ j.plan = p /\ (j.confirmed <=> confirm /\ p.kind = "upgrade")
    <3>1. (confirm /\ p.kind = "upgrade") \in BOOLEAN
      OBVIOUS
    <3>2. j \in CheckedJobs /\ j \in Jobs
      BY <1>4, <2>2, <3>1 DEF CheckedJobs, Jobs
    <3>3. QED
      BY <2>2, <3>2, JobShape DEF Installing, Removing
  <2>4. ASSUME p.op \in {"install", "update"}
        PROVE  /\ BlockOf(target) \in Versions => BlockOf(target) <= p.template
               /\ contract \in Versions => contract <= p.template
               /\ contract # Modified
               /\ j.confirmed \/ p.target = Absent \/ p.manifest = Absent
                  \/ p.target = p.manifest.target
               /\ p.target = target
    <3>1. p.kind \in {"context", "upgrade"}
      BY <1>4, <2>4 DEF Plans, PlanSound
    <3>2. PICK allow \in BOOLEAN :
            p = PlanContextChange(p.kind, p.op, r, allow) /\ (allow => j.confirmed)
      <4>1. CASE p.kind = "context"
        BY <4>1, <1>5 DEF Rebuilt
      <4>2. CASE p.kind = "upgrade"
        BY <4>2, <1>4, <1>5, <2>3 DEF Rebuilt
      <4>3. QED
        BY <3>1, <4>1, <4>2
    <3>3. p = Plan(p.kind, p.op, r)
          /\ (BlockOf(target) \in Versions => BlockOf(target) <= r)
          /\ (contract \in Versions => contract <= r)
          /\ contract # Modified
          /\ (allow \/ target = Absent \/ manifest = Absent \/ target = manifest.target)
      BY <1>1, <1>4, <2>4, <3>1, <3>2, PlanChecks
    <3>4. p.template = r /\ p.target = target /\ p.manifest = manifest
      BY <3>3 DEF Plan
    <3>5. QED
      BY <3>2, <3>3, <3>4
  <2>5. target = p.target
    <3>1. \/ p = PlanBaselineAdoption(r)
          \/ \E op \in {"install", "update", "uninstall"}, kind \in {"context", "upgrade"},
                allow \in BOOLEAN : p = PlanContextChange(kind, op, r, allow)
      <4>1. CASE p.kind = "adopt"
        BY <4>1, <1>5 DEF Rebuilt
      <4>2. CASE p.kind = "context"
        <5>1. p.op \in {"install", "update", "uninstall"}
          BY <1>4, <4>2 DEF Plans, PlanSound
        <5>2. QED
          BY <4>2, <5>1, <1>5 DEF Rebuilt
      <4>3. CASE p.kind = "upgrade"
        <5>1. p.op \in {"install", "update", "uninstall"}
          BY <1>4, <4>3 DEF Plans, PlanSound
        <5>2. QED
          BY <4>3, <5>1, <1>4, <1>5 DEF Rebuilt
      <4>4. QED
        BY <1>4, <4>1, <4>2, <4>3 DEF Plans
    <3>2. \E kind \in {"context", "upgrade", "adopt"},
             op \in {"install", "update", "uninstall", "adopt"} : p = Plan(kind, op, r)
      BY <1>1, <1>4, <3>1, PlanChecks DEF PlanBaselineAdoption
    <3>3. QED
      BY <3>2 DEF Plan
  <2>6. Fresh(j)'
    BY <1>1, <2>3, <2>5 DEF Fresh, files
  <2>7. Raising(j)'
    BY <1>1, <2>3, <2>4 DEF Raising, files, BlockOf
  <2>8. applies' \in 0..MaxApplies
    BY <1>1, <2>1, BoundsAssumption DEF TypeOK
  <2>9. PairOrdered' /\ TextKept' /\ Sound(manifest)' /\ PlanSound(p)'
    BY <1>1, <1>4 DEF IndInv, PairOrdered, TextKept, Sound, PlanSound, ManifestsSound,
                      files, BlockOf, TextOf
  <2>10. /\ job' = [job EXCEPT ![c] = j] /\ lock \in {None, c}
         /\ lock' = IF j \in Quiet THEN None ELSE c
         /\ crashes' \in 0..MaxCrashes /\ UNCHANGED <<mine, raced, edits>>
         /\ target' \in Documents \cup {Absent}
         /\ contract' \in Versions \cup {Absent, Modified}
         /\ manifest' \in Manifests \cup {Absent}
         /\ backups \subseteq backups'
         /\ backups' \subseteq Documents \cup [contract : Versions \cup {Modified}]
    BY <1>1, <1>5, <2>1, <2>2, <2>3 DEF TypeOK, files
  <2>11. QED
    BY <2>3, <2>6, <2>7, <2>8, <2>9, <2>10, CommandStep
<1>6. CASE ~(lock = None /\ Rebuilt(p, r, confirm) = p)
  <2>1. job' = [job EXCEPT ![c] = Idle] /\ UNCHANGED <<files, lock, ghosts>>
    BY <1>1, <1>3, <1>6 DEF ApplyPlan, ghosts
  <2>2. QED
    BY <1>2, <2>1, QuietStep
<1>7. QED
  BY <1>5, <1>6

\* The holder of the lock gives it back, whatever it has done to the files.
LEMMA LeaveStep ==
    ASSUME IndInv, NEW c \in Callers, lock = c, Leave(c),
           UNCHANGED <<target, contract, backups, mine, raced, edits, applies>>,
           crashes' \in 0..MaxCrashes,
           manifest' \in Manifests \cup {Absent}, Sound(manifest)'
    PROVE  IndInv'
<1>1. PICK j : j = Idle
  OBVIOUS
<1>2. j \in Jobs /\ j \in Quiet /\ j \notin WorkJobs
  BY <1>1 DEF Jobs, Quiet, WorkJobs, Idle
<1>3. /\ target' \in Documents \cup {Absent}
      /\ contract' \in Versions \cup {Absent, Modified}
      /\ backups \subseteq backups'
      /\ backups' \subseteq Documents \cup [contract : Versions \cup {Modified}]
      /\ applies' \in 0..MaxApplies /\ PairOrdered' /\ TextKept'
  BY DEF IndInv, TypeOK, PairOrdered, TextKept, BlockOf, TextOf
<1>4. job' = [job EXCEPT ![c] = j] /\ lock' = None
  BY <1>1 DEF Leave
<1>5. QED
  BY <1>1, <1>2, <1>3, <1>4, QuietIsFine, CommandStep

\* What a command at work has in its hands.
LEMMA Holder ==
    ASSUME IndInv, NEW c \in Callers, job[c].pc \notin {"idle", "planned"}
    PROVE  /\ lock = c /\ job[c] \in Jobs /\ job[c] # Idle
           /\ job[c].plan \in Plans /\ PlanSound(job[c].plan)
           /\ Fresh(job[c]) /\ Raising(job[c])
           /\ job[c].pc \in Installing \cup Removing =>
                job[c] \in WorkJobs /\ Sound(job[c].manifest)
<1>1. job[c] \in Jobs /\ lock = c
  BY DEF IndInv, JobsOK, TypeOK
<1>2. QED
  BY <1>1, JobShape DEF IndInv, ManifestsSound, CommandsOK

LEMMA Advanced ==
    ASSUME NEW w \in WorkJobs, NEW s \in Installing \cup Removing
    PROVE  LET j == [w EXCEPT !.pc = s]
           IN /\ j \in WorkJobs /\ j \in Jobs /\ j \notin Quiet /\ j # Idle
              /\ j.pc = s /\ j.plan = w.plan /\ j.confirmed = w.confirmed
              /\ j.before = w.before /\ j.contract = w.contract /\ j.manifest = w.manifest
<1> DEFINE j == [w EXCEPT !.pc = s]
<1>1. /\ j \in WorkJobs /\ j.pc = s /\ j.plan = w.plan /\ j.confirmed = w.confirmed
      /\ j.before = w.before /\ j.contract = w.contract /\ j.manifest = w.manifest
  BY DEF WorkJobs
<1>2. j \in Jobs
  BY <1>1 DEF Jobs
<1> HIDE DEF j
<1>3. j \notin Quiet /\ j # Idle
  BY <1>1, <1>2, JobShape DEF Installing, Removing
<1>4. QED
  BY <1>1, <1>2, <1>3 DEF j

\* The holder of the lock goes on to the next of its writes.
LEMMA WorkStep ==
    ASSUME IndInv, NEW c \in Callers, NEW j \in WorkJobs, job' = [job EXCEPT ![c] = j],
           lock = c, PlanSound(j.plan), Sound(j.manifest),
           UNCHANGED <<lock, manifest, ghosts>>,
           target' \in Documents \cup {Absent},
           contract' \in Versions \cup {Absent, Modified},
           backups \subseteq backups',
           backups' \subseteq Documents \cup [contract : Versions \cup {Modified}],
           PairOrdered', TextKept', Fresh(j)', Raising(j)'
    PROVE  IndInv'
<1>1. j \in Jobs /\ j # Idle /\ j \notin Quiet
  BY JobShape DEF Jobs, Installing, Removing, WorkJobs
<1>2. PICK m : m = manifest
  OBVIOUS
<1>3. Sound(m)' /\ Sound(j.manifest)' /\ PlanSound(j.plan)'
  BY <1>2, SoundStays DEF PlanSound, IndInv, ManifestsSound
<1>4. Sound(manifest)' /\ manifest' \in Manifests \cup {Absent}
      /\ crashes' \in 0..MaxCrashes /\ applies' \in 0..MaxApplies
      /\ UNCHANGED <<mine, raced, edits>>
  BY <1>2, <1>3 DEF Sound, IndInv, TypeOK, ghosts
<1>5. lock' = c
  OBVIOUS
<1>6. QED
  BY <1>1, <1>3, <1>4, <1>5, CommandStep

LEMMA ReadFilesStep ==
    ASSUME IndInv, NEW c \in Callers, ReadFiles(c)
    PROVE  IndInv'
<1>1. PICK w : w = job[c]
  OBVIOUS
<1>2. /\ w.pc = "checked" /\ w.plan.kind # "adopt" /\ UNCHANGED <<files, ghosts>>
      /\ w \in Jobs /\ lock = c /\ w.plan \in Plans /\ PlanSound(w.plan)
      /\ Fresh(w) /\ Raising(w)
  BY <1>1, Holder DEF ReadFiles
<1>3. w \in CheckedJobs /\ w.confirmed \in BOOLEAN
      /\ w.plan.op \in {"install", "update", "uninstall"}
  BY <1>2, JobShape DEF CheckedJobs, Plans, PlanSound
<1>4. CASE Leave(c)
  <2>1. Sound(manifest)' /\ manifest' \in Manifests \cup {Absent} /\ crashes' \in 0..MaxCrashes
    BY <1>2 DEF IndInv, ManifestsSound, Sound, TypeOK, files, ghosts
  <2>2. QED
    BY <1>2, <1>4, <2>1, LeaveStep DEF files, ghosts
<1>5. CASE ~Leave(c)
  <2>1. PICK j : j = [pc |-> IF w.plan.op = "uninstall" THEN "remove" ELSE "backup",
                      plan |-> w.plan, confirmed |-> w.confirmed, before |-> target,
                      contract |-> contract, manifest |-> manifest]
    OBVIOUS
  <2>2. /\ job' = [job EXCEPT ![c] = j] /\ UNCHANGED lock
        /\ TransformDocument(w.plan.template, target, w.plan.op) # Refused
    BY <1>1, <1>5, <2>1 DEF ReadFiles
  <2>3. /\ j.pc = (IF w.plan.op = "uninstall" THEN "remove" ELSE "backup")
        /\ j.plan = w.plan /\ j.confirmed = w.confirmed /\ j.before = target
        /\ j.contract = contract /\ j.manifest = manifest
    BY <2>1
  <2>4. j \in WorkJobs
    <3>1. (IF w.plan.op = "uninstall" THEN "remove" ELSE "backup") \in Installing \cup Removing
      BY DEF Installing, Removing
    <3>2. QED
      BY <1>2, <1>3, <2>1, <3>1 DEF WorkJobs, IndInv, TypeOK
  <2>5. Fresh(j)'
    BY <1>2, <1>3, <2>2, <2>3, <2>4 DEF Fresh, files, ghosts, IndInv, TextKept, Removing, TextOf
  <2>6. Raising(j)'
    BY <1>2, <1>3, <2>3 DEF Raising, files, ghosts, Installing, BlockOf
  <2>7. /\ PairOrdered' /\ TextKept' /\ Sound(manifest)
        /\ target' \in Documents \cup {Absent}
        /\ contract' \in Versions \cup {Absent, Modified}
        /\ backups \subseteq backups'
        /\ backups' \subseteq Documents \cup [contract : Versions \cup {Modified}]
    BY <1>2 DEF IndInv, PairOrdered, TextKept, ManifestsSound, TypeOK, files, ghosts, BlockOf, TextOf
  <2>8. QED
    BY <1>2, <2>2, <2>3, <2>4, <2>5, <2>6, <2>7, WorkStep DEF files
<1>6. QED
  BY <1>4, <1>5

LEMMA BackupStep ==
    ASSUME IndInv, NEW c \in Callers, Backup(c)
    PROVE  IndInv'
<1>1. PICK w : w = job[c]
  OBVIOUS
<1>2. /\ w.pc = "backup" /\ UNCHANGED <<target, contract, manifest, lock, ghosts>>
      /\ w \in WorkJobs /\ lock = c /\ PlanSound(w.plan) /\ Sound(w.manifest)
      /\ Fresh(w) /\ Raising(w)
      /\ backups' = backups
           \cup {d \in {w.before} : w.manifest = Absent /\ w.before # Absent}
           \cup {[contract |-> v] : v \in {w.contract} \ {Absent, w.plan.template}}
      /\ Advance(c, "contract")
  BY <1>1, Holder DEF Backup, Installing
<1>3. PICK j : j = [w EXCEPT !.pc = "contract"]
  OBVIOUS
<1>4. /\ j \in WorkJobs /\ j.pc = "contract" /\ j.plan = w.plan
      /\ j.confirmed = w.confirmed
      /\ j.before = w.before /\ j.contract = w.contract /\ j.manifest = w.manifest
  BY <1>2, <1>3, Advanced DEF Installing
<1>5. job' = [job EXCEPT ![c] = j]
  BY <1>1, <1>2, <1>3 DEF Advance
<1>6. /\ backups \subseteq backups'
      /\ backups' \subseteq Documents \cup [contract : Versions \cup {Modified}]
      /\ w.manifest = Absent /\ w.before # Absent => w.before \in backups'
  BY <1>2 DEF IndInv, TypeOK, WorkJobs
<1>7. Fresh(j)'
  BY <1>2, <1>4 DEF Fresh, Removing, ghosts
<1>8. Raising(j)'
  BY <1>2, <1>4, <1>6 DEF Raising, Installing, ghosts, BlockOf
<1>9. /\ PairOrdered' /\ TextKept'
      /\ target' \in Documents \cup {Absent}
      /\ contract' \in Versions \cup {Absent, Modified}
  BY <1>2 DEF IndInv, PairOrdered, TextKept, TypeOK, ghosts, BlockOf, TextOf
<1>10. QED
  BY <1>2, <1>4, <1>5, <1>6, <1>7, <1>8, <1>9, WorkStep

LEMMA WriteContractStep ==
    ASSUME IndInv, NEW c \in Callers, WriteContract(c)
    PROVE  IndInv'
<1>1. PICK w : w = job[c]
  OBVIOUS
<1>2. /\ w.pc = "contract" /\ UNCHANGED <<target, manifest, backups, lock, ghosts>>
      /\ w \in WorkJobs /\ lock = c /\ PlanSound(w.plan) /\ Sound(w.manifest)
      /\ Fresh(w) /\ Raising(w)
  BY <1>1, Holder DEF WriteContract, Installing
<1>3. /\ w.plan \in Plans /\ w.plan.template \in Versions
      /\ w.before \in Documents \cup {Absent} /\ w.manifest \in Manifests \cup {Absent}
      /\ w.contract \in Versions \cup {Absent, Modified}
      /\ w.plan.op \in {"install", "update"}
      /\ TransformDocument(w.plan.template, w.before, w.plan.op) # Refused
  BY <1>2 DEF WorkJobs, Plans, Fresh, Installing, Removing
<1>4. PICK j : j = [w EXCEPT !.pc = "target"]
  OBVIOUS
<1>5. /\ j \in WorkJobs /\ j.pc = "target" /\ j.plan = w.plan
      /\ j.confirmed = w.confirmed
      /\ j.before = w.before /\ j.contract = w.contract /\ j.manifest = w.manifest
  BY <1>2, <1>4, Advanced DEF Installing
<1>6. /\ job' = [job EXCEPT ![c] = j]
      /\ contract' = IF w.contract = w.plan.template THEN contract ELSE w.plan.template
  BY <1>1, <1>4 DEF WriteContract, Advance, ContractEquivalent
<1>7. Fresh(j)'
  BY <1>2, <1>3, <1>5 DEF Fresh, Removing, ghosts
<1>8. /\ contract' \in Versions => contract' = w.plan.template
      /\ BlockOf(target) \in Versions => BlockOf(target) <= w.plan.template
  BY <1>2, <1>3, <1>6 DEF Raising, Installing
<1>9. Raising(j)'
  BY <1>2, <1>3, <1>5, <1>8 DEF Raising, Installing, ghosts, BlockOf
<1>10. PairOrdered' /\ TextKept'
  BY <1>2, <1>8 DEF IndInv, PairOrdered, TextKept, ghosts, BlockOf, TextOf
<1>11. /\ target' \in Documents \cup {Absent}
       /\ contract' \in Versions \cup {Absent, Modified}
       /\ backups \subseteq backups'
       /\ backups' \subseteq Documents \cup [contract : Versions \cup {Modified}]
  BY <1>2, <1>3, <1>6 DEF IndInv, TypeOK
<1>12. QED
  BY <1>2, <1>5, <1>6, <1>7, <1>9, <1>10, <1>11, WorkStep

LEMMA WriteTargetStep ==
    ASSUME IndInv, NEW c \in Callers, WriteTarget(c)
    PROVE  IndInv'
<1>1. PICK w : w = job[c]
  OBVIOUS
<1>2. /\ w.pc = "target" /\ UNCHANGED <<contract, manifest, backups, lock, ghosts>>
      /\ w \in WorkJobs /\ lock = c /\ PlanSound(w.plan) /\ Sound(w.manifest)
      /\ Fresh(w) /\ Raising(w)
  BY <1>1, Holder DEF WriteTarget, Installing
<1>3. /\ w.plan \in Plans /\ w.plan.template \in Versions
      /\ w.before \in Documents \cup {Absent} /\ w.manifest \in Manifests \cup {Absent}
      /\ w.contract \in Versions \cup {Absent, Modified}
      /\ w.plan.op \in {"install", "update"}
      /\ TransformDocument(w.plan.template, w.before, w.plan.op) # Refused
  BY <1>2 DEF WorkJobs, Plans, Fresh, Installing, Removing
<1>4. PICK j : j = [w EXCEPT !.pc = "manifest"]
  OBVIOUS
<1>5. /\ j \in WorkJobs /\ j.pc = "manifest" /\ j.plan = w.plan
      /\ j.confirmed = w.confirmed
      /\ j.before = w.before /\ j.contract = w.contract /\ j.manifest = w.manifest
  BY <1>2, <1>4, Advanced DEF Installing
<1>6. /\ job' = [job EXCEPT ![c] = j]
      /\ target' = TransformDocument(w.plan.template, w.before, w.plan.op)
  BY <1>1, <1>4 DEF WriteTarget, Advance
<1>7. /\ target' \in Documents /\ target'.block = w.plan.template
      /\ TextOf(target') = TextOf(w.before)
  BY <1>3, <1>6, TransformKeepsText
<1>8. BlockOf(target') = w.plan.template
  BY <1>7, NamesAssumption DEF BlockOf
<1>9. Fresh(j)'
  BY <1>2, <1>3, <1>5 DEF Fresh, Removing, ghosts
<1>10. Raising(j)'
  BY <1>2, <1>3, <1>5 DEF Raising, Installing, ghosts
<1>11. PairOrdered'
  <2>1. contract \in Versions => contract = w.plan.template
    BY <1>2, <1>3 DEF Raising, Installing
  <2>2. \A v \in Versions : v <= v
    BY VersionsAssumption
  <2>3. QED
    BY <1>2, <1>3, <1>8, <2>1, <2>2 DEF PairOrdered, BlockOf
<1>12. TextKept'
  BY <1>2, <1>7 DEF Fresh, TextKept, ghosts, TextOf
<1>13. /\ target' \in Documents \cup {Absent}
       /\ contract' \in Versions \cup {Absent, Modified}
       /\ backups \subseteq backups'
       /\ backups' \subseteq Documents \cup [contract : Versions \cup {Modified}]
  BY <1>2, <1>7 DEF IndInv, TypeOK
<1>14. QED
  BY <1>2, <1>5, <1>6, <1>9, <1>10, <1>11, <1>12, <1>13, WorkStep

LEMMA WriteManifestStep ==
    ASSUME IndInv, NEW c \in Callers, WriteManifest(c)
    PROVE  IndInv'
<1>1. PICK w : w = job[c]
  OBVIOUS
<1>2. /\ w.pc = "manifest" /\ UNCHANGED <<target, contract, backups, ghosts>>
      /\ w \in WorkJobs /\ lock = c /\ PlanSound(w.plan) /\ Sound(w.manifest)
      /\ Fresh(w) /\ Raising(w)
  BY <1>1, Holder DEF WriteManifest, Installing
<1>3. /\ w.plan \in Plans /\ w.plan.template \in Versions
      /\ w.before \in Documents \cup {Absent} /\ w.manifest \in Manifests \cup {Absent}
      /\ w.contract \in Versions \cup {Absent, Modified}
      /\ w.plan.op \in {"install", "update"}
      /\ TransformDocument(w.plan.template, w.before, w.plan.op) # Refused
  BY <1>2 DEF WorkJobs, Plans, Fresh, Installing, Removing
<1>4. Leave(c) /\ manifest' = NewManifest(w)
  BY <1>1 DEF WriteManifest
<1>5. PICK t : t = TransformDocument(w.plan.template, w.before, w.plan.op)
  OBVIOUS
<1>6. t \in Documents /\ t.block = w.plan.template
  BY <1>3, <1>5, TransformKeepsText
<1>7. /\ manifest' \in Manifests /\ manifest'.target = t
      /\ manifest'.template = w.plan.template
      /\ manifest'.original = IF w.manifest = Absent THEN w.before ELSE w.manifest.original
  <2>1. CASE w.manifest = Absent
    <3>1. manifest' = [target |-> t, template |-> w.plan.template, original |-> w.before,
                       fileCreated |-> (w.before = Absent),
                       contractCreated |-> (w.plan.contract = Absent)]
      BY <1>4, <1>5, <2>1 DEF NewManifest
    <3>2. (w.before = Absent) \in BOOLEAN /\ (w.plan.contract = Absent) \in BOOLEAN
      OBVIOUS
    <3>3. QED
      BY <1>3, <1>6, <2>1, <3>1, <3>2 DEF Manifests
  <2>2. CASE w.manifest # Absent
    <3>1. manifest' = [target |-> t, template |-> w.plan.template,
                       original |-> w.manifest.original,
                       fileCreated |-> w.manifest.fileCreated,
                       contractCreated |-> w.manifest.contractCreated]
      BY <1>4, <1>5, <2>2 DEF NewManifest
    <3>2. QED
      BY <1>3, <1>6, <2>2, <3>1 DEF Manifests
  <2>3. QED
    BY <2>1, <2>2
<1>8. Sound(manifest)'
  <2>1. w.manifest = Absent /\ w.before # Absent => w.before \in backups
    BY <1>2, <1>3 DEF Raising, Installing
  <2>2. w.manifest # Absent /\ w.manifest.original # Absent => w.manifest.original \in backups
    BY <1>2 DEF Sound
  <2>3. QED
    BY <1>2, <1>6, <1>7, <2>1, <2>2 DEF Sound
<1>9. crashes' \in 0..MaxCrashes
  BY <1>2 DEF IndInv, TypeOK, ghosts
<1>10. QED
  BY <1>2, <1>4, <1>7, <1>8, <1>9, LeaveStep DEF ghosts

LEMMA RemoveBlockStep ==
    ASSUME IndInv, NEW c \in Callers, RemoveBlock(c)
    PROVE  IndInv'
<1>1. PICK w : w = job[c]
  OBVIOUS
<1>2. /\ w.pc = "remove" /\ UNCHANGED <<contract, manifest, backups, ghosts>>
      /\ w \in WorkJobs /\ lock = c /\ PlanSound(w.plan) /\ Sound(w.manifest)
      /\ Fresh(w) /\ Raising(w)
  BY <1>1, Holder DEF RemoveBlock, Removing
<1>3. /\ w.plan \in Plans /\ w.plan.template \in Versions
      /\ w.before \in Documents \cup {Absent} /\ w.manifest \in Manifests \cup {Absent}
      /\ w.contract \in Versions \cup {Absent, Modified}
      /\ w.plan.op \in {"uninstall"}
      /\ TransformDocument(w.plan.template, w.before, w.plan.op) # Refused
  BY <1>2 DEF WorkJobs, Plans, Fresh, Installing, Removing
<1>4. CASE target = Absent
  <2>1. Leave(c) /\ UNCHANGED target
    BY <1>1, <1>4 DEF RemoveBlock
  <2>2. Sound(manifest)' /\ manifest' \in Manifests \cup {Absent} /\ crashes' \in 0..MaxCrashes
    BY <1>2 DEF IndInv, ManifestsSound, Sound, TypeOK, ghosts
  <2>3. QED
    BY <1>2, <2>1, <2>2, LeaveStep DEF ghosts
<1>5. CASE target # Absent
  <2>1. PICK rest : rest = TransformDocument(w.plan.template, w.before, "uninstall")
    OBVIOUS
  <2>2. PICK j : j = [w EXCEPT !.pc = "remove_contract"]
    OBVIOUS
  <2>3. /\ job' = [job EXCEPT ![c] = j] /\ UNCHANGED lock
        /\ target' \in {rest, [text |-> Empty, block |-> None]}
        /\ target' # rest => rest = Absent
    BY <1>1, <1>5, <2>1, <2>2 DEF RemoveBlock, Advance
  <2>4. rest \in Documents \cup {Absent} /\ TextOf(rest) = TextOf(w.before) /\ BlockOf(rest) = None
    BY <1>3, <2>1, TransformKeepsText
  <2>5. /\ target' \in Documents \cup {Absent} /\ TextOf(target') = TextOf(w.before)
        /\ BlockOf(target') = None
    <3>1. CASE target' = rest
      BY <2>4, <3>1
    <3>2. CASE rest = Absent /\ target' = [text |-> Empty, block |-> None]
      <4>1. target' \in Documents /\ target' # Absent
        BY <3>2, NamesAssumption DEF Documents, AllTexts
      <4>2. QED
        BY <2>4, <3>2, <4>1 DEF TextOf, BlockOf
    <3>3. QED
      BY <2>3, <3>1, <3>2
  <2>6. /\ j \in WorkJobs /\ j.pc = "remove_contract" /\ j.plan = w.plan
        /\ j.before = w.before /\ j.manifest = w.manifest
    BY <1>2, <2>2, Advanced DEF Removing
  <2>7. Fresh(j)' /\ Raising(j)'
    BY <1>2, <1>3, <2>6 DEF Fresh, Raising, Installing, Removing, ghosts
  <2>8. PairOrdered'
    BY <2>5, NamesAssumption DEF PairOrdered, BlockOf
  <2>9. TextKept'
    BY <1>2, <2>5 DEF Fresh, TextKept, ghosts, TextOf
  <2>10. /\ contract' \in Versions \cup {Absent, Modified}
         /\ backups \subseteq backups'
         /\ backups' \subseteq Documents \cup [contract : Versions \cup {Modified}]
    BY <1>2 DEF IndInv, TypeOK
  <2>11. QED
    BY <1>2, <2>3, <2>5, <2>6, <2>7, <2>8, <2>9, <2>10, WorkStep
<1>6. QED
  BY <1>4, <1>5

LEMMA RemoveContractStep ==
    ASSUME IndInv, NEW c \in Callers, RemoveContract(c)
    PROVE  IndInv'
<1>1. PICK w : w = job[c]
  OBVIOUS
<1>2. /\ w.pc = "remove_contract" /\ UNCHANGED <<target, manifest, backups, lock, ghosts>>
      /\ w \in WorkJobs /\ lock = c /\ PlanSound(w.plan) /\ Sound(w.manifest)
      /\ Fresh(w) /\ Raising(w)
  BY <1>1, Holder DEF RemoveContract, Removing
<1>3. /\ w.plan \in Plans /\ w.plan.template \in Versions
      /\ w.before \in Documents \cup {Absent} /\ w.manifest \in Manifests \cup {Absent}
      /\ w.contract \in Versions \cup {Absent, Modified}
      /\ w.plan.op \in {"uninstall"}
      /\ TransformDocument(w.plan.template, w.before, w.plan.op) # Refused
  BY <1>2 DEF WorkJobs, Plans, Fresh, Installing, Removing
<1>4. PICK j : j = [w EXCEPT !.pc = "remove_manifest"]
  OBVIOUS
<1>5. /\ j \in WorkJobs /\ j.pc = "remove_manifest" /\ j.plan = w.plan
      /\ j.confirmed = w.confirmed
      /\ j.before = w.before /\ j.contract = w.contract /\ j.manifest = w.manifest
  BY <1>2, <1>4, Advanced DEF Removing
<1>6. job' = [job EXCEPT ![c] = j] /\ contract' \in {contract, Absent}
  BY <1>1, <1>4 DEF RemoveContract, Advance
<1>7. Fresh(j)' /\ Raising(j)'
  BY <1>2, <1>3, <1>5 DEF Fresh, Raising, Installing, Removing, ghosts
<1>8. PairOrdered' /\ TextKept'
  BY <1>2, <1>6, NamesAssumption DEF IndInv, PairOrdered, TextKept, ghosts, BlockOf, TextOf
<1>9. /\ target' \in Documents \cup {Absent}
      /\ contract' \in Versions \cup {Absent, Modified}
      /\ backups \subseteq backups'
      /\ backups' \subseteq Documents \cup [contract : Versions \cup {Modified}]
  BY <1>2, <1>6 DEF IndInv, TypeOK
<1>10. QED
  BY <1>2, <1>5, <1>6, <1>7, <1>8, <1>9, WorkStep

LEMMA EndSteps ==
    ASSUME IndInv, NEW c \in Callers, RemoveManifest(c) \/ AdoptBaseline(c) \/ Crash(c)
    PROVE  IndInv'
<1>1. CASE RemoveManifest(c)
  <2>1. lock = c
    BY <1>1, Holder DEF RemoveManifest
  <2>2. manifest' = Absent /\ Leave(c) /\ UNCHANGED <<target, contract, backups, ghosts>>
    BY <1>1 DEF RemoveManifest
  <2>3. Sound(manifest)' /\ crashes' \in 0..MaxCrashes
    BY <2>2 DEF Sound, IndInv, TypeOK, ghosts
  <2>4. QED
    BY <2>1, <2>2, <2>3, LeaveStep DEF ghosts
<1>2. CASE AdoptBaseline(c)
  <2>1. PICK plan : plan = job[c].plan
    OBVIOUS
  <2>2. /\ plan.kind = "adopt" /\ Leave(c) /\ UNCHANGED <<target, contract, backups, ghosts>>
        /\ manifest' = IF plan.manifest.target = plan.target THEN manifest
                       ELSE [plan.manifest EXCEPT !.target = plan.target]
    BY <1>2, <2>1 DEF AdoptBaseline
  <2>3. lock = c /\ plan \in Plans /\ PlanSound(plan)
    BY <1>2, <2>1, Holder DEF AdoptBaseline
  <2>4. /\ plan.manifest \in Manifests /\ plan.target \in Documents
        /\ plan.target.block = plan.manifest.template /\ Sound(plan.manifest)
    BY <2>2, <2>3 DEF PlanSound, Plans
  <2>5. manifest' \in Manifests \cup {Absent} /\ Sound(manifest)'
    <3>1. CASE manifest' = manifest
      BY <2>2, <3>1 DEF IndInv, ManifestsSound, TypeOK, Sound
    <3>2. CASE manifest' = [plan.manifest EXCEPT !.target = plan.target]
      <4>1. /\ manifest' \in Manifests /\ manifest'.target = plan.target
            /\ manifest'.template = plan.manifest.template
            /\ manifest'.original = plan.manifest.original
        BY <2>4, <3>2 DEF Manifests
      <4>2. plan.manifest # Absent
        BY <2>4, NamesAssumption
      <4>3. QED
        BY <2>2, <2>4, <4>1, <4>2 DEF Sound
    <3>3. QED
      BY <2>2, <3>1, <3>2
  <2>6. crashes' \in 0..MaxCrashes
    BY <2>2 DEF IndInv, TypeOK, ghosts
  <2>7. QED
    BY <2>2, <2>3, <2>5, <2>6, LeaveStep DEF ghosts
<1>3. CASE Crash(c)
  <2>1. lock = c /\ Leave(c) /\ UNCHANGED <<files, mine, raced, edits, applies>>
    BY <1>3 DEF Crash
  <2>2. crashes' \in 0..MaxCrashes
    BY <1>3, BoundsAssumption DEF Crash, IndInv, TypeOK
  <2>3. manifest' \in Manifests \cup {Absent} /\ Sound(manifest)'
    BY <2>1 DEF IndInv, ManifestsSound, TypeOK, Sound, files
  <2>4. QED
    BY <2>1, <2>2, <2>3, LeaveStep DEF files
<1>4. QED
  BY <1>1, <1>2, <1>3

-----------------------------------------------------------------------------
(* The user.                                                               *)

\* An edit never makes a block or contract of a template: it keeps it, breaks
\* it or deletes it.
LEMMA EditStep ==
    ASSUME IndInv, NEW t \in Documents \cup {Absent},
           NEW k \in Versions \cup {Absent, Modified}, NEW m \in {manifest, Absent},
           BlockOf(t) \in Versions => BlockOf(t) = BlockOf(target),
           k \in Versions => k = contract,
           Edited(t, k, m)
    PROVE  IndInv'
<1> USE DEF IndInv
<1>1. /\ edits' \in 0..MaxEdits
      /\ target' = t /\ contract' = k /\ manifest' = m /\ mine' = TextOf(t)
      /\ UNCHANGED <<backups, lock, job, crashes, applies>>
  BY BoundsAssumption DEF Edited, TypeOK
<1>2. /\ raced \subseteq raced' /\ raced' \subseteq {"base", "text", "contract"}
      /\ \A c \in Callers :
           /\ job[c].pc = "checked" /\ "base" \notin raced' => t = target
           /\ job[c].pc \in {"backup", "contract", "target", "remove"}
                /\ "text" \notin raced' => t = target
           /\ job[c].pc \in {"checked", "backup", "contract"}
                /\ "contract" \notin raced' => k = contract
  BY DEF Edited, Busy, TypeOK
<1>3. TextOf(t) \in AllTexts
  BY DEF TextOf, Documents, AllTexts
<1>4. TypeOK'
  BY <1>1, <1>2, <1>3 DEF TypeOK
<1>5. JobsOK' /\ ManifestsSound'
  BY <1>1 DEF JobsOK, ManifestsSound, PlanSound, Sound
<1>6. PairOrdered' /\ TextKept'
  BY <1>1 DEF PairOrdered, TextKept, BlockOf, TextOf
<1>7. ASSUME NEW c \in Callers PROVE Fresh(job[c])' /\ Raising(job[c])'
  <2>1. Fresh(job[c]) /\ Raising(job[c]) /\ job'[c] = job[c]
    BY <1>1 DEF CommandsOK
  <2>2. Fresh(job[c])'
    BY <1>1, <1>2, <2>1 DEF Fresh, TextKept, TextOf
  <2>3. k = Modified /\ "contract" \notin raced' /\ job[c].pc \in {"checked", "backup", "contract"}
          => contract = Modified /\ "contract" \notin raced
    BY <1>2
  <2>4. BlockOf(target') = BlockOf(t)
    BY <1>1
  <2>5. Raising(job[c])'
    BY <1>1, <2>1, <2>3, <2>4 DEF Raising, BlockOf
  <2>6. QED
    BY <2>2, <2>5
<1>8. QED
  BY <1>4, <1>5, <1>6, <1>7 DEF CommandsOK

LEMMA UserStep ==
    ASSUME IndInv, User
    PROVE  IndInv'
<1>0. /\ target \in Documents \cup {Absent} /\ contract \in Versions \cup {Absent, Modified}
      /\ BlockOf(Absent) = None /\ None \notin Versions /\ Broken \notin Versions
      /\ Modified \notin Versions /\ Absent \notin Versions /\ Absent \notin Documents
  BY NamesAssumption DEF IndInv, TypeOK, BlockOf
<1>1. CASE EditText
  <2>1. PICK x \in AllTexts : Edited([text |-> x, block |-> BlockOf(target)], contract, manifest)
    BY <1>1 DEF EditText
  <2>2. PICK t : t = [text |-> x, block |-> BlockOf(target)]
    OBVIOUS
  <2>3. t \in Documents
    BY <1>0, <2>2 DEF Documents, BlockOf
  <2>4. BlockOf(t) = BlockOf(target)
    BY <1>0, <2>2, <2>3 DEF BlockOf
  <2>5. Edited(t, contract, manifest)
    BY <2>1, <2>2 DEF Edited
  <2>6. QED
    BY <1>0, <2>3, <2>4, <2>5, EditStep
<1>2. CASE EditBlock
  <2>1. PICK b \in {None, Broken} :
          BlockOf(target) \in Versions /\ Edited([target EXCEPT !.block = b], contract, manifest)
    BY <1>2 DEF EditBlock
  <2>2. PICK t : t = [target EXCEPT !.block = b]
    OBVIOUS
  <2>3. target \in Documents
    BY <1>0, <2>1
  <2>4. t \in Documents /\ t.block = b
    BY <2>2, <2>3 DEF Documents
  <2>5. BlockOf(t) \notin Versions
    BY <1>0, <2>4 DEF BlockOf
  <2>6. Edited(t, contract, manifest)
    BY <2>1, <2>2 DEF Edited
  <2>7. QED
    BY <1>0, <2>4, <2>5, <2>6, EditStep
<1>3. CASE DeleteTarget
  BY <1>0, <1>3, EditStep DEF DeleteTarget
<1>4. CASE EditContract
  BY <1>0, <1>4, EditStep DEF EditContract
<1>5. CASE LoseManifest
  BY <1>0, <1>5, EditStep DEF LoseManifest
<1>6. QED
  BY <1>1, <1>2, <1>3, <1>4, <1>5 DEF User

-----------------------------------------------------------------------------
LEMMA InitHolds == Init => IndInv
<1> SUFFICES ASSUME Init PROVE IndInv
  OBVIOUS
<1>1. /\ target \in Documents \cup {Absent} /\ BlockOf(target) = None
      /\ TextOf(target) \in AllTexts
  BY NamesAssumption DEF Init, Documents, BlockOf, TextOf, AllTexts
<1>2. /\ Idle \in Jobs /\ Idle \in Quiet /\ Idle.pc = "idle" /\ Idle \notin WorkJobs
      /\ \A c \in Callers : job[c] = Idle
  BY DEF Init, Jobs, Quiet, Idle, WorkJobs
<1>3. TypeOK
  <2>1. \A c \in Callers : job[c].pc = "idle" /\ lock # c
    BY <1>2, NamesAssumption DEF Init
  <2>2. QED
    BY <1>1, <2>1, BoundsAssumption DEF Init, TypeOK
<1>4. JobsOK /\ ManifestsSound /\ TextKept
  BY <1>2 DEF Init, JobsOK, ManifestsSound, Sound, TextKept
<1>5. PairOrdered
  BY <1>1, NamesAssumption DEF PairOrdered
<1>6. CommandsOK
  BY <1>2, QuietIsFine DEF CommandsOK
<1>7. QED
  BY <1>3, <1>4, <1>5, <1>6 DEF IndInv

LEMMA StepHolds == IndInv /\ [Next]_vars => IndInv'
<1> SUFFICES ASSUME IndInv, [Next]_vars PROVE IndInv'
  OBVIOUS
<1>1. CASE UNCHANGED vars
  BY <1>1 DEF vars, IndInv, TypeOK, JobsOK, ManifestsSound, PlanSound, Sound, PairOrdered,
              TextKept, CommandsOK, Fresh, Raising, BlockOf, TextOf
<1>2. CASE User
  BY <1>2, UserStep
<1>3. ASSUME NEW c \in Callers, Command(c) PROVE IndInv'
  BY <1>3, MakePlanStep, ApplyPlanStep, ReadFilesStep, BackupStep, WriteContractStep,
     WriteTargetStep, WriteManifestStep, RemoveBlockStep, RemoveContractStep, EndSteps
     DEF Command
<1>4. QED
  BY <1>1, <1>2, <1>3 DEF Next

LEMMA Reached == Spec => []IndInv
  BY InitHolds, StepHolds, PTL DEF Spec

\* The text outside the block is what the user saved last, unless it was edited
\* between the read and the write of one apply, and the original that a
\* manifest names is in the backups.
THEOREM TextIsTheUsers == Spec => []EditsSurvive
<1>1. IndInv => EditsSurvive
  BY DEF IndInv, EditsSurvive, TextKept, ManifestsSound, Sound
<1>2. QED
  BY <1>1, Reached, PTL

\* No crash is a dead end: some runtime plans an upgrade of what is left.
THEOREM AlwaysAWayOn == Spec => []Recoverable
<1>1. IndInv => Recoverable
  <2> SUFFICES ASSUME IndInv, BlockOf(target) # Broken, contract # Modified,
                      BlockOf(target) = None => TextOf(target) # Legacy
               PROVE  \E r \in Versions : InspectUpgrade(r) # Refused
    BY DEF Recoverable
  <2>1. /\ contract \in Versions \cup {Absent} /\ BlockOf(target) \in Versions \cup {None}
        /\ TypeOK /\ PairOrdered /\ None \notin Versions /\ Absent \notin Versions
    BY NamesAssumption DEF IndInv, TypeOK, BlockOf, Documents
  <2>0. \A v \in Versions : v \in Nat /\ v <= v
    BY VersionsAssumption
  <2>2. PICK r \in Versions :
          /\ contract \in {Absent, r}
          /\ BlockOf(target) \in Versions => BlockOf(target) <= r
    <3>1. CASE contract \in Versions
      BY <2>1, <3>1 DEF PairOrdered
    <3>2. CASE contract = Absent /\ BlockOf(target) \in Versions
      BY <2>0, <3>2
    <3>3. CASE contract = Absent /\ BlockOf(target) = None
      BY <2>1, <3>3, VersionsAssumption
    <3>4. QED
      BY <2>1, <3>1, <3>2, <3>3
  <2>3. PICK op \in {"install", "update"} : op = IF Installed THEN "update" ELSE "install"
    OBVIOUS
  <2>4. TransformDocument(r, target, op) # Refused
    <3>1. TransformDocument(r, target, op) = [text |-> TextOf(target), block |-> r]
      BY <2>1, <2>3 DEF TransformDocument, RenderManagedBlock, Installed
    <3>2. [text |-> TextOf(target), block |-> r] \in Documents
      BY <2>1 DEF Documents, TextOf, AllTexts, TypeOK
    <3>3. QED
      BY <3>1, <3>2, NamesAssumption
  <2>5. PlanContextChange("upgrade", op, r, TRUE) = Plan("upgrade", op, r)
    <3>1. ~BlockNewerThanRuntime(r, BlockOf(target))
      BY <2>0, <2>2 DEF BlockNewerThanRuntime
    <3>2. QED
      BY <2>2, <2>3, <2>4, <3>1 DEF PlanContextChange, ContractEquivalent
  <2>6. Plan("upgrade", op, r) # Refused
    BY <2>1, <2>3, PlanFields
  <2>7. QED
    BY <2>3, <2>5, <2>6 DEF InspectUpgrade
<1>2. QED
  BY <1>1, Reached, PTL

\* A status without diagnostics is true: the update it allows is planned and
\* finds nothing to write, and so is the installation.
THEOREM CleanStatusIsTrue == Spec => []StatusTruthful
<1>1. IndInv => StatusTruthful
  <2> SUFFICES ASSUME IndInv, NEW r \in Versions, Diagnostics(r) = {}
               PROVE  LET p == PlanContextChange("context",
                                 IF Installed THEN "update" ELSE "install", r, FALSE)
                      IN p # Refused /\ (Installed => Noop(p))
    BY DEF StatusTruthful
  <2>0. /\ TypeOK /\ None \notin Versions /\ Broken \notin Versions /\ Absent \notin Versions
        /\ contract \in Versions \cup {Absent, Modified}
        /\ BlockOf(target) \in Versions \cup {None, Broken} /\ BlockOf(Absent) = None
        /\ \A v \in Versions : v \in Nat
    BY NamesAssumption, VersionsAssumption DEF IndInv, TypeOK, BlockOf, Documents
  <2>1. /\ BlockOf(target) # Broken
        /\ ~Installed => TextOf(target) # Legacy /\ manifest = Absent
        /\ Installed => BlockOf(target) = r
        /\ Installed => contract # Absent /\ manifest # Absent
        /\ ~Installed => ~ContractEquivalent(r, contract)
        /\ \/ contract = Absent \/ ContractEquivalent(r, contract)
           \/ KnownTemplateEquivalent(r, BlockOf(target), contract)
        /\ ~(target # Absent /\ TargetDrift(target, manifest))
    <3> DEFINE block == BlockOf(target)
               outdated == KnownTemplateEquivalent(r, block, contract)
               newer == BlockNewerThanRuntime(r, block)
               unlike == contract # Absent /\ ~ContractEquivalent(r, contract) /\ ~outdated
    <3>1. /\ "managed_block_unreadable" \notin Diagnostics(r)
          /\ "legacy_an_kla_context_detected" \notin Diagnostics(r)
          /\ "managed_block_missing" \notin Diagnostics(r)
          /\ "runtime_older_than_context_template" \notin Diagnostics(r)
          /\ "context_template_outdated" \notin Diagnostics(r)
          /\ "managed_contract_missing" \notin Diagnostics(r)
          /\ "orphan_managed_contract" \notin Diagnostics(r)
          /\ "managed_contract_modified" \notin Diagnostics(r)
          /\ "context_manifest_missing" \notin Diagnostics(r)
          /\ "context_target_changed_outside_managed_block" \notin Diagnostics(r)
      OBVIOUS
    <3>2. block # Broken
      BY <3>1 DEF Diagnostics
    <3>3. ~(block \notin Versions /\ TextOf(target) = Legacy)
      BY <3>1 DEF Diagnostics
    <3>4. ~(manifest # Absent /\ block \notin Versions)
      BY <3>1 DEF Diagnostics
    <3>5. ~newer
      BY <3>1 DEF Diagnostics
    <3>6. ~(block \in Versions /\ block < r)
      BY <3>1 DEF Diagnostics
    <3>7. ~(contract = Absent /\ block \in Versions)
      BY <3>1 DEF Diagnostics
    <3>8. ~(ContractEquivalent(r, contract) /\ block \notin Versions)
      BY <3>1 DEF Diagnostics
    <3>9. ~(unlike /\ ~newer)
      BY <3>1 DEF Diagnostics
    <3>10. ~(block \in Versions /\ manifest = Absent)
      BY <3>1 DEF Diagnostics
    <3>11. ~(target # Absent /\ block # Broken /\ TargetDrift(target, manifest))
      BY <3>1 DEF Diagnostics
    <3>12. block \in Versions => block = r
      BY <2>0, <3>5, <3>6 DEF BlockNewerThanRuntime
    <3>13. QED
      BY <3>2, <3>3, <3>4, <3>5, <3>7, <3>8, <3>9, <3>10, <3>11, <3>12 DEF Installed
  <2>2. PICK op \in {"install", "update"} : op = IF Installed THEN "update" ELSE "install"
    OBVIOUS
  <2>3. contract = Absent \/ contract = r
    BY <2>0, <2>1 DEF ContractEquivalent, KnownTemplateEquivalent, Installed
  <2>4. TransformDocument(r, target, op) # Refused
    <3>1. TransformDocument(r, target, op) = [text |-> TextOf(target), block |-> r]
      BY <2>0, <2>1, <2>2 DEF TransformDocument, RenderManagedBlock, Installed
    <3>2. [text |-> TextOf(target), block |-> r] \in Documents
      BY <2>0 DEF Documents, TextOf, AllTexts, TypeOK
    <3>3. QED
      BY <3>1, <3>2, NamesAssumption
  <2>5. PlanContextChange("context", op, r, FALSE) = Plan("context", op, r)
    <3>1. ~BlockNewerThanRuntime(r, BlockOf(target))
      BY <2>0, <2>1 DEF BlockNewerThanRuntime, Installed
    <3>2. QED
      BY <2>1, <2>2, <2>3, <2>4, <3>1 DEF PlanContextChange, ContractEquivalent
  <2>6. /\ Plan("context", op, r) # Refused /\ Plan("context", op, r).op = op
        /\ Plan("context", op, r).template = r
    BY <2>0, <2>2, PlanFields
  <2>7. ASSUME Installed PROVE Noop(Plan("context", op, r))
    <3>1. target # Absent /\ target.block = r
      BY <2>0, <2>1, <2>7 DEF BlockOf, Installed
    <3>2. manifest # Absent /\ manifest.target = target /\ contract = r
      BY <2>1, <2>3, <2>7, <3>1 DEF TargetDrift
    <3>3. manifest.template = r
      BY <3>1, <3>2 DEF IndInv, ManifestsSound, Sound
    <3>4. QED
      BY <2>1, <2>2, <2>6, <2>7, <3>2, <3>3 DEF Noop, ContractEquivalent
  <2>8. QED
    BY <2>2, <2>5, <2>6, <2>7
<1>2. QED
  BY <1>1, Reached, PTL

\* What a command may do to the versions of block and contract.
LEMMA CommandsRaise ==
    ASSUME IndInv, NEW c \in Callers, Command(c)
    PROVE  /\ BlockOf(target) \in Versions /\ BlockOf(target') \in Versions =>
                BlockOf(target') >= BlockOf(target)
           /\ contract \in Versions /\ contract' \in Versions => contract' >= contract
           /\ contract = Modified /\ "contract" \notin raced => contract' = Modified
<1>1. /\ \A v \in Versions : v \in Nat /\ v >= v
      /\ Modified \notin Versions /\ None \notin Versions /\ Absent \notin Versions \cup {Modified}
  BY VersionsAssumption, NamesAssumption
<1>2. CASE UNCHANGED <<target, contract>>
  BY <1>1, <1>2 DEF BlockOf
<1>3. CASE WriteContract(c)
  <2>1. PICK w : w = job[c]
    OBVIOUS
  <2>2. /\ w.pc = "contract" /\ w \in WorkJobs /\ Fresh(w) /\ Raising(w)
    BY <1>3, <2>1, Holder DEF WriteContract, Installing
  <2>3. w.plan.op \in {"install", "update"} /\ w.plan.template \in Versions
    BY <2>2 DEF Fresh, WorkJobs, Plans, Removing
  <2>4. UNCHANGED target /\ contract' \in {contract, w.plan.template}
    BY <1>3, <2>1 DEF WriteContract
  <2>5. /\ contract \in Versions => contract <= w.plan.template
        /\ contract = Modified => "contract" \in raced
    BY <2>2, <2>3 DEF Raising, Installing
  <2>6. QED
    BY <1>1, <2>3, <2>4, <2>5 DEF BlockOf
<1>4. CASE WriteTarget(c)
  <2>1. PICK w : w = job[c]
    OBVIOUS
  <2>2. /\ w.pc = "target" /\ w \in WorkJobs /\ Fresh(w) /\ Raising(w)
    BY <1>4, <2>1, Holder DEF WriteTarget, Installing
  <2>3. /\ w.plan.op \in {"install", "update"} /\ w.plan.template \in Versions
        /\ w.before \in Documents \cup {Absent}
        /\ TransformDocument(w.plan.template, w.before, w.plan.op) # Refused
    BY <2>2 DEF Fresh, WorkJobs, Plans, Removing
  <2>4. UNCHANGED contract
        /\ target' = TransformDocument(w.plan.template, w.before, w.plan.op)
    BY <1>4, <2>1 DEF WriteTarget
  <2>5. target' \in Documents /\ target'.block = w.plan.template
    BY <2>3, <2>4, TransformKeepsText
  <2>6. BlockOf(target') = w.plan.template
    BY <2>5, NamesAssumption DEF BlockOf
  <2>7. BlockOf(target) \in Versions => BlockOf(target) <= w.plan.template
    BY <2>2, <2>3 DEF Raising, Installing
  <2>8. QED
    BY <1>1, <2>3, <2>4, <2>6, <2>7
<1>5. CASE RemoveBlock(c)
  <2>1. PICK w : w = job[c]
    OBVIOUS
  <2>2. /\ w.pc = "remove" /\ w \in WorkJobs /\ Fresh(w)
    BY <1>5, <2>1, Holder DEF RemoveBlock, Removing
  <2>3. /\ w.plan.op = "uninstall" /\ w.plan.template \in Versions
        /\ w.before \in Documents \cup {Absent}
        /\ TransformDocument(w.plan.template, w.before, "uninstall") # Refused
    BY <2>2 DEF Fresh, WorkJobs, Plans, Removing
  <2>4. PICK rest : rest = TransformDocument(w.plan.template, w.before, "uninstall")
    OBVIOUS
  <2>5. UNCHANGED contract /\ target' \in {target, rest, [text |-> Empty, block |-> None]}
    BY <1>5, <2>1, <2>4 DEF RemoveBlock
  <2>6. BlockOf(rest) = None
    BY <2>3, <2>4, TransformKeepsText
  <2>7. target' = target \/ BlockOf(target') = None
    BY <2>5, <2>6 DEF BlockOf
  <2>8. QED
    BY <1>1, <2>5, <2>7
<1>6. CASE RemoveContract(c)
  <2>1. PICK w : w = job[c]
    OBVIOUS
  <2>2. w \in WorkJobs /\ w.plan.template \in Versions
    BY <1>6, <2>1, Holder DEF RemoveContract, Removing, WorkJobs, Plans
  <2>3. UNCHANGED target /\ (contract' = contract \/ (contract = w.plan.template /\ contract' = Absent))
    BY <1>6, <2>1 DEF RemoveContract, ContractEquivalent
  <2>4. QED
    BY <1>1, <2>2, <2>3 DEF BlockOf
<1>7. QED
  BY <1>2, <1>3, <1>4, <1>5, <1>6
     DEF Command, MakePlan, ApplyPlan, ReadFiles, Backup, WriteManifest, RemoveManifest,
         AdoptBaseline, Crash, files

\* Commands never lower the version of the block or of the contract, whichever
\* runtime runs last, and leave a modified contract alone.
THEOREM VersionsOnlyRise == Spec => ContractRespected
<1>1. IndInv /\ [Next]_vars =>
        [edits' = edits =>
           /\ {BlockOf(target), BlockOf(target')} \subseteq Versions =>
                BlockOf(target') >= BlockOf(target)
           /\ {contract, contract'} \subseteq Versions => contract' >= contract
           /\ contract = Modified /\ "contract" \notin raced => contract' = Modified]_vars
  <2> SUFFICES ASSUME IndInv, Next, edits' = edits
               PROVE  /\ BlockOf(target) \in Versions /\ BlockOf(target') \in Versions =>
                           BlockOf(target') >= BlockOf(target)
                      /\ contract \in Versions /\ contract' \in Versions => contract' >= contract
                      /\ contract = Modified /\ "contract" \notin raced => contract' = Modified
    OBVIOUS
  <2>1. ~User
    <3>1. edits \in Nat
      BY DEF IndInv, TypeOK
    <3>2. \A t, k, m : ~Edited(t, k, m)
      BY <3>1 DEF Edited
    <3>3. QED
      BY <3>2 DEF User, EditText, EditBlock, DeleteTarget, EditContract, LoseManifest
  <2>2. QED
    BY <2>1, CommandsRaise DEF Next
<1>2. QED
  BY <1>1, Reached, PTL DEF Spec, ContractRespected

\* The text of a baseline changes only to what a plan showed and somebody
\* adopted or confirmed, or what a first installation found.
THEOREM DriftNeedsConsent == Spec => BaselineByConsent
<1> DEFINE j == job[lock]
           Shown == manifest'.target.text = TextOf(j.plan.target)
           Consent ==
             \/ /\ j.plan.manifest # Absent
                /\ manifest'.target.text = j.plan.manifest.target.text
             \/ Shown /\ (j.plan.kind = "adopt" \/ j.confirmed)
             \/ Shown /\ (j.plan.manifest = Absent \/ j.plan.target = Absent)
<1>1. ASSUME IndInv, NEW c \in Callers, AdoptBaseline(c), manifest' # manifest
      PROVE  Consent
  <2>1. PICK w : w = job[c]
    OBVIOUS
  <2>2. lock = c /\ w.plan \in Plans /\ PlanSound(w.plan) /\ w.plan.kind = "adopt"
    BY <1>1, <2>1, Holder DEF AdoptBaseline
  <2>3. manifest' = [w.plan.manifest EXCEPT !.target = w.plan.target]
    BY <1>1, <2>1 DEF AdoptBaseline
  <2>4. w.plan.manifest \in Manifests /\ w.plan.target # Absent
    BY <2>2 DEF PlanSound, Plans
  <2>5. manifest'.target.text = TextOf(w.plan.target)
    BY <2>3, <2>4 DEF Manifests, TextOf
  <2>6. QED
    BY <2>1, <2>2, <2>5
<1>2. ASSUME IndInv, NEW c \in Callers, WriteManifest(c), "base" \notin raced
      PROVE  Consent
  <2>1. PICK w : w = job[c]
    OBVIOUS
  <2>2. /\ w.pc = "manifest" /\ w \in WorkJobs /\ lock = c /\ Fresh(w) /\ Raising(w)
    BY <1>2, <2>1, Holder DEF WriteManifest, Installing
  <2>3. /\ w.plan.op \in {"install", "update"} /\ w.plan.template \in Versions
        /\ w.before = w.plan.target /\ w.before \in Documents \cup {Absent}
        /\ TransformDocument(w.plan.template, w.before, w.plan.op) # Refused
    BY <1>2, <2>2 DEF Fresh, WorkJobs, Plans, Removing
  <2>4. manifest'.target = TransformDocument(w.plan.template, w.before, w.plan.op)
    BY <1>2, <2>1 DEF WriteManifest, NewManifest
  <2>5. manifest'.target.text = TextOf(w.plan.target)
    BY <2>3, <2>4, TransformKeepsText
  <2>6. \/ w.confirmed \/ w.plan.target = Absent \/ w.plan.manifest = Absent
        \/ w.plan.target = w.plan.manifest.target
    BY <2>2, <2>3 DEF Raising, Installing
  <2>7. QED
    BY <2>1, <2>2, <2>5, <2>6 DEF TextOf
<1>3. ASSUME IndInv, Next, manifest' # manifest, manifest' # Absent, "base" \notin raced
      PROVE  Consent
  <2>1. ~User
    BY <1>3 DEF User, EditText, EditBlock, DeleteTarget, EditContract, LoseManifest, Edited
  <2>2. PICK c \in Callers : Command(c)
    BY <1>3, <2>1 DEF Next
  <2>3. WriteManifest(c) \/ AdoptBaseline(c)
    BY <1>3, <2>2 DEF Command, MakePlan, ApplyPlan, ReadFiles, Backup, WriteContract,
                      WriteTarget, RemoveBlock, RemoveContract, RemoveManifest, Crash, files
  <2>4. QED
    BY <1>1, <1>2, <1>3, <2>3
<1>4. IndInv /\ [Next]_vars =>
        [manifest' # manifest /\ manifest' # Absent /\ "base" \notin raced => Consent]_vars
  BY <1>3
<1>5. QED
  BY <1>4, Reached, PTL DEF Spec, BaselineByConsent
=============================================================================

--------------------------- MODULE ContextPackage ---------------------------
(***************************************************************************)
(* The managed agent context: the block AN-KLA owns inside the AGENTS.md   *)
(* of the project, the contract AN-KLA.md beside it, and the local         *)
(* manifest and backups (context_package), the adoption of a drifted       *)
(* baseline (baseline_adoption) and the governed upgrade (upgrade).        *)
(*                                                                         *)
(* Commands plan, and apply under a lock that only commands take; their    *)
(* writes are separate atomic replacements and a command may die between   *)
(* any two of them.  The user edits the same files whenever it likes, and  *)
(* different runtimes of the package may serve the same project.           *)
(*                                                                         *)
(* A document is its text outside the block, blank separators apart, and   *)
(* its block; a hash is the bytes it is the hash of.  Template versions    *)
(* are numbers; a runtime knows every template before its own.             *)
(***************************************************************************)
EXTENDS Naturals, FiniteSets

CONSTANTS
  Callers,    \* processes running commands
  Versions,   \* template versions, each the current one of some runtime
  Texts,      \* texts of the user that are not empty
  Empty,      \* no text outside the block, or only blanks
  Legacy,     \* a text with instructions of the unmarked integration
  Absent,     \* no file
  None,       \* no block, no lock holder
  Broken,     \* a block that does not parse: modified, fenced, duplicated
  Modified,   \* a contract that no release distributed
  Refused,    \* the outcome of a plan that raises
  MaxEdits,   \* bound on the edits of the user
  MaxCrashes, \* bound on the commands that die
  MaxApplies  \* bound on the commands that get to apply their plan

ASSUME VersionsAssumption == Versions \subseteq Nat /\ Versions # {}

ASSUME BoundsAssumption ==
  MaxEdits \in Nat /\ MaxCrashes \in Nat /\ MaxApplies \in Nat

VARIABLES
  target,    \* AGENTS.md
  contract,  \* AN-KLA.md
  manifest,  \* .an-kla/context/manifest.json
  backups,   \* .an-kla/context/backups, addressed by content
  lock,      \* the holder of .install.lock
  job,       \* job[c]: what the command of process c has read and does next
  mine,      \* ghost: the text the user saved last
  raced,     \* ghost: what the user edited while a command was using it
  edits, crashes, applies

vars == <<target, contract, manifest, backups, lock, job, mine, raced, edits,
          crashes, applies>>

files == <<target, contract, manifest, backups>>
ghosts == <<mine, raced, edits, crashes, applies>>

AllTexts == Texts \cup {Empty, Legacy}

Documents == [text : AllTexts, block : Versions \cup {None, Broken}]

\* What _load_manifest accepts, without the hashes the others determine:
\* original is both original_target_sha256 and the original_backup.
Manifests ==
  [target : Documents, template : Versions, original : Documents \cup {Absent},
   fileCreated : BOOLEAN, contractCreated : BOOLEAN]

\* Plans hold the bytes they were made of.
Plans ==
  [kind : {"context", "upgrade", "adopt"},
   op : {"install", "update", "uninstall", "adopt"}, template : Versions,
   target : Documents \cup {Absent}, contract : Versions \cup {Absent, Modified},
   manifest : Manifests \cup {Absent}]

\* The special values are none of the values they stand beside.
ASSUME NamesAssumption ==
  /\ Absent \notin Documents \cup Manifests \cup Versions \cup {Modified}
  /\ Refused \notin Documents \cup Plans \cup {Absent}
  /\ {None, Broken, Modified} \cap Versions = {} /\ None # Broken
  /\ None \notin Callers
  /\ Empty # Legacy

Idle == [pc |-> "idle"]

(***************************************************************************)
(* The document transformer and the comparisons with templates.            *)
(***************************************************************************)
TextOf(document) == IF document = Absent THEN Empty ELSE document.text

BlockOf(document) == IF document = Absent THEN None ELSE document.block

KnownTemplateEquivalent(r, block, text) ==
  block \in Versions /\ block < r /\ text = block

BlockNewerThanRuntime(r, block) == block \in Versions /\ block > r

ContractEquivalent(r, text) == text = r

RenderManagedBlock(r, document) == [text |-> TextOf(document), block |-> r]

TransformDocument(r, document, op) ==
  LET block == BlockOf(document)
  IN IF \/ block = Broken
        \/ block = None /\ (op # "install" \/ TextOf(document) = Legacy)
     THEN Refused
     ELSE IF op \in {"install", "update"} THEN RenderManagedBlock(r, document)
     ELSE IF TextOf(document) = Empty THEN Absent
     ELSE [document EXCEPT !.block = None]

(***************************************************************************)
(* Plans, which are made again by the apply that must find the same.       *)
(***************************************************************************)
Plan(kind, op, r) ==
  [kind |-> kind, op |-> op, template |-> r, target |-> target,
   contract |-> contract, manifest |-> manifest]

TargetDrift(document, m) == m # Absent /\ document # m.target

PlanContextChange_Absorbs(kind, op, r, allow) ==
  IF \/ TransformDocument(r, target, op) = Refused
     \/ /\ op # "uninstall"
        /\ \/ BlockNewerThanRuntime(r, BlockOf(target))
           \/ /\ contract # Absent
              /\ ~ContractEquivalent(r, contract)
              /\ ~(op = "update" /\ KnownTemplateEquivalent(r, BlockOf(target),
                                                            contract))
  THEN Refused ELSE Plan(kind, op, r)

\* Block and contract must be of one template.
PlanContextChange_OnePair(kind, op, r, allow) ==
  IF \/ TransformDocument(r, target, op) = Refused
     \/ /\ op # "uninstall"
        /\ \/ BlockNewerThanRuntime(r, BlockOf(target))
           \/ ~allow /\ target # Absent /\ TargetDrift(target, manifest)
           \/ /\ contract # Absent
              /\ ~(ContractEquivalent(r, contract) /\ BlockOf(target) \in {None, r})
              /\ ~(op = "update" /\ KnownTemplateEquivalent(r, BlockOf(target),
                                                            contract))
  THEN Refused ELSE Plan(kind, op, r)

PlanContextChange(kind, op, r, allow) ==
  IF \/ TransformDocument(r, target, op) = Refused
     \/ /\ op # "uninstall"
        /\ \/ BlockNewerThanRuntime(r, BlockOf(target))
           \/ ~allow /\ target # Absent /\ TargetDrift(target, manifest)
           \/ /\ contract # Absent
              /\ ~ContractEquivalent(r, contract)
              /\ ~(op = "update" /\ KnownTemplateEquivalent(r, BlockOf(target),
                                                            contract))
  THEN Refused ELSE Plan(kind, op, r)

BaselineAdoptionPreconditions(r) ==
  /\ manifest # Absent
  /\ BlockOf(target) = manifest.template
  /\ \/ KnownTemplateEquivalent(r, BlockOf(target), contract)
     \/ ContractEquivalent(r, contract)

PlanBaselineAdoption(r) ==
  IF BaselineAdoptionPreconditions(r) THEN Plan("adopt", "adopt", r) ELSE Refused

\* Only the version of the block is compared with the manifest.
Diagnostics_VersionOnly(r) ==
  LET block    == BlockOf(target)
      parsed   == block \in Versions
      outdated == KnownTemplateEquivalent(r, block, contract)
      newer    == BlockNewerThanRuntime(r, block)
      unlike   == contract # Absent /\ ~ContractEquivalent(r, contract) /\ ~outdated
  IN {d \in {"managed_block_unreadable"} : block = Broken}
     \cup {d \in {"legacy_an_kla_context_detected"} :
             ~parsed /\ TextOf(target) = Legacy}
     \cup {d \in {"managed_block_missing"} : manifest # Absent /\ ~parsed}
     \cup {d \in {"runtime_older_than_context_template"} : newer}
     \cup {d \in {"context_template_outdated"} : parsed /\ block < r}
     \cup {d \in {"managed_contract_missing"} : contract = Absent /\ parsed}
     \cup {d \in {"orphan_managed_contract"} :
             ContractEquivalent(r, contract) /\ ~parsed}
     \cup {d \in {"managed_contract_unverifiable_by_runtime"} : unlike /\ newer}
     \cup {d \in {"managed_contract_modified"} : unlike /\ ~newer}
     \cup {d \in {"context_manifest_missing"} : parsed /\ manifest = Absent}
     \cup {d \in {"context_target_changed_outside_managed_block"} :
             target # Absent /\ block # Broken /\ manifest # Absent
             /\ block # manifest.template}

\* context_status as runtime r reports it: diagnostics and warnings.
Diagnostics(r) ==
  LET block    == BlockOf(target)
      parsed   == block \in Versions
      outdated == KnownTemplateEquivalent(r, block, contract)
      newer    == BlockNewerThanRuntime(r, block)
      unlike   == contract # Absent /\ ~ContractEquivalent(r, contract) /\ ~outdated
  IN {d \in {"managed_block_unreadable"} : block = Broken}
     \cup {d \in {"legacy_an_kla_context_detected"} :
             ~parsed /\ TextOf(target) = Legacy}
     \cup {d \in {"managed_block_missing"} : manifest # Absent /\ ~parsed}
     \cup {d \in {"runtime_older_than_context_template"} : newer}
     \cup {d \in {"context_template_outdated"} : parsed /\ block < r}
     \cup {d \in {"managed_contract_missing"} : contract = Absent /\ parsed}
     \cup {d \in {"orphan_managed_contract"} :
             ContractEquivalent(r, contract) /\ ~parsed}
     \cup {d \in {"managed_contract_unverifiable_by_runtime"} : unlike /\ newer}
     \cup {d \in {"managed_contract_modified"} : unlike /\ ~newer}
     \cup {d \in {"context_manifest_missing"} : parsed /\ manifest = Absent}
     \cup {d \in {"context_target_changed_outside_managed_block"} :
             target # Absent /\ block # Broken /\ TargetDrift(target, manifest)}

Installed == BlockOf(target) \in Versions

\* inspect_upgrade: the plan of an upgrade tolerates drift, its apply does not.
InspectUpgrade(r) ==
  PlanContextChange("upgrade", IF Installed THEN "update" ELSE "install", r, TRUE)

-----------------------------------------------------------------------------
Init ==
  /\ target \in {Absent} \cup [text : AllTexts, block : {None}]
  /\ contract = Absent
  /\ manifest = Absent
  /\ backups = {}
  /\ lock = None
  /\ job = [c \in Callers |-> Idle]
  /\ mine = TextOf(target)
  /\ raced = {}
  /\ edits = 0
  /\ crashes = 0
  /\ applies = 0

Advance(c, pc) == job' = [job EXCEPT ![c].pc = pc]

\* Return or raise: the lock is released either way.
Leave(c) == job' = [job EXCEPT ![c] = Idle] /\ lock' = None

\* A planning command of runtime r; the caller keeps the plan it prints.
MakePlan(c, r) ==
  /\ job[c] = Idle
  /\ \E p \in {PlanContextChange("context", op, r, FALSE) :
                 op \in {"install", "update", "uninstall"}}
              \cup {PlanBaselineAdoption(r), InspectUpgrade(r)} :
       /\ p # Refused
       /\ job' = [job EXCEPT ![c] = [pc |-> "planned", plan |-> p]]
  /\ UNCHANGED <<files, lock, ghosts>>

\* apply_upgrade: drift the plan shows needs --confirm-target-drift.
ApplyUpgrade(plan, confirm) ==
  TargetDrift(plan.target, plan.manifest) => confirm

Rebuilt(plan, r, confirm) ==
  CASE plan.kind = "adopt" -> PlanBaselineAdoption(r)
    [] plan.kind = "context" -> PlanContextChange("context", plan.op, r, FALSE)
    [] plan.kind = "upgrade" ->
         IF plan.template = r /\ ApplyUpgrade(plan, confirm)
         THEN PlanContextChange("upgrade", plan.op, r, confirm) ELSE Refused

\* apply_context_plan and apply_baseline_adoption up to the comparison: the
\* plan is dropped when the lock is busy or the files are not what they were.
ApplyPlan(c, r, confirm) ==
  /\ job[c].pc = "planned"
  /\ IF lock = None /\ Rebuilt(job[c].plan, r, confirm) = job[c].plan
     THEN /\ applies < MaxApplies
          /\ applies' = applies + 1
          /\ lock' = c
          /\ job' = [job EXCEPT ![c] =
                       [pc |-> "checked", plan |-> job[c].plan,
                        confirmed |-> confirm /\ job[c].plan.kind = "upgrade"]]
     ELSE /\ job' = [job EXCEPT ![c] = Idle]
          /\ UNCHANGED <<lock, applies>>
  /\ UNCHANGED <<files, mine, raced, edits, crashes>>

Noop(plan) ==
  /\ plan.op \in {"install", "update"}
  /\ BlockOf(target) = plan.template
  /\ manifest # Absent
  /\ manifest.target = target
  /\ manifest.template = plan.template
  /\ ContractEquivalent(plan.template, contract)

\* The files are read again after the comparison, and these bytes are used.
ReadFiles(c) ==
  LET plan == job[c].plan
  IN /\ job[c].pc = "checked"
     /\ plan.kind # "adopt"
     /\ IF Noop(plan) \/ TransformDocument(plan.template, target, plan.op) = Refused
        THEN Leave(c)
        ELSE /\ job' = [job EXCEPT ![c] =
                   [pc |-> IF plan.op = "uninstall" THEN "remove" ELSE "backup",
                    plan |-> plan, confirmed |-> @.confirmed, before |-> target,
                    contract |-> contract, manifest |-> manifest]]
             /\ UNCHANGED lock
     /\ UNCHANGED <<files, ghosts>>

\* Backups of a target without a manifest and of a contract to be replaced;
\* nothing is overwritten.
Backup(c) ==
  LET j == job[c]
  IN /\ j.pc = "backup"
     /\ backups' = backups
          \cup {d \in {j.before} : j.manifest = Absent /\ j.before # Absent}
          \cup {[contract |-> v] : v \in {j.contract} \ {Absent, j.plan.template}}
     /\ Advance(c, "contract")
     /\ UNCHANGED <<target, contract, manifest, lock, ghosts>>

WriteContract(c) ==
  LET j == job[c]
  IN /\ j.pc = "contract"
     /\ contract' = IF ContractEquivalent(j.plan.template, j.contract) THEN contract
                    ELSE j.plan.template
     /\ Advance(c, "target")
     /\ UNCHANGED <<target, manifest, backups, lock, ghosts>>

WriteTarget_Planned(c) ==
  LET j == job[c]
  IN /\ j.pc = "target"
     /\ target' = [text |-> IF j.manifest = Absent THEN TextOf(j.before)
                            ELSE j.manifest.target.text,
                   block |-> j.plan.template]
     /\ Advance(c, "manifest")
     /\ UNCHANGED <<contract, manifest, backups, lock, ghosts>>

WriteTarget(c) ==
  LET j == job[c]
  IN /\ j.pc = "target"
     /\ target' = TransformDocument(j.plan.template, j.before, j.plan.op)
     /\ Advance(c, "manifest")
     /\ UNCHANGED <<contract, manifest, backups, lock, ghosts>>

NewManifest(j) ==
  LET first == j.manifest = Absent
  IN [target |-> TransformDocument(j.plan.template, j.before, j.plan.op),
      template |-> j.plan.template,
      original |-> IF first THEN j.before ELSE j.manifest.original,
      fileCreated |-> IF first THEN j.before = Absent ELSE j.manifest.fileCreated,
      contractCreated |-> IF first THEN j.plan.contract = Absent
                          ELSE j.manifest.contractCreated]

WriteManifest(c) ==
  /\ job[c].pc = "manifest"
  /\ manifest' = NewManifest(job[c])
  /\ Leave(c)
  /\ UNCHANGED <<target, contract, backups, ghosts>>

\* uninstall: a file that is gone by now makes unlink and stat raise.
RemoveBlock(c) ==
  LET j == job[c]
      rest == TransformDocument(j.plan.template, j.before, "uninstall")
      ours == j.manifest # Absent /\ j.manifest.fileCreated
  IN /\ j.pc = "remove"
     /\ IF target = Absent
        THEN Leave(c) /\ UNCHANGED target
        ELSE /\ target' = IF rest = Absent /\ ~ours
                          THEN [text |-> Empty, block |-> None] ELSE rest
             /\ Advance(c, "remove_contract")
             /\ UNCHANGED lock
     /\ UNCHANGED <<contract, manifest, backups, ghosts>>

RemoveContract_Any(c) ==
  LET j == job[c]
  IN /\ j.pc = "remove_contract"
     /\ contract' = IF j.manifest # Absent /\ j.manifest.contractCreated
                    THEN Absent ELSE contract
     /\ Advance(c, "remove_manifest")
     /\ UNCHANGED <<target, manifest, backups, lock, ghosts>>

RemoveContract(c) ==
  LET j == job[c]
  IN /\ j.pc = "remove_contract"
     /\ contract' = IF /\ ContractEquivalent(j.plan.template, contract)
                       /\ j.manifest # Absent
                       /\ j.manifest.contractCreated
                    THEN Absent ELSE contract
     /\ Advance(c, "remove_manifest")
     /\ UNCHANGED <<target, manifest, backups, lock, ghosts>>

RemoveManifest(c) ==
  /\ job[c].pc = "remove_manifest"
  /\ manifest' = Absent
  /\ Leave(c)
  /\ UNCHANGED <<target, contract, backups, ghosts>>

\* apply_baseline_adoption after the comparison: only the manifest is written,
\* from the manifest and the target read before.
AdoptBaseline(c) ==
  LET plan == job[c].plan
  IN /\ job[c].pc = "checked"
     /\ plan.kind = "adopt"
     /\ manifest' = IF plan.manifest.target = plan.target THEN manifest
                    ELSE [plan.manifest EXCEPT !.target = plan.target]
     /\ Leave(c)
     /\ UNCHANGED <<target, contract, backups, ghosts>>

\* The process dies; the operating system gives the lock back.
Crash(c) ==
  /\ lock = c
  /\ crashes < MaxCrashes
  /\ crashes' = crashes + 1
  /\ Leave(c)
  /\ UNCHANGED <<files, mine, raced, edits, applies>>

(***************************************************************************)
(* The user, who takes no lock.                                            *)
(***************************************************************************)
Busy(pcs) == \E c \in Callers : job[c].pc \in pcs

Edited(target_, contract_, manifest_) ==
  /\ edits < MaxEdits
  /\ edits' = edits + 1
  /\ target' = target_
  /\ contract' = contract_
  /\ manifest' = manifest_
  /\ mine' = TextOf(target_)
  /\ raced' = raced
       \cup {r \in {"base"} : target_ # target /\ Busy({"checked"})}
       \cup {r \in {"text"} : target_ # target
                              /\ Busy({"backup", "contract", "target", "remove"})}
       \cup {r \in {"contract"} : contract_ # contract
                                  /\ Busy({"checked", "backup", "contract"})}
  /\ UNCHANGED <<backups, lock, job, crashes, applies>>

EditText ==
  \E t \in AllTexts \ {TextOf(target)} :
    Edited([text |-> t, block |-> BlockOf(target)], contract, manifest)

EditBlock ==
  \E b \in {None, Broken} :
    /\ BlockOf(target) \in Versions
    /\ Edited([target EXCEPT !.block = b], contract, manifest)

DeleteTarget == target # Absent /\ Edited(Absent, contract, manifest)

EditContract ==
  \E v \in {Absent, Modified} \ {contract} : Edited(target, v, manifest)

\* A clean clone: the manifest is local and not tracked.
LoseManifest == manifest # Absent /\ Edited(target, contract, Absent)

User == EditText \/ EditBlock \/ DeleteTarget \/ EditContract \/ LoseManifest

Command(c) ==
  \/ \E r \in Versions : MakePlan(c, r)
  \/ \E r \in Versions, confirm \in BOOLEAN : ApplyPlan(c, r, confirm)
  \/ ReadFiles(c) \/ Backup(c) \/ WriteContract(c) \/ WriteTarget(c)
  \/ WriteManifest(c) \/ RemoveBlock(c) \/ RemoveContract(c) \/ RemoveManifest(c)
  \/ AdoptBaseline(c) \/ Crash(c)

Next == (\E c \in Callers : Command(c)) \/ User

Spec == Init /\ [][Next]_vars

-----------------------------------------------------------------------------
(* What every state consists of.                                           *)
TypeOK ==
  /\ target \in Documents \cup {Absent}
  /\ contract \in Versions \cup {Absent, Modified}
  /\ manifest \in Manifests \cup {Absent}
  /\ backups \subseteq Documents \cup [contract : Versions \cup {Modified}]
  /\ lock \in Callers \cup {None}
  /\ \A c \in Callers : (job[c].pc \notin {"idle", "planned"}) <=> (lock = c)
  /\ mine \in AllTexts
  /\ raced \subseteq {"base", "text", "contract"}
  /\ edits \in 0..MaxEdits
  /\ crashes \in 0..MaxCrashes
  /\ applies \in 0..MaxApplies

(* The text outside the block is the user's: whatever commands of whatever *)
(* runtimes run or die, it is what the user saved last.  The one exception *)
(* is an edit between the moment apply_context_plan reads AGENTS.md and    *)
(* the moment it replaces it, which no lock keeps out.  And the bytes of   *)
(* the original that a manifest names are in the backups, through every    *)
(* later update, adoption and interrupted installation.                    *)
EditsSurvive ==
  /\ "text" \notin raced => TextOf(target) = mine
  /\ manifest # Absent /\ manifest.original # Absent => manifest.original \in backups

(* No crash is a dead end: with no command running, a block that parses or *)
(* is gone and a contract some release distributed, whatever mixture of    *)
(* them commands left behind, there is a runtime whose upgrade plans.      *)
Recoverable ==
  /\ lock = None
  /\ BlockOf(target) # Broken
  /\ contract # Modified
  /\ BlockOf(target) = None => TextOf(target) # Legacy
  => \E r \in Versions : InspectUpgrade(r) # Refused

(* A status without diagnostics and warnings can be relied on, whatever    *)
(* crashes and edits came before: if the context is installed, an update   *)
(* of the same runtime is planned and finds nothing to write, and if it is *)
(* not, an installation is planned.                                        *)
StatusTruthful ==
  lock = None =>
    \A r \in Versions :
      Diagnostics(r) = {} =>
        LET p == PlanContextChange("context",
                                   IF Installed THEN "update" ELSE "install", r, FALSE)
        IN p # Refused /\ (Installed => Noop(p))

(* What commands may do to block and contract, whichever runtime runs last *)
(* and however old its plan: they never lower a version, and a contract    *)
(* somebody modified is neither replaced nor removed, unless it was        *)
(* modified while a command was already past its comparison.               *)
ContractRespected ==
  [][edits' = edits =>
       /\ {BlockOf(target), BlockOf(target')} \subseteq Versions =>
            BlockOf(target') >= BlockOf(target)
       /\ {contract, contract'} \subseteq Versions => contract' >= contract
       /\ contract = Modified /\ "contract" \notin raced => contract' = Modified]_vars

(* Drift is never absorbed in silence: the text of a baseline changes only *)
(* to what a plan showed and somebody adopted or confirmed, or to what a   *)
(* first installation found, or installed anew a file that was deleted.    *)
BaselineByConsent ==
  [][manifest' # manifest /\ manifest' # Absent /\ "base" \notin raced =>
       LET j == job[lock]
           shown == manifest'.target.text = TextOf(j.plan.target)
       IN \/ /\ j.plan.manifest # Absent
             /\ manifest'.target.text = j.plan.manifest.target.text
          \/ shown /\ (j.plan.kind = "adopt" \/ j.confirmed)
          \/ shown /\ (j.plan.manifest = Absent \/ j.plan.target = Absent)]_vars
=============================================================================

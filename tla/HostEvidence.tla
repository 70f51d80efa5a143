---------------------------- MODULE HostEvidence ----------------------------
(***************************************************************************)
(* What the host and the engine leave as signed evidence: attest.py (the   *)
(* key, receipts of observed commands, and the tombstones that make a      *)
(* receipt good for one write), hook_runs.py (the record of hook           *)
(* invocations, with and without a run_id of the host), host_hooks.py (the *)
(* declaration) and the part of integration.py that reads them.            *)
(*                                                                         *)
(* A run entry <<"run", e>> is named by the digest of its bytes, so that   *)
(* two attempts at different times are two files; the second of            *)
(* observed_at is the clock.  A receipt is <<"receipt", r>> and its        *)
(* tombstone <<"tombstone", r.id>>.  The identity of the store is taken    *)
(* as bound (module Identity) and custody as constant (Relocation).        *)
(***************************************************************************)
EXTENDS StoragePrimitives, Sequences

CONSTANTS Agents,       \* processes of the engine
          RunIds,       \* run_ids the host chooses
          FreshIds,     \* run_ids uuid4 can draw
          Hooks,        \* hook ids
          Subjects,     \* what else the functional payload of a run holds
          Keys,         \* keys urandom can draw
          Short,        \* a key file that was cut short; it still signs
          Empty,        \* a key file without bytes, or a whitelist not JSON
          Absent,       \* a missing file
          Whitelists,   \* sets of commands
          Commands, ReceiptIds,
          Nobody,
          MaxScan,      \* _MAX_ENTRIES_SCANNED: 2000 in the code
          MaxHooks,     \* MAX_HOOKS: 16 in the code
          Recency,      \* HOOK_RECENCY_HOURS
          MaxClock, MaxRevision, MaxFaults, MaxOutages  \* bounds

ASSUME EvidenceAssumption ==
    /\ MaxScan \in Nat /\ MaxHooks \in Nat /\ Recency \in Nat
    /\ MaxClock \in Nat /\ MaxRevision \in Nat /\ MaxFaults \in Nat /\ MaxOutages \in Nat

\* The run_ids of the host and those of uuid4 are no more equal than two of uuid4.
ASSUME NamesAssumption ==
    /\ Nobody \notin Agents
    /\ Absent \notin Keys \cup {Short}
    /\ RunIds \cap FreshIds = {}

VARIABLES
    key, whitelist,   \* cells: attest.key and attest-whitelist.json
    disk,             \* run entries, receipts and tombstones
    current,          \* cell: the receipts behind the revisions, oldest first
    declared,         \* host-hooks.json: a sequence of hooks, or Absent or Empty
    lock, pc, job,    \* the write lock; step and arguments of each agent
    acked,            \* history: entries a mint with a run_id has returned
    clock, faults, outages

vars == <<key, whitelist, disk, current, declared, lock, pc, job, acked, clock,
          faults, outages>>
keyfiles == <<key, whitelist>>
world == <<declared, clock>>
counts == <<faults, outages>>

-----------------------------------------------------------------------------
Entries == {o \in disk.intact : o[1] = "run"}
TornEntries == {o \in disk.torn : o[1] = "run"}
Receipts == {o \in disk.intact : o[1] = "receipt"}
Tombstone(id) == <<"tombstone", id>>
Exists(o) == o \in disk.intact \cup disk.torn

\* What urandom does not draw again.
UsedKeys == {key.seen, key.safe} \cup {o[2].key : o \in Entries \cup Receipts}
UsedIds ==
    {o[2].id : o \in {x \in disk.intact \cup disk.torn : x[1] = "receipt"}}
    \cup {o[2] : o \in {x \in disk.intact \cup disk.torn : x[1] = "tombstone"}}
    \cup {current.seen[i] : i \in 1..Len(current.seen)}

\* _load_key: any file with bytes is a key.
KeyLoaded == key.seen \notin {Absent, Empty}

\* load_whitelist and command_allowed: argv is in the set that the entries,
\* prefixes and denied flags describe.
WhitelistLoaded == whitelist.seen \notin {Absent, Empty}
command_allowed(list, c) == c \in list

\* host_hooks.validate, for what several hooks have in common: their number,
\* unique ids, and required on a checkpoint only.
WellFormed(d) ==
    /\ d \notin {Absent, Empty}
    /\ Len(d) <= MaxHooks
    /\ \A i, j \in 1..Len(d) : d[i].id = d[j].id => i = j
    /\ \A i \in 1..Len(d) : d[i].required => d[i].action = "checkpoint"

\* load_declaration: what is not well formed declares nothing.
DeclaredHooks == IF WellFormed(declared) THEN {declared[i] : i \in 1..Len(declared)} ELSE {}

-----------------------------------------------------------------------------
Goto(a, step, args) ==
    /\ pc' = [pc EXCEPT ![a] = step]
    /\ job' = [job EXCEPT ![a] = args]

End(a) ==
    /\ Goto(a, "idle", Nobody)
    /\ lock' = IF lock = a THEN Nobody ELSE lock

Fault == faults < MaxFaults /\ faults' = faults + 1 /\ UNCHANGED outages

\* _write_exclusive of a key file: open O_EXCL, write, fsync, fsync of the
\* directory; a file that is there raises FileExistsError.
CreateFile(cell, v, broken) ==
    IF cell.seen # Absent
    THEN {[cell |-> cell, end |-> "exists"]}
    ELSE {[cell |-> Cell(v), end |-> "ok"]} \cup
         {[cell |-> [cell EXCEPT !.seen = s], end |-> "oserror"] :
             s \in {Absent, v} \cup broken}

-----------------------------------------------------------------------------
(* ensure_attest_files: each file is created if it is missing.             *)

\* The two existence checks, without a lock.
EnsureKey(a) ==
    /\ pc[a] = "idle" /\ key.seen = Absent
    /\ Goto(a, "key", Nobody)
    /\ UNCHANGED <<keyfiles, disk, current, world, lock, acked, counts>>

\* Mutant: the key is written over what another process put there.
CreateKeyOver(a) ==
    /\ pc[a] = "key"
    /\ \E k \in Keys \ UsedKeys : key' = Cell(k)
    /\ Goto(a, "whitelist", Nobody)
    /\ UNCHANGED <<whitelist, lock, counts, disk, current, world, acked>>

CreateKey(a) ==
    /\ pc[a] = "key"
    /\ \E k \in Keys \ UsedKeys : \E r \in CreateFile(key, k, {Empty, Short}) :
         /\ key' = r.cell
         /\ \/ /\ r.end = "ok" /\ Goto(a, "whitelist", Nobody)
               /\ UNCHANGED <<lock, counts>>
            \/ r.end = "oserror" /\ End(a) /\ Fault
            \/ r.end = "exists" /\ End(a) /\ UNCHANGED counts
    /\ UNCHANGED <<whitelist, disk, current, world, acked>>

CreateWhitelist(a) ==
    /\ \/ pc[a] = "whitelist"
       \/ pc[a] = "idle" /\ key.seen # Absent /\ whitelist.seen = Absent
    /\ \E w \in Whitelists : \E r \in CreateFile(whitelist, w, {Empty}) :
         /\ whitelist' = r.cell
         /\ End(a)
         /\ IF r.end = "oserror" THEN Fault ELSE UNCHANGED counts
    /\ UNCHANGED <<key, disk, current, world, acked>>

-----------------------------------------------------------------------------
(* attest_run: key, whitelist and CURRENT are read before the command      *)
(* runs, the receipt is signed after it.                                   *)

AttestStart(a) ==
    /\ pc[a] = "idle" /\ KeyLoaded /\ WhitelistLoaded
    /\ \E c \in Commands :
         /\ command_allowed(whitelist.seen, c)
         /\ Goto(a, "command", [key |-> key.seen, list |-> whitelist.seen, command |-> c])
    /\ UNCHANGED <<keyfiles, disk, current, world, lock, acked, counts>>

\* The command times out, or ends with an exit code and a receipt that is
\* written under its digest.
AttestEnd(a) ==
    /\ pc[a] = "command"
    /\ \/ End(a) /\ UNCHANGED <<disk, counts>>
       \/ \E id \in ReceiptIds \ UsedIds, ok \in BOOLEAN :
            /\ \E r \in Create(disk, <<"receipt", [id |-> id, ok |-> ok, key |-> job[a].key,
                                       list |-> job[a].list, command |-> job[a].command]>>) :
                 /\ disk' = r.disk
                 /\ End(a)
                 /\ IF r.end = "oserror" THEN Fault ELSE UNCHANGED counts
    /\ UNCHANGED <<keyfiles, current, world, acked>>

-----------------------------------------------------------------------------
(* A governed write with the authority of a receipt.                       *)

\* verify_receipt_for_authority: signature, exit code, whitelist, command,
\* and no tombstone.
Verified(o) ==
    /\ o \in Receipts
    /\ KeyLoaded /\ o[2].key = key.seen
    /\ o[2].ok
    /\ WhitelistLoaded /\ o[2].list = whitelist.seen
    /\ command_allowed(whitelist.seen, o[2].command)
    /\ ~Exists(Tombstone(o[2].id))

\* _cli_authority, when the plan is made; the plan is for the CURRENT of now.
PlanWrite(a) ==
    /\ pc[a] = "idle" /\ Len(current.seen) < MaxRevision
    /\ \E o \in Receipts :
         /\ Verified(o)
         /\ Goto(a, "planned", [receipt |-> o, base |-> current.seen])
    /\ UNCHANGED <<keyfiles, disk, current, world, lock, acked, counts>>

\* commit_write_plan: the CAS comes first, then enforce_for_commit verifies
\* again.
CommitLock(a) ==
    /\ pc[a] = "planned" /\ lock = Nobody
    /\ IF current.seen = job[a].base /\ Verified(job[a].receipt)
       THEN Goto(a, "consume", job[a]) /\ lock' = a
       ELSE End(a)
    /\ UNCHANGED <<keyfiles, disk, current, world, acked, counts>>

\* Mutant: the tombstone is written without fsync.
ConsumeUnsynced(a) ==
    /\ pc[a] = "consume"
    /\ disk' = [disk EXCEPT !.intact = @ \cup {Tombstone(job[a].receipt[2].id)}]
    /\ Goto(a, "commit", job[a])
    /\ UNCHANGED <<lock, counts, keyfiles, current, world, acked>>

\* consume_tombstone: created, never compared.
Consume(a) ==
    /\ pc[a] = "consume"
    /\ \E r \in Create(disk, Tombstone(job[a].receipt[2].id)) :
         /\ disk' = r.disk
         /\ IF r.end = "ok"
            THEN Goto(a, "commit", job[a]) /\ UNCHANGED <<lock, counts>>
            ELSE End(a) /\ Fault
    /\ UNCHANGED <<keyfiles, current, world, acked>>

\* The rest of commit_write_plan: it commits (Transactions), or a later check
\* refuses the plan and the receipt is burned.
CommitWrite(a) ==
    /\ pc[a] = "commit"
    /\ \/ UNCHANGED <<current, counts>>
       \/ \E r \in AtomicWrite(current, Append(current.seen, job[a].receipt[2].id)) :
            /\ current' = r.cell
            /\ IF r.end = "oserror" THEN Fault ELSE UNCHANGED counts
    /\ End(a)
    /\ UNCHANGED <<keyfiles, disk, world, acked>>

-----------------------------------------------------------------------------
(* mint_hook_run.                                                          *)

Entry(run, hook, subject) ==
    <<"run", [run |-> run, hook |-> hook, subject |-> subject, at |-> clock,
              key |-> key.seen]>>

\* Without a run_id, from the command line (_mint_hook_run): a declared hook
\* with the action that ran, a fresh uuid, no lock and no scan.
MintFresh(a) ==
    /\ pc[a] = "idle" /\ KeyLoaded
    /\ \E h \in DeclaredHooks, s \in Subjects,
         run \in FreshIds \ {o[2].run : o \in Entries \cup TornEntries} :
         \E r \in Create(disk, Entry(run, h.id, s)) :
            /\ disk' = r.disk
            /\ IF r.end = "oserror" THEN Fault ELSE UNCHANGED counts
    /\ UNCHANGED <<keyfiles, current, world, lock, pc, job, acked>>

\* With a run_id of the host.
MintCall(a) ==
    /\ pc[a] = "idle" /\ KeyLoaded
    /\ \E run \in RunIds, h \in Hooks, s \in Subjects :
         Goto(a, "mint", [run |-> run, hook |-> h, subject |-> s])
    /\ UNCHANGED <<keyfiles, disk, current, world, lock, acked, counts>>

\* _find_runs: every entry is opened and verified; one that is not stops the
\* scan, and so does one entry too many.
ScanFails ==
    \/ Cardinality(Entries \cup TornEntries) > MaxScan
    \/ TornEntries # {}
    \/ \E o \in Entries : o[2].key # key.seen

Matches(run) == {o \in Entries : o[2].run = run}

MintLock(a) ==
    /\ pc[a] = "mint" /\ lock = Nobody
    /\ LET j == job[a]
           found == Matches(j.run)
       IN  \/ /\ \/ ~KeyLoaded \/ ScanFails \/ Cardinality(found) > 1
                 \/ \E o \in found : o[2].hook # j.hook \/ o[2].subject # j.subject
              /\ End(a)
           \/ /\ KeyLoaded /\ ~ScanFails /\ found = {}
              /\ Goto(a, "publish", j) /\ lock' = a
           \/ /\ KeyLoaded /\ ~ScanFails
              /\ \E o \in found : /\ found = {o}
                                  /\ o[2].hook = j.hook /\ o[2].subject = j.subject
                                  /\ Goto(a, "restore", [entry |-> o])
              /\ lock' = a
    /\ UNCHANGED <<keyfiles, disk, current, world, acked, counts>>

\* _publish, and hook_run_publication_uncertain when it fails.
Publish(a) ==
    /\ pc[a] = "publish"
    /\ LET o == Entry(job[a].run, job[a].hook, job[a].subject)
       IN  \E r \in Create(disk, o) :
             /\ disk' = r.disk
             /\ IF r.end = "ok"
                THEN acked' = acked \cup {o} /\ UNCHANGED counts
                ELSE Fault /\ UNCHANGED acked
    /\ End(a)
    /\ UNCHANGED <<keyfiles, current, world>>

\* Mutant: the entry that is found is taken as durable.
RestoreSkipped(a) ==
    /\ pc[a] = "restore"
    /\ acked' = acked \cup {job[a].entry}
    /\ End(a)
    /\ UNCHANGED <<keyfiles, current, world, disk, counts>>

\* _restore_durability: fsync of the entry and of its directory.
Restore(a) ==
    /\ pc[a] = "restore"
    /\ \/ /\ disk' = SyncProtected(disk, {job[a].entry})
          /\ acked' = acked \cup {job[a].entry}
          /\ UNCHANGED counts
       \/ Fault /\ UNCHANGED <<disk, acked>>
    /\ End(a)
    /\ UNCHANGED <<keyfiles, current, world>>

-----------------------------------------------------------------------------
(* Readers.                                                                *)

\* Mutant: what lies behind the limit is dropped without a word.
read_verified_runsSilent ==
    LET files == Entries \cup TornEntries
        scanned == {s \in SUBSET files : IF Cardinality(files) <= MaxScan THEN s = files
                                         ELSE Cardinality(s) = MaxScan}
        valid(o) == o \in disk.intact /\ o[2].key = key.seen
    IN  IF files # {} /\ ~KeyLoaded THEN {[runs |-> {}, degraded |-> TRUE]}
        ELSE {[runs |-> {o \in s : valid(o)},
               degraded |-> \E o \in s : ~valid(o)] : s \in scanned}

\* read_verified_runs: an invalid entry is left out and reported, the first
\* entries in the order of their digests are read.  The results it can have.
read_verified_runs ==
    LET files == Entries \cup TornEntries
        scanned == {s \in SUBSET files : IF Cardinality(files) <= MaxScan THEN s = files
                                         ELSE Cardinality(s) = MaxScan}
        valid(o) == o \in disk.intact /\ o[2].key = key.seen
    IN  IF files # {} /\ ~KeyLoaded THEN {[runs |-> {}, degraded |-> TRUE]}
        ELSE {[runs |-> {o \in s : valid(o)},
               degraded |-> s # files \/ \E o \in s : ~valid(o)] : s \in scanned}

is_recent(at) == clock >= at /\ clock - at <= Recency

\* integration_status_v2: what it says of the required hooks of a declaration.
pending_continuity(read) ==
    LET recent == {o[2].hook : o \in {x \in read.runs : is_recent(x[2].at)}}
        required == {h.id : h \in {x \in DeclaredHooks : x.required /\ x.closes}}
    IN  IF required \subseteq recent THEN "none"
        ELSE IF read.degraded THEN "indeterminate" ELSE "required"

-----------------------------------------------------------------------------
(* The host, the clock and the failures.                                   *)

\* The host writes its declaration.
Declare ==
    /\ declared = Absent
    /\ \E h \in Hooks, r \in BOOLEAN, act \in {"checkpoint", "status"}, n \in 1..2 :
         declared' = [i \in 1..n |->
                        [id |-> h, action |-> act, required |-> r, closes |-> TRUE]]
    /\ UNCHANGED <<keyfiles, disk, current, lock, pc, job, acked, clock, counts>>

\* The owner edits the whitelist.
EditWhitelist ==
    /\ whitelist.seen # Absent
    /\ \E w \in Whitelists : whitelist' = Cell(w)
    /\ UNCHANGED <<key, disk, current, world, lock, pc, job, acked, counts>>

Tick ==
    /\ clock < MaxClock /\ clock' = clock + 1
    /\ UNCHANGED <<keyfiles, disk, current, declared, lock, pc, job, acked, counts>>

Die(a) ==
    /\ pc[a] # "idle" /\ End(a)
    /\ UNCHANGED <<keyfiles, disk, current, world, acked, counts>>

FilesAfterPowerLoss(cell, broken) ==
    CellsAfterPowerLoss(cell) \cup
    (IF cell.safe = cell.seen THEN {} ELSE {Cell(b) : b \in broken})

PowerLoss ==
    /\ outages < MaxOutages /\ outages' = outages + 1
    /\ key' \in FilesAfterPowerLoss(key, {Empty, Short})
    /\ whitelist' \in FilesAfterPowerLoss(whitelist, {Empty})
    /\ current' \in CellsAfterPowerLoss(current)
    /\ disk' \in DisksAfterPowerLoss(disk)
    /\ lock' = Nobody
    /\ pc' = [a \in Agents |-> "idle"]
    /\ job' = [a \in Agents |-> Nobody]
    /\ UNCHANGED <<world, acked, faults>>

Init ==
    /\ key = Cell(Absent) /\ whitelist = Cell(Absent)
    /\ disk = EmptyDisk
    /\ current = Cell(<<>>)
    /\ declared = Absent
    /\ lock = Nobody
    /\ pc = [a \in Agents |-> "idle"]
    /\ job = [a \in Agents |-> Nobody]
    /\ acked = {} /\ clock = 0 /\ faults = 0 /\ outages = 0

Attest(a) == EnsureKey(a) \/ CreateKey(a) \/ CreateWhitelist(a) \/ AttestStart(a) \/ AttestEnd(a)
Write(a) == PlanWrite(a) \/ CommitLock(a) \/ Consume(a) \/ CommitWrite(a)
Mint(a) == MintFresh(a) \/ MintCall(a) \/ MintLock(a) \/ Publish(a) \/ Restore(a)

Next ==
    \/ \E a \in Agents : Attest(a) \/ Write(a) \/ Mint(a) \/ Die(a)
    \/ Declare \/ EditWhitelist \/ Tick \/ PowerLoss

Spec == Init /\ [][Next]_vars

-----------------------------------------------------------------------------
(* Properties.                                                             *)

\* consume_tombstone: a receipt stands behind one revision at most, whoever
\* races for it, dies after the tombstone or loses power before CURRENT.
SingleUse ==
    \A i, j \in 1..Len(current.seen) : current.seen[i] = current.seen[j] => i = j

\* mint_hook_run: however often the host repeats a run_id, at once or after a
\* failure, there is one entry for it; what a call returned stays on the medium,
\* and every later call with the run_id returns the same entry.
AckedRunHolds ==
    /\ \A run \in RunIds : Cardinality(Matches(run)) <= 1
    /\ acked \subseteq disk.durable
    /\ \A o, p \in acked : o[2].run = p[2].run => o = p

\* integration_status_v2: a required hook is never called pending when a run
\* of it was recorded and is recent; torn neighbours, a lost key or a full
\* directory make the answer indeterminate at worst.
NeverWronglyPending ==
    \A o \in acked : \A read \in read_verified_runs :
        (is_recent(o[2].at) /\ {h.id : h \in {x \in DeclaredHooks : x.required}} = {o[2].hook})
            => pending_continuity(read) # "required"

\* ensure_attest_files: a key that is on the medium is the key for good,
\* whoever else runs init (what is signed stays verifiable).
A == INSTANCE Assignment WITH Values <- Keys \cup {Short},
        assigned <- IF key.safe \in Keys \cup {Short} THEN {key.safe} ELSE {}
KeyAssigned == A!AssignmentSpec
=============================================================================

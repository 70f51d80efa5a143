------------------------- MODULE StoragePrimitives -------------------------
(***************************************************************************)
(* The two ways an_kla/storage_primitives.py puts bytes on a disk, and     *)
(* what a failure or a power loss leaves of them.                          *)
(*                                                                         *)
(* A file that is replaced atomically (CURRENT, a transaction journal, the *)
(* watermark) is a cell [seen, safe]: the value a reader gets now and the  *)
(* value the medium holds for certain.                                     *)
(*                                                                         *)
(* The content-addressed objects are one record                            *)
(*   intact      objects a reader finds with the bytes their name promises *)
(*   torn        names that hold other bytes (an interrupted create)       *)
(*   durable     the intact objects whose fsync and directory fsync are    *)
(*               done                                                      *)
(*   quarantined how many torn files were moved aside                      *)
(*                                                                         *)
(* A primitive is the SET of its results, one per way the call can end:    *)
(* it returned, it raised OSError before it changed anything, or it raised *)
(* OSError leaving a partial effect.  A process killed in the middle of    *)
(* the call leaves one of the same effects.                                *)
(***************************************************************************)
EXTENDS Naturals, FiniteSets

\* The quota of store._quarantine_conflict: 128 files in the code.
CONSTANT QuarantineQuota

ASSUME QuotaAssumption == QuarantineQuota \in Nat

\* An empty object area.
EmptyDisk == [intact |-> {}, torn |-> {}, durable |-> {}, quarantined |-> 0]

\* The records a disk over the objects O can be.
DiskOf(O) == [intact : SUBSET O, torn : SUBSET O, durable : SUBSET O,
              quarantined : 0..QuarantineQuota]

Cell(v) == [seen |-> v, safe |-> v]

CellOf(V) == [seen : V, safe : V]

-----------------------------------------------------------------------------
(***************************************************************************)
(* atomic_write: temporary file, write, fsync, os.replace, fsync of the    *)
(* directory.  A failure up to os.replace leaves the target as it was; a   *)
(* failing directory fsync leaves the new value visible and not durable.   *)
(***************************************************************************)
AtomicWrite(cell, v) ==
    { [cell |-> Cell(v), end |-> "ok"],
      [cell |-> cell, end |-> "oserror"],
      [cell |-> [cell EXCEPT !.seen = v], end |-> "oserror"] }

(***************************************************************************)
(* store._quarantine_conflict followed by the creation of the object: the  *)
(* torn file leaves its name.                                              *)
(***************************************************************************)
Quarantine(disk, o) ==
    [disk EXCEPT !.torn = @ \ {o}, !.quarantined = @ + 1]

(***************************************************************************)
(* The O_EXCL create, write, fsync and directory fsync of write_immutable  *)
(* on a free name.  The bytes go straight to the target: a failing or      *)
(* interrupted write leaves a torn file, a failing fsync or directory      *)
(* fsync leaves an intact file that is not durable.                        *)
(***************************************************************************)
Create(disk, o) ==
    { [disk |-> [disk EXCEPT !.intact = @ \cup {o}, !.durable = @ \cup {o}],
       end |-> "ok"],
      [disk |-> disk, end |-> "oserror"],
      [disk |-> [disk EXCEPT !.torn = @ \cup {o}], end |-> "oserror"],
      [disk |-> [disk EXCEPT !.intact = @ \cup {o}], end |-> "oserror"] }

(***************************************************************************)
(* write_immutable.  An object that already holds its bytes is read, left  *)
(* alone, and NOT fsynced again.  A torn file is moved to the quarantine,  *)
(* and a full quarantine ends the call with StoreError.                    *)
(***************************************************************************)
WriteImmutable(disk, o) ==
    IF o \in disk.intact
    THEN {[disk |-> disk, end |-> "ok"], [disk |-> disk, end |-> "oserror"]}
    ELSE IF o \notin disk.torn
    THEN Create(disk, o)
    ELSE IF disk.quarantined >= QuarantineQuota
    THEN {[disk |-> disk, end |-> "quarantine_quota_exceeded"]}
    ELSE {[disk |-> disk, end |-> "oserror"]} \cup Create(Quarantine(disk, o), o)

(***************************************************************************)
(* sync_protected: fsync every file of a receipt and its directory, and    *)
(* compare its bytes with the digest the receipt will name.  It raises     *)
(* unless every file is there and intact.                                  *)
(***************************************************************************)
CanSync(disk, files) == files \subseteq disk.intact

SyncProtected(disk, files) == [disk EXCEPT !.durable = @ \cup files]

-----------------------------------------------------------------------------
(***************************************************************************)
(* The machine loses power.  Durable objects stay; of the others any may   *)
(* vanish or come back torn, and what is read back is on the medium.  A    *)
(* replaced file shows the new value or the last durable one.              *)
(***************************************************************************)
DisksAfterPowerLoss(disk) ==
    UNION { LET lost == (disk.intact \ disk.durable) \ kept
            IN  { [intact |-> disk.durable \cup kept,
                   durable |-> disk.durable \cup kept,
                   torn |-> bad, quarantined |-> disk.quarantined] :
                     bad \in SUBSET (disk.torn \cup lost) } :
            kept \in SUBSET (disk.intact \ disk.durable) }

CellsAfterPowerLoss(cell) == {Cell(cell.seen), Cell(cell.safe)}
=============================================================================

----------------------------- MODULE DiskRestore -----------------------------
(***************************************************************************)
(* hanadiskrestore: one run of the command that replaces the disk(s) of    *)
(* /hana/data by disks created from snapshots                              *)
(* (internal/onetime/hanadiskrestore).  prepare stops HANA, unmounts the   *)
(* data directory and detaches the old disks; diskRestore or groupRestore  *)
(* creates, attaches and renames the new ones and, when that fails, puts   *)
(* the old disks back.                                                     *)
(*                                                                         *)
(* Every call may fail, at most MaxFaults of them in one run.  When        *)
(* lateEffects is "possible" a failing attach, detach or insert may still  *)
(* take effect at any later time, during the run or after it: the          *)
(* operation outlives the wait for it.                                     *)
(***************************************************************************)
EXTENDS Naturals, FiniteSets

CONSTANTS
    Disks,        \* the disks that back /hana/data; the disk that replaces d
                  \* is identified by d as well
    NoCur,        \* no disk is worked on
    MaxFaults     \* bound on the number of failing calls of a run

ASSUME RestoreAssumption ==
    /\ IsFiniteSet(Disks) /\ Disks # {}
    /\ NoCur \notin Disks
    /\ MaxFaults \in Nat

(* "single": one disk, one snapshot; "change": the same, called by
   hanachangedisktype, with HANA stopped by the caller and no volume group read;
   "bulk" and "named": a snapshot group restored by bulk insert, or disk by disk
   because names, sizes or keys were asked for; "scaleout": a group of several
   hosts, whose volume group is not read either. *)
Modes == {"single", "change", "bulk", "named", "scaleout"}

VARIABLES
    mode,         \* what is restored
    disks,        \* r.disks
    lateEffects,  \* whether a failed request of this run may still take effect
    failed,       \* per request to Compute Engine, the disks whose call failed
    pc,           \* where the run is
    failedAt,     \* the call whose error the run returns, "" while there is none
    todo,         \* what is left of the loop at pc
    cur,          \* the disk the loop is working on
    detached,     \* disksDetached, in prepare
    newAttached,  \* r.newAttachedDisks
    hana,         \* "up" or "down"
    mounted,      \* what /hana/data is mounted from: "old", "new", "none"
    old,          \* the old disks that are attached
    oldCG,        \* the old disks that are in the consistency group
    created,      \* the new disks that exist
    new,          \* the new disks that are attached
    newCG,        \* the new disks that are in the consistency group
    vg,           \* the name of the restored volume group: "target" or "other"
    faults        \* failing calls so far

vars == <<mode, disks, lateEffects, failed, pc, failedAt, todo, cur, detached, newAttached, hana, mounted,
          old, oldCG, created, new, newCG, vg, faults>>

Group == mode \in {"bulk", "named", "scaleout"}

(* r.DataDiskVG # "" *)
KnowsVG == mode \in {"single", "bulk", "named"}

Ended == pc \in {"success", "failure", "killed"}

RestoreLabels == {"check", "stop", "umount", "readVG", "detach", "reattach", "prepareRescan",
           "scan", "create", "restore", "attachNew", "verifyNew", "rename",
           "undoNew", "undoOld", "undoRescan", "rescan", "verify", "label",
           "success", "failure", "killed"}

FailSites == {"", "check", "stop", "umount", "readVG", "detach", "create", "insert",
          "attachNew", "verifyNew", "rename", "rescan", "verify", "label"}

(* What is asked of Compute Engine about one disk. *)
Requests == {"detachOld", "attachOld", "insert", "attachNew", "detachNew"}

(* The type invariant. *)
TypeOK ==
    /\ failed \in [Requests -> SUBSET disks]
    /\ mode \in Modes
    /\ disks \subseteq Disks
    /\ lateEffects \in {"possible", "excluded"}
    /\ pc \in RestoreLabels
    /\ failedAt \in FailSites
    /\ todo \subseteq disks
    /\ cur \in disks \cup {NoCur}
    /\ detached \subseteq disks
    /\ newAttached \subseteq disks
    /\ hana \in {"up", "down"}
    /\ mounted \in {"old", "new", "none"}
    /\ old \subseteq disks
    /\ oldCG \subseteq disks
    /\ created \subseteq disks
    /\ new \subseteq created
    /\ newCG \subseteq disks
    /\ vg \in {"target", "other"}
    /\ faults \in 0..MaxFaults

Init ==
    /\ mode \in Modes
    /\ IF Group THEN disks = Disks ELSE \E d \in Disks : disks = {d}
    /\ lateEffects \in {"possible", "excluded"}
    /\ failed = [op \in Requests |-> {}]
    /\ pc = "check"
    /\ failedAt = ""
    /\ todo = {}
    /\ cur = NoCur
    /\ detached = {}
    /\ newAttached = {}
    /\ hana \in IF mode = "change" THEN {"up", "down"} ELSE {"up"}
    /\ mounted = "old"
    /\ old = disks
    /\ oldCG = IF Group THEN disks ELSE {}
    /\ created = {}
    /\ new = {}
    /\ newCG = {}
    /\ vg \in IF mode = "change" THEN {"target"} ELSE {"target", "other"}
    /\ faults = 0

------------------------------------------------------------------------------
disksState == <<old, oldCG, created, new, newCG>>
loop == <<todo, cur>>
record == <<detached, newAttached>>
input == <<mode, disks, lateEffects>>

Goto(label) == pc' = label /\ UNCHANGED failedAt

OneFault == faults < MaxFaults /\ faults' = faults + 1
NoFault == UNCHANGED faults

(* The run will return the error of this call, after what starts at label. *)
FailVia(s, label) == OneFault /\ failedAt' = s /\ pc' = label

(* The call for this request fails: its operation was refused, or it outlives the
   wait and takes effect later (TakesEffect), or never. *)
Fails(op, d) == failed' = [failed EXCEPT ![op] = @ \cup {d}]
CallAnswered == UNCHANGED failed

(* modifyDiskInCG: its error is only a warning. *)
JoinsCG(var, d) == \/ var' = var \cup {d} /\ NoFault
                   \/ var' = var /\ OneFault
LeavesCG(var, d) == \/ var' = var \ {d} /\ NoFault
                    \/ var' = var /\ OneFault

(* RescanVolumeGroups ends with mount -a: what it mounts is the volume group
   that bears the target's name and whose disks are all attached; with the old
   and the restored one both attached it is either of them. *)
Mountable == (IF old = disks THEN {"old"} ELSE {})
                \cup (IF new = disks /\ vg = "target" THEN {"new"} ELSE {})

RescanMounts ==
    IF mounted # "none" \/ Mountable = {} THEN UNCHANGED mounted
                                          ELSE mounted' \in Mountable

(* A rescan whose result is ignored or only logged. *)
RescanLogged ==
    \/ RescanMounts /\ NoFault
    \/ UNCHANGED mounted /\ OneFault

------------------------------------------------------------------------------
(* restoreHandler up to prepare: parameters, clients, checkPreConditions. *)
CheckPreConditions ==
    /\ pc = "check"
    /\ \/ Goto(IF mode = "change" THEN "umount" ELSE "stop") /\ NoFault
       \/ FailVia("check", "failure")
    /\ UNCHANGED <<input, failed, loop, record, hana, mounted, disksState, vg>>

(* StopHANA and WaitForIndexServerToStopWithRetry; a failing stop may have
   stopped HANA. *)
StopHANA ==
    /\ pc = "stop"
    /\ \/ hana' = "down" /\ Goto("umount") /\ NoFault
       \/ hana' \in {hana, "down"} /\ FailVia("stop", "failure")
    /\ UNCHANGED <<input, failed, loop, record, mounted, disksState, vg>>

(* Mutant: the error of Unmount is dropped. *)
UnmountIgnoresError ==
    /\ pc = "umount"
    /\ \/ hana = "down" /\ mounted' = "none" /\ NoFault
       \/ UNCHANGED mounted /\ OneFault
    /\ Goto("detach") /\ todo' = disks
    /\ UNCHANGED <<input, failed, cur, record, hana, disksState, vg>>

(* Unmount: refused while HANA holds files open. *)
Unmount ==
    /\ pc = "umount"
    /\ \/ /\ hana = "down"
          /\ mounted' = "none"
          /\ IF KnowsVG THEN Goto("readVG") /\ UNCHANGED todo
                        ELSE Goto("detach") /\ todo' = disks
          /\ NoFault
       \/ FailVia("umount", "failure") /\ UNCHANGED <<mounted, todo>>
       \/ /\ hana = "up"
          /\ failedAt' = "umount" /\ pc' = "failure" /\ NoFault
          /\ UNCHANGED <<mounted, todo>>
    /\ UNCHANGED <<input, failed, cur, record, hana, disksState, vg>>

(* fetchVG and fetchLV: their error returns with the directory unmounted. *)
ReadVolumeGroup ==
    /\ pc = "readVG"
    /\ \/ Goto("detach") /\ todo' = disks /\ NoFault
       \/ FailVia("readVG", "failure") /\ UNCHANGED todo
    /\ UNCHANGED <<input, failed, cur, record, hana, mounted, disksState, vg>>

(* Mutants: the error of a detach is dropped; it returns without putting back
   what was detached before. *)
DetachOldIgnoresError(d) ==
    /\ pc = "detach" /\ d \in todo
    /\ \/ old' = old \ {d} /\ CallAnswered /\ NoFault
       \/ UNCHANGED old /\ Fails("detachOld", d) /\ OneFault
    /\ detached' = detached \cup {d}
    /\ todo' = todo \ {d}
    /\ Goto(IF todo = {d} THEN "scan" ELSE "detach")
    /\ UNCHANGED <<input, cur, newAttached, hana, mounted, oldCG, created, new, newCG, vg>>

DetachOldReturns(d) ==
    /\ pc = "detach" /\ d \in todo
    /\ \/ /\ old' = old \ {d}
          /\ IF Group THEN LeavesCG(oldCG, d) ELSE UNCHANGED oldCG /\ NoFault
          /\ todo' = todo \ {d}
          /\ CallAnswered
          /\ Goto(IF todo = {d} THEN "scan" ELSE "detach")
       \/ /\ UNCHANGED <<old, oldCG, todo>>
          /\ Fails("detachOld", d)
          /\ FailVia("detach", "prepareRescan")
    /\ UNCHANGED <<input, cur, record, hana, mounted, created, new, newCG, vg>>

(* prepare: detach each old disk and take it out of the consistency group. *)
DetachOld(d) ==
    /\ pc = "detach" /\ d \in todo
    /\ \/ /\ old' = old \ {d}
          /\ IF Group THEN LeavesCG(oldCG, d) ELSE UNCHANGED oldCG /\ NoFault
          /\ detached' = IF Group THEN detached \cup {d} ELSE detached
          /\ todo' = todo \ {d}
          /\ CallAnswered
          /\ Goto(IF todo = {d} THEN "scan" ELSE "detach")
       \/ /\ Fails("detachOld", d)
          /\ FailVia("detach", IF Group /\ detached # {} THEN "reattach" ELSE "prepareRescan")
          /\ todo' = detached
          /\ UNCHANGED <<old, oldCG, detached>>
    /\ UNCHANGED <<input, cur, newAttached, hana, mounted, created, new, newCG, vg>>

(* prepare, when a detach failed: reattach what was detached before; an error
   here returns at once. *)
Reattach(d) ==
    /\ pc = "reattach" /\ d \in todo
    /\ \/ /\ old' = old \cup {d}
          /\ JoinsCG(oldCG, d)
          /\ todo' = todo \ {d}
          /\ CallAnswered
          /\ Goto(IF todo = {d} THEN "prepareRescan" ELSE "reattach")
       \/ /\ Fails("attachOld", d)
          /\ OneFault
          /\ Goto("failure")
          /\ UNCHANGED <<old, oldCG, todo>>
    /\ UNCHANGED <<input, cur, record, hana, mounted, created, new, newCG, vg>>

(* prepare's last call on its error path. *)
PrepareRescan ==
    /\ pc = "prepareRescan"
    /\ RescanLogged
    /\ Goto("failure")
    /\ UNCHANGED <<input, failed, loop, record, hana, disksState, vg>>

(* restoreHandler: rescan so that the restored volume group finds no namesake. *)
ScanBeforeRestore ==
    /\ pc = "scan"
    /\ RescanLogged
    /\ Goto("create")
    /\ UNCHANGED <<input, failed, loop, record, hana, disksState, vg>>

(* Where the error of the restore goes: handleRestoreFailure of a group, or the
   error branches of diskRestore. *)
Undo(s, toDetach) ==
    /\ FailVia(s, IF toDetach = {} THEN "undoOld" ELSE "undoNew")
    /\ todo' = IF toDetach = {} THEN disks ELSE toDetach

(* groupRestoreWithSGWorkflow: GetSG and, unless disks are made one by one,
   BulkInsertFromSG.  For one disk this is the GetSnapshot. *)
CreateDisks ==
    /\ pc = "create"
    /\ \/ /\ created' = IF mode \in {"bulk", "scaleout"} THEN disks ELSE created
          /\ todo' = disks
          /\ Goto("restore") /\ CallAnswered /\ NoFault
       \/ /\ UNCHANGED created
          /\ IF mode \in {"bulk", "scaleout"} THEN failed' = [failed EXCEPT !["insert"] = disks]
                                               ELSE CallAnswered
          /\ Undo("create", newAttached)
    /\ UNCHANGED <<input, cur, record, hana, mounted, old, oldCG, new, newCG, vg>>

(* The next snapshot: insert its disk (unless the bulk insert made it). *)
InsertDisk(d) ==
    /\ pc = "restore" /\ d \in todo
    /\ cur' = d
    /\ \/ /\ created' = created \cup {d}
          /\ Goto("attachNew") /\ CallAnswered /\ NoFault
          /\ UNCHANGED todo
       \/ /\ mode \notin {"bulk", "scaleout"}
          /\ Fails("insert", d) /\ UNCHANGED created
          /\ Undo("insert", newAttached)
    /\ UNCHANGED <<input, record, hana, mounted, old, oldCG, new, newCG, vg>>

AttachNew ==
    /\ pc = "attachNew"
    /\ \/ /\ new' = new \cup {cur}
          /\ Goto("verifyNew") /\ CallAnswered /\ NoFault
          /\ UNCHANGED todo
       \/ /\ Fails("attachNew", cur) /\ UNCHANGED new
          /\ Undo("attachNew", newAttached)
    /\ UNCHANGED <<input, cur, record, hana, mounted, old, oldCG, created, newCG, vg>>

(* DiskAttachedToInstance; only then does a group remember the disk, and add it
   to the consistency group. *)
VerifyNew ==
    /\ pc = "verifyNew"
    /\ \/ /\ todo' = todo \ {cur}
          /\ newAttached' = IF Group THEN newAttached \cup {cur} ELSE newAttached
          /\ IF Group THEN JoinsCG(newCG, cur) ELSE UNCHANGED newCG /\ NoFault
          /\ Goto(IF todo # {cur} THEN "restore" ELSE IF KnowsVG THEN "rename" ELSE "rescan")
       \/ /\ Undo("verifyNew", newAttached)
          /\ UNCHANGED <<newAttached, newCG>>
    /\ UNCHANGED <<input, failed, cur, detached, hana, mounted, old, oldCG, created, new, vg>>

(* Mutant: the new disks are not detached when the rename fails. *)
RenameLVMKeepsNew ==
    /\ pc = "rename"
    /\ \/ vg' = "target" /\ Goto("rescan") /\ NoFault /\ UNCHANGED todo
       \/ vg' \in {vg, "target"} /\ Undo("rename", {})
    /\ UNCHANGED <<input, failed, cur, record, hana, mounted, disksState>>

(* renameLVM: volume group, then logical volume. *)
RenameLVM ==
    /\ pc = "rename"
    /\ \/ vg' = "target" /\ Goto("rescan") /\ NoFault /\ UNCHANGED todo
       \/ /\ vg' \in {vg, "target"}
          /\ Undo("rename", IF Group THEN newAttached ELSE disks)
    /\ UNCHANGED <<input, failed, cur, record, hana, mounted, disksState>>

(* handleRestoreFailure and diskRestore: detach the new disk(s) it knows of. *)
UndoNew(d) ==
    /\ pc = "undoNew" /\ d \in todo
    /\ \/ new' = new \ {d}
          /\ (IF Group THEN LeavesCG(newCG, d) ELSE UNCHANGED newCG /\ NoFault)
          /\ CallAnswered
       \/ UNCHANGED new /\ Fails("detachNew", d) /\ OneFault
          /\ (UNCHANGED newCG \/ newCG' = newCG \ {d})
    /\ IF todo = {d} THEN Goto("undoOld") /\ todo' = disks
                     ELSE Goto("undoNew") /\ todo' = todo \ {d}
    /\ UNCHANGED <<input, cur, record, hana, mounted, old, oldCG, created, vg>>

(* ... and attach the old one(s) again. *)
UndoOld(d) ==
    /\ pc = "undoOld" /\ d \in todo
    /\ \/ /\ old' = old \cup {d}
          /\ (IF Group THEN JoinsCG(oldCG, d) ELSE UNCHANGED oldCG /\ NoFault)
          /\ CallAnswered
       \/ UNCHANGED <<old, oldCG>> /\ Fails("attachOld", d) /\ OneFault
    /\ todo' = todo \ {d}
    /\ Goto(IF todo = {d} THEN "undoRescan" ELSE "undoOld")
    /\ UNCHANGED <<input, cur, record, hana, mounted, created, new, newCG, vg>>

UndoRescan ==
    /\ pc = "undoRescan"
    /\ RescanLogged
    /\ Goto("failure")
    /\ UNCHANGED <<input, failed, loop, record, hana, disksState, vg>>

(* The rescan after the restore: its error returns without putting the old
   disks back. *)
FinalRescan ==
    /\ pc = "rescan"
    /\ \/ RescanMounts /\ Goto("verify") /\ NoFault
       \/ /\ UNCHANGED mounted
          /\ FailVia("rescan", "failure")
    /\ UNCHANGED <<input, failed, loop, record, hana, disksState, vg>>

(* verifyDataVolumeState: by the names of the volume group, the logical volume
   and the mount source; its error returns likewise. *)
VerifyDataVolume ==
    /\ pc = "verify"
    /\ \/ mounted # "none" /\ Goto("label") /\ NoFault
       \/ FailVia("verify", "failure")
       \/ mounted = "none" /\ failedAt' = "verify" /\ pc' = "failure" /\ NoFault
    /\ UNCHANGED <<input, failed, loop, record, hana, mounted, disksState, vg>>

(* appendLabelsToDetachedDisk *)
LabelDetached ==
    /\ pc = "label"
    /\ \/ Goto("success") /\ NoFault
       \/ FailVia("label", "failure")
    /\ UNCHANGED <<input, failed, loop, record, hana, mounted, disksState, vg>>

Kill ==
    /\ ~Ended
    /\ OneFault
    /\ Goto("killed")
    /\ UNCHANGED <<input, failed, loop, record, hana, mounted, disksState, vg>>

Step ==
    \/ CheckPreConditions \/ StopHANA \/ Unmount \/ ReadVolumeGroup
    \/ \E d \in Disks : DetachOld(d) \/ Reattach(d)
    \/ PrepareRescan \/ ScanBeforeRestore \/ CreateDisks
    \/ \E d \in Disks : InsertDisk(d) \/ UndoNew(d) \/ UndoOld(d)
    \/ AttachNew \/ VerifyNew \/ RenameLVM \/ UndoRescan
    \/ FinalRescan \/ VerifyDataVolume \/ LabelDetached

(* Compute Engine completes an operation whose call has failed, whatever the run did
   in the meantime: it attaches only disks that exist, and detaches a disk whether
   its file system is mounted or not. *)
TakesEffect(d) ==
    /\ lateEffects = "possible"
    /\ \/ d \in failed["detachOld"] /\ old' = old \ {d} /\ UNCHANGED <<created, new>>
       \/ d \in failed["attachOld"] /\ old' = old \cup {d} /\ UNCHANGED <<created, new>>
       \/ d \in failed["insert"] /\ created' = created \cup {d} /\ UNCHANGED <<old, new>>
       \/ /\ d \in failed["attachNew"] \cap created
          /\ new' = new \cup {d} /\ UNCHANGED <<old, created>>
       \/ d \in failed["detachNew"] /\ new' = new \ {d} /\ UNCHANGED <<old, created>>
    /\ UNCHANGED <<input, failed, pc, failedAt, loop, record, hana, mounted, oldCG, newCG, vg, faults>>

(* After the run somebody starts HANA, which needs its data directory. *)
StartHANA ==
    /\ Ended
    /\ mounted # "none"
    /\ hana' = "up"
    /\ UNCHANGED <<input, failed, pc, failedAt, loop, record, mounted, disksState, vg, faults>>

Next ==
    \/ Step \/ Kill \/ StartHANA
    \/ \E d \in Disks : TakesEffect(d)

Spec == Init /\ [][Next]_vars

------------------------------------------------------------------------------
(* A restore that reports success has mounted the restored volume: every new
   disk is attached, no old disk is, and the directory is mounted from the new
   ones, although verifyDataVolumeState itself compares names that the old and
   the restored volume share. *)
SuccessServesRestored ==
    pc = "success" => mounted = "new" /\ new = disks /\ old = {}

(* prepare detaches a disk only with HANA down and the directory unmounted, and what
   is mounted at any time of the run or after it, HANA up on it or not, has all its
   disks: the one exception is a disk whose detach had failed and completed late,
   after a rescan had mounted what was still attached.  On the old volume that is
   one disk at most, and none that prepare had detached before. *)
MountedKeepsDisks ==
    /\ hana = "up" => mounted # "none"
    /\ mounted = "old" /\ old # disks =>
          lateEffects = "possible" /\ \E d \in failed["detachOld"] \ detached : old = disks \ {d}
    /\ mounted = "new" /\ new # disks =>
          lateEffects = "possible" /\ disks \ new \subseteq failed["detachNew"]

(* The disks a failing run leaves, however many of its calls fail (none of them
   taking effect late): until the unmount and fetchVG, the old ones; in the detach
   loop, the old ones but for those it detached and, because an attach failed, did
   not get back to; while disks are created, inserted, attached or renamed, the old
   ones but for those whose attach failed, and beside them only new ones whose detach
   failed and the one that was attached but could not be seen as attached; after
   the rename, the new ones. *)
DisksLeft ==
    /\ failedAt \in {"check", "stop", "umount", "readVG"} => old = disks /\ new = {}
    /\ failedAt = "detach" =>
          /\ disks \ old \subseteq detached /\ new = {}
          /\ failed["attachOld"] = {} => old = disks
    /\ failedAt \in {"create", "insert", "attachNew", "verifyNew", "rename"} =>
          /\ old = disks \ failed["attachOld"]
          /\ new = failed["detachNew"] \cup IF failedAt = "verifyNew" THEN {cur} ELSE {}
    /\ failedAt \in {"rescan", "verify", "label"} => new = disks /\ old = {}

(* ... and after one failing call the old volume is mounted as well, and its disks
   are in their consistency group; after fetchVG or fetchLV failed it is not. *)
OneFaultOutcome ==
    /\ failedAt \in {"check", "stop", "umount"} => mounted = "old"
    /\ failedAt = "readVG" => mounted = "none"
    /\ failedAt \in {"detach", "create", "insert", "attachNew", "rename"} =>
          /\ mounted = "old"
          /\ Group => oldCG = disks /\ newCG = {}

FailureOutcome ==
    pc = "failure" /\ lateEffects = "excluded" => DisksLeft /\ (faults <= 1 => OneFaultOutcome)
=============================================================================

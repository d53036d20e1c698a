--------------------------- MODULE DiskRestore_proofs ---------------------------
(***************************************************************************)
(* What a run of hanadiskrestore leaves, for any number of disks and of    *)
(* failing calls: a success serves the restored volume, what is mounted    *)
(* keeps its disks but for a detach that completes late, and a failure     *)
(* leaves the disks that its failing calls account for.                    *)
(***************************************************************************)
EXTENDS DiskRestore, TLAPS

(* Nothing of the disks has been touched. *)
Untouched ==
    /\ old = disks /\ detached = {} /\ newAttached = {} /\ created = {} /\ new = {} /\ newCG = {}
    /\ Group => oldCG = disks
    /\ failedAt = ""

(* One call has failed so far and had no effect. *)
SingleFault == faults <= 1 /\ lateEffects = "excluded"

(* HANA is stopped and the directory unmounted. *)
Idle == hana = "down" /\ mounted = "none"

(* The loop of prepare: what was detached, and left the group if no call failed. *)
Preparing ==
    /\ pc \in {"check", "stop", "umount"} => Untouched /\ mounted = "old"
    /\ pc = "readVG" => Untouched /\ Idle
    /\ pc \in {"detach", "scan"} =>
         /\ Idle /\ failedAt = "" /\ new = {} /\ created = {} /\ newAttached = {} /\ newCG = {}
         /\ detached = IF Group THEN disks \ old ELSE {}
         /\ Group /\ faults = 0 => oldCG = old
    /\ pc = "detach" => old = todo /\ todo # {}
    /\ pc = "scan" => old = {}

(* A detach failed: what was detached goes back. *)
PuttingBack ==
    /\ pc \in {"reattach", "prepareRescan"} =>
         Idle /\ failedAt = "detach" /\ new = {} /\ newCG = {} /\ faults >= 1
    /\ pc = "reattach" /\ SingleFault => /\ old = disks \ todo
                                         /\ Group => oldCG = disks \ todo
    /\ pc = "prepareRescan" /\ SingleFault => old = disks /\ (Group => oldCG = disks)

(* The loop over the snapshots: the old disks are gone, the new ones come. *)
Restoring ==
    /\ pc \in {"create", "restore", "attachNew", "verifyNew", "rename"} =>
         /\ Idle /\ failedAt = "" /\ old = {}
         /\ Group /\ faults = 0 => oldCG = {} /\ newCG = newAttached
         /\ ~Group => newCG = {}
    /\ pc = "create" => new = {} /\ newAttached = {}
    /\ pc \in {"restore", "attachNew", "verifyNew"} =>
         /\ newAttached = (IF Group THEN disks \ todo ELSE {})
         /\ ~Group => todo = disks
    /\ pc \in {"restore", "attachNew"} => new = disks \ todo
    /\ pc = "verifyNew" => new = (disks \ todo) \cup {cur}
    /\ pc = "restore" => todo # {}
    /\ pc \in {"attachNew", "verifyNew"} => cur \in todo /\ cur \in created
    /\ pc = "rename" => new = disks /\ newAttached = (IF Group THEN disks ELSE {})

(* The rollback of a restore. *)
Undoing ==
    /\ pc \in {"undoNew", "undoOld", "undoRescan"} =>
         /\ Idle /\ faults >= 1
         /\ failedAt \in {"create", "insert", "attachNew", "verifyNew", "rename"}
         /\ ~Group => newCG = {}
    /\ pc = "undoNew" => old = {} /\ todo # {}
    /\ pc = "undoOld" => todo # {}
    /\ pc = "undoNew" /\ SingleFault =>
         /\ Group => oldCG = {} /\ newCG = todo
         /\ failedAt # "verifyNew" => new = todo
    /\ pc \in {"undoOld", "undoRescan"} /\ SingleFault =>
         /\ IF pc = "undoOld" THEN old = disks \ todo ELSE old = disks
         /\ Group => oldCG = old /\ newCG = {}
         /\ failedAt # "verifyNew" => new = {}

(* After the rename: the new disks are served, or nothing is mounted. *)
Serving ==
    /\ pc \in {"rescan", "verify", "label", "success"} =>
         old = {} /\ new = disks
    /\ pc \in {"rescan", "verify", "label"} => failedAt = ""
    /\ pc = "rescan" => mounted = "none"
    /\ pc = "verify" => mounted \in {"new", "none"}
    /\ pc \in {"label", "success"} => mounted = "new"

(* A single failure has been undone. *)
OneFaultUndone == pc = "failure" /\ SingleFault => OneFaultOutcome

(* Where the run is decides what the disks, the directory and HANA are. *)
Phases ==
    /\ Preparing /\ PuttingBack /\ Restoring /\ Undoing /\ Serving
    /\ OneFaultUndone

NoneFailed == failed = [op \in Requests |-> {}]

(* Which requests may have failed, and so may still take effect: none before the
   first failing call; of the old disks, the detach of one that is not put back. *)
FailedOnes ==
    /\ pc \in {"check", "stop", "umount", "readVG", "detach", "scan", "create", "restore",
              "attachNew", "verifyNew", "rename", "rescan", "verify", "label", "success"} => NoneFailed
    /\ failed["detachOld"] = {} \/ \E d \in disks \ detached : failed["detachOld"] = {d}
    /\ pc \in {"reattach", "prepareRescan"} =>
         failed["attachOld"] = {} /\ failed["attachNew"] = {} /\ failed["detachNew"] = {}
    /\ pc = "undoNew" => failed["attachOld"] = {}

(* The new disks a rollback leaves attached. *)
Left == failed["detachNew"] \cup IF failedAt = "verifyNew" THEN {cur} ELSE {}

(* When nothing takes effect late, every disk that is not where the error path wants
   it is one the loop has still to come to or one whose call failed. *)
Accounting ==
    /\ pc = "reattach" => old = disks \ todo /\ todo \subseteq detached
    /\ pc = "prepareRescan" => old = disks
    /\ pc = "undoNew" => new = todo \cup Left /\ todo \cap Left = {}
    /\ pc = "undoOld" => /\ new = Left
                        /\ old = disks \ (todo \cup failed["attachOld"])
                        /\ todo \cap failed["attachOld"] = {}
    /\ pc = "undoRescan" => new = Left /\ old = disks \ failed["attachOld"]
    /\ pc = "failure" => DisksLeft

(* The inductive invariant: there is a disk, and without a group only one. *)
RestoreInv ==
    /\ TypeOK
    /\ disks # {} /\ (~Group => \A d \in disks : disks = {d})
    /\ Phases
    /\ FailedOnes
    /\ lateEffects = "excluded" => Accounting
    /\ MountedKeepsDisks

------------------------------------------------------------------------------
(* Each call counts its failure or leaves the count alone, within the bound. *)
LEMMA FaultCount ==
    ASSUME TypeOK, OneFault \/ NoFault
    PROVE  faults' \in 0..MaxFaults /\ faults' >= faults /\ (OneFault => faults' >= 1)
BY RestoreAssumption DEF TypeOK, OneFault, NoFault

(* Every step of the run either fails a call or does not. *)
LEMMA StepFaults == Next => OneFault \/ NoFault
BY DEF NoFault, Next, Step, FailVia, JoinsCG, LeavesCG, RescanLogged, Undo, CheckPreConditions, StopHANA,
       Unmount, ReadVolumeGroup, DetachOld, Reattach, PrepareRescan, ScanBeforeRestore, CreateDisks,
       InsertDisk, AttachNew, VerifyNew, RenameLVM, UndoNew, UndoOld, UndoRescan, FinalRescan,
       VerifyDataVolume, LabelDetached, Kill, StartHANA, TakesEffect

(* Every step of the run, and a kill, keeps the types. *)
LEMMA TypeNext == TypeOK /\ Restoring /\ [Next]_vars => TypeOK'
<1>0. CASE UNCHANGED vars
  BY <1>0 DEF vars, TypeOK
<1> SUFFICES ASSUME TypeOK, Restoring, Next PROVE TypeOK'
  BY <1>0
<1>f. faults' \in 0..MaxFaults
  BY StepFaults, FaultCount
<1> USE DEF TypeOK, RestoreLabels, FailSites, Goto, FailVia, Fails, CallAnswered, JoinsCG, LeavesCG, input, loop, record,
            disksState
<1>1. CASE CheckPreConditions
  BY <1>1, <1>f DEF CheckPreConditions
<1>2. CASE StopHANA
  BY <1>2, <1>f DEF StopHANA
<1>3. CASE Unmount
  BY <1>3, <1>f DEF Unmount
<1>4. CASE ReadVolumeGroup
  BY <1>4, <1>f DEF ReadVolumeGroup
<1>5. ASSUME NEW d \in Disks, DetachOld(d) PROVE TypeOK'
  BY <1>5, <1>f DEF DetachOld
<1>6. ASSUME NEW d \in Disks, Reattach(d) PROVE TypeOK'
  BY <1>6, <1>f DEF Reattach
<1>7. CASE PrepareRescan
  BY <1>7, <1>f DEF PrepareRescan, RescanLogged, RescanMounts, Mountable
<1>8. CASE ScanBeforeRestore
  BY <1>8, <1>f DEF ScanBeforeRestore, RescanLogged, RescanMounts, Mountable
<1>9. CASE CreateDisks
  BY <1>9, <1>f DEF CreateDisks, Undo
<1>10. ASSUME NEW d \in Disks, InsertDisk(d) PROVE TypeOK'
  BY <1>10, <1>f DEF InsertDisk, Undo
<1>11. CASE AttachNew
  BY <1>11, <1>f, ZenonT(60) DEF AttachNew, Undo, Restoring
<1>12. CASE VerifyNew
  BY <1>12, <1>f DEF VerifyNew, Undo, Restoring
<1>13. CASE RenameLVM
  BY <1>13, <1>f DEF RenameLVM, Undo
<1>14. ASSUME NEW d \in Disks, UndoNew(d) PROVE TypeOK'
  BY <1>14, <1>f DEF UndoNew
<1>15. ASSUME NEW d \in Disks, UndoOld(d) PROVE TypeOK'
  BY <1>15, <1>f, ZenonT(60) DEF UndoOld
<1>16. CASE UndoRescan
  BY <1>16, <1>f DEF UndoRescan, RescanLogged, RescanMounts, Mountable
<1>17. CASE FinalRescan
  BY <1>17, <1>f DEF FinalRescan, RescanMounts, Mountable
<1>18. CASE VerifyDataVolume
  BY <1>18, <1>f DEF VerifyDataVolume
<1>19. CASE LabelDetached
  BY <1>19, <1>f DEF LabelDetached
<1>20. CASE Kill
  BY <1>20, <1>f DEF Kill, Ended
<1>21. CASE StartHANA
  <2>1. hana' = "up" /\ UNCHANGED <<mode, disks, lateEffects, failed, pc, failedAt, todo, cur, detached,
                                   newAttached, mounted, old, oldCG, created, new, newCG, vg>>
    BY <1>21 DEF StartHANA
  <2> HIDE DEF RestoreLabels, FailSites
  <2> QED
    BY <2>1, <1>f
<1>22. ASSUME NEW d \in Disks, TakesEffect(d) PROVE TypeOK'
  <2>1. UNCHANGED <<mode, disks, lateEffects, failed, pc, failedAt, todo, cur, detached,
                    newAttached, hana, mounted, oldCG, newCG, vg>>
    BY <1>22 DEF TakesEffect
  <2>2. \A q \in Requests : failed[q] \subseteq disks
    OBVIOUS
  <2>3. old' \subseteq disks /\ created' \subseteq disks /\ new' \subseteq created'
    BY <1>22, <2>2 DEF TakesEffect, Requests
  <2> HIDE DEF RestoreLabels, FailSites
  <2> QED
    BY <2>1, <2>3, <1>f
<1> QED
  BY <1>1, <1>2, <1>3, <1>4, <1>5, <1>6, <1>7, <1>8, <1>9, <1>10,
     <1>11, <1>12, <1>13, <1>14, <1>15, <1>16, <1>17, <1>18, <1>19, <1>20, <1>21, <1>22
     DEF Next, Step

(* What the counting of the failures tells the invariant. *)
LEMMA FaultFacts ==
    ASSUME TypeOK, Next
    PROVE  /\ lateEffects' = lateEffects
           /\ OneFault \/ NoFault
           /\ SingleFault' => SingleFault
           /\ OneFault => faults' # 0 /\ faults' >= 1 /\ (SingleFault' => faults = 0)
           /\ faults = 0 => ~(faults >= 1)
           /\ faults >= 1 => faults' >= 1
           /\ lateEffects' = "excluded" /\ ~SingleFault' => faults' >= 2
<1>1. lateEffects' = lateEffects
  BY DEF Next, Step, input, CheckPreConditions, StopHANA,
       Unmount, ReadVolumeGroup, DetachOld, Reattach, PrepareRescan, ScanBeforeRestore, CreateDisks,
       InsertDisk, AttachNew, VerifyNew, RenameLVM, UndoNew, UndoOld, UndoRescan, FinalRescan,
       VerifyDataVolume, LabelDetached, Kill, StartHANA, TakesEffect
<1>2. OneFault \/ NoFault
  BY StepFaults
<1>3. faults \in Nat /\ faults' \in Nat
  BY <1>2, FaultCount, RestoreAssumption DEF TypeOK
<1> QED
  BY <1>1, <1>2, <1>3 DEF OneFault, NoFault, SingleFault

(* What a run restores is chosen once. *)
LEMMA InputKept == Next => mode' = mode /\ disks' = disks
BY DEF Next, Step, input, CheckPreConditions, StopHANA,
       Unmount, ReadVolumeGroup, DetachOld, Reattach, PrepareRescan, ScanBeforeRestore, CreateDisks,
       InsertDisk, AttachNew, VerifyNew, RenameLVM, UndoNew, UndoOld, UndoRescan, FinalRescan,
       VerifyDataVolume, LabelDetached, Kill, StartHANA, TakesEffect

(* Every step keeps what the phases say. *)
LEMMA PhasesNext ==
    ASSUME RestoreInv, Next
    PROVE  Phases'
<1>o. /\ TypeOK /\ disks # {} /\ (~Group => \A d \in disks : disks = {d})
      /\ Preparing /\ PuttingBack /\ Restoring /\ Undoing /\ Serving
      /\ FailedOnes
  BY DEF RestoreInv, Phases
<1>f. /\ OneFault \/ NoFault
      /\ SingleFault' => SingleFault
      /\ OneFault => faults' # 0 /\ faults' >= 1 /\ (SingleFault' => faults = 0)
      /\ faults = 0 => ~(faults >= 1)
      /\ faults >= 1 => faults' >= 1
      /\ lateEffects' = "excluded" /\ ~SingleFault' => faults' >= 2
      /\ lateEffects' = lateEffects
  BY FaultFacts, <1>o
<1>g. SingleFault => lateEffects = "excluded"
  BY DEF SingleFault
<1>k. NoFault => (SingleFault' <=> SingleFault) /\ faults' = faults
  BY <1>f DEF SingleFault, NoFault
<1> USE DEF Goto, FailVia, Fails, CallAnswered, JoinsCG, LeavesCG, input, loop, record,
            disksState, Group, KnowsVG, Idle, Untouched, TypeOK
<1>1. ASSUME CheckPreConditions PROVE Phases'
  BY <1>1, <1>o, <1>f, <1>g, <1>k DEF CheckPreConditions, Phases,
     Preparing, PuttingBack, Restoring, Undoing, Serving, OneFaultUndone,
     OneFaultOutcome, SingleFault
<1>2. ASSUME StopHANA PROVE Phases'
  BY <1>2, <1>o, <1>f, <1>g, <1>k DEF StopHANA, Phases,
     Preparing, PuttingBack, Restoring, Undoing, Serving, OneFaultUndone,
     OneFaultOutcome, SingleFault
<1>3. ASSUME Unmount PROVE Phases'
  BY <1>3, <1>o, <1>f, <1>g, <1>k DEF Unmount, Phases,
     Preparing, PuttingBack, Restoring, Undoing, Serving, OneFaultUndone,
     OneFaultOutcome, SingleFault
<1>4. ASSUME ReadVolumeGroup PROVE Phases'
  <2>1. /\ old' = disks /\ detached' = {} /\ newAttached' = {} /\ created' = {} /\ new' = {}
        /\ newCG' = {} /\ (Group => oldCG' = disks) /\ Idle' /\ disks' = disks /\ mode' = mode
        /\ \/ pc' = "detach" /\ todo' = disks /\ failedAt' = ""
           \/ pc' = "failure" /\ failedAt' = "readVG"
    BY <1>4, <1>o DEF ReadVolumeGroup, Preparing
  <2>2. disks \ disks = {} /\ disks # {}
    BY <1>o
  <2>3. Preparing'
    BY <2>1, <2>2 DEF Preparing
  <2> QED
    BY <2>1, <2>3 DEF Phases, PuttingBack, Restoring, Undoing, Serving, OneFaultUndone,
       OneFaultOutcome
<1>5. ASSUME NEW d \in Disks, DetachOld(d) PROVE Phases'
  <2>1. /\ old = todo /\ d \in todo /\ todo \subseteq disks /\ Idle /\ failedAt = "" /\ new = {}
        /\ created = {} /\ newAttached = {} /\ newCG = {}
        /\ detached = IF Group THEN disks \ old ELSE {}
        /\ Group /\ faults = 0 => oldCG = old
    BY <1>5, <1>o DEF DetachOld, Preparing
  <2>2. /\ disks \ (todo \ {d}) = (disks \ todo) \cup {d}
        /\ disks \ (disks \ todo) = todo
        /\ todo # {d} => todo \ {d} # {}
        /\ todo = {d} => todo \ {d} = {}
        /\ disks \ todo = {} => todo = disks
    BY <2>1
  <2>3. ~Group => todo = disks
    <3>1. ~Group => disks = {d}
      BY <2>1, <1>o
    <3> QED
      BY <2>1, <3>1
  <2>4. CASE pc' \in {"detach", "scan"}
    <3>1. /\ old' = todo \ {d} /\ todo' = todo \ {d} /\ disks' = disks /\ mode' = mode
          /\ detached' = IF Group THEN disks \ old' ELSE {}
          /\ Idle' /\ failedAt' = "" /\ new' = {} /\ created' = {} /\ newAttached' = {} /\ newCG' = {}
          /\ pc' = IF todo = {d} THEN "scan" ELSE "detach"
      BY <1>5, <2>1, <2>2, <2>4, <1>f DEF DetachOld
    <3>2. Group /\ faults' = 0 => oldCG' = todo \ {d}
      BY <1>5, <2>1, <2>2, <2>4, <1>f, <1>k DEF DetachOld
    <3>3. Preparing'
      BY <2>2, <2>4, <3>1, <3>2 DEF Preparing
    <3> QED
      BY <2>4, <3>1, <3>3 DEF Phases, PuttingBack, Restoring, Undoing, Serving, OneFaultUndone,
         OneFaultOutcome
  <2>5. CASE pc' \in {"reattach", "prepareRescan"}
    <3>1. /\ todo' = detached /\ disks' = disks /\ mode' = mode /\ OneFault /\ oldCG' = oldCG
          /\ SingleFault' => old' = old /\ faults = 0
          /\ Idle' /\ failedAt' = "detach" /\ new' = {} /\ newCG' = {}
          /\ pc' = IF Group /\ detached # {} THEN "reattach" ELSE "prepareRescan"
      BY <1>5, <2>1, <2>5, <1>f, <1>g DEF DetachOld
    <3>2. disks \ todo' = IF Group THEN old ELSE disks
      BY <3>1, <2>1, <2>2
    <3>3. pc' = "prepareRescan" => old = disks
      BY <3>1, <2>1, <2>2, <2>3
    <3>4. PuttingBack'
      BY <2>1, <3>1, <3>2, <3>3, <1>f DEF PuttingBack
    <3> QED
      BY <2>5, <3>1, <3>4 DEF Phases, Preparing, Restoring, Undoing, Serving, OneFaultUndone,
         OneFaultOutcome
  <2> QED
    BY <1>5, <2>4, <2>5 DEF DetachOld
<1>6. ASSUME NEW d \in Disks, Reattach(d) PROVE Phases'
  <2>1. /\ pc = "reattach" /\ d \in todo /\ todo \subseteq disks
        /\ Idle' /\ failedAt' = "detach" /\ new' = {} /\ newCG' = {} /\ faults' >= 1
        /\ disks' = disks /\ mode' = mode
        /\ pc' \in {"reattach", "prepareRescan", "failure"}
        /\ SingleFault => old = disks \ todo /\ (Group => oldCG = disks \ todo)
    BY <1>6, <1>o, <1>f DEF Reattach, PuttingBack
  <2>2. SingleFault' => /\ NoFault /\ SingleFault
                        /\ old' = old \cup {d} /\ oldCG' = oldCG \cup {d} /\ todo' = todo \ {d}
                        /\ pc' = IF todo = {d} THEN "prepareRescan" ELSE "reattach"
    BY <1>6, <1>o, <1>f DEF Reattach, PuttingBack
  <2>3. (disks \ todo) \cup {d} = disks \ (todo \ {d})
    BY <2>1
  <2>4. PuttingBack'
    BY <2>1, <2>2, <2>3 DEF PuttingBack
  <2>5. OneFaultUndone'
    BY <2>1, <2>2 DEF OneFaultUndone
  <2> QED
    BY <2>1, <2>4, <2>5 DEF Phases, Preparing, Restoring, Undoing, Serving
<1>7. ASSUME PrepareRescan PROVE Phases'
  BY <1>7, <1>o, <1>f, <1>g, <1>k DEF PrepareRescan, RescanLogged, RescanMounts, Mountable,
     Phases, Preparing, PuttingBack, Restoring, Undoing, Serving, OneFaultUndone,
     OneFaultOutcome, SingleFault
<1>8. ASSUME ScanBeforeRestore PROVE Phases'
  BY <1>8, <1>o, <1>f, <1>g, <1>k DEF ScanBeforeRestore, RescanLogged, RescanMounts, Mountable,
     Phases, Preparing, PuttingBack, Restoring, Undoing, Serving, OneFaultUndone,
     OneFaultOutcome, SingleFault
<1>9. ASSUME CreateDisks PROVE Phases'
  <2>0. disks \ disks = {} /\ disks # {}
    BY <1>o
  <2>1. CASE pc' = "restore"
    <3>1. /\ todo' = disks /\ disks' = disks /\ mode' = mode /\ NoFault
          /\ new' = {} /\ newAttached' = {} /\ newAttached = {} /\ old' = {} /\ oldCG' = oldCG
          /\ newCG' = newCG /\ Idle' /\ failedAt' = ""
          /\ Group /\ faults = 0 => oldCG = {} /\ newCG = newAttached
          /\ ~Group => newCG = {}
      BY <1>9, <2>1, <1>o DEF CreateDisks, Restoring, Undo
    <3>2. Restoring'
      BY <2>0, <2>1, <3>1, <1>k DEF Restoring
    <3> QED
      BY <2>1, <3>1, <3>2 DEF Phases, Preparing, PuttingBack, Undoing, Serving,
         OneFaultUndone, OneFaultOutcome
  <2>2. CASE pc' \in {"undoNew", "undoOld"}
    <3>1. /\ todo' = disks /\ pc' = "undoOld" /\ disks' = disks /\ mode' = mode /\ OneFault
          /\ new' = {} /\ newAttached = {} /\ old' = {} /\ oldCG' = oldCG
          /\ newCG' = newCG /\ Idle' /\ failedAt' = "create"
          /\ Group /\ faults = 0 => oldCG = {} /\ newCG = newAttached
          /\ ~Group => newCG = {}
      BY <1>9, <2>2, <1>o DEF CreateDisks, Restoring, Undo
    <3>2. Undoing'
      BY <2>0, <3>1, <1>f DEF Undoing
    <3> QED
      BY <2>2, <3>1, <3>2 DEF Phases, Preparing, PuttingBack, Restoring, Serving,
         OneFaultUndone, OneFaultOutcome
  <2> QED
    BY <1>9, <2>1, <2>2 DEF CreateDisks, Undo
<1>10. ASSUME NEW d \in Disks, InsertDisk(d) PROVE Phases'
  <2>1. CASE pc' = "attachNew"
    <3>1. /\ todo' = todo /\ disks' = disks /\ mode' = mode /\ NoFault /\ new' = new
          /\ newAttached' = newAttached /\ old' = old /\ oldCG' = oldCG /\ newCG' = newCG
          /\ cur' = d /\ d \in todo /\ d \in created'
          /\ hana' = hana /\ mounted' = mounted /\ failedAt' = failedAt /\ pc = "restore"
      BY <1>10, <2>1, <1>o DEF InsertDisk, Restoring, Undo
    <3>2. Restoring'
      BY <2>1, <3>1, <1>o, <1>k DEF Restoring
    <3> QED
      BY <2>1, <3>1, <3>2, <1>o DEF Phases, Preparing, PuttingBack, Restoring, Undoing, Serving,
         OneFaultUndone, OneFaultOutcome
  <2>2. CASE pc' \in {"undoNew", "undoOld"}
    <3>1. /\ todo' = (IF newAttached = {} THEN disks ELSE newAttached)
          /\ disks' = disks /\ mode' = mode /\ OneFault /\ new' = new /\ oldCG' = oldCG
          /\ newCG' = newCG /\ old' = {} /\ failedAt' = "insert" /\ Idle'
          /\ pc' = (IF newAttached = {} THEN "undoOld" ELSE "undoNew")
          /\ new = disks \ todo
          /\ newAttached = (IF Group THEN disks \ todo ELSE {}) /\ (~Group => todo = disks)
          /\ Group /\ faults = 0 => oldCG = {} /\ newCG = newAttached
          /\ ~Group => newCG = {}
      BY <1>10, <2>2, <1>o DEF InsertDisk, Restoring, Undo
    <3>2. new = newAttached /\ disks \ disks = {}
      BY <3>1, <1>o
    <3>3. Undoing'
      BY <3>1, <3>2, <1>o, <1>f DEF Undoing
    <3> QED
      BY <2>2, <3>1, <3>3 DEF Phases, Preparing, PuttingBack, Restoring, Serving,
         OneFaultUndone, OneFaultOutcome
  <2> QED
    BY <1>10, <2>1, <2>2 DEF InsertDisk, Undo
<1>11. ASSUME AttachNew PROVE Phases'
  <2>1. CASE pc' = "verifyNew"
    <3>1. /\ todo' = todo /\ disks' = disks /\ mode' = mode /\ NoFault /\ new' = new \cup {cur}
          /\ newAttached' = newAttached /\ old' = old /\ oldCG' = oldCG /\ newCG' = newCG
          /\ cur' = cur /\ cur \in todo /\ cur \in created'
          /\ hana' = hana /\ mounted' = mounted /\ failedAt' = failedAt /\ pc = "attachNew"
      BY <1>11, <2>1, <1>o DEF AttachNew, Restoring, Undo
    <3>2. Restoring'
      BY <2>1, <3>1, <1>o, <1>k DEF Restoring
    <3> QED
      BY <2>1, <3>1, <3>2, <1>o DEF Phases, Preparing, PuttingBack, Undoing, Serving, Restoring,
         OneFaultUndone, OneFaultOutcome
  <2>2. CASE pc' \in {"undoNew", "undoOld"}
    <3>1. /\ todo' = (IF newAttached = {} THEN disks ELSE newAttached)
          /\ disks' = disks /\ mode' = mode /\ OneFault /\ oldCG' = oldCG
          /\ newCG' = newCG /\ old' = {} /\ failedAt' = "attachNew" /\ Idle'
          /\ pc' = (IF newAttached = {} THEN "undoOld" ELSE "undoNew")
          /\ newAttached = (IF Group THEN disks \ todo ELSE {}) /\ (~Group => todo = disks)
          /\ Group /\ faults = 0 => oldCG = {} /\ newCG = newAttached
          /\ ~Group => newCG = {}
          /\ SingleFault' => faults = 0 /\ new' = disks \ todo
      BY <1>11, <2>2, <1>o, <1>f, <1>g DEF AttachNew, Restoring, Undo
    <3>2. newAttached = disks \ todo /\ disks \ disks = {}
      BY <3>1, <1>o
    <3>3. Undoing'
      BY <3>1, <3>2, <1>o, <1>f DEF Undoing
    <3> QED
      BY <2>2, <3>1, <3>3 DEF Phases, Preparing, PuttingBack, Restoring, Serving,
         OneFaultUndone, OneFaultOutcome
  <2> QED
    BY <1>11, <2>1, <2>2 DEF AttachNew, Undo
<1>12. ASSUME VerifyNew PROVE Phases'
  <2>1. cur \in todo /\ todo \subseteq disks
    BY <1>12, <1>o DEF VerifyNew, Restoring
  <2>2. /\ disks \ (todo \ {cur}) = (disks \ todo) \cup {cur}
        /\ todo # {cur} => todo \ {cur} # {}
        /\ todo = {cur} => disks = (disks \ todo) \cup {cur}
    BY <2>1
  <2>3. ~Group => todo = {cur}
    BY <2>1, <1>o
  <2>4. CASE pc' \in {"restore", "rename", "rescan"}
    <3>1. /\ todo' = todo \ {cur} /\ disks' = disks /\ mode' = mode
          /\ new' = (disks \ todo) \cup {cur}
          /\ newAttached = (IF Group THEN disks \ todo ELSE {})
          /\ newAttached' = (IF Group THEN newAttached \cup {cur} ELSE newAttached)
          /\ old' = {} /\ oldCG' = oldCG /\ failedAt' = "" /\ Idle'
          /\ Group /\ faults' = 0 => oldCG = {} /\ newCG' = newCG \cup {cur} /\ newCG = newAttached
          /\ ~Group => newCG' = {}
          /\ pc' = IF todo # {cur} THEN "restore" ELSE IF KnowsVG THEN "rename" ELSE "rescan"
      BY <1>12, <2>4, <1>o, <1>f, <1>k DEF VerifyNew, Restoring, Undo
    <3>2. new' = disks \ todo' /\ newAttached' = (IF Group THEN new' ELSE {})
      BY <2>2, <3>1
    <3>3. /\ todo = {cur} => new' = disks
          /\ ~Group => pc' # "restore"
          /\ Group /\ faults' = 0 => newCG' = newAttached' /\ oldCG' = {}
      BY <2>2, <2>3, <3>1
    <3>4. pc' = "restore" => Restoring'
      BY <2>2, <3>1, <3>2, <3>3 DEF Restoring
    <3>5. pc' = "rename" => Restoring'
      BY <2>2, <3>1, <3>2, <3>3 DEF Restoring
    <3>6. pc' = "rescan" => Restoring' /\ Serving'
      BY <3>1, <3>3 DEF Restoring, Serving
    <3> QED
      BY <2>4, <3>1, <3>4, <3>5, <3>6 DEF Phases, Preparing, PuttingBack, Undoing, Serving,
         OneFaultUndone, OneFaultOutcome
  <2>5. CASE pc' \in {"undoNew", "undoOld"}
    <3>1. /\ todo' = (IF newAttached = {} THEN disks ELSE newAttached)
          /\ disks' = disks /\ mode' = mode /\ OneFault /\ oldCG' = oldCG
          /\ newCG' = newCG /\ old' = {} /\ failedAt' = "verifyNew" /\ Idle'
          /\ newAttached = (IF Group THEN disks \ todo ELSE {})
          /\ pc' = (IF newAttached = {} THEN "undoOld" ELSE "undoNew")
          /\ Group /\ faults = 0 => oldCG = {} /\ newCG = newAttached
          /\ ~Group => newCG = {}
      BY <1>12, <2>5, <1>o DEF VerifyNew, Restoring, Undo
    <3>2. Undoing'
      BY <3>1, <1>o, <1>f DEF Undoing
    <3> QED
      BY <2>5, <3>1, <3>2 DEF Phases, Preparing, PuttingBack, Restoring, Serving,
         OneFaultUndone, OneFaultOutcome
  <2> QED
    BY <1>12, <2>4, <2>5 DEF VerifyNew, Undo
<1>13. ASSUME RenameLVM PROVE Phases'
  BY <1>13, <1>o, <1>f, <1>g, <1>k, ZenonT(60) DEF RenameLVM, Undo, Phases,
     Preparing, PuttingBack, Restoring, Undoing, Serving, OneFaultUndone,
     OneFaultOutcome, SingleFault
<1>14. ASSUME NEW d \in Disks, UndoNew(d) PROVE Phases'
  <2>1. /\ pc = "undoNew" /\ d \in todo /\ todo \subseteq disks
        /\ Idle' /\ failedAt' = failedAt /\ old' = {} /\ oldCG' = oldCG /\ faults' >= 1
        /\ failedAt \in {"create", "insert", "attachNew", "verifyNew", "rename"}
        /\ disks' = disks /\ mode' = mode
        /\ IF todo = {d} THEN pc' = "undoOld" /\ todo' = disks
                         ELSE pc' = "undoNew" /\ todo' = todo \ {d}
        /\ ~Group => newCG' = {}
    BY <1>14, <1>o, <1>f DEF UndoNew, Undoing
  <2>2. SingleFault' => /\ new' = new \ {d} /\ (Group => newCG' = newCG \ {d})
                        /\ Group => oldCG = {} /\ newCG = todo
                        /\ failedAt # "verifyNew" => new = todo
    BY <2>1, <1>14, <1>o, <1>f DEF UndoNew, Undoing
  <2>3. /\ todo = {d} => todo \ {d} = {}
        /\ todo # {d} => todo \ {d} # {}
        /\ disks \ disks = {} /\ disks # {}
    BY <2>1, <1>o
  <2>4. Undoing'
    BY <2>1, <2>2, <2>3 DEF Undoing
  <2> QED
    BY <2>1, <2>4 DEF Phases, Preparing, PuttingBack, Restoring, Serving, OneFaultUndone,
       OneFaultOutcome
<1>15. ASSUME NEW d \in Disks, UndoOld(d) PROVE Phases'
  BY <1>15, <1>o, <1>f, <1>g, <1>k DEF UndoOld, Phases,
     Preparing, PuttingBack, Restoring, Undoing, Serving, OneFaultUndone,
     OneFaultOutcome, SingleFault
<1>16. ASSUME UndoRescan PROVE Phases'
  BY <1>16, <1>o, <1>f, <1>g, <1>k DEF UndoRescan, RescanLogged, RescanMounts, Mountable,
     Phases, Preparing, PuttingBack, Restoring, Undoing, Serving, OneFaultUndone,
     OneFaultOutcome, SingleFault
<1>17. ASSUME FinalRescan PROVE Phases'
  BY <1>17, <1>o, <1>f, <1>g, <1>k DEF FinalRescan, RescanMounts, Mountable,
     Phases, Preparing, PuttingBack, Restoring, Undoing, Serving, OneFaultUndone,
     OneFaultOutcome, SingleFault
<1>18. ASSUME VerifyDataVolume PROVE Phases'
  BY <1>18, <1>o, <1>f, <1>g, <1>k DEF VerifyDataVolume, Phases,
     Preparing, PuttingBack, Restoring, Undoing, Serving, OneFaultUndone,
     OneFaultOutcome, SingleFault
<1>19. ASSUME LabelDetached PROVE Phases'
  BY <1>19, <1>o, <1>f, <1>g, <1>k DEF LabelDetached, Phases,
     Preparing, PuttingBack, Restoring, Undoing, Serving, OneFaultUndone,
     OneFaultOutcome, SingleFault
<1>20. ASSUME Kill PROVE Phases'
  BY <1>20, <1>o, <1>f, <1>g, <1>k DEF Kill, Ended, Phases,
     Preparing, PuttingBack, Restoring, Undoing, Serving, OneFaultUndone,
     OneFaultOutcome, SingleFault
<1>21. ASSUME StartHANA PROVE Phases'
  <2>1. UNCHANGED <<mode, disks, lateEffects, failed, pc, failedAt, mounted, old, oldCG, new, newCG, faults>>
    BY <1>21 DEF StartHANA
  <2>2. pc \in {"success", "failure", "killed"}
    BY <1>21 DEF StartHANA, Ended
  <2>3. Serving' /\ OneFaultUndone'
    BY <2>1, <2>2 DEF RestoreInv, Phases, Serving, OneFaultUndone, OneFaultOutcome, SingleFault
  <2> QED
    BY <2>1, <2>2, <2>3 DEF Phases, Preparing, PuttingBack, Restoring, Undoing
<1>22. ASSUME NEW d \in Disks, TakesEffect(d) PROVE Phases'
  <2>1. pc' = pc /\ disks' = disks /\ mode' = mode /\ failedAt' = failedAt /\ todo' = todo /\ faults' = faults
        /\ hana' = hana /\ mounted' = mounted /\ newCG' = newCG /\ ~SingleFault'
    BY <1>22, <1>f DEF TakesEffect, SingleFault
  <2>2. ~NoneFailed
    BY <1>22 DEF TakesEffect, NoneFailed, Requests
  <2>3. pc \in {"reattach", "prepareRescan", "undoNew", "undoOld", "undoRescan", "failure", "killed"}
    BY <2>2, <1>o DEF FailedOnes, RestoreLabels
  <2>4. PuttingBack'
    BY <1>22, <2>1, <1>o DEF TakesEffect, PuttingBack, FailedOnes
  <2>5. Undoing'
    BY <1>22, <2>1, <1>o DEF TakesEffect, Undoing, FailedOnes
  <2> QED
    BY <2>1, <2>3, <2>4, <2>5 DEF Phases, Preparing, Restoring, Serving, OneFaultUndone
<1> QED
  BY <1>1, <1>2, <1>3, <1>4, <1>5, <1>6, <1>7, <1>8, <1>9, <1>10,
     <1>11, <1>12, <1>13, <1>14, <1>15, <1>16, <1>17, <1>18, <1>19, <1>20, <1>21, <1>22
     DEF Next, Step

(* Every step keeps what is known of the failed requests. *)
LEMMA FailedNext ==
    ASSUME RestoreInv, Next
    PROVE  FailedOnes'
<1>o. TypeOK /\ Preparing /\ FailedOnes /\ disks' = disks
  BY InputKept DEF RestoreInv, Phases
<1>t. failed \in [Requests -> SUBSET disks]
  BY <1>o DEF TypeOK
<1>n. NoneFailed => \A q \in Requests : failed[q] = {}
  BY DEF NoneFailed
<1> USE DEF Goto, FailVia, input, loop, record, disksState
<1>1. CASE failed' = failed /\ detached' = detached /\ (pc' = pc \/ NoneFailed)
  BY <1>1, <1>o, <1>n DEF FailedOnes, NoneFailed, Requests
<1>2. ASSUME NEW d \in Disks, DetachOld(d) PROVE FailedOnes'
  <2>1. pc = "detach" /\ d \in todo /\ NoneFailed /\ old = todo
        /\ detached = IF Group THEN disks \ old ELSE {}
    BY <1>2, <1>o DEF DetachOld, FailedOnes, Preparing
  <2>2. CASE CallAnswered
    BY <1>2, <2>1, <2>2, <1>o, <1>n DEF DetachOld, CallAnswered, FailedOnes, NoneFailed, Requests
  <2>3. CASE Fails("detachOld", d) /\ detached' = detached
             /\ pc' \in {"reattach", "prepareRescan"}
    <3>1. d \in disks /\ d \notin detached
      BY <2>1, <1>o DEF TypeOK
    <3>2. /\ failed'["detachOld"] = {d} /\ failed'["attachOld"] = {}
          /\ failed'["attachNew"] = {} /\ failed'["detachNew"] = {}
      BY <2>1, <2>3, <1>t, <1>n DEF Fails, Requests
    <3> QED
      BY <2>3, <3>1, <3>2, <1>o DEF FailedOnes
  <2> QED
    BY <1>2, <2>2, <2>3 DEF DetachOld
<1>3. ASSUME NEW d \in Disks, Reattach(d) PROVE FailedOnes'
  <2>1. CASE CallAnswered
    BY <1>3, <2>1, <1>o DEF Reattach, CallAnswered, FailedOnes
  <2>2. CASE Fails("attachOld", d) /\ detached' = detached /\ pc' = "failure"
    <3>1. failed'["detachOld"] = failed["detachOld"]
      BY <2>2, <1>t DEF Fails, Requests
    <3> QED
      BY <2>2, <3>1, <1>o DEF FailedOnes
  <2> QED
    BY <1>3, <2>1, <2>2 DEF Reattach
<1>4. ASSUME NoneFailed, detached' = detached, pc' \in {"undoNew", "undoOld"},
             \/ CallAnswered
             \/ \E d \in disks, q \in {"insert", "attachNew"} : Fails(q, d)
             \/ failed' = [failed EXCEPT !["insert"] = disks]
      PROVE  FailedOnes'
  <2>1. failed'["detachOld"] = {} /\ failed'["attachOld"] = {}
    BY <1>4, <1>t, <1>n DEF Fails, CallAnswered, Requests
  <2> QED
    BY <1>4, <2>1 DEF FailedOnes
<1>5. ASSUME CreateDisks PROVE FailedOnes'
  BY <1>5, <1>1, <1>4, <1>o DEF CreateDisks, Undo, FailedOnes, CallAnswered
<1>6. ASSUME NEW d \in Disks, InsertDisk(d) PROVE FailedOnes'
  <2>1. d \in disks /\ NoneFailed /\ detached' = detached
    BY <1>6, <1>o DEF InsertDisk, FailedOnes, TypeOK
  <2> QED
    BY <1>6, <2>1, <1>1, <1>4 DEF InsertDisk, Undo, CallAnswered
<1>7. ASSUME AttachNew PROVE FailedOnes'
  <2>1. cur \in disks /\ NoneFailed /\ detached' = detached
    BY <1>7, <1>o DEF AttachNew, FailedOnes, TypeOK, RestoreInv, Phases, Restoring
  <2> QED
    BY <1>7, <2>1, <1>1, <1>4 DEF AttachNew, Undo, CallAnswered
<1>8. ASSUME NEW d \in Disks, UndoNew(d) PROVE FailedOnes'
  <2>1. pc = "undoNew" /\ pc' \in {"undoNew", "undoOld"} /\ detached' = detached
        /\ (failed' = failed \/ Fails("detachNew", d))
    BY <1>8 DEF UndoNew, CallAnswered
  <2>2. failed'["detachOld"] = failed["detachOld"] /\ failed'["attachOld"] = {}
    BY <2>1, <1>t, <1>o DEF Fails, Requests, FailedOnes
  <2> QED
    BY <2>1, <2>2, <1>o DEF FailedOnes
<1>9. ASSUME NEW d \in Disks, UndoOld(d) PROVE FailedOnes'
  <2>1. pc' \in {"undoOld", "undoRescan"} /\ detached' = detached
        /\ (failed' = failed \/ Fails("attachOld", d))
    BY <1>9 DEF UndoOld, CallAnswered
  <2>2. failed'["detachOld"] = failed["detachOld"]
    BY <2>1, <1>t DEF Fails, Requests
  <2> QED
    BY <2>1, <2>2, <1>o DEF FailedOnes
<1>10. ASSUME failed' = failed, detached' = detached,
              pc' \in {"failure", "killed"}
       PROVE  FailedOnes'
  BY <1>10, <1>o DEF FailedOnes
<1>11. CASE CheckPreConditions \/ StopHANA \/ Unmount \/ ReadVolumeGroup
  BY <1>11, <1>1, <1>o DEF CheckPreConditions, StopHANA, Unmount, ReadVolumeGroup, FailedOnes
<1>12. CASE PrepareRescan \/ UndoRescan \/ Kill
  BY <1>12, <1>10 DEF PrepareRescan, UndoRescan, Kill
<1>13. CASE ScanBeforeRestore \/ VerifyNew \/ RenameLVM
  BY <1>13, <1>1, <1>o DEF ScanBeforeRestore, VerifyNew, RenameLVM, Undo, FailedOnes
<1>14. CASE FinalRescan \/ VerifyDataVolume \/ LabelDetached
  BY <1>14, <1>1, <1>o DEF FinalRescan, VerifyDataVolume, LabelDetached, FailedOnes
<1>15. CASE StartHANA \/ \E d \in Disks : TakesEffect(d)
  BY <1>15, <1>1 DEF StartHANA, TakesEffect
<1> QED
  BY <1>2, <1>3, <1>5, <1>6, <1>7, <1>8, <1>9, <1>11, <1>12, <1>13, <1>14, <1>15 DEF Next, Step

(* Every step of a run keeps the account of its failing calls. *)
LEMMA AccountingNext ==
    ASSUME RestoreInv, Next, lateEffects = "excluded"
    PROVE  Accounting'
<1>o. /\ TypeOK /\ Preparing /\ PuttingBack /\ Restoring /\ Undoing /\ Serving
      /\ FailedOnes /\ Accounting /\ disks' = disks /\ mode' = mode
      /\ disks # {} /\ (~Group => \A d \in disks : disks = {d})
  BY InputKept DEF RestoreInv, Phases
<1>t. failed \in [Requests -> SUBSET disks]
  BY <1>o DEF TypeOK
<1>n. NoneFailed => \A q \in Requests : failed[q] = {}
  BY DEF NoneFailed
<1> USE DEF Goto, FailVia, input, loop, record, disksState
<1>1. CASE CheckPreConditions \/ StopHANA \/ Unmount \/ ReadVolumeGroup
  BY <1>1, <1>o DEF CheckPreConditions, StopHANA, Unmount, ReadVolumeGroup, Preparing, Untouched,
     Accounting, DisksLeft
<1>2. ASSUME NEW d \in Disks, DetachOld(d) PROVE Accounting'
  <2>1. /\ pc = "detach" /\ d \in todo /\ old = todo /\ todo \subseteq disks
        /\ detached = IF Group THEN disks \ old ELSE {}
    BY <1>2, <1>o DEF DetachOld, Preparing, TypeOK
  <2>2. CASE pc' \in {"detach", "scan"}
    BY <2>2 DEF Accounting
  <2>3. CASE /\ old' = old /\ detached' = detached /\ todo' = detached
             /\ pc' = IF Group /\ detached # {} THEN "reattach" ELSE "prepareRescan"
    <3>1. disks \ (disks \ todo) = todo /\ (disks \ todo = {} => todo = disks)
      BY <2>1
    <3>2. /\ pc' = "reattach" => old' = disks \ todo' /\ todo' \subseteq detached'
          /\ pc' = "prepareRescan" => old' = disks
      <4>1. ~Group => disks = {d}
        BY <2>1, <1>o
      <4> QED
        BY <2>1, <2>3, <3>1, <4>1
    <3> QED
      BY <2>3, <3>2, <1>o DEF Accounting
  <2> QED
    BY <1>2, <2>2, <2>3 DEF DetachOld
<1>3. ASSUME NEW d \in Disks, Reattach(d) PROVE Accounting'
  <2>1. pc = "reattach" /\ d \in todo /\ old = disks \ todo /\ todo \subseteq detached
        /\ todo \subseteq disks /\ detached' = detached /\ new' = {} /\ failedAt' = "detach"
        /\ failed["attachOld"] = {}
    BY <1>3, <1>o DEF Reattach, Accounting, TypeOK, PuttingBack, FailedOnes
  <2>2. CASE /\ old' = old \cup {d} /\ todo' = todo \ {d}
             /\ pc' = IF todo = {d} THEN "prepareRescan" ELSE "reattach"
    <3>1. /\ old' = disks \ todo' /\ todo' \subseteq detached'
          /\ todo = {d} => old' = disks
      BY <2>1, <2>2
    <3> QED
      BY <2>2, <3>1, <1>o DEF Accounting
  <2>3. CASE old' = old /\ pc' = "failure" /\ Fails("attachOld", d)
    <3>1. failed'["attachOld"] # {} /\ disks \ old' \subseteq detached'
      BY <2>1, <2>3, <1>t DEF Fails, Requests
    <3> QED
      BY <2>1, <2>3, <3>1, <1>o DEF Accounting, DisksLeft
  <2> QED
    BY <1>3, <2>2, <2>3 DEF Reattach
<1>4. CASE PrepareRescan
  <2>1. pc' = "failure" /\ old' = disks /\ new' = {} /\ failedAt' = "detach" /\ disks \ old' = {}
    BY <1>4, <1>o DEF PrepareRescan, Accounting, PuttingBack
  <2> QED
    BY <2>1, <1>o DEF Accounting, DisksLeft
<1>5. ASSUME NEW T, new' = T \cup (IF failedAt' = "verifyNew" THEN {cur'} ELSE {}), old' = {},
             failedAt' = "verifyNew" => cur' \notin T,
             pc' = (IF T = {} THEN "undoOld" ELSE "undoNew"),
             todo' = (IF T = {} THEN disks ELSE T),
             failed'["detachNew"] = {}, failed'["attachOld"] = {}
      PROVE  Accounting'
  <2>1. Left' = (IF failedAt' = "verifyNew" THEN {cur'} ELSE {})
    BY <1>5 DEF Left
  <2>2. pc' = "undoNew" => new' = todo' \cup Left' /\ todo' \cap Left' = {}
    BY <1>5, <2>1
  <2>3. pc' = "undoOld" => new' = Left' /\ todo' = disks /\ disks \ disks = {}
    BY <1>5, <2>1
  <2> QED
    BY <1>5, <2>2, <2>3, <1>o DEF Accounting
<1>6. CASE ScanBeforeRestore
  BY <1>6 DEF ScanBeforeRestore, Accounting
<1>7. CASE CreateDisks
  <2>1. pc = "create" /\ NoneFailed /\ new = {} /\ newAttached = {} /\ old = {}
    BY <1>7, <1>o DEF CreateDisks, FailedOnes, Restoring
  <2>2. CASE pc' = "restore"
    BY <2>2 DEF Accounting
  <2>3. CASE Undo("create", newAttached) /\ pc' # "restore"
    <3>1. failed'["detachNew"] = {} /\ failed'["attachOld"] = {}
      BY <1>7, <2>1, <2>3, <1>t, <1>n DEF CreateDisks, CallAnswered, Requests
    <3> QED
      BY <1>7, <2>1, <2>3, <3>1, <1>5 DEF CreateDisks, Undo
  <2> QED
    BY <1>7, <2>2, <2>3 DEF CreateDisks
<1>8. ASSUME NEW d \in Disks, InsertDisk(d) PROVE Accounting'
  <2>1. /\ pc = "restore" /\ NoneFailed /\ new = disks \ todo /\ old = {}
        /\ newAttached = (IF Group THEN disks \ todo ELSE {}) /\ (~Group => todo = disks)
    BY <1>8, <1>o DEF InsertDisk, FailedOnes, Restoring
  <2>2. CASE pc' = "attachNew"
    BY <2>2 DEF Accounting
  <2>3. CASE Undo("insert", newAttached) /\ Fails("insert", d) /\ pc' # "attachNew"
    <3>1. failed'["detachNew"] = {} /\ failed'["attachOld"] = {} /\ new = newAttached
      BY <2>1, <2>3, <1>t, <1>n DEF Fails, Requests
    <3> QED
      BY <1>8, <2>1, <2>3, <3>1, <1>5 DEF InsertDisk, Undo
  <2> QED
    BY <1>8, <2>2, <2>3 DEF InsertDisk
<1>9. CASE AttachNew
  <2>1. /\ pc = "attachNew" /\ NoneFailed /\ new = disks \ todo /\ old = {}
        /\ newAttached = (IF Group THEN disks \ todo ELSE {}) /\ (~Group => todo = disks)
    BY <1>9, <1>o DEF AttachNew, FailedOnes, Restoring
  <2>2. CASE pc' = "verifyNew"
    BY <2>2 DEF Accounting
  <2>3. CASE Undo("attachNew", newAttached) /\ Fails("attachNew", cur) /\ pc' # "verifyNew"
    <3>1. failed'["detachNew"] = {} /\ failed'["attachOld"] = {} /\ new = newAttached
      BY <2>1, <2>3, <1>t, <1>n DEF Fails, Requests
    <3> QED
      BY <1>9, <2>1, <2>3, <3>1, <1>5 DEF AttachNew, Undo
  <2> QED
    BY <1>9, <2>2, <2>3 DEF AttachNew
<1>10. CASE VerifyNew
  <2>1. /\ pc = "verifyNew" /\ NoneFailed /\ new = (disks \ todo) \cup {cur} /\ old = {}
        /\ newAttached = (IF Group THEN disks \ todo ELSE {}) /\ (~Group => todo = disks)
        /\ cur \in todo
    BY <1>10, <1>o DEF VerifyNew, FailedOnes, Restoring
  <2>2. CASE pc' \in {"restore", "rename", "rescan"}
    BY <2>2 DEF Accounting
  <2>3. CASE Undo("verifyNew", newAttached) /\ pc' \in {"undoNew", "undoOld"}
    <3>1. /\ failed'["detachNew"] = {} /\ failed'["attachOld"] = {}
          /\ new = newAttached \cup {cur} /\ cur \notin newAttached
      BY <1>10, <2>1, <2>3, <1>t, <1>n DEF VerifyNew, Requests
    <3> QED
      BY <1>10, <2>1, <2>3, <3>1, <1>5 DEF VerifyNew, Undo
  <2> QED
    BY <1>10, <2>2, <2>3 DEF VerifyNew, Undo
<1>11. CASE RenameLVM
  <2>1. /\ pc = "rename" /\ NoneFailed /\ new = disks /\ old = {}
        /\ (Group => newAttached = disks)
    BY <1>11, <1>o DEF RenameLVM, FailedOnes, Restoring
  <2>2. CASE pc' = "rescan"
    BY <2>2 DEF Accounting
  <2>3. CASE Undo("rename", disks) /\ pc' # "rescan"
    <3>1. failed'["detachNew"] = {} /\ failed'["attachOld"] = {}
      BY <1>11, <2>1, <2>3, <1>t, <1>n DEF RenameLVM, Requests
    <3> QED
      BY <1>11, <2>1, <2>3, <3>1, <1>5 DEF RenameLVM, Undo
  <2> QED
    BY <1>11, <2>1, <2>2, <2>3 DEF RenameLVM
<1>12. ASSUME NEW d \in Disks, UndoNew(d) PROVE Accounting'
  <2>1. /\ pc = "undoNew" /\ d \in todo /\ todo \subseteq disks /\ old' = {} /\ failedAt' = failedAt /\ cur' = cur
        /\ new = todo \cup Left /\ todo \cap Left = {} /\ failed["attachOld"] = {}
        /\ IF todo = {d} THEN pc' = "undoOld" /\ todo' = disks
                         ELSE pc' = "undoNew" /\ todo' = todo \ {d}
    BY <1>12, <1>o DEF UndoNew, Accounting, Undoing, FailedOnes, TypeOK
  <2>2. /\ failed'["attachOld"] = {}
        /\ \/ new' = new \ {d} /\ Left' = Left
           \/ new' = new /\ Left' = Left \cup {d}
    <3>1. CASE CallAnswered /\ new' = new \ {d}
      BY <2>1, <3>1 DEF CallAnswered, Left
    <3>2. CASE new' = new /\ Fails("detachNew", d)
      BY <2>1, <3>2, <1>t DEF Fails, Left, Requests
    <3> QED
      BY <1>12, <3>1, <3>2 DEF UndoNew
  <2>3. new' = (todo \ {d}) \cup Left' /\ (todo \ {d}) \cap Left' = {}
    BY <2>1, <2>2
  <2>4. CASE todo = {d}
    <3>1. new' = Left' /\ disks \ (disks \cup {}) = {}
      BY <2>3, <2>4
    <3> QED
      BY <2>1, <2>2, <2>4, <3>1, <1>o DEF Accounting
  <2>5. CASE todo # {d}
    BY <2>1, <2>3, <2>5 DEF Accounting
  <2> QED
    BY <2>4, <2>5
<1>13. ASSUME NEW d \in Disks, UndoOld(d) PROVE Accounting'
  <2>1. /\ pc = "undoOld" /\ d \in todo /\ todo \subseteq disks /\ new' = Left
        /\ failedAt' = failedAt /\ cur' = cur /\ todo' = todo \ {d}
        /\ old = disks \ (todo \cup failed["attachOld"]) /\ todo \cap failed["attachOld"] = {}
        /\ pc' = IF todo = {d} THEN "undoRescan" ELSE "undoOld"
    BY <1>13, <1>o DEF UndoOld, Accounting, TypeOK
  <2>2. /\ Left' = Left
        /\ \/ old' = old \cup {d} /\ failed'["attachOld"] = failed["attachOld"]
           \/ old' = old /\ failed'["attachOld"] = failed["attachOld"] \cup {d}
    <3>1. CASE CallAnswered /\ old' = old \cup {d}
      BY <2>1, <3>1 DEF CallAnswered, Left
    <3>2. CASE old' = old /\ Fails("attachOld", d)
      BY <2>1, <3>2, <1>t DEF Fails, Left, Requests
    <3> QED
      BY <1>13, <3>1, <3>2 DEF UndoOld
  <2>3. /\ old' = disks \ (todo' \cup failed'["attachOld"]) /\ todo' \cap failed'["attachOld"] = {}
        /\ todo = {d} => old' = disks \ failed'["attachOld"]
    BY <2>1, <2>2
  <2> QED
    BY <2>1, <2>2, <2>3, <1>o DEF Accounting
<1>14. CASE UndoRescan
  <2>1. /\ pc' = "failure" /\ new' = Left /\ old' = disks \ failed["attachOld"] /\ failedAt' = failedAt
        /\ failed' = failed /\ cur' = cur
        /\ failedAt \in {"create", "insert", "attachNew", "verifyNew", "rename"}
    BY <1>14, <1>o DEF UndoRescan, Accounting, Undoing
  <2> QED
    BY <2>1, <1>o DEF Accounting, DisksLeft, Left
<1>15. CASE FinalRescan \/ VerifyDataVolume \/ LabelDetached
  BY <1>15, <1>o DEF FinalRescan, VerifyDataVolume, LabelDetached, Serving, Accounting, DisksLeft
<1>16. CASE Kill
  BY <1>16 DEF Kill, Accounting
<1>17. CASE StartHANA
  <2>1. UNCHANGED <<pc, failedAt, todo, cur, detached, failed, old, new>>
    BY <1>17 DEF StartHANA
  <2> QED
    BY <2>1, <1>o DEF Accounting, DisksLeft, Left
<1> QED
  BY <1>1, <1>2, <1>3, <1>4, <1>6, <1>7, <1>8, <1>9, <1>10, <1>11, <1>12, <1>13, <1>14, <1>15, <1>16,
     <1>17 DEF Next, Step, TakesEffect

(* Every step of the run, and every effect after it, leaves the mounted volume its
   disks, but for a failed detach. *)
LEMMA MountedNext ==
    ASSUME RestoreInv, Next
    PROVE  MountedKeepsDisks'
<1>o. /\ TypeOK /\ Preparing /\ PuttingBack /\ Restoring /\ Undoing /\ Serving
      /\ FailedOnes /\ MountedKeepsDisks /\ disks' = disks /\ lateEffects' = lateEffects
  BY InputKept, FaultFacts DEF RestoreInv, Phases
<1> USE DEF Goto, FailVia, input, loop, record, disksState, MountedKeepsDisks
<1>1. CASE mounted' = "none" /\ hana' = "down"
  BY <1>1
<1>2. CASE UNCHANGED <<mounted, old, new, failed, detached>> /\ hana' \in {hana, "down"}
  BY <1>2, <1>o
<1>3. CASE RescanMounts /\ UNCHANGED <<old, new, failed, detached, hana>>
  BY <1>3, <1>o DEF RescanMounts, Mountable
<1>4. ASSUME NEW d \in Disks, TakesEffect(d) PROVE MountedKeepsDisks'
  <2>1. UNCHANGED <<hana, mounted, failed, detached>> /\ lateEffects = "possible"
    BY <1>4 DEF TakesEffect
  <2>2. ASSUME old' # disks, mounted = "old"
        PROVE  \E e \in failed["detachOld"] \ detached : old' = disks \ {e}
    <3>1. old \subseteq disks /\ failed["detachOld"] \subseteq disks /\ failed["attachOld"] \subseteq disks
      BY <1>o DEF TypeOK, Requests
    <3>2. CASE d \in failed["detachOld"] /\ old' = old \ {d}
      <4>1. PICK e \in disks \ detached : failed["detachOld"] = {e}
        BY <3>2, <1>o DEF FailedOnes
      <4>2. d = e /\ (old = disks \/ old = disks \ {e})
        BY <3>2, <4>1, <2>2, <1>o
      <4> QED
        BY <3>2, <4>1, <4>2
    <3>3. CASE d \in failed["attachOld"] /\ old' = old \cup {d}
      <4>1. PICK e \in failed["detachOld"] \ detached : old = disks \ {e}
        BY <2>2, <3>1, <3>3, <1>o
      <4> QED
        BY <3>1, <3>3, <4>1, <2>2
    <3>4. CASE old' = old
      BY <3>4, <2>2, <1>o
    <3> QED
      BY <1>4, <3>2, <3>3, <3>4 DEF TakesEffect
  <2>3. mounted = "new" /\ new' # disks => disks \ new' \subseteq failed["detachNew"]
    BY <1>4, <1>o DEF TakesEffect
  <2> QED
    BY <2>1, <2>2, <2>3, <1>o
<1>5. CASE CheckPreConditions \/ StopHANA \/ Unmount \/ ReadVolumeGroup
  BY <1>5, <1>1, <1>2 DEF CheckPreConditions, StopHANA, Unmount, ReadVolumeGroup
<1>6. CASE \E d \in Disks : DetachOld(d) \/ Reattach(d)
  BY <1>6, <1>1, <1>o DEF DetachOld, Reattach, Preparing, PuttingBack, Idle
<1>7. CASE PrepareRescan \/ ScanBeforeRestore \/ UndoRescan \/ FinalRescan
  BY <1>7, <1>2, <1>3 DEF PrepareRescan, ScanBeforeRestore, UndoRescan, FinalRescan, RescanLogged
<1>8. CASE CreateDisks \/ (\E d \in Disks : InsertDisk(d)) \/ AttachNew \/ VerifyNew \/ RenameLVM
  BY <1>8, <1>1, <1>o DEF CreateDisks, InsertDisk, AttachNew, VerifyNew, RenameLVM, Restoring, Idle
<1>9. CASE \E d \in Disks : UndoNew(d) \/ UndoOld(d)
  BY <1>9, <1>1, <1>o DEF UndoNew, UndoOld, Undoing, Idle
<1>10. CASE VerifyDataVolume \/ LabelDetached \/ Kill
  BY <1>10, <1>2 DEF VerifyDataVolume, LabelDetached, Kill
<1>11. CASE StartHANA
  BY <1>11, <1>o DEF StartHANA
<1> QED
  BY <1>4, <1>5, <1>6, <1>7, <1>8, <1>9, <1>10, <1>11 DEF Next, Step

(* Every step of the run, a kill, and what happens after the run keep the
   invariant. *)
LEMMA InvNext ==
    ASSUME RestoreInv, Next
    PROVE  RestoreInv'
<1>1. TypeOK'
  BY TypeNext DEF RestoreInv, Phases
<1>2. disks' # {} /\ (~Group' => \A d \in disks' : disks' = {d})
  BY InputKept DEF RestoreInv, Group
<1>3. lateEffects' = "excluded" => Accounting'
  BY AccountingNext, FaultFacts DEF RestoreInv
<1> QED
  BY <1>1, <1>2, <1>3, PhasesNext, FailedNext, MountedNext DEF RestoreInv

(* The invariant holds of the state a run starts in. *)
LEMMA InvInit == Init => RestoreInv
<1> SUFFICES ASSUME Init PROVE RestoreInv
  OBVIOUS
<1>1. disks \subseteq Disks /\ disks # {} /\ (~Group => \A d \in disks : disks = {d})
  BY RestoreAssumption DEF Init
<1>2. faults \in 0..MaxFaults
  <2>1. faults = 0
    BY DEF Init
  <2> QED
    BY <2>1, RestoreAssumption
<1>3. TypeOK
  BY <1>1, <1>2 DEF Init, TypeOK, Modes, RestoreLabels, FailSites, Group, Requests
<1>4. Phases
  BY <1>1 DEF Init, Phases, Preparing, PuttingBack, Restoring, Undoing, Serving, Untouched, Group,
     OneFaultUndone, OneFaultOutcome
<1>5. FailedOnes /\ Accounting /\ MountedKeepsDisks
  BY DEF Init, FailedOnes, NoneFailed, Requests, Accounting, MountedKeepsDisks
<1> QED
  BY <1>1, <1>3, <1>4, <1>5 DEF RestoreInv

(* Every state of every run satisfies the invariant. *)
THEOREM RestoreInvariant == Spec => []RestoreInv
<1>1. RestoreInv /\ [Next]_vars => RestoreInv'
  <2>1. CASE UNCHANGED vars
    <3>1. TypeOK => TypeOK'
      BY <2>1 DEF vars, TypeOK
    <3>2. /\ Preparing => Preparing'
          /\ PuttingBack => PuttingBack'
          /\ Restoring => Restoring'
      BY <2>1 DEF vars, Group, Preparing, PuttingBack, Restoring, Untouched, Idle, SingleFault
    <3>3. /\ Undoing => Undoing'
          /\ Serving => Serving'
          /\ OneFaultUndone => OneFaultUndone'
      BY <2>1 DEF vars, Group, Undoing, Serving, Idle, SingleFault, OneFaultUndone, OneFaultOutcome
    <3>4. /\ FailedOnes => FailedOnes'
          /\ MountedKeepsDisks => MountedKeepsDisks'
      BY <2>1 DEF vars, FailedOnes, NoneFailed, MountedKeepsDisks
    <3>5. Accounting => Accounting'
      BY <2>1 DEF vars, Accounting, Left, DisksLeft
    <3> QED
      BY <2>1, <3>1, <3>2, <3>3, <3>4, <3>5 DEF vars, RestoreInv, Phases, Group
  <2> QED
    BY <2>1, InvNext
<1> QED
  BY InvInit, <1>1, PTL DEF Spec

(* Every variable of a run keeps its type: the loops of the restore work only
   on the disks they were given. *)
THEOREM RestoreTypes == Spec => []TypeOK
<1>1. RestoreInv => TypeOK
  BY DEF RestoreInv
<1> QED
  BY <1>1, RestoreInvariant, PTL

(* A restore that returns no error serves the restored volume from every new
   disk and from no old one, whatever failed on the way and however late it
   took effect. *)
THEOREM SuccessServes == Spec => []SuccessServesRestored
<1>1. RestoreInv => SuccessServesRestored
  BY DEF RestoreInv, Phases, Serving, SuccessServesRestored
<1> QED
  BY <1>1, RestoreInvariant, PTL

(* prepare detaches a disk only from an instance whose HANA is stopped and whose
   data directory is unmounted; what is mounted later, by a rescan of an error path
   or for good, misses a disk only when a detach that had failed completes late. *)
THEOREM MountedVolumesAreWhole == Spec => []MountedKeepsDisks
<1>1. RestoreInv => MountedKeepsDisks
  BY DEF RestoreInv
<1> QED
  BY <1>1, RestoreInvariant, PTL

(* The error paths of prepare, diskRestore and handleRestoreFailure leave no disk
   unaccounted for, however many calls fail, and undo a single failing call
   completely. *)
THEOREM FailuresAreUndone == Spec => []FailureOutcome
<1>1. RestoreInv => FailureOutcome
  BY DEF RestoreInv, Phases, Accounting, OneFaultUndone, SingleFault, FailureOutcome
<1> QED
  BY <1>1, RestoreInvariant, PTL

=================================================================================

-------------------------- MODULE DiskBackup_proofs --------------------------
(***************************************************************************)
(* Theorems about DiskBackup for any number of invocations, any set of     *)
(* workflows and flags and any set of faults.                              *)
(***************************************************************************)
EXTENDS DiskBackup, TLAPS

(* The state in which hanadiskbackup starts is well typed. *)
LEMMA TypeInit == Init => TypeOK
<1> SUFFICES ASSUME Init PROVE TypeOK
  OBVIOUS
<1>1. pc \in [Procs -> Labels] BY DEF Init, Labels
<1>2. reason \in [Procs -> Reasons] BY DEF Init, Reasons
<1>3. sid \in [Procs -> Ids \cup {None}] BY DEF Init
<1>4. catalog \in [Ids -> {"none", "prepared", "successful", "unsuccessful"}]
  BY DEF Init
<1>5. ebid \in [Ids -> Procs \cup {None}] BY DEF Init
<1>6. /\ img \in [Procs -> {"none", "requested", "taken"}]
      /\ imgHana \in [Procs -> Ids \cup {None}]
      /\ durable \in [Procs -> {"no", "pending", "yes"}]
  BY DEF Init
<1>7. /\ wf \in [Procs -> Workflows]
      /\ flags \in [Procs -> FlagSets]
      /\ faults \in FaultSets
  <2>1. PICK sc \in Scenarios : /\ wf \in [Procs -> sc.workflows]
                               /\ flags \in [Procs -> sc.flagSets]
                               /\ faults = sc.faults
    BY DEF Init
  <2> QED BY <2>1, ConstantsAssumption
<1> QED
  BY <1>1, <1>2, <1>3, <1>4, <1>5, <1>6, <1>7 DEF Init, TypeOK

(* A statement that closes a snapshot keeps the types of HANA's variables. *)
LEMMA CloseType ==
    ASSUME TypeOK, NEW p \in Procs, NEW x, HanaClosesSuccessful(x, p)
    PROVE  /\ catalog' \in [Ids -> {"none", "prepared", "successful", "unsuccessful"}]
           /\ ebid' \in [Ids -> Procs \cup {None}]
           /\ db' \in {"up", "down"}
BY DEF TypeOK, HanaClosesSuccessful, HanaUp

(* Going to a label, and failing at once or after a clean-up, keep the types of
   the control. *)
LEMMA ControlType ==
    ASSUME TypeOK, NEW p \in Procs, NEW l \in Labels, NEW r \in Reasons,
           Goto(p, l) \/ Fail(p, r) \/ FailVia(p, r, l)
    PROVE  pc' \in [Procs -> Labels] /\ reason' \in [Procs -> Reasons]
<1>1. "failure" \in Labels BY DEF Labels
<1> QED BY <1>1 DEF TypeOK, Goto, Fail, FailVia

(* A step that closes a snapshot or leaves HANA alone, and then goes on or
   fails, keeps the types: the two confirmations are such steps. *)
LEMMA ConfirmType ==
    ASSUME TypeOK, NEW p \in Procs,
           HanaClosesSuccessful(sid[p], p) \/ UNCHANGED hana,
           \/ Goto(p, "upload") \/ Goto(p, "success")
           \/ Fail(p, "mark") \/ FailVia(p, "mark", "deleteISG"),
           UNCHANGED <<local, fs, cloud>>
    PROVE  TypeOK'
<1>1. /\ catalog' \in [Ids -> {"none", "prepared", "successful", "unsuccessful"}]
      /\ ebid' \in [Ids -> Procs \cup {None}]
      /\ db' \in {"up", "down"}
  <2>1. CASE HanaClosesSuccessful(sid[p], p) BY <2>1, CloseType
  <2>2. CASE UNCHANGED hana BY <2>2 DEF hana, TypeOK
  <2> QED BY <2>1, <2>2
<1>2. /\ {"upload", "success", "deleteISG", "failure"} \subseteq Labels
      /\ "mark" \in Reasons
  BY DEF Labels, Reasons
<1>3. pc' \in [Procs -> Labels] /\ reason' \in [Procs -> Reasons]
  BY <1>2, ControlType
<1> QED BY <1>1, <1>3 DEF TypeOK, local, input, cloud

(* Every step of every workflow, of Compute Engine and a kill keeps the types. *)
LEMMA TypeNext == TypeOK /\ [Next]_vars => TypeOK'
<1> SUFFICES ASSUME TypeOK, [Next]_vars PROVE TypeOK'
  OBVIOUS
<1> USE DEF TypeOK, Labels, Reasons, input, local, hana, cloud,
        Goto, Fail, FailVia, Prepared, SqlMayFail, HanaCreates,
        HanaClosesSuccessful, HanaClosesUnsuccessful, HanaUp, Frozen
<1>0. CASE UNCHANGED vars
  BY <1>0 DEF vars
<1> SUFFICES ASSUME NEW p \in Procs, Step(p) \/ Cloud(p) \/ Kill(p) PROVE TypeOK'
  BY <1>0 DEF Next
<1>1. CASE SnapshotHandler(p) BY <1>1 DEF SnapshotHandler
<1>2. CASE PrepareForChangeDiskType(p) BY <1>2 DEF PrepareForChangeDiskType
<1>3. CASE CheckAttached(p) BY <1>3 DEF CheckAttached
<1>4. CASE FindPreparedSnapshot(p) BY <1>4, ZenonT(60) DEF FindPreparedSnapshot
<1>5. CASE ClosePreparedSnapshot(p) BY <1>5 DEF ClosePreparedSnapshot
<1>6. CASE CreateNewHANASnapshot(p) BY <1>6 DEF CreateNewHANASnapshot
<1>7. CASE ReadSnapshotID(p) BY <1>7, ZenonT(60) DEF ReadSnapshotID
<1>8. CASE FreezeXFS(p) BY <1>8 DEF FreezeXFS
<1>9. CASE RequestImage(p) BY <1>9 DEF RequestImage, Group
<1>10. CASE WaitForImage(p) BY <1>10 DEF WaitForImage
<1>11. CASE UnFreezeXFS(p) BY <1>11 DEF UnFreezeXFS, AfterImage
<1>12. CASE MakeGroupSnapshots(p) BY <1>12 DEF MakeGroupSnapshots
<1>13. CASE MarkEarly(p)
  <2> HIDE DEF TypeOK, Goto, Fail, FailVia, hana, local, cloud, HanaClosesSuccessful
  <2> QED BY <1>13, ConfirmType DEF MarkEarly
<1>14. CASE WaitForUpload(p) BY <1>14, ZenonT(60) DEF WaitForUpload
<1>15. CASE UpdateLabels(p) BY <1>15 DEF UpdateLabels
<1>16. CASE DiskSnapshotFailureHandler(p) BY <1>16 DEF DiskSnapshotFailureHandler
<1>17. CASE DeleteISG(p) BY <1>17 DEF DeleteISG
<1>18. CASE DeleteSG(p) BY <1>18 DEF DeleteSG
<1>19. CASE MarkLate(p)
  <2> HIDE DEF TypeOK, Goto, Fail, FailVia, hana, local, cloud, HanaClosesSuccessful
  <2> QED BY <1>19, ConfirmType DEF MarkLate
<1>20. CASE TakeImage(p) BY <1>20 DEF TakeImage
<1>21. CASE FinishUpload(p) BY <1>21 DEF FinishUpload
<1>22. CASE Kill(p) BY <1>22 DEF Kill
<1> QED
  BY <1>1, <1>2, <1>3, <1>4, <1>5, <1>6, <1>7, <1>8, <1>9, <1>10, <1>11, <1>12,
     <1>13, <1>14, <1>15, <1>16, <1>17, <1>18, <1>19, <1>20, <1>21, <1>22
     DEF Step, Cloud
------------------------------------------------------------------------------
(* No invocation has an image, and HANA holds at most the prior snapshot. *)
LEMMA ImageInit == Init => ImageInv
<1> SUFFICES ASSUME Init PROVE ImageInv
  OBVIOUS
<1>1. OnePrepared BY DEF Init, OnePrepared
<1>2. NoImageYet BY DEF Init, NoImageYet
<1>3. ImageTaken BY DEF Init, ImageTaken, AfterGoodImage
<1>4. KnownSnapshot /\ ImageOfKnown
  BY ConstantsAssumption DEF Init, KnownSnapshot, ImageOfKnown, Ids
<1>5. CatalogNamesImage BY DEF Init, CatalogNamesImage
<1> QED BY <1>1, <1>2, <1>3, <1>4, <1>5 DEF ImageInv

(* Every step keeps the relation between control, image and catalog. *)
LEMMA ImageNext == TypeOK /\ ImageInv /\ [Next]_vars => ImageInv'
<1> SUFFICES ASSUME TypeOK, ImageInv, [Next]_vars PROVE ImageInv'
  OBVIOUS
<1> USE DEF TypeOK, ImageInv, OnePrepared, NoImageYet, ImageTaken, KnownSnapshot,
        ImageOfKnown, CatalogNamesImage, BeforeImage, AfterGoodImage, input, local, hana,
        cloud, Goto, Fail, FailVia
<1>0. CASE UNCHANGED vars
  BY <1>0 DEF vars
<1> SUFFICES ASSUME NEW p \in Procs, Step(p) \/ Cloud(p) \/ Kill(p) PROVE ImageInv'
  BY <1>0 DEF Next
<1>1. CASE SnapshotHandler(p) BY <1>1 DEF SnapshotHandler
<1>2. CASE PrepareForChangeDiskType(p) BY <1>2 DEF PrepareForChangeDiskType
<1>3. CASE CheckAttached(p) BY <1>3 DEF CheckAttached
<1>4. CASE FindPreparedSnapshot(p) BY <1>4 DEF FindPreparedSnapshot, Prepared, HanaUp
<1>5. CASE ClosePreparedSnapshot(p)
  <2> None \notin Ids BY ConstantsAssumption DEF Ids
  <2>1. CASE HanaClosesUnsuccessful(sid[p])
    BY <1>5, <2>1 DEF ClosePreparedSnapshot, HanaClosesUnsuccessful, Prepared
  <2>2. CASE UNCHANGED hana
    BY <1>5, <2>2 DEF ClosePreparedSnapshot
  <2> QED BY <1>5, <2>1, <2>2 DEF ClosePreparedSnapshot
<1>6. CASE CreateNewHANASnapshot(p) BY <1>6 DEF CreateNewHANASnapshot, HanaCreates, Prepared
<1>7. CASE ReadSnapshotID(p) BY <1>7 DEF ReadSnapshotID, Prepared
<1>8. CASE FreezeXFS(p) BY <1>8 DEF FreezeXFS
<1>9. CASE RequestImage(p) BY <1>9 DEF RequestImage
<1>10. CASE WaitForImage(p) BY <1>10 DEF WaitForImage
<1>11. CASE UnFreezeXFS(p) BY <1>11 DEF UnFreezeXFS, AfterImage, Group
<1>12. CASE MakeGroupSnapshots(p) BY <1>12 DEF MakeGroupSnapshots
<1>13. CASE MarkEarly(p) BY <1>13 DEF MarkEarly, HanaClosesSuccessful, Prepared, Group
<1>14. CASE WaitForUpload(p) BY <1>14 DEF WaitForUpload
<1>15. CASE UpdateLabels(p) BY <1>15 DEF UpdateLabels
<1>16. CASE DiskSnapshotFailureHandler(p) BY <1>16 DEF DiskSnapshotFailureHandler, HanaClosesUnsuccessful, Prepared, Group
<1>17. CASE DeleteISG(p)
  <2>1. PICK l \in {"success", "markLate", "deleteSG", "failure"} : Goto(p, l)
    BY <1>17 DEF DeleteISG
  <2>2. /\ pc[p] = "deleteISG"
        /\ UNCHANGED <<local, hana, img, imgHana>>
    BY <1>17 DEF DeleteISG
  <2> QED BY <2>1, <2>2
<1>18. CASE DeleteSG(p) BY <1>18 DEF DeleteSG
<1>19. CASE MarkLate(p) BY <1>19 DEF MarkLate, HanaClosesSuccessful, Prepared
<1>20. CASE TakeImage(p) BY <1>20 DEF TakeImage, Prepared
<1>21. CASE FinishUpload(p) BY <1>21 DEF FinishUpload
<1>22. CASE Kill(p) BY <1>22 DEF Kill
<1> QED
  BY <1>1, <1>2, <1>3, <1>4, <1>5, <1>6, <1>7, <1>8, <1>9, <1>10, <1>11, <1>12,
     <1>13, <1>14, <1>15, <1>16, <1>17, <1>18, <1>19, <1>20, <1>21, <1>22
     DEF Step, Cloud
------------------------------------------------------------------------------
(* Every invocation, its local values and what it reads from HANA and Compute
   Engine keep their types through all the workflows of hanadiskbackup. *)
THEOREM TypeCorrect == Spec => []TypeOK
<1>1. Init => TypeOK BY TypeInit
<1>2. TypeOK /\ [Next]_vars => TypeOK' BY TypeNext
<1> QED BY <1>1, <1>2, PTL DEF Spec

(* The inductive invariant. *)
THEOREM ImageInvariant == Spec => []ImageInv
<1>1. Init => ImageInv BY ImageInit
<1>2. TypeOK /\ ImageInv /\ [Next]_vars => ImageInv' BY ImageNext
<1> QED BY <1>1, <1>2, TypeCorrect, PTL DEF Spec

(* markSnapshotAsSuccessful certifies only images taken while the HANA snapshot
   it closes was prepared, for any number of concurrent invocations. *)
THEOREM CatalogIsSound == Spec => []CatalogNamesImage
<1>1. ImageInv => CatalogNamesImage BY DEF ImageInv
<1> QED BY <1>1, ImageInvariant, PTL

------------------------------------------------------------------------------
(* How an invocation can end: what a success means, who can leave the file system
   frozen, and which exits leave a snapshot or a group behind. *)

(* Some invocation stands between its freeze and its thaw, or returned the error of
   the thaw or was killed there; nothing comes after that error. *)
OwnerInv ==
    /\ Frozen => \E p \in Procs :
         /\ "freeze" \in flags[p]
         /\ pc[p] \in {"image", "waitImage", "unfreeze", "killed"} \/ reason[p] = "unfreeze"
    /\ \A p \in Procs : reason[p] = "unfreeze" => pc[p] = "failure"

(* Nobody else uses the flag. *)
FreezesAlone(p) ==
    "freeze" \in flags[p] /\ \A q \in Procs \ {p} : "freeze" \notin flags[q]

(* The request for the image has succeeded so far, up to the thaw. *)
Imaging(p) == pc[p] \in {"image", "waitImage"} \/ (pc[p] = "unfreeze" /\ p \notin snapErr)

(* The same and beyond: only what returned without an error of the image. *)
Imaged(p) ==
    Imaging(p) \/ pc[p] \in AfterGoodImage \/ (pc[p] = "abandon" /\ reason[p] # "image")

(* An invocation that freezes alone finds the file system frozen until its own thaw,
   so that its image is one of a frozen file system. *)
FrozenInv ==
    \A p \in Procs : FreezesAlone(p) =>
        /\ Imaging(p) => Frozen
        /\ (Imaged(p) /\ img[p] = "taken") => p \in imgFrozen

------------------------------------------------------------------------------
(* Who freezes is between its freeze and its thaw; a thaw, by whomever, ends the frozen
   state, and only the error of UnFreezeXFS or a kill leaves that stretch frozen. *)
LEMMA OwnerNext == TypeOK /\ OwnerInv /\ [Next]_vars => OwnerInv'
<1> SUFFICES ASSUME TypeOK, OwnerInv, [Next]_vars PROVE OwnerInv'
  OBVIOUS
<1> USE DEF OwnerInv, TypeOK, input, local, cloud, hana, Frozen, Goto, Fail, FailVia
<1>0. CASE UNCHANGED vars
  BY <1>0 DEF vars
<1> SUFFICES ASSUME NEW p \in Procs, Step(p) \/ Cloud(p) \/ Kill(p) PROVE OwnerInv'
  BY <1>0 DEF Next
<1>1. CASE SnapshotHandler(p) BY <1>1 DEF SnapshotHandler
<1>2. CASE PrepareForChangeDiskType(p) BY <1>2 DEF PrepareForChangeDiskType
<1>3. CASE CheckAttached(p) BY <1>3 DEF CheckAttached
<1>4. CASE FindPreparedSnapshot(p) BY <1>4 DEF FindPreparedSnapshot
<1>5. CASE ClosePreparedSnapshot(p) BY <1>5 DEF ClosePreparedSnapshot
<1>6. CASE CreateNewHANASnapshot(p) BY <1>6 DEF CreateNewHANASnapshot
<1>7. CASE ReadSnapshotID(p) BY <1>7 DEF ReadSnapshotID
<1>8. CASE FreezeXFS(p) BY <1>8 DEF FreezeXFS
<1>9. CASE RequestImage(p) BY <1>9 DEF RequestImage
<1>10. CASE WaitForImage(p) BY <1>10 DEF WaitForImage
<1>11. CASE UnFreezeXFS(p) BY <1>11 DEF UnFreezeXFS, AfterImage
<1>12. CASE MakeGroupSnapshots(p) BY <1>12 DEF MakeGroupSnapshots
<1>13. CASE MarkEarly(p) BY <1>13 DEF MarkEarly
<1>14. CASE WaitForUpload(p) BY <1>14 DEF WaitForUpload
<1>15. CASE UpdateLabels(p) BY <1>15 DEF UpdateLabels
<1>16. CASE DiskSnapshotFailureHandler(p) BY <1>16 DEF DiskSnapshotFailureHandler
<1>17. CASE DeleteISG(p) BY <1>17 DEF DeleteISG
<1>18. CASE DeleteSG(p) BY <1>18 DEF DeleteSG
<1>19. CASE MarkLate(p) BY <1>19 DEF MarkLate
<1>20. CASE Cloud(p) BY <1>20 DEF Cloud, TakeImage, FinishUpload
<1>21. CASE Kill(p) BY <1>21 DEF Kill, Ended
<1> QED
  BY <1>1, <1>2, <1>3, <1>4, <1>5, <1>6, <1>7, <1>8, <1>9, <1>10, <1>11, <1>12,
     <1>13, <1>14, <1>15, <1>16, <1>17, <1>18, <1>19, <1>20, <1>21 DEF Step

(* An invocation that freezes alone stays frozen up to its own thaw. *)
LEMMA FrozenNext == TypeOK /\ ImageInv /\ FrozenInv /\ [Next]_vars => FrozenInv'
<1> SUFFICES ASSUME TypeOK, ImageInv, FrozenInv, [Next]_vars PROVE FrozenInv'
  OBVIOUS
<1> USE DEF FrozenInv, FreezesAlone, Imaging, Imaged, AfterGoodImage, ImageInv, NoImageYet,
            ImageTaken,
        BeforeImage, TypeOK, input, local, cloud, hana, Frozen, Goto, Fail, FailVia
<1>0. CASE UNCHANGED vars
  BY <1>0 DEF vars
<1> SUFFICES ASSUME NEW p \in Procs, Step(p) \/ Cloud(p) \/ Kill(p) PROVE FrozenInv'
  BY <1>0 DEF Next
<1>1. CASE SnapshotHandler(p) BY <1>1 DEF SnapshotHandler
<1>2. CASE PrepareForChangeDiskType(p) BY <1>2 DEF PrepareForChangeDiskType
<1>3. CASE CheckAttached(p) BY <1>3 DEF CheckAttached
<1>4. CASE FindPreparedSnapshot(p) BY <1>4 DEF FindPreparedSnapshot
<1>5. CASE ClosePreparedSnapshot(p) BY <1>5 DEF ClosePreparedSnapshot
<1>6. CASE CreateNewHANASnapshot(p) BY <1>6 DEF CreateNewHANASnapshot
<1>7. CASE ReadSnapshotID(p) BY <1>7 DEF ReadSnapshotID
<1>8. CASE FreezeXFS(p) BY <1>8 DEF FreezeXFS
<1>9. CASE RequestImage(p) BY <1>9 DEF RequestImage
<1>10. CASE WaitForImage(p) BY <1>10 DEF WaitForImage
<1>11. CASE UnFreezeXFS(p) BY <1>11 DEF UnFreezeXFS, AfterImage, Group
<1>12. CASE MakeGroupSnapshots(p) BY <1>12 DEF MakeGroupSnapshots
<1>13. CASE MarkEarly(p) BY <1>13 DEF MarkEarly
<1>14. CASE WaitForUpload(p) BY <1>14 DEF WaitForUpload
<1>15. CASE UpdateLabels(p) BY <1>15 DEF UpdateLabels
<1>16. CASE DiskSnapshotFailureHandler(p) BY <1>16 DEF DiskSnapshotFailureHandler, Group
<1>17. CASE DeleteISG(p) BY <1>17 DEF DeleteISG
<1>18. CASE DeleteSG(p) BY <1>18 DEF DeleteSG
<1>19. CASE MarkLate(p) BY <1>19 DEF MarkLate
<1>20. CASE Cloud(p) BY <1>20 DEF Cloud, TakeImage, FinishUpload
<1>21. CASE Kill(p) BY <1>21 DEF Kill, Ended
<1> QED
  BY <1>1, <1>2, <1>3, <1>4, <1>5, <1>6, <1>7, <1>8, <1>9, <1>10, <1>11, <1>12,
     <1>13, <1>14, <1>15, <1>16, <1>17, <1>18, <1>19, <1>20, <1>21 DEF Step

------------------------------------------------------------------------------
(* Where the wait for the upload goes on, by workflow and flag. *)
UploadGoes(p) ==
    /\ pc[p] = "upload" /\ UNCHANGED <<local, hana, fs, cloud>>
    /\ \/ durable[p] = "yes" /\ wf[p] = "sg" /\ Goto(p, "labels")
       \/ durable[p] = "yes" /\ wf[p] = "isg" /\ Goto(p, "deleteISG")
       \/ durable[p] = "yes" /\ wf[p] = "change" /\ Goto(p, "success")
       \/ /\ durable[p] = "yes" /\ wf[p] \notin {"sg", "isg", "change"}
          /\ Goto(p, IF "confirm" \in flags[p] THEN "success" ELSE "markLate")
       \/ wf[p] \in {"disk", "isg"} /\ FailVia(p, "upload", "abandon")
       \/ wf[p] \notin {"disk", "isg"} /\ Fail(p, "upload")

(* Every workflow is one of the four, and WaitForUpload sends each to its own step. *)
LEMMA WaitForUploadGoes == ASSUME NEW p \in Procs, WaitForUpload(p) PROVE UploadGoes(p)
<1> USE DEF UploadGoes
<1>1. CASE wf[p] = "sg"
  BY <1>1, Zenon DEF WaitForUpload
<1>2. CASE wf[p] = "isg"
  BY <1>2, Zenon DEF WaitForUpload
<1>3. CASE wf[p] = "change"
  BY <1>3, Zenon DEF WaitForUpload
<1>4. CASE wf[p] \notin {"sg", "isg", "change"}
  BY <1>4, Zenon DEF WaitForUpload
<1> QED BY <1>1, <1>2, <1>3, <1>4

(* Where the thaw goes on: the error of the image, the next step of the workflow, or
   the early return. *)
ImageGoes(p) ==
    /\ pc[p] = "unfreeze" /\ UNCHANGED <<local, hana, cloud>>
    /\ \/ Fail(p, "image") \/ Fail(p, "unfreeze")
       \/ FailVia(p, "image", "abandon")
       \/ Group(p) /\ Goto(p, "group")
       \/ wf[p] = "disk" /\ "confirm" \in flags[p] /\ Goto(p, "markEarly")
       \/ Goto(p, "upload")

(* UnFreezeXFS either returns its error or goes on as AfterImage does. *)
LEMMA UnFreezeGoes == ASSUME NEW p \in Procs, UnFreezeXFS(p) PROVE ImageGoes(p)
<1>1. UNCHANGED <<local, hana, cloud>> /\ pc[p] = "unfreeze" /\ (AfterImage(p) \/ Fail(p, "unfreeze"))
  BY Zenon DEF UnFreezeXFS
<1>2. AfterImage(p) => \/ Fail(p, "image") \/ FailVia(p, "image", "abandon")
                       \/ Group(p) /\ Goto(p, "group")
                       \/ wf[p] = "disk" /\ "confirm" \in flags[p] /\ Goto(p, "markEarly")
                       \/ Goto(p, "upload")
  <2> SUFFICES ASSUME AfterImage(p)
               PROVE  \/ Fail(p, "image") \/ FailVia(p, "image", "abandon")
                      \/ Group(p) /\ Goto(p, "group")
                      \/ wf[p] = "disk" /\ "confirm" \in flags[p] /\ Goto(p, "markEarly")
                      \/ Goto(p, "upload")
    OBVIOUS
  <2>1. CASE p \in snapErr BY <2>1, Zenon DEF AfterImage
  <2>2. CASE p \notin snapErr BY <2>2, Zenon DEF AfterImage
  <2> QED BY <2>1, <2>2
<1> QED BY <1>1, <1>2, Zenon DEF ImageGoes

(* Where the deletion of the group goes on, by the error that led to it. *)
DeletionGoes(p) ==
    /\ pc[p] = "deleteISG" /\ UNCHANGED <<local, hana, fs, img, imgHana, imgFrozen, durable>>
    /\ isg' = isg \ {p} \/ ("delete" \in faults /\ UNCHANGED isg)
    /\ \/ reason[p] = "" /\ "confirm" \in flags[p] /\ Goto(p, "success")
       \/ reason[p] = "" /\ "confirm" \notin flags[p] /\ Goto(p, "markLate")
       \/ reason[p] = "mark" /\ wf[p] = "sg" /\ Goto(p, "deleteSG")
       \/ reason[p] # "" /\ Goto(p, "failure")

(* DeleteISG is used at the end of the group workflows and on their error paths. *)
LEMMA DeleteISGGoes == ASSUME NEW p \in Procs, DeleteISG(p) PROVE DeletionGoes(p)
<1> USE DEF DeletionGoes
<1>1. CASE reason[p] = ""
  BY <1>1, Zenon DEF DeleteISG
<1>2. CASE reason[p] = "mark" /\ wf[p] = "sg"
  BY <1>2, Zenon DEF DeleteISG
<1>3. CASE reason[p] # "" /\ ~(reason[p] = "mark" /\ wf[p] = "sg")
  BY <1>3, Zenon DEF DeleteISG
<1> QED BY <1>1, <1>2, <1>3

------------------------------------------------------------------------------
(* Where an invocation goes depends on its workflow and flags, and there is no error
   before the clean-up. *)
Route(p) ==
    /\ pc[p] \notin {"abandon", "deleteISG", "deleteSG", "failure", "killed"} => reason[p] = ""
    /\ pc[p] \in {"group", "labels", "deleteISG", "deleteSG"} => Group(p)
    /\ pc[p] \in {"labels", "deleteSG"} => wf[p] = "sg"
    /\ pc[p] \in {"markEarly", "markLate"} => wf[p] # "change"
    /\ pc[p] \in {"markEarly", "deleteSG"} \/ (pc[p] = "deleteISG" /\ reason[p] = "mark")
         => "confirm" \in flags[p]
    /\ pc[p] = "markLate" => "confirm" \notin flags[p]

(* What is left to do after the upload, and a success that HANA knows of. *)
Uploading(p) == pc[p] \in {"labels", "markLate"} \/ (pc[p] = "deleteISG" /\ reason[p] = "")
Succeeded(p) == pc[p] = "success" /\ wf[p] # "change"

(* The upload is over wherever a workflow goes on after it. *)
Uploaded(p) == Uploading(p) \/ Succeeded(p) => durable[p] = "yes"

(* The catalog holds the snapshot the invocation knows as SUCCESSFUL under its name. *)
Certified(p) == sid[p] \in Ids /\ catalog[sid[p]] = "successful" /\ ebid[sid[p]] = p

(* An early confirmation has happened wherever none is to come late. *)
Confirmed(p) ==
    /\ "confirm" \in flags[p] /\ wf[p] # "change" /\ (pc[p] = "upload" \/ Uploading(p))
         => Certified(p)
    /\ Succeeded(p) => Certified(p)

(* What was confirmed late is uploaded, and its invocation does nothing any more. *)
LateIsDurable(x) ==
    (catalog[x] = "successful" /\ "confirm" \notin flags[ebid[x]]) =>
        durable[ebid[x]] = "yes" /\ Ended(ebid[x])

(* Each step keeps to the routes. *)
LEMMA RouteNext ==
    ASSUME NEW q \in Procs, TypeOK, Route(q), [Next]_vars
    PROVE  Route(q)'
<1> USE DEF Route, Group, Workflows, TypeOK, input, local, Goto, Fail, FailVia
<1>0. CASE UNCHANGED vars
  BY <1>0 DEF vars
<1> SUFFICES ASSUME NEW p \in Procs, Step(p) \/ Cloud(p) \/ Kill(p) PROVE Route(q)'
  BY <1>0 DEF Next
<1>1. CASE SnapshotHandler(p) BY <1>1 DEF SnapshotHandler
<1>2. CASE PrepareForChangeDiskType(p) BY <1>2 DEF PrepareForChangeDiskType
<1>3. CASE CheckAttached(p) BY <1>3 DEF CheckAttached
<1>4. CASE FindPreparedSnapshot(p) BY <1>4, ZenonT(60) DEF FindPreparedSnapshot
<1>5. CASE ClosePreparedSnapshot(p) BY <1>5 DEF ClosePreparedSnapshot
<1>6. CASE CreateNewHANASnapshot(p) BY <1>6 DEF CreateNewHANASnapshot
<1>7. CASE ReadSnapshotID(p) BY <1>7 DEF ReadSnapshotID
<1>8. CASE FreezeXFS(p) BY <1>8 DEF FreezeXFS
<1>9. CASE RequestImage(p) BY <1>9 DEF RequestImage
<1>10. CASE WaitForImage(p) BY <1>10 DEF WaitForImage
<1>11. CASE UnFreezeXFS(p)
  <2>1. ImageGoes(p) BY <1>11, UnFreezeGoes
  <2> QED BY <2>1, ZenonT(60) DEF ImageGoes
<1>12. CASE MakeGroupSnapshots(p) BY <1>12 DEF MakeGroupSnapshots
<1>13. CASE MarkEarly(p) BY <1>13, ZenonT(60) DEF MarkEarly
<1>14. CASE WaitForUpload(p)
  <2>1. UploadGoes(p) BY <1>14, WaitForUploadGoes
  <2> QED BY <2>1, ZenonT(60) DEF UploadGoes
<1>15. CASE UpdateLabels(p) BY <1>15 DEF UpdateLabels
<1>16. CASE DiskSnapshotFailureHandler(p) BY <1>16 DEF DiskSnapshotFailureHandler
<1>17. CASE DeleteISG(p)
  <2>1. DeletionGoes(p) BY <1>17, DeleteISGGoes
  <2> QED BY <2>1 DEF DeletionGoes
<1>18. CASE DeleteSG(p) BY <1>18 DEF DeleteSG
<1>19. CASE MarkLate(p) BY <1>19 DEF MarkLate
<1>20. CASE Cloud(p) BY <1>20 DEF Cloud, TakeImage, FinishUpload
<1>21. CASE Kill(p) BY <1>21 DEF Kill, Ended
<1> QED
  BY <1>1, <1>2, <1>3, <1>4, <1>5, <1>6, <1>7, <1>8, <1>9, <1>10, <1>11, <1>12,
     <1>13, <1>14, <1>15, <1>16, <1>17, <1>18, <1>19, <1>20, <1>21 DEF Step

(* Nothing undoes an upload that the workflow has waited for. *)
LEMMA UploadedNext ==
    ASSUME NEW q \in Procs, TypeOK, ImageTaken, Route(q), Uploaded(q), [Next]_vars
    PROVE  Uploaded(q)'
<1> USE DEF Uploaded, Uploading, Succeeded, Route, ImageTaken, AfterGoodImage, Group, Workflows,
            TypeOK,
        input, local, cloud, Goto, Fail, FailVia
<1>0. CASE UNCHANGED vars
  BY <1>0 DEF vars
<1> SUFFICES ASSUME NEW p \in Procs, Step(p) \/ Cloud(p) \/ Kill(p) PROVE Uploaded(q)'
  BY <1>0 DEF Next
<1>1. CASE SnapshotHandler(p) BY <1>1 DEF SnapshotHandler
<1>2. CASE PrepareForChangeDiskType(p) BY <1>2 DEF PrepareForChangeDiskType
<1>3. CASE CheckAttached(p) BY <1>3 DEF CheckAttached
<1>4. CASE FindPreparedSnapshot(p) BY <1>4, ZenonT(60) DEF FindPreparedSnapshot
<1>5. CASE ClosePreparedSnapshot(p) BY <1>5 DEF ClosePreparedSnapshot
<1>6. CASE CreateNewHANASnapshot(p) BY <1>6 DEF CreateNewHANASnapshot
<1>7. CASE ReadSnapshotID(p) BY <1>7 DEF ReadSnapshotID
<1>8. CASE FreezeXFS(p) BY <1>8 DEF FreezeXFS
<1>9. CASE RequestImage(p) BY <1>9 DEF RequestImage
<1>10. CASE WaitForImage(p) BY <1>10 DEF WaitForImage
<1>11. CASE UnFreezeXFS(p) BY <1>11, ZenonT(60) DEF UnFreezeXFS, AfterImage
<1>12. CASE MakeGroupSnapshots(p) BY <1>12, ZenonT(60) DEF MakeGroupSnapshots
<1>13. CASE MarkEarly(p) BY <1>13, ZenonT(60) DEF MarkEarly
<1>14. CASE WaitForUpload(p)
  <2>1. UploadGoes(p) BY <1>14, WaitForUploadGoes
  <2> QED BY <2>1, ZenonT(60) DEF UploadGoes
<1>15. CASE UpdateLabels(p) BY <1>15 DEF UpdateLabels
<1>16. CASE DiskSnapshotFailureHandler(p) BY <1>16 DEF DiskSnapshotFailureHandler
<1>17. CASE DeleteISG(p)
  <2>1. DeletionGoes(p) BY <1>17, DeleteISGGoes
  <2> QED BY <2>1 DEF DeletionGoes
<1>18. CASE DeleteSG(p) BY <1>18 DEF DeleteSG
<1>19. CASE MarkLate(p) BY <1>19 DEF MarkLate
<1>20. CASE Cloud(p) BY <1>20 DEF Cloud, TakeImage, FinishUpload
<1>21. CASE Kill(p) BY <1>21 DEF Kill, Ended
<1> QED
  BY <1>1, <1>2, <1>3, <1>4, <1>5, <1>6, <1>7, <1>8, <1>9, <1>10, <1>11, <1>12,
     <1>13, <1>14, <1>15, <1>16, <1>17, <1>18, <1>19, <1>20, <1>21 DEF Step

(* A snapshot that is closed stays closed, under the name it was closed with. *)
LEMMA ClosedStays ==
    ASSUME TypeOK, NEW x \in Ids, catalog[x] = "successful", [Next]_vars
    PROVE  catalog'[x] = "successful" /\ ebid'[x] = ebid[x]
<1> USE DEF TypeOK, Prepared, hana
<1>0. CASE UNCHANGED vars
  BY <1>0 DEF vars
<1> SUFFICES ASSUME NEW p \in Procs, Step(p) \/ Cloud(p) \/ Kill(p)
             PROVE  catalog'[x] = "successful" /\ ebid'[x] = ebid[x]
  BY <1>0 DEF Next
<1>1. CASE UNCHANGED <<catalog, ebid>>
  BY <1>1
<1>2. CASE HanaCreates(p)
  BY <1>2 DEF HanaCreates
<1>3. ASSUME NEW y, HanaClosesSuccessful(y, p) \/ HanaClosesUnsuccessful(y)
      PROVE  catalog'[x] = "successful" /\ ebid'[x] = ebid[x]
  BY <1>3 DEF HanaClosesSuccessful, HanaClosesUnsuccessful
<1> QED
  BY <1>1, <1>2, <1>3, WaitForUploadGoes, DeleteISGGoes
     DEF UploadGoes, DeletionGoes, Step, Cloud, Kill, SnapshotHandler, PrepareForChangeDiskType,
         CheckAttached, FindPreparedSnapshot,
         ClosePreparedSnapshot, CreateNewHANASnapshot, ReadSnapshotID, FreezeXFS, RequestImage,
         WaitForImage, UnFreezeXFS, MakeGroupSnapshots, MarkEarly, UpdateLabels,
         DiskSnapshotFailureHandler, DeleteSG, MarkLate, TakeImage, FinishUpload

(* A confirmation that came early or late stays in the catalog. *)
LEMMA ConfirmedNext ==
    ASSUME NEW q \in Procs, TypeOK, Route(q), Confirmed(q), [Next]_vars
    PROVE  Confirmed(q)'
<1> USE DEF Confirmed, Uploading, Succeeded, Route, Group, Workflows, TypeOK, input, local, Goto,
            Fail, FailVia
<1>a. Certified(q) /\ sid'[q] = sid[q] => Certified(q)'
  BY ClosedStays DEF Certified
<1>0. CASE UNCHANGED vars
  BY <1>0, <1>a DEF vars
<1> SUFFICES ASSUME NEW p \in Procs, Step(p) \/ Cloud(p) \/ Kill(p) PROVE Confirmed(q)'
  BY <1>0 DEF Next
<1>1. CASE SnapshotHandler(p) BY <1>1, <1>a DEF SnapshotHandler
<1>2. CASE PrepareForChangeDiskType(p) BY <1>2, <1>a DEF PrepareForChangeDiskType
<1>3. CASE CheckAttached(p) BY <1>3, <1>a DEF CheckAttached
<1>4. CASE FindPreparedSnapshot(p) BY <1>4, <1>a, ZenonT(60) DEF FindPreparedSnapshot
<1>5. CASE ClosePreparedSnapshot(p) BY <1>5, <1>a DEF ClosePreparedSnapshot
<1>6. CASE CreateNewHANASnapshot(p) BY <1>6, <1>a DEF CreateNewHANASnapshot
<1>7. CASE ReadSnapshotID(p) BY <1>7, <1>a, ZenonT(60) DEF ReadSnapshotID
<1>8. CASE FreezeXFS(p) BY <1>8, <1>a DEF FreezeXFS
<1>9. CASE RequestImage(p) BY <1>9, <1>a DEF RequestImage
<1>10. CASE WaitForImage(p) BY <1>10, <1>a DEF WaitForImage
<1>11. CASE UnFreezeXFS(p) BY <1>11, <1>a, ZenonT(60) DEF UnFreezeXFS, AfterImage
<1>12. CASE MakeGroupSnapshots(p) BY <1>12, <1>a, ZenonT(60) DEF MakeGroupSnapshots
<1>13. CASE MarkEarly(p)
  <2>1. CASE HanaClosesSuccessful(sid[p], p) /\ Goto(p, "upload")
    <3>1. Certified(p)'
      BY <1>13, <2>1 DEF MarkEarly, HanaClosesSuccessful, Certified, Prepared
    <3> QED BY <1>13, <2>1, <3>1, <1>a DEF MarkEarly
  <2>2. CASE Fail(p, "mark") \/ FailVia(p, "mark", "deleteISG")
    BY <1>13, <2>2, <1>a, ZenonT(60) DEF MarkEarly
  <2> QED BY <1>13, <2>1, <2>2 DEF MarkEarly
<1>14. CASE WaitForUpload(p)
  <2>1. UploadGoes(p) BY <1>14, WaitForUploadGoes
  <2>2. /\ pc[p] = "upload" /\ sid'[q] = sid[q]
        /\ flags' = flags /\ wf' = wf
        /\ \/ \E l \in {"labels", "deleteISG", "success", "markLate"} :
                /\ Goto(p, l)
                /\ l = "markLate" => "confirm" \notin flags[p]
                /\ l = "success" => "confirm" \in flags[p] \/ wf[p] = "change"
           \/ FailVia(p, "upload", "abandon") \/ Fail(p, "upload")
    BY <2>1 DEF UploadGoes
  <2>3. CASE q # p
    BY <2>2, <2>3, <1>a
  <2>4. CASE q = p /\ "confirm" \in flags[p] /\ wf[p] # "change"
    <3>1. Certified(q)'
      BY <2>2, <2>4, <1>a
    <3> QED BY <3>1
  <2>5. CASE q = p /\ ~("confirm" \in flags[p] /\ wf[p] # "change")
    BY <2>2, <2>5
  <2> QED BY <2>3, <2>4, <2>5
<1>15. CASE UpdateLabels(p) BY <1>15, <1>a DEF UpdateLabels
<1>16. CASE DiskSnapshotFailureHandler(p) BY <1>16, <1>a DEF DiskSnapshotFailureHandler
<1>17. CASE DeleteISG(p)
  <2>1. DeletionGoes(p) BY <1>17, DeleteISGGoes
  <2>2. CASE q # p
    BY <2>1, <2>2, <1>a DEF DeletionGoes
  <2>3. CASE q = p /\ reason[p] = "" /\ "confirm" \in flags[p]
    <3>1. Certified(q)'
      BY <2>1, <2>3, <1>a DEF DeletionGoes
    <3> QED BY <3>1
  <2>4. CASE q = p /\ ~(reason[p] = "" /\ "confirm" \in flags[p])
    BY <2>1, <2>4 DEF DeletionGoes
  <2> QED BY <2>2, <2>3, <2>4
<1>18. CASE DeleteSG(p) BY <1>18, <1>a DEF DeleteSG
<1>19. CASE MarkLate(p)
  <2>1. CASE HanaClosesSuccessful(sid[p], p) /\ Goto(p, "success")
    <3>1. Certified(p)'
      BY <1>19, <2>1 DEF MarkLate, HanaClosesSuccessful, Certified, Prepared
    <3> QED BY <1>19, <2>1, <3>1, <1>a DEF MarkLate
  <2>2. CASE Fail(p, "mark") \/ FailVia(p, "mark", "deleteISG")
    BY <1>19, <2>2, <1>a DEF MarkLate
  <2> QED BY <1>19, <2>1, <2>2 DEF MarkLate
<1>20. CASE Cloud(p) BY <1>20, <1>a DEF Cloud, TakeImage, FinishUpload
<1>21. CASE Kill(p) BY <1>21, <1>a DEF Kill, Ended
<1> QED
  BY <1>1, <1>2, <1>3, <1>4, <1>5, <1>6, <1>7, <1>8, <1>9, <1>10, <1>11, <1>12,
     <1>13, <1>14, <1>15, <1>16, <1>17, <1>18, <1>19, <1>20, <1>21 DEF Step

(* Only MarkLate confirms without the early flag, after the upload and as its last
   statement. *)
LEMMA LateNext ==
    ASSUME NEW x \in Ids, TypeOK, ImageInv, \A q \in Procs : Route(q) /\ Uploaded(q),
           LateIsDurable(x), [Next]_vars
    PROVE  LateIsDurable(x)'
<1> USE DEF LateIsDurable, TypeOK, hana, input, local, cloud
<1>0. CASE UNCHANGED vars
  BY <1>0 DEF vars, Ended
<1> SUFFICES ASSUME NEW p \in Procs, Step(p) \/ Cloud(p) \/ Kill(p) PROVE LateIsDurable(x)'
  BY <1>0 DEF Next
<1>1. catalog[x] = "successful" => /\ ebid[x] \in Procs /\ img[ebid[x]] = "taken"
                                   /\ catalog'[x] = "successful" /\ ebid'[x] = ebid[x]
  BY ClosedStays DEF ImageInv, CatalogNamesImage
<1>2. flags' = flags
  BY WaitForUploadGoes, DeleteISGGoes
     DEF UploadGoes, DeletionGoes, Step, Cloud, Kill, SnapshotHandler, PrepareForChangeDiskType,
         CheckAttached,
         FindPreparedSnapshot, ClosePreparedSnapshot, CreateNewHANASnapshot, ReadSnapshotID,
         FreezeXFS,
         RequestImage, WaitForImage, UnFreezeXFS, MakeGroupSnapshots, MarkEarly, UpdateLabels,
         DiskSnapshotFailureHandler, DeleteSG, MarkLate, TakeImage, FinishUpload
(* An invocation that has ended does not change what it uploaded. *)
<1>3. ASSUME NEW q \in Procs, Ended(q), durable[q] = "yes", img[q] = "taken"
      PROVE  Ended(q)' /\ durable'[q] = "yes"
  <2> USE DEF Ended, Goto, Fail, FailVia
  <2>1. CASE p = q
    BY <1>3, <2>1, WaitForUploadGoes, DeleteISGGoes
       DEF UploadGoes, DeletionGoes, Step, Cloud, Kill, SnapshotHandler,
           PrepareForChangeDiskType, CheckAttached,
           FindPreparedSnapshot, ClosePreparedSnapshot, CreateNewHANASnapshot, ReadSnapshotID,
           FreezeXFS,
           RequestImage, WaitForImage, UnFreezeXFS, MakeGroupSnapshots, MarkEarly, UpdateLabels,
           DiskSnapshotFailureHandler, DeleteSG, MarkLate, TakeImage, FinishUpload
  <2>2. CASE p # q
    <3>1. pc'[q] = pc[q] /\ durable'[q] = durable[q]
      BY <1>3, <2>2, WaitForUploadGoes, DeleteISGGoes, ZenonT(60)
         DEF UploadGoes, DeletionGoes, Step, Cloud, Kill, SnapshotHandler,
             PrepareForChangeDiskType, CheckAttached,
             FindPreparedSnapshot, ClosePreparedSnapshot, CreateNewHANASnapshot, ReadSnapshotID,
             FreezeXFS,
             RequestImage, WaitForImage, UnFreezeXFS, AfterImage, MakeGroupSnapshots, MarkEarly,
             UpdateLabels,
             DiskSnapshotFailureHandler, DeleteSG, MarkLate, TakeImage, FinishUpload
    <3> QED BY <1>3, <3>1
  <2> QED BY <2>1, <2>2
<1>4. CASE catalog[x] = "successful"
  <2>1. PICK q \in Procs : q = ebid[x]
    BY <1>1, <1>4
  <2>2. LateIsDurable(x)' <=> ("confirm" \notin flags[q] => durable'[q] = "yes" /\ Ended(q)')
    BY <1>1, <1>2, <1>4, <2>1 DEF Ended
  <2>3. "confirm" \notin flags[q] => durable[q] = "yes" /\ Ended(q) /\ img[q] = "taken"
    BY <1>1, <1>4, <2>1
  <2> QED BY <1>3, <2>2, <2>3
<1>5. CASE catalog[x] # "successful"
  <2> USE DEF Prepared, Goto, Fail, FailVia, HanaClosesSuccessful, HanaClosesUnsuccessful,
              HanaCreates
  <2>1. CASE MarkLate(p)
    <3>1. durable'[p] = "yes"
      BY <2>1 DEF MarkLate, Uploaded, Uploading
    <3>2. pc'[p] \in {"success", "failure"}
      BY <2>1 DEF MarkLate
    <3>3. catalog'[x] = "successful" => ebid'[x] = p
      BY <1>5, <2>1 DEF MarkLate
    <3> QED BY <3>1, <3>2, <3>3 DEF Ended
  <2>2. CASE MarkEarly(p)
    BY <1>5, <2>2 DEF MarkEarly, Route
  <2>3. CASE ~MarkLate(p) /\ ~MarkEarly(p)
    <3>1. catalog'[x] # "successful"
      BY <1>5, <2>3, WaitForUploadGoes, DeleteISGGoes
         DEF UploadGoes, DeletionGoes, Step, Cloud, Kill, SnapshotHandler,
             PrepareForChangeDiskType, CheckAttached,
             FindPreparedSnapshot, ClosePreparedSnapshot, CreateNewHANASnapshot, ReadSnapshotID,
             FreezeXFS,
             RequestImage, WaitForImage, UnFreezeXFS, MakeGroupSnapshots, UpdateLabels,
             DiskSnapshotFailureHandler, DeleteSG, TakeImage, FinishUpload
    <3> QED BY <3>1
  <2> QED BY <2>1, <2>2, <2>3
<1> QED BY <1>4, <1>5

------------------------------------------------------------------------------
(* The inductive invariant behind SuccessIsRestorable. *)
SuccessInv ==
    /\ \A p \in Procs : Route(p) /\ Uploaded(p) /\ Confirmed(p)
    /\ \A x \in Ids : LateIsDurable(x)

(* The route of an invocation through its workflow, what is uploaded, what HANA
   confirmed and what is confirmed late stay as SuccessInv says in every reachable state:
   no step of the invocation, of another one or of the cloud breaks them. *)
THEOREM SuccessInvariant == Spec => []SuccessInv
<1>1. Init => SuccessInv
  BY DEF Init, SuccessInv, Route, Uploaded, Uploading, Succeeded, Confirmed, LateIsDurable
<1>2. TypeOK /\ ImageInv /\ SuccessInv /\ [Next]_vars => SuccessInv'
  <2> SUFFICES ASSUME TypeOK, ImageInv, SuccessInv, [Next]_vars PROVE SuccessInv'
    OBVIOUS
  <2>1. \A q \in Procs : Route(q) /\ Uploaded(q) /\ Confirmed(q)
    BY DEF SuccessInv
  <2>2. ASSUME NEW q \in Procs PROVE Route(q)' /\ Uploaded(q)' /\ Confirmed(q)'
    BY <2>1, RouteNext, UploadedNext, ConfirmedNext DEF ImageInv
  <2>3. ASSUME NEW x \in Ids PROVE LateIsDurable(x)'
    <3>1. LateIsDurable(x)
      BY DEF SuccessInv
    <3>2. \A q \in Procs : Route(q) /\ Uploaded(q)
      BY <2>1
    <3> QED BY <3>1, <3>2, LateNext
  <2> QED BY <2>2, <2>3 DEF SuccessInv
<1> QED BY <1>1, <1>2, TypeCorrect, ImageInvariant, PTL DEF Spec

(* A success that is reported means a snapshot HANA certifies under the name of what
   was uploaded, imaged while that HANA snapshot was prepared; and what is
   certified late is uploaded already. *)
THEOREM SuccessIsSound == Spec => []SuccessIsRestorable
<1>1. ImageInv /\ SuccessInv => SuccessIsRestorable
  <2> SUFFICES ASSUME ImageInv, SuccessInv PROVE SuccessIsRestorable
    OBVIOUS
  <2>1. \A x \in Ids : (catalog[x] = "successful" /\ "confirm" \notin flags[ebid[x]])
                         => durable[ebid[x]] = "yes"
    BY DEF SuccessInv, LateIsDurable
  <2>2. ASSUME NEW p \in Procs, Succeeded(p)
        PROVE  /\ sid[p] \in Ids /\ catalog[sid[p]] = "successful" /\ ebid[sid[p]] = p
               /\ imgHana[p] = sid[p] /\ durable[p] = "yes"
    <3>1. Certified(p) /\ durable[p] = "yes"
      BY <2>2 DEF SuccessInv, Confirmed, Uploaded
    <3> QED BY <3>1 DEF Certified, ImageInv, CatalogNamesImage
  <2> QED BY <2>1, <2>2 DEF SuccessIsRestorable, Succeeded
<1> QED BY <1>1, ImageInvariant, SuccessInvariant, PTL

(* A frozen file system always has somebody between freeze and thaw, killed there or
   refused the thaw; and who froze it alone was imaged while it was frozen. *)
THEOREM FrozenIsOwned == Spec => []FreezeHasOwner
<1>1. Init => OwnerInv /\ FrozenInv
  BY DEF Init, OwnerInv, Frozen, FrozenInv, Imaging, Imaged, AfterGoodImage
<1>2. TypeOK /\ ImageInv /\ OwnerInv /\ FrozenInv => FreezeHasOwner
  <2> SUFFICES ASSUME TypeOK, ImageInv, OwnerInv, FrozenInv PROVE FreezeHasOwner
    OBVIOUS
  <2>1. ASSUME NEW p \in Procs, pc[p] = "success", FreezesAlone(p) PROVE p \in imgFrozen
    BY <2>1 DEF FrozenInv, Imaged, AfterGoodImage, ImageInv, ImageTaken
  <2> QED BY <2>1 DEF FreezeHasOwner, FreezesAlone, OwnerInv
<1> QED BY <1>1, <1>2, OwnerNext, FrozenNext, TypeCorrect, ImageInvariant, PTL DEF Spec

------------------------------------------------------------------------------
(* The snapshot of an invocation: none before its CREATE, and none ever for a change
   of the disk type; while it is prepared, it is the one the SELECT finds. *)
EarlySteps == {"start", "stop", "attach", "findPrepared", "closePrepared", "create"}
KnowingSteps == {"freeze", "image", "waitImage", "unfreeze", "abandon"} \cup AfterGoodImage

OwnSnapshot(p) ==
    /\ pc[p] \in {"findPrepared", "closePrepared", "create", "readID"} => wf[p] # "change"
    /\ pc[p] \in EarlySteps \/ wf[p] = "change" => catalog[p] = "none"
    /\ catalog[p] = "prepared" /\ pc[p] \in KnowingSteps => sid[p] = p

(* An error after which nothing closes the snapshot any more: either it is closed, or
   the error is one of those OnlyTheseExitsLeave names. *)
LeftSnapshot(p) ==
    catalog[p] = "prepared" /\ ~SqlMayFail =>
        /\ ~(pc[p] = "deleteISG" /\ reason[p] # "") /\ pc[p] # "deleteSG"
        /\ pc[p] = "failure" =>
             \/ reason[p] = "unfreeze"
             \/ wf[p] = "sg" /\ "confirm" \notin flags[p] /\ reason[p] \in {"upload", "labels"}

(* The instant snapshot group of an invocation that deletes its own. *)
LeftGroup(p) ==
    /\ pc[p] = "abandon" => reason[p] \in {"image", "group", "upload"}
    /\ p \in isg => Group(p)
    /\ p \in isg /\ "delete" \notin faults =>
         \/ pc[p] \in {"waitImage", "unfreeze", "group", "markEarly", "upload", "labels", "abandon",
                        "deleteISG", "killed"}
         \/ /\ pc[p] = "failure"
            /\ reason[p] \in {"image", "unfreeze"} \/ (wf[p] = "sg" /\ reason[p] \in {"upload", "labels"})

(* A statement that closes, or creates, one snapshot leaves the others as they are, and
   HANA does not come back. *)
LEMMA HanaSteps ==
    ASSUME TypeOK, NEW p \in Procs, Step(p) \/ Cloud(p) \/ Kill(p)
    PROVE  /\ \/ UNCHANGED catalog
              \/ HanaCreates(p) /\ pc[p] = "create"
              \/ HanaClosesSuccessful(sid[p], p) \/ HanaClosesUnsuccessful(sid[p])
           /\ SqlMayFail => SqlMayFail'
BY WaitForUploadGoes, DeleteISGGoes
   DEF TypeOK, SqlMayFail, HanaUp, hana, local, input, HanaCreates, HanaClosesSuccessful,
       HanaClosesUnsuccessful,
       UploadGoes, DeletionGoes, Step, Cloud, Kill, SnapshotHandler, PrepareForChangeDiskType,
       CheckAttached,
       FindPreparedSnapshot, ClosePreparedSnapshot, CreateNewHANASnapshot, ReadSnapshotID,
       FreezeXFS,
       RequestImage, WaitForImage, UnFreezeXFS, MakeGroupSnapshots, MarkEarly, UpdateLabels,
       DiskSnapshotFailureHandler, DeleteSG, MarkLate, TakeImage, FinishUpload

(* Only the exits that LeftGroup names leave a group. *)
LEMMA GroupNext ==
    ASSUME NEW q \in Procs, TypeOK, Route(q), LeftGroup(q), [Next]_vars
    PROVE  LeftGroup(q)'
<1> USE DEF LeftGroup, Route, Group, Workflows, TypeOK, input, local, cloud, Goto, Fail, FailVia
<1>0. CASE UNCHANGED vars
  BY <1>0 DEF vars
<1> SUFFICES ASSUME NEW p \in Procs, Step(p) \/ Cloud(p) \/ Kill(p) PROVE LeftGroup(q)'
  BY <1>0 DEF Next
<1>1. CASE SnapshotHandler(p) BY <1>1 DEF SnapshotHandler
<1>2. CASE PrepareForChangeDiskType(p) BY <1>2 DEF PrepareForChangeDiskType
<1>3. CASE CheckAttached(p) BY <1>3 DEF CheckAttached
<1>4. CASE FindPreparedSnapshot(p) BY <1>4 DEF FindPreparedSnapshot
<1>5. CASE ClosePreparedSnapshot(p) BY <1>5 DEF ClosePreparedSnapshot
<1>6. CASE CreateNewHANASnapshot(p) BY <1>6 DEF CreateNewHANASnapshot
<1>7. CASE ReadSnapshotID(p) BY <1>7 DEF ReadSnapshotID
<1>8. CASE FreezeXFS(p) BY <1>8 DEF FreezeXFS
<1>9. CASE RequestImage(p) BY <1>9 DEF RequestImage
<1>10. CASE WaitForImage(p) BY <1>10 DEF WaitForImage
<1>11. CASE UnFreezeXFS(p) BY <1>11, ZenonT(60) DEF UnFreezeXFS, AfterImage
<1>12. CASE MakeGroupSnapshots(p) BY <1>12 DEF MakeGroupSnapshots
<1>13. CASE MarkEarly(p) BY <1>13, ZenonT(60) DEF MarkEarly
<1>14. CASE WaitForUpload(p)
  <2>1. UploadGoes(p) BY <1>14, WaitForUploadGoes
  <2> QED BY <2>1, ZenonT(60) DEF UploadGoes
<1>15. CASE UpdateLabels(p) BY <1>15 DEF UpdateLabels
<1>16. CASE DiskSnapshotFailureHandler(p) BY <1>16 DEF DiskSnapshotFailureHandler
<1>17. CASE DeleteISG(p)
  <2>1. DeletionGoes(p) BY <1>17, DeleteISGGoes
  <2> QED BY <2>1 DEF DeletionGoes
<1>18. CASE DeleteSG(p) BY <1>18 DEF DeleteSG
<1>19. CASE MarkLate(p) BY <1>19 DEF MarkLate
<1>20. CASE Cloud(p) BY <1>20 DEF Cloud, TakeImage, FinishUpload
<1>21. CASE Kill(p) BY <1>21 DEF Kill, Ended
<1> QED
  BY <1>1, <1>2, <1>3, <1>4, <1>5, <1>6, <1>7, <1>8, <1>9, <1>10, <1>11, <1>12,
     <1>13, <1>14, <1>15, <1>16, <1>17, <1>18, <1>19, <1>20, <1>21 DEF Step

(* The entry of an invocation becomes prepared by its own CREATE only. *)
LEMMA OwnEntry ==
    ASSUME TypeOK, NEW p \in Procs, Step(p) \/ Cloud(p) \/ Kill(p), NEW q \in Procs
    PROVE  /\ catalog[q] = "none" /\ ~(p = q /\ pc[p] = "create") => catalog'[q] = "none"
           /\ catalog'[q] = "prepared" => catalog[q] = "prepared" \/ (p = q /\ pc[p] = "create")
BY HanaSteps DEF TypeOK, HanaCreates, HanaClosesSuccessful, HanaClosesUnsuccessful, Prepared, Ids

(* What is prepared under the own ID is what the SELECT finds. *)
LEMMA OwnSnapshotNext ==
    ASSUME NEW q \in Procs, TypeOK, OnePrepared, OwnSnapshot(q), [Next]_vars
    PROVE  OwnSnapshot(q)'
<1> USE DEF OwnSnapshot, EarlySteps, KnowingSteps, AfterGoodImage, Group, TypeOK, input, local,
            Goto, Fail, FailVia
<1>0. CASE UNCHANGED vars
  BY <1>0 DEF vars
<1> SUFFICES ASSUME NEW p \in Procs, Step(p) \/ Cloud(p) \/ Kill(p) PROVE OwnSnapshot(q)'
  BY <1>0 DEF Next
<1>a. /\ catalog[q] = "none" /\ ~(p = q /\ pc[p] = "create") => catalog'[q] = "none"
      /\ catalog'[q] = "prepared" => catalog[q] = "prepared" \/ (p = q /\ pc[p] = "create")
  BY OwnEntry
<1>1. CASE SnapshotHandler(p) BY <1>1, <1>a DEF SnapshotHandler
<1>2. CASE PrepareForChangeDiskType(p) BY <1>2, <1>a DEF PrepareForChangeDiskType
<1>3. CASE CheckAttached(p) BY <1>3, <1>a DEF CheckAttached
<1>4. CASE FindPreparedSnapshot(p) BY <1>4, <1>a DEF FindPreparedSnapshot
<1>5. CASE ClosePreparedSnapshot(p) BY <1>5, <1>a DEF ClosePreparedSnapshot
<1>6. CASE CreateNewHANASnapshot(p) BY <1>6, <1>a DEF CreateNewHANASnapshot
<1>7. CASE ReadSnapshotID(p) BY <1>7, <1>a DEF ReadSnapshotID, Prepared, OnePrepared, hana, Ids
<1>8. CASE FreezeXFS(p) BY <1>8, <1>a DEF FreezeXFS
<1>9. CASE RequestImage(p) BY <1>9, <1>a DEF RequestImage
<1>10. CASE WaitForImage(p) BY <1>10, <1>a DEF WaitForImage
<1>11. CASE UnFreezeXFS(p) BY <1>11, <1>a DEF UnFreezeXFS, AfterImage
<1>12. CASE MakeGroupSnapshots(p) BY <1>12, <1>a DEF MakeGroupSnapshots
<1>13. CASE MarkEarly(p) BY <1>13, <1>a DEF MarkEarly
<1>14. CASE WaitForUpload(p)
  <2>1. UploadGoes(p) BY <1>14, WaitForUploadGoes
  <2> QED BY <2>1, <1>a DEF UploadGoes
<1>15. CASE UpdateLabels(p) BY <1>15, <1>a DEF UpdateLabels
<1>16. CASE DiskSnapshotFailureHandler(p) BY <1>16, <1>a DEF DiskSnapshotFailureHandler
<1>17. CASE DeleteISG(p)
  <2>1. DeletionGoes(p) BY <1>17, DeleteISGGoes
  <2> QED BY <2>1, <1>a DEF DeletionGoes
<1>18. CASE DeleteSG(p) BY <1>18, <1>a DEF DeleteSG
<1>19. CASE MarkLate(p) BY <1>19, <1>a DEF MarkLate
<1>20. CASE Cloud(p)
  <2>1. UNCHANGED <<pc, wf, sid>> /\ ~(pc[p] = "create" /\ catalog' # catalog)
    BY <1>20 DEF Cloud, TakeImage, FinishUpload, hana
  <2> QED BY <2>1, <1>a
<1>21. CASE Kill(p) BY <1>21, <1>a DEF Kill, Ended
<1> QED
  BY <1>1, <1>2, <1>3, <1>4, <1>5, <1>6, <1>7, <1>8, <1>9, <1>10, <1>11, <1>12,
     <1>13, <1>14, <1>15, <1>16, <1>17, <1>18, <1>19, <1>20, <1>21 DEF Step

(* Only the exits that LeftSnapshot names leave a prepared snapshot. *)
LEMMA LeftSnapshotNext ==
    ASSUME NEW q \in Procs, TypeOK, Route(q), Confirmed(q), OwnSnapshot(q), OwnSnapshot(q)',
           LeftSnapshot(q), [Next]_vars
    PROVE  LeftSnapshot(q)'
<1> USE DEF LeftSnapshot, Route, Group, Workflows, TypeOK, input, local, Goto, Fail, FailVia
<1>0. CASE UNCHANGED vars
  BY <1>0 DEF vars, SqlMayFail, HanaUp
<1> SUFFICES ASSUME NEW p \in Procs, Step(p) \/ Cloud(p) \/ Kill(p) PROVE LeftSnapshot(q)'
  BY <1>0 DEF Next
<1>a. /\ catalog'[q] = "prepared" => catalog[q] = "prepared" \/ (p = q /\ pc[p] = "create")
  BY OwnEntry
<1>b. SqlMayFail => SqlMayFail'
  BY HanaSteps
<1>c. /\ pc[q] \in {"upload", "labels"} /\ "confirm" \in flags[q] => catalog[q] # "prepared"
      /\ wf[q] = "change" \/ pc[q] \in EarlySteps => catalog[q] = "none"
  BY DEF OwnSnapshot, EarlySteps, KnowingSteps, AfterGoodImage, Confirmed, Certified, Uploading
<1>1. CASE SnapshotHandler(p) BY <1>1, <1>a, <1>b, <1>c DEF SnapshotHandler, EarlySteps
<1>2. CASE PrepareForChangeDiskType(p) BY <1>2, <1>a, <1>b, <1>c DEF PrepareForChangeDiskType,
    EarlySteps
<1>3. CASE CheckAttached(p) BY <1>3, <1>a, <1>b, <1>c DEF CheckAttached, EarlySteps
<1>4. CASE FindPreparedSnapshot(p) BY <1>4, <1>a, <1>b, <1>c DEF FindPreparedSnapshot, EarlySteps
<1>5. CASE ClosePreparedSnapshot(p) BY <1>5, <1>a, <1>b, <1>c DEF ClosePreparedSnapshot, EarlySteps
<1>6. CASE CreateNewHANASnapshot(p) BY <1>6, <1>a, <1>b, <1>c DEF CreateNewHANASnapshot,
    EarlySteps, SqlMayFail, HanaUp, hana
<1>7. CASE ReadSnapshotID(p) BY <1>7, <1>a, <1>b, <1>c DEF ReadSnapshotID, Prepared, Ids, hana
<1>8. CASE FreezeXFS(p) BY <1>8, <1>a, <1>b, <1>c DEF FreezeXFS
<1>9. CASE RequestImage(p) BY <1>9, <1>a, <1>b, <1>c DEF RequestImage
<1>10. CASE WaitForImage(p) BY <1>10, <1>a, <1>b, <1>c DEF WaitForImage
<1>11. CASE UnFreezeXFS(p) BY <1>11, <1>a, <1>b, <1>c DEF UnFreezeXFS, AfterImage
<1>12. CASE MakeGroupSnapshots(p) BY <1>12, <1>a, <1>b, <1>c DEF MakeGroupSnapshots
<1>13. CASE MarkEarly(p)
  <2>1. ASSUME q = p, catalog'[q] = "prepared", ~SqlMayFail PROVE Goto(p, "upload")
    <3>1. catalog[p] = "prepared" /\ pc[p] \in KnowingSteps
      BY <1>13, <2>1, <1>a, <1>b, <1>c DEF MarkEarly, KnowingSteps, AfterGoodImage
    <3>2. sid[p] = p /\ sid[p] \in Prepared
      BY <2>1, <3>1 DEF OwnSnapshot, Prepared, Ids
    <3>3. "sql" \notin faults
      BY <2>1 DEF SqlMayFail
    <3> HIDE DEF Goto, Fail, FailVia, Route, LeftSnapshot
    <3>5. ~HanaClosesUnsuccessful(sid[p])
      BY <2>1, <3>1, <3>2 DEF HanaClosesUnsuccessful, Prepared, Ids
    <3> QED BY <1>13, <2>1, <3>2, <3>3, <3>5 DEF MarkEarly
  <2> QED BY <1>13, <2>1, <1>a, <1>b, <1>c DEF MarkEarly
<1>14. CASE WaitForUpload(p)
  <2>1. UploadGoes(p) BY <1>14, WaitForUploadGoes
  <2> QED BY <2>1, <1>a, <1>b, <1>c DEF UploadGoes
<1>15. CASE UpdateLabels(p) BY <1>15, <1>a, <1>b, <1>c DEF UpdateLabels
<1>16. CASE DiskSnapshotFailureHandler(p)
  <2>1. ASSUME q = p, catalog'[q] = "prepared", ~SqlMayFail PROVE FALSE
    <3>1. catalog[p] = "prepared" /\ pc[p] \in KnowingSteps
      BY <1>16, <2>1, <1>a, <1>b, <1>c DEF DiskSnapshotFailureHandler, KnowingSteps, AfterGoodImage
    <3>2. sid[p] = p /\ sid[p] \in Prepared
      BY <2>1, <3>1 DEF OwnSnapshot, Prepared, Ids
    <3>3. "sql" \notin faults
      BY <2>1 DEF SqlMayFail
    <3> HIDE DEF Goto, Fail, FailVia, Route, LeftSnapshot
    <3>5. ~HanaClosesUnsuccessful(sid[p])
      BY <2>1, <3>1, <3>2 DEF HanaClosesUnsuccessful, Prepared, Ids
    <3> QED BY <1>16, <2>1, <3>2, <3>3, <3>5 DEF DiskSnapshotFailureHandler
  <2> QED BY <1>16, <2>1, <1>a, <1>b, <1>c DEF DiskSnapshotFailureHandler
<1>17. CASE DeleteISG(p)
  <2>1. DeletionGoes(p) BY <1>17, DeleteISGGoes
  <2> QED BY <2>1, <1>a, <1>b, <1>c DEF DeletionGoes
<1>18. CASE DeleteSG(p) BY <1>18, <1>a, <1>b, <1>c DEF DeleteSG
<1>19. CASE MarkLate(p)
  <2>1. ASSUME q = p, catalog'[q] = "prepared", ~SqlMayFail PROVE Goto(p, "success")
    <3>1. catalog[p] = "prepared" /\ pc[p] \in KnowingSteps
      BY <1>19, <2>1, <1>a, <1>b, <1>c DEF MarkLate, KnowingSteps, AfterGoodImage
    <3>2. sid[p] = p /\ sid[p] \in Prepared
      BY <2>1, <3>1 DEF OwnSnapshot, Prepared, Ids
    <3>3. "sql" \notin faults
      BY <2>1 DEF SqlMayFail
    <3> HIDE DEF Goto, Fail, FailVia, Route, LeftSnapshot
    <3>5. ~HanaClosesUnsuccessful(sid[p])
      BY <2>1, <3>1, <3>2 DEF HanaClosesUnsuccessful, Prepared, Ids
    <3> QED BY <1>19, <2>1, <3>2, <3>3, <3>5 DEF MarkLate
  <2> QED BY <1>19, <2>1, <1>a, <1>b, <1>c DEF MarkLate
<1>20. CASE Cloud(p) BY <1>20, <1>a, <1>b, <1>c DEF Cloud, TakeImage, FinishUpload
<1>21. CASE Kill(p) BY <1>21, <1>a, <1>b, <1>c DEF Kill, Ended
<1> QED
  BY <1>1, <1>2, <1>3, <1>4, <1>5, <1>6, <1>7, <1>8, <1>9, <1>10, <1>11, <1>12,
     <1>13, <1>14, <1>15, <1>16, <1>17, <1>18, <1>19, <1>20, <1>21 DEF Step

(* The inductive invariant behind OnlyTheseExitsLeave. *)
ExitInv == \A p \in Procs : OwnSnapshot(p) /\ LeftSnapshot(p) /\ LeftGroup(p)

(* Of the exits, a success closes its snapshot and has no group left; the errors that
   leave something are those of the early returns and of failing SQL statements. *)
THEOREM ExitsAreKnown == Spec => []OnlyTheseExitsLeave
<1>1. Init => ExitInv
  <2> SUFFICES ASSUME Init, NEW q \in Procs
               PROVE  OwnSnapshot(q) /\ LeftSnapshot(q) /\ LeftGroup(q)
    BY DEF ExitInv
  <2>1. catalog[q] = "none"
    BY ConstantsAssumption DEF Init, Ids
  <2>2. pc[q] = "start" /\ isg = {}
    BY DEF Init
  <2> QED BY <2>1, <2>2 DEF OwnSnapshot, LeftSnapshot, LeftGroup, KnowingSteps, AfterGoodImage
<1>2. TypeOK /\ ImageInv /\ SuccessInv /\ ExitInv /\ [Next]_vars => ExitInv'
  <2> SUFFICES ASSUME TypeOK, ImageInv, SuccessInv, ExitInv, [Next]_vars,
                      NEW q \in Procs
               PROVE  OwnSnapshot(q)' /\ LeftSnapshot(q)' /\ LeftGroup(q)'
    BY DEF ExitInv
  <2>1. /\ OwnSnapshot(q) /\ LeftSnapshot(q) /\ LeftGroup(q)
        /\ Route(q) /\ Confirmed(q) /\ OnePrepared
    BY DEF ExitInv, SuccessInv, ImageInv
  <2>2. OwnSnapshot(q)'
    BY <2>1, OwnSnapshotNext
  <2>3. LeftSnapshot(q)'
    BY <2>1, <2>2, LeftSnapshotNext
  <2>4. LeftGroup(q)'
    BY <2>1, GroupNext
  <2> QED BY <2>2, <2>3, <2>4
<1>3. SuccessInv /\ ExitInv => OnlyTheseExitsLeave
  <2> SUFFICES ASSUME SuccessInv, ExitInv, NEW p \in Procs, Ended(p)
               PROVE  /\ catalog[p] = "prepared" =>
                            \/ SqlMayFail
                            \/ pc[p] = "killed"
                            \/ reason[p] = "unfreeze"
                            \/ /\ wf[p] = "sg" /\ "confirm" \notin flags[p]
                               /\ reason[p] \in {"upload", "labels"}
                      /\ p \in isg /\ "delete" \notin faults =>
                            \/ pc[p] = "killed"
                            \/ reason[p] \in {"image", "unfreeze"}
                            \/ wf[p] = "sg" /\ reason[p] \in {"upload", "labels"}
    BY DEF OnlyTheseExitsLeave
  <2>1. OwnSnapshot(p) /\ LeftSnapshot(p) /\ LeftGroup(p) /\ Confirmed(p)
    BY DEF ExitInv, SuccessInv
  <2>2. pc[p] = "success" => catalog[p] # "prepared"
    BY <2>1 DEF OwnSnapshot, Confirmed, Certified, Succeeded, KnowingSteps, AfterGoodImage
  <2> QED BY <2>1, <2>2 DEF LeftSnapshot, LeftGroup, Ended
<1> QED
  BY <1>1, <1>2, <1>3, TypeCorrect, ImageInvariant, SuccessInvariant, PTL DEF Spec
=================================================================================

------------------------------ MODULE DiskBackup ------------------------------
(***************************************************************************)
(* hanadiskbackup: invocations of the one-time command that back up the    *)
(* SAP HANA data volume with Compute Engine disk snapshots                 *)
(* (internal/onetime/hanadiskbackup).  Several invocations may run on one  *)
(* host at a time: nothing in the command excludes it.                     *)
(*                                                                         *)
(* Shared by the invocations: the HANA backup catalog, the frozen state of *)
(* the data file system, whether HANA runs.  Owned by one invocation: its  *)
(* flags, its control state, the ID it read from the catalog, and the disk *)
(* image, instant snapshot group (ISG) and snapshot group (SG) it asked    *)
(* Compute Engine for.                                                     *)
(*                                                                         *)
(* A call to HANA, Compute Engine or xfs_freeze may fail, and may fail     *)
(* after it took effect (the answer is lost, the query times out).  A      *)
(* scenario says which workflows and flags are used and which classes of   *)
(* calls may fail, so that a property can say what holds when some do not. *)
(***************************************************************************)
EXTENDS Naturals, FiniteSets

CONSTANTS
    Procs,      \* the invocations; each is also the ID of the HANA snapshot
                \* it creates and the name of the disk snapshot it creates
    Prior,      \* the ID of a snapshot HANA held before any invocation
    None,       \* no snapshot ID
    Scenarios   \* records of the workflows, sets of flags and classes of
                \* failing calls that invocations may meet together

Workflows == {"disk", "sg", "isg", "change"}
FlagSets == SUBSET {"freeze", "abandon", "confirm"}
FaultSets == SUBSET {"check", "sql", "freeze", "unfreeze", "image", "group",
                     "upload", "labels", "delete", "stop", "kill"}

ASSUME ConstantsAssumption ==
    /\ Prior \notin Procs
    /\ None \notin Procs \cup {Prior}
    /\ \A sc \in Scenarios : /\ sc.workflows \subseteq Workflows
                             /\ sc.flagSets \subseteq FlagSets
                             /\ sc.faults \in FaultSets

Ids == Procs \cup {Prior}

VARIABLES
    wf,         \* the workflow each invocation runs
    flags,      \* its flags that are true: -freeze-file-system,
                \* -abandon-prepared, -confirm-data-snapshot-after-create
    faults,     \* the classes of calls that may fail
    pc,         \* where each invocation is
    reason,     \* the error an invocation is returning, "" while there is none
    sid,        \* snapshotID, a local of the workflow
    snapErr,    \* the invocations whose createDiskSnapshot or
                \* createInstantSnapshotGroup returned an error
    catalog,    \* M_BACKUP_CATALOG: the state of each HANA snapshot
    ebid,       \* the disk snapshot named in a SUCCESSFUL catalog entry
    db,         \* "up" while HANA answers SQL
    fs,         \* the data file system, "frozen" or "thawed"
    img,        \* the point-in-time image of the data disk(s)
    imgHana,    \* the HANA snapshot that was prepared when the image was taken
    imgFrozen,  \* the invocations whose image was taken of a frozen file system
    isg,        \* the invocations whose instant snapshot group exists
    durable     \* the snapshot(s) made from the image: uploaded or not

cloud == <<img, imgHana, imgFrozen, isg, durable>>
hana  == <<catalog, ebid, db>>
input == <<wf, flags, faults>>
local == <<input, sid, snapErr>>
vars  == <<wf, flags, faults, pc, reason, sid, snapErr, catalog, ebid, db, fs,
           img, imgHana, imgFrozen, isg, durable>>

Labels == {"start", "stop", "attach", "findPrepared", "closePrepared", "create",
           "readID", "freeze", "image", "waitImage", "unfreeze", "group",
           "markEarly", "upload", "labels", "abandon", "deleteISG", "deleteSG",
           "markLate", "success", "failure", "killed"}

Reasons == {"", "check", "stop", "sql", "prepared", "create", "readID",
            "unfreeze", "image", "group", "mark", "upload", "labels"}

(* The type invariant. *)
TypeOK ==
    /\ wf \in [Procs -> Workflows]
    /\ flags \in [Procs -> FlagSets]
    /\ faults \in FaultSets
    /\ pc \in [Procs -> Labels]
    /\ reason \in [Procs -> Reasons]
    /\ sid \in [Procs -> Ids \cup {None}]
    /\ snapErr \subseteq Procs
    /\ catalog \in [Ids -> {"none", "prepared", "successful", "unsuccessful"}]
    /\ ebid \in [Ids -> Procs \cup {None}]
    /\ db \in {"up", "down"}
    /\ fs \in {"thawed", "frozen"}
    /\ img \in [Procs -> {"none", "requested", "taken"}]
    /\ imgHana \in [Procs -> Ids \cup {None}]
    /\ imgFrozen \subseteq Procs
    /\ isg \subseteq Procs
    /\ durable \in [Procs -> {"no", "pending", "yes"}]

Init ==
    /\ \E sc \in Scenarios : /\ wf \in [Procs -> sc.workflows]
                             /\ flags \in [Procs -> sc.flagSets]
                             /\ faults = sc.faults
    /\ pc = [p \in Procs |-> "start"]
    /\ reason = [p \in Procs |-> ""]
    /\ sid = [p \in Procs |-> None]
    /\ snapErr = {}
    /\ \E s \in {"none", "prepared"} :
          catalog = [x \in Ids |-> IF x = Prior THEN s ELSE "none"]
    /\ ebid = [x \in Ids |-> None]
    /\ db = "up"
    /\ fs = "thawed"
    /\ img = [p \in Procs |-> "none"]
    /\ imgHana = [p \in Procs |-> None]
    /\ imgFrozen = {}
    /\ isg = {}
    /\ durable = [p \in Procs |-> "no"]

------------------------------------------------------------------------------
(* Control of one invocation. *)

Goto(p, label) == pc' = [pc EXCEPT ![p] = label] /\ UNCHANGED reason

(* return err *)
Fail(p, r) == /\ pc' = [pc EXCEPT ![p] = "failure"]
              /\ reason' = [reason EXCEPT ![p] = r]

(* The error is remembered while the clean-up steps that start at label run. *)
FailVia(p, r, label) == /\ pc' = [pc EXCEPT ![p] = label]
                        /\ reason' = [reason EXCEPT ![p] = r]

HanaUp == db = "up"
Frozen == fs = "frozen"

Group(p) == wf[p] \in {"sg", "isg"}

------------------------------------------------------------------------------
(* HANA, as the command uses it.  At most one data snapshot is prepared at a
   time: CREATE SNAPSHOT is refused while one is.  A snapshot can be closed
   only while it is prepared, and a closed one stays closed. *)

Prepared == {x \in Ids : catalog[x] = "prepared"}

(* CREATE SNAPSHOT took effect. *)
HanaCreates(p) ==
    /\ HanaUp /\ Prepared = {} /\ catalog[p] = "none"
    /\ catalog' = [catalog EXCEPT ![p] = "prepared"]
    /\ UNCHANGED <<ebid, db>>

(* CLOSE SNAPSHOT BACKUP_ID x SUCCESSFUL '<name of p>' took effect. *)
HanaClosesSuccessful(x, p) ==
    /\ HanaUp /\ x \in Prepared
    /\ catalog' = [catalog EXCEPT ![x] = "successful"]
    /\ ebid' = [ebid EXCEPT ![x] = p]
    /\ UNCHANGED db

(* CLOSE SNAPSHOT BACKUP_ID x UNSUCCESSFUL took effect. *)
HanaClosesUnsuccessful(x) ==
    /\ HanaUp /\ x \in Prepared
    /\ catalog' = [catalog EXCEPT ![x] = "unsuccessful"]
    /\ UNCHANGED <<ebid, db>>

(* A statement may be refused: by a fault, by HANA being down, or because the
   snapshot it names is not prepared. *)
SqlMayFail == "sql" \in faults \/ ~HanaUp

------------------------------------------------------------------------------
(* snapshotHandler up to the choice of the workflow: parameters, services, data
   directory, disks, group name, database connection.  It changes nothing. *)
SnapshotHandler(p) ==
    /\ pc[p] = "start"
    /\ \/ Goto(p, IF wf[p] = "change" THEN "stop" ELSE "attach")
       \/ "check" \in faults /\ Fail(p, "check")
    /\ UNCHANGED <<local, hana, fs, cloud>>

(* prepareForChangeDiskTypeWorkflow: stop HANA and wait for the index server. *)
PrepareForChangeDiskType(p) ==
    /\ pc[p] = "stop"
    /\ \/ db' = "down" /\ Goto(p, "attach")
       \/ /\ "stop" \in faults
          /\ db' \in {db, "down"}
          /\ Fail(p, "stop")
    /\ UNCHANGED <<local, catalog, ebid, fs, cloud>>

(* isDiskAttachedToInstance, for the disk or for each of s.disks. *)
CheckAttached(p) ==
    /\ pc[p] = "attach"
    /\ \/ Goto(p, IF wf[p] = "change" THEN "freeze" ELSE "findPrepared")
       \/ "check" \in faults /\ Fail(p, "check")
    /\ UNCHANGED <<local, hana, fs, cloud>>

(* abandonPreparedSnapshot, the SELECT and what it decides. *)
FindPreparedSnapshot(p) ==
    /\ pc[p] = "findPrepared"
    /\ \/ SqlMayFail /\ Fail(p, "sql") /\ UNCHANGED sid
       \/ HanaUp /\ Prepared = {} /\ Goto(p, "create") /\ UNCHANGED sid
       \/ /\ HanaUp /\ Prepared # {} /\ "abandon" \notin flags[p]
          /\ Fail(p, "prepared")
          /\ UNCHANGED sid
       \/ /\ HanaUp /\ "abandon" \in flags[p]
          /\ \E x \in Prepared : sid' = [sid EXCEPT ![p] = x]
          /\ Goto(p, "closePrepared")
    /\ UNCHANGED <<input, snapErr, hana, fs, cloud>>

(* abandonPreparedSnapshot, the CLOSE of the snapshot it found.  The ID is a
   local of that function and is gone when it returns. *)
ClosePreparedSnapshot(p) ==
    /\ pc[p] = "closePrepared"
    /\ \/ HanaClosesUnsuccessful(sid[p]) /\ Goto(p, "create")
       \/ /\ "sql" \in faults
          /\ HanaClosesUnsuccessful(sid[p])
          /\ Fail(p, "sql")
       \/ /\ SqlMayFail \/ sid[p] \notin Prepared
          /\ Fail(p, "sql")
          /\ UNCHANGED hana
    /\ sid' = [sid EXCEPT ![p] = None]
    /\ UNCHANGED <<input, snapErr, fs, cloud>>

(* createNewHANASnapshot, the CREATE. *)
CreateNewHANASnapshot(p) ==
    /\ pc[p] = "create"
    /\ \/ HanaCreates(p) /\ Goto(p, "readID")
       \/ "sql" \in faults /\ HanaCreates(p) /\ Fail(p, "create")
       \/ /\ SqlMayFail \/ Prepared # {}
          /\ Fail(p, "sql")
          /\ UNCHANGED hana
    /\ UNCHANGED <<local, fs, cloud>>

(* Mutant: keeps the result set of the SELECT instead of the ID in its row. *)
ReadSnapshotIDKeepsRows(p) ==
    /\ pc[p] = "readID"
    /\ \/ /\ SqlMayFail \/ Prepared = {}
          /\ Fail(p, "readID")
          /\ UNCHANGED sid
       \/ /\ HanaUp
          /\ sid' = [sid EXCEPT ![p] = Prepared]
          /\ Goto(p, "freeze")
    /\ UNCHANGED <<input, snapErr, hana, fs, cloud>>

(* createNewHANASnapshot, the SELECT of the ID: whatever is prepared now. *)
ReadSnapshotID(p) ==
    /\ pc[p] = "readID"
    /\ \/ /\ SqlMayFail \/ Prepared = {}
          /\ Fail(p, "readID")
          /\ UNCHANGED sid
       \/ /\ HanaUp
          /\ \E x \in Prepared : sid' = [sid EXCEPT ![p] = x]
          /\ Goto(p, "freeze")
    /\ UNCHANGED <<input, snapErr, hana, fs, cloud>>

------------------------------------------------------------------------------
(* createDiskSnapshot / createInstantSnapshotGroup up to and including the
   freeze: labels, zone and key file may be refused before it.  xfs_freeze
   refuses a file system that is frozen. *)
FreezeXFS(p) ==
    /\ pc[p] = "freeze"
    /\ \/ /\ "freeze" \in flags[p] /\ ~Frozen
          /\ fs' = "frozen"
          /\ Goto(p, "image")
          /\ UNCHANGED snapErr
       \/ /\ "freeze" \notin flags[p]
          /\ Goto(p, "image")
          /\ UNCHANGED <<fs, snapErr>>
       \/ /\ "image" \in faults \/ ("freeze" \in flags[p] /\ (Frozen \/ "freeze" \in faults))
          /\ snapErr' = snapErr \cup {p}
          /\ Goto(p, "unfreeze")
          /\ UNCHANGED fs
    /\ UNCHANGED <<input, sid, hana, cloud>>

(* createSnapshot(...).Do() or CreateISG. *)
RequestImage(p) ==
    /\ pc[p] = "image"
    /\ \/ /\ img' = [img EXCEPT ![p] = "requested"]
          /\ isg' = IF Group(p) THEN isg \cup {p} ELSE isg
          /\ Goto(p, "waitImage")
          /\ UNCHANGED snapErr
       \/ /\ "image" \in faults
          /\ \/ /\ img' = [img EXCEPT ![p] = "requested"]
                /\ isg' = IF Group(p) THEN isg \cup {p} ELSE isg
             \/ UNCHANGED <<img, isg>>
          /\ snapErr' = snapErr \cup {p}
          /\ Goto(p, "unfreeze")
    /\ UNCHANGED <<input, sid, hana, fs, imgHana, imgFrozen, durable>>

(* Compute Engine takes the image, at some moment after the request. *)
TakeImage(p) ==
    /\ img[p] = "requested"
    /\ img' = [img EXCEPT ![p] = "taken"]
    /\ \/ Prepared = {} /\ imgHana' = [imgHana EXCEPT ![p] = None]
       \/ \E x \in Prepared : imgHana' = [imgHana EXCEPT ![p] = x]
    /\ imgFrozen' = IF Frozen THEN imgFrozen \cup {p} ELSE imgFrozen
    /\ durable' = [durable EXCEPT ![p] = IF Group(p) THEN "no" ELSE "pending"]
    /\ UNCHANGED <<local, pc, reason, hana, fs, isg>>

(* Mutant: the creation is not waited for. *)
WaitForImageSkipped(p) ==
    /\ pc[p] = "waitImage"
    /\ Goto(p, "unfreeze")
    /\ UNCHANGED <<local, hana, fs, cloud>>

(* WaitForSnapshotCreationCompletionWithRetry or
   WaitForISGUploadCompletionWithRetry: bounded retries. *)
WaitForImage(p) ==
    /\ pc[p] = "waitImage"
    /\ Goto(p, "unfreeze")
    /\ \/ img[p] = "taken" /\ UNCHANGED snapErr
       \/ "image" \in faults /\ snapErr' = snapErr \cup {p}
    /\ UNCHANGED <<input, sid, hana, fs, cloud>>

(* Mutants: the error of the image is dropped; the snapshot is confirmed before
   the upload whatever the flag says; the error returns without abandoning. *)
AfterImageIgnoresError(p) ==
    Goto(p, IF Group(p) THEN "group"
            ELSE IF wf[p] = "disk" /\ "confirm" \in flags[p] THEN "markEarly"
            ELSE "upload")

AfterImageConfirms(p) ==
    \/ p \in snapErr /\ FailVia(p, "image", "abandon")
    \/ p \notin snapErr /\ Goto(p, IF Group(p) THEN "group" ELSE "markEarly")

AfterImageLeavesPrepared(p) ==
    \/ p \in snapErr /\ Fail(p, "image")
    \/ p \notin snapErr /\ Goto(p, IF Group(p) THEN "group" ELSE "upload")

(* What follows the image: the error path, or the next step of the workflow. *)
AfterImage(p) ==
    \/ /\ p \in snapErr
       /\ IF wf[p] = "change" THEN Fail(p, "image")
                                   ELSE FailVia(p, "image", "abandon")
    \/ /\ p \notin snapErr
       /\ Goto(p, IF Group(p) THEN "group"
                  ELSE IF wf[p] = "disk" /\ "confirm" \in flags[p] THEN "markEarly"
                  ELSE "upload")

(* Mutant: the error of the image returns before the file system is thawed. *)
UnFreezeXFSAfterErrorCheck(p) ==
    /\ pc[p] = "unfreeze"
    /\ \/ ("freeze" \notin flags[p] \/ p \in snapErr) /\ AfterImage(p) /\ UNCHANGED fs
       \/ "freeze" \in flags[p] /\ p \notin snapErr /\ fs' = "thawed" /\ AfterImage(p)
    /\ UNCHANGED <<local, hana, cloud>>

(* UnFreezeXFS is called whenever the flag is set, also when the freeze did not
   happen; if it fails the workflow returns at once. *)
UnFreezeXFS(p) ==
    /\ pc[p] = "unfreeze"
    /\ \/ "freeze" \notin flags[p] /\ AfterImage(p) /\ UNCHANGED fs
       \/ "freeze" \in flags[p] /\ fs' = "thawed" /\ AfterImage(p)
       \/ /\ "freeze" \in flags[p]
          /\ "unfreeze" \in faults \/ ~Frozen
          /\ Fail(p, "unfreeze")
          /\ UNCHANGED fs
    /\ UNCHANGED <<local, hana, cloud>>

------------------------------------------------------------------------------
(* createSnapshotGroupFromISG (create, wait until it is ready) or
   convertISGInstantSnapshots (one snapshot per disk, errors collected). *)
MakeGroupSnapshots(p) ==
    /\ pc[p] = "group"
    /\ \/ /\ durable' = [durable EXCEPT ![p] = "pending"]
          /\ Goto(p, IF "confirm" \in flags[p] THEN "markEarly" ELSE "upload")
       \/ /\ "group" \in faults
          /\ \/ durable' = [durable EXCEPT ![p] = "pending"]
             \/ UNCHANGED durable
          /\ FailVia(p, "group", "abandon")
    /\ UNCHANGED <<local, hana, fs, img, imgHana, imgFrozen, isg>>

(* markSnapshotAsSuccessful before the upload (-confirm-data-snapshot-after-
   create); a group workflow deletes what it made when this fails. *)
MarkEarly(p) ==
    /\ pc[p] = "markEarly"
    /\ \/ HanaClosesSuccessful(sid[p], p) /\ Goto(p, "upload")
       \/ /\ \/ "sql" \in faults /\ HanaClosesSuccessful(sid[p], p)
             \/ (SqlMayFail \/ sid[p] \notin Prepared) /\ UNCHANGED hana
          /\ IF Group(p) THEN FailVia(p, "mark", "deleteISG") ELSE Fail(p, "mark")
    /\ UNCHANGED <<local, fs, cloud>>

(* Compute Engine finishes the upload of what was made from the image. *)
FinishUpload(p) ==
    /\ durable[p] = "pending"
    /\ durable' = [durable EXCEPT ![p] = "yes"]
    /\ UNCHANGED <<local, pc, reason, hana, fs, img, imgHana, imgFrozen, isg>>

(* WaitForSnapshotUploadCompletionWithRetry, WaitForSGUploadCompletionWithRetry,
   or the conversion waits of each disk. *)
WaitForUpload(p) ==
    /\ pc[p] = "upload"
    /\ \/ /\ durable[p] = "yes"
          /\ Goto(p, CASE wf[p] = "sg" -> "labels"
                       [] wf[p] = "isg" -> "deleteISG"
                       [] wf[p] = "change" -> "success"
                       [] OTHER -> IF "confirm" \in flags[p] THEN "success" ELSE "markLate")
       \/ /\ "upload" \in faults
          /\ IF wf[p] \in {"disk", "isg"} THEN FailVia(p, "upload", "abandon")
                                               ELSE Fail(p, "upload")
    /\ UNCHANGED <<local, hana, fs, cloud>>

(* updateLabelsForSnapshotGroup *)
UpdateLabels(p) ==
    /\ pc[p] = "labels"
    /\ \/ Goto(p, "deleteISG")
       \/ "labels" \in faults /\ Fail(p, "labels")
    /\ UNCHANGED <<local, hana, fs, cloud>>

(* diskSnapshotFailureHandler: an error of the CLOSE is only logged. *)
DiskSnapshotFailureHandler(p) ==
    /\ pc[p] = "abandon"
    /\ \/ HanaClosesUnsuccessful(sid[p])
       \/ (SqlMayFail \/ sid[p] \notin Prepared) /\ UNCHANGED hana
    /\ Goto(p, IF Group(p) /\ reason[p] \in {"group", "upload"} THEN "deleteISG"
                                                                ELSE "failure")
    /\ UNCHANGED <<local, fs, cloud>>

(* DeleteISG, on success and in two clean-ups: an error is only logged. *)
DeleteISG(p) ==
    /\ pc[p] = "deleteISG"
    /\ \/ isg' = isg \ {p}
       \/ "delete" \in faults /\ UNCHANGED isg
    /\ Goto(p, CASE reason[p] = "" -> IF "confirm" \in flags[p] THEN "success" ELSE "markLate"
                 [] reason[p] = "mark" /\ wf[p] = "sg" -> "deleteSG"
                 [] OTHER -> "failure")
    /\ UNCHANGED <<local, hana, fs, img, imgHana, imgFrozen, durable>>

(* DeleteSG, when the early confirmation failed. *)
DeleteSG(p) ==
    /\ pc[p] = "deleteSG"
    /\ \/ durable' = [durable EXCEPT ![p] = "no"]
       \/ "delete" \in faults /\ UNCHANGED durable
    /\ Goto(p, "failure")
    /\ UNCHANGED <<local, hana, fs, img, imgHana, imgFrozen, isg>>

(* Mutant: the error of the CLOSE is only logged. *)
MarkLateLogsError(p) ==
    /\ pc[p] = "markLate"
    /\ \/ HanaClosesSuccessful(sid[p], p)
       \/ (SqlMayFail \/ sid[p] \notin Prepared) /\ UNCHANGED hana
    /\ Goto(p, "success")
    /\ UNCHANGED <<local, fs, cloud>>

(* markSnapshotAsSuccessful after the upload. *)
MarkLate(p) ==
    /\ pc[p] = "markLate"
    /\ \/ HanaClosesSuccessful(sid[p], p) /\ Goto(p, "success")
       \/ /\ \/ "sql" \in faults /\ HanaClosesSuccessful(sid[p], p)
             \/ (SqlMayFail \/ sid[p] \notin Prepared) /\ UNCHANGED hana
          /\ Fail(p, "mark")
    /\ UNCHANGED <<local, fs, cloud>>

Ended(p) == pc[p] \in {"success", "failure", "killed"}

(* The process is killed, or the host goes down, between two steps. *)
Kill(p) ==
    /\ "kill" \in faults
    /\ ~Ended(p)
    /\ Goto(p, "killed")
    /\ UNCHANGED <<local, hana, fs, cloud>>

Step(p) ==
    \/ SnapshotHandler(p) \/ PrepareForChangeDiskType(p) \/ CheckAttached(p)
    \/ FindPreparedSnapshot(p) \/ ClosePreparedSnapshot(p)
    \/ CreateNewHANASnapshot(p) \/ ReadSnapshotID(p)
    \/ FreezeXFS(p) \/ RequestImage(p) \/ WaitForImage(p) \/ UnFreezeXFS(p)
    \/ MakeGroupSnapshots(p) \/ MarkEarly(p) \/ WaitForUpload(p) \/ UpdateLabels(p)
    \/ DiskSnapshotFailureHandler(p) \/ DeleteISG(p) \/ DeleteSG(p) \/ MarkLate(p)

Cloud(p) == TakeImage(p) \/ FinishUpload(p)

Next == \E p \in Procs : Step(p) \/ Cloud(p) \/ Kill(p)

Spec == Init /\ [][Next]_vars

(* Every step is one bounded call (each wait gives up after its retries), and
   Compute Engine finishes what it accepted. *)
FairSpec == Spec /\ \A p \in Procs : WF_vars(Step(p)) /\ WF_vars(Cloud(p))
------------------------------------------------------------------------------
(* Properties. *)

(* A SUCCESSFUL entry of the HANA catalog names (as its external backup ID) a
   disk image that was taken while exactly that HANA snapshot was prepared:
   markSnapshotAsSuccessful never certifies an image of another moment, however
   invocations abandon and re-create each other's snapshots between the SELECT
   of the ID, the image and the CLOSE. *)
CatalogNamesImage ==
    \A x \in Ids : catalog[x] = "successful" =>
        /\ ebid[x] \in Procs
        /\ img[ebid[x]] = "taken"
        /\ imgHana[ebid[x]] = x

(* Without -confirm-data-snapshot-after-create the catalog never calls a
   snapshot SUCCESSFUL before the disk snapshots it names are uploaded; and when a
   backup reports success, the catalog holds its HANA snapshot as SUCCESSFUL under
   its own name, the image holds that snapshot, and the upload is complete. *)
SuccessIsRestorable ==
    /\ \A x \in Ids : (catalog[x] = "successful" /\ "confirm" \notin flags[ebid[x]])
                         => durable[ebid[x]] = "yes"
    /\ \A p \in Procs : (pc[p] = "success" /\ wf[p] # "change") =>
         /\ sid[p] \in Ids
         /\ catalog[sid[p]] = "successful"
         /\ ebid[sid[p]] = p
         /\ imgHana[p] = sid[p]
         /\ durable[p] = "yes"

(* Whenever the data file system is frozen, some invocation is between its
   freeze and its unfreeze, was killed, or returned the error of UnFreezeXFS:
   no other path leaves HANA without a writable data volume. A successful backup
   with -freeze-file-system was imaged while it was frozen, as long as no other
   invocation used the flag (the unfreeze of another one, even of one whose own
   freeze failed, thaws it early). *)
FreezeHasOwner ==
    /\ Frozen => \E p \in Procs :
         /\ "freeze" \in flags[p]
         /\ pc[p] \in {"image", "waitImage", "unfreeze", "killed"} \/ reason[p] = "unfreeze"
    /\ \A p \in Procs :
         (/\ pc[p] = "success" /\ "freeze" \in flags[p]
          /\ \A q \in Procs \ {p} : "freeze" \notin flags[q]) => p \in imgFrozen

(* The only exits that leave something behind. The HANA snapshot of an
   invocation stays prepared (so that the next backup is refused) after a failing
   SQL statement, a kill, the early return on an UnFreezeXFS error, and the upload
   and label errors of the snapshot group workflow when it was to confirm late;
   an instant snapshot group stays, when every DeleteISG that is issued works,
   after a failed creation, that early return, and those upload and label errors. *)
OnlyTheseExitsLeave ==
    \A p \in Procs : Ended(p) =>
        /\ catalog[p] = "prepared" =>
              \/ SqlMayFail
              \/ pc[p] = "killed"
              \/ reason[p] = "unfreeze"
              \/ wf[p] = "sg" /\ "confirm" \notin flags[p] /\ reason[p] \in {"upload", "labels"}
        /\ p \in isg /\ "delete" \notin faults =>
              \/ pc[p] = "killed"
              \/ reason[p] \in {"image", "unfreeze"}
              \/ wf[p] = "sg" /\ reason[p] \in {"upload", "labels"}

(* A frozen file system is thawed again, unless invocations are killed or
   xfs_freeze -u fails. *)
ThawedEventually == (Frozen /\ faults \cap {"kill", "unfreeze"} = {}) ~> ~Frozen

------------------------------------------------------------------------------
(* The parts of the inductive invariant behind CatalogNamesImage. *)

BeforeImage == {"start", "stop", "attach", "findPrepared", "closePrepared",
                "create", "readID", "freeze", "image"}

AfterGoodImage == {"group", "markEarly", "upload", "labels", "deleteISG",
                   "deleteSG", "markLate", "success"}

OnePrepared ==
    \A x, y \in Ids : (catalog[x] = "prepared" /\ catalog[y] = "prepared") => x = y

NoImageYet == \A p \in Procs : pc[p] \in BeforeImage => img[p] = "none"

ImageTaken ==
    \A p \in Procs :
        \/ pc[p] \in AfterGoodImage
        \/ pc[p] = "unfreeze" /\ p \notin snapErr
        \/ pc[p] = "abandon" /\ reason[p] # "image"
        => img[p] = "taken"

KnownSnapshot == \A p \in Procs : sid[p] \in Ids => catalog[sid[p]] # "none"

ImageOfKnown ==
    \A p \in Procs :
        (sid[p] \in Ids /\ img[p] = "taken" /\ catalog[sid[p]] = "prepared")
            => imgHana[p] = sid[p]

ImageInv == /\ OnePrepared
            /\ NoImageYet
            /\ ImageTaken
            /\ KnownSnapshot
            /\ ImageOfKnown
            /\ CatalogNamesImage
=============================================================================

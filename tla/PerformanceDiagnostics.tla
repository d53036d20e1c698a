------------------------ MODULE PerformanceDiagnostics ------------------------
(* src/internal/onetime/performancediagnostics: reports that are collected in a
   folder each, archived through one temporary file and sent to a bucket. *)
EXTENDS Naturals, FiniteSets

CONSTANTS Reports,      \* invocations of the command
          Requests      \* the [types, valid, param, testBucket, outputBucket] each may be given

Operations == {"backup", "io", "compute"}

VARIABLES
    request,    \* the flags of each report
    diag,       \* where each report is
    ops,        \* operations still to be done
    folder,     \* the parts in the folder of a report, None before it exists
    errors,     \* the report has met an error
    temp,       \* the file at the temporary path: a report that created it, or "none"
    writing,    \* the file a report writes its archive to
    writers,    \* the reports that wrote to each temporary file
    archive,    \* [file, parts] at the path of the report's archive
    sent,       \* the reports that arrived in the bucket
    exit

diagVars == <<request, diag, ops, folder, errors, temp, writing, writers, archive, sent, exit>>

DiagInit ==
    /\ request \in [Reports -> UNION {Requests[r] : r \in Reports}] /\ \A r \in Reports : request[r] \in Requests[r]
    /\ diag = [r \in Reports |-> "validate"]
    /\ ops = [r \in Reports |-> {}]
    /\ folder = [r \in Reports |-> {}]
    /\ errors = [r \in Reports |-> FALSE]
    /\ temp = "none"
    /\ writing = [r \in Reports |-> "none"]
    /\ writers = [r \in Reports |-> {}]
    /\ archive = [r \in Reports |-> [file |-> "none", parts |-> {}]]
    /\ sent = {}
    /\ exit = [r \in Reports |-> "none"]

To(r, where) == diag' = [diag EXCEPT ![r] = where]
Add(r, parts) == folder' = [folder EXCEPT ![r] = @ \cup parts]
Note(r, failed) == errors' = [errors EXCEPT ![r] = @ \/ failed]
Leave(r, status) == To(r, "done") /\ exit' = [exit EXCEPT ![r] = status]

ArchiveKept == UNCHANGED <<temp, writing, writers, archive, sent>>
Collecting == UNCHANGED <<request, exit>> /\ ArchiveKept

(* listOperations: "all" is all of them, whatever else is named. *)
listOperations(types) == IF "all" \in types THEN Operations ELSE types

(* validateParams and the folder of the report. *)
ValidateParams(r) ==
    LET q == request[r] IN
    /\ diag[r] = "validate"
    /\ \/ /\ \/ ~q.valid
             \/ "backup" \in listOperations(q.types) /\ ~q.param /\ ~q.testBucket
          /\ Leave(r, "usage") /\ UNCHANGED ops
       \/ /\ q.valid
          /\ "backup" \in listOperations(q.types) => q.param \/ q.testBucket
          /\ \/ Leave(r, "failure") /\ UNCHANGED ops
             \/ /\ To(r, "configure") /\ UNCHANGED exit
                /\ ops' = [ops EXCEPT ![r] = listOperations(q.types)]
    /\ UNCHANGED <<request, folder, errors>> /\ ArchiveKept

(* runConfigureInstanceOTE: a check in every report; its log is added whatever it
   found. *)
RunConfigureInstance(r) ==
    /\ diag[r] = "configure"
    /\ \E found \in {"compliant", "drift"} :
         \/ Add(r, {"configure"}) /\ Note(r, found = "drift")
         \/ Note(r, TRUE) /\ UNCHANGED folder
    /\ To(r, "operations")
    /\ UNCHANGED ops /\ Collecting

(* performDiagnosticsOps ranges over a map: any operation may be next. *)
Perform(r, op, parts, failed) ==
    /\ diag[r] = "operations" /\ op \in ops[r]
    /\ ops' = [ops EXCEPT ![r] = @ \ {op}]
    /\ Add(r, parts) /\ Note(r, failed)
    /\ UNCHANGED diag /\ Collecting

(* backup: without its folder, the parameters or a bucket that allows deletion
   nothing is run; otherwise both backint and perfdiag are, and each may fail.
   backint's log is added although backint failed; gsutil writes its own files. *)
Backup(r) ==
    \/ Perform(r, "backup", {}, TRUE)
    \/ \E backint, log, perfdiag \in BOOLEAN :
         Perform(r, "backup", (IF log THEN {"backint"} ELSE {}) \cup (IF perfdiag THEN {"perfdiag"} ELSE {}),
                 ~(backint /\ log /\ perfdiag))

(* runFIOCommands: a command that fails without a message is written like one that
   succeeded. *)
RunFIOCommands(r) ==
    \/ Perform(r, "io", {}, TRUE)
    \/ Perform(r, "io", {"fio"}, FALSE)
    \/ Perform(r, "io", {"silent"}, FALSE)

(* computeData: what could be collected is written; the last error is kept. *)
ComputeData(r) ==
    \/ Perform(r, "compute", {}, TRUE)
    \/ Perform(r, "compute", {"compute"}, FALSE)
    \/ Perform(r, "compute", {"compute"}, TRUE)

(* The log of the command itself is added at the end of the operations. *)
AddLog(r) ==
    /\ diag[r] = "operations" /\ ops[r] = {}
    /\ \/ Add(r, {"log"}) /\ UNCHANGED errors
       \/ Note(r, TRUE) /\ UNCHANGED folder
    /\ To(r, "zip")
    /\ UNCHANGED ops /\ Collecting

(* zipSource creates (or truncates) the temporary file, which has one name for all
   reports... *)
CreateTemp(r) ==
    LET file == IF temp = "none" THEN r ELSE temp IN
    /\ diag[r] = "zip"
    /\ \/ /\ temp' = file
          /\ writing' = [writing EXCEPT ![r] = file]
          /\ writers' = [writers EXCEPT ![file] = IF temp = "none" THEN {r} ELSE @ \cup {r}]
          /\ To(r, "rename") /\ UNCHANGED errors
       \/ Note(r, TRUE) /\ To(r, "upload") /\ UNCHANGED <<temp, writing, writers>>
    /\ UNCHANGED <<request, ops, folder, archive, sent, exit>>

(* ...writes the folder to it and renames whatever is at that path by then; a walk
   or a rename that fails leaves the file there. *)
Rename(r) ==
    /\ diag[r] = "rename"
    /\ \/ /\ temp # "none"
          /\ archive' = [archive EXCEPT ![r] = [file |-> temp, parts |-> folder[r]]]
          /\ temp' = "none" /\ UNCHANGED errors
       \/ Note(r, TRUE) /\ UNCHANGED <<temp, archive>>
    /\ To(r, "upload")
    /\ UNCHANGED <<request, ops, folder, writing, writers, sent, exit>>

(* Mutant: the folder is removed whether or not the archive was sent. *)
UploadZipAlwaysRemoves(r) ==
    /\ diag[r] = "upload"
    /\ \/ ~request[r].outputBucket /\ UNCHANGED <<folder, errors, sent>>
       \/ /\ request[r].outputBucket /\ folder' = [folder EXCEPT ![r] = {}]
          /\ \/ archive[r].file # "none" /\ sent' = sent \cup {r} /\ UNCHANGED errors
             \/ Note(r, TRUE) /\ UNCHANGED sent
    /\ To(r, "report")
    /\ UNCHANGED <<request, ops, temp, writing, writers, archive, exit>>

(* uploadZip and, only when it worked, removeDestinationFolder with the archive. *)
UploadZip(r) ==
    /\ diag[r] = "upload"
    /\ \/ ~request[r].outputBucket /\ UNCHANGED <<folder, errors, sent>>
       \/ /\ request[r].outputBucket /\ archive[r].file # "none"
          /\ sent' = sent \cup {r}
          /\ \/ folder' = [folder EXCEPT ![r] = {}] /\ UNCHANGED errors
             \/ Note(r, TRUE) /\ UNCHANGED folder
       \/ request[r].outputBucket /\ Note(r, TRUE) /\ UNCHANGED <<folder, sent>>
    /\ To(r, "report")
    /\ UNCHANGED <<request, ops, temp, writing, writers, archive, exit>>

ReportErrors(r) ==
    /\ diag[r] = "report"
    /\ Leave(r, IF errors[r] THEN "failure" ELSE "success")
    /\ UNCHANGED <<request, ops, folder, errors>> /\ ArchiveKept

DiagStep(r) ==
    \/ ValidateParams(r) \/ RunConfigureInstance(r) \/ Backup(r) \/ RunFIOCommands(r) \/ ComputeData(r)
    \/ AddLog(r) \/ CreateTemp(r) \/ Rename(r) \/ UploadZip(r) \/ ReportErrors(r)

DiagNext == \E r \in Reports : DiagStep(r)

DiagSpec == DiagInit /\ [][DiagNext]_diagVars

------------------------------------------------------------------------------
(* What a report is asked for. *)
Parts(q) ==
    LET of == [backup |-> {"backint", "perfdiag"}, io |-> {"fio"}, compute |-> {"compute"}] IN
    {"configure", "log"} \cup UNION {of[op] : op \in listOperations(q.types)}

(* Another report had the temporary file open while this one wrote its archive. *)
Mixed(r) == writing[r] # archive[r].file \/ writers[writing[r]] # {r}

(* diagnosticsHandler collects errors and goes on: when it ends with success the
   archive is there with every part that was asked for (a fio command that failed
   silently aside, and unless two archives were written at once), it was sent when a
   bucket was given, and what was collected is gone only when it was sent. *)
ReportIsWhole ==
    \A r \in Reports : diag[r] = "done" =>
      /\ exit[r] = "success" =>
           /\ archive[r].file # "none"
           /\ Mixed(r) \/ Parts(request[r]) \ {"fio"} \subseteq archive[r].parts
           /\ request[r].outputBucket => r \in sent
      /\ exit[r] # "usage" /\ archive[r].parts # {} /\ folder[r] = {} => r \in sent
==============================================================================

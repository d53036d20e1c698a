---------------------------- MODULE MaintenanceMode ----------------------------
(* The maintenance mode of SAP systems: commands add a SID to a file or take it out
   (UpdateMaintenanceMode), the collector of the daemon reads the file and reports
   the mode of every SID. Nothing locks the file, and writing it empties it first:
   commands may overlap, die, or fail to write what they have emptied. *)
EXTENDS FiniteSets, Naturals

CONSTANTS
    SIDs,
    Updates,            \* invocations of the command
    UpdateOf            \* [invocation -> its SID and whether it enables the mode]

(* A SID has three capital letters or digits. *)
ASSUME MaintenanceModeAssumption ==
    /\ IsFiniteSet(SIDs) /\ IsFiniteSet(Updates)
    /\ SIDs \cap {"empty", "absent", "torn", "error"} = {}
    /\ UpdateOf \in [Updates -> [sid : SIDs, enable : BOOLEAN]]

Empty == {"empty"}      \* the content after the truncation
Absent == {"absent"}
Torn == {"torn"}        \* a part of a list, or two lists on top of each other

VARIABLES
    modeFile,       \* maintenance.json
    updateAt,       \* [invocation -> idle, read, truncated or ended with its result]
    knew,           \* [invocation -> the SIDs it read]
    intended,       \* the SIDs under maintenance by all updates that had success
    doubtful,       \* the SIDs whose mode a command may have overwritten or lost
    report          \* what the last collection sent: the SIDs in the mode, or "error"

mmVars == <<modeFile, updateAt, knew, intended, doubtful, report>>

MaintenanceInit ==
    /\ modeFile \in {Absent, Empty, {}} /\ updateAt = [u \in Updates |-> "idle"]
    /\ knew = [u \in Updates |-> {}] /\ intended = {} /\ doubtful = {} /\ report = {}

UpdateAt(u, where) == updateAt' = [updateAt EXCEPT ![u] = where]
UnderWay == {u \in Updates : updateAt[u] \in {"read", "truncated"}}

Writing == {u \in Updates : updateAt[u] = "truncated"}

(* ReadMaintenanceMode: a file that is not there or is empty names no SID; one that
   is no JSON cannot be read. *)
ReadMode == IF modeFile \in {Absent, Empty} THEN {} ELSE modeFile
Readable == modeFile # Torn

(* What u makes of the SIDs it finds. *)
Changed(u, sids) == IF UpdateOf[u].enable THEN sids \cup {UpdateOf[u].sid} ELSE sids \ {UpdateOf[u].sid}

(* Mutant: the new list is the SID alone. *)
UpdateMaintenanceModeAlone(u) ==
    /\ updateAt[u] = "idle"
    /\ \/ UpdateAt(u, "failed") /\ UNCHANGED <<knew, doubtful>>
       \/ /\ Readable
          /\ (UpdateOf[u].sid \in ReadMode) # UpdateOf[u].enable
          /\ UpdateAt(u, "read")
          /\ knew' = [knew EXCEPT ![u] = Changed(u, {})]
          /\ doubtful' = IF Writing # {} THEN SIDs ELSE doubtful
    /\ UNCHANGED <<modeFile, intended, report>>

(* UpdateMaintenanceMode until it writes: what is as asked already is a failure,
   and so is a file that cannot be read. (What it reads while another command
   writes is a file that is empty.) *)
UpdateMaintenanceMode(u) ==
    /\ updateAt[u] = "idle"
    /\ \/ UpdateAt(u, "failed") /\ UNCHANGED <<knew, doubtful>>
       \/ /\ Readable
          /\ (UpdateOf[u].sid \in ReadMode) # UpdateOf[u].enable
          /\ UpdateAt(u, "read")
          /\ knew' = [knew EXCEPT ![u] = Changed(u, ReadMode)]
          /\ doubtful' = IF Writing # {} THEN SIDs ELSE doubtful
    /\ UNCHANGED <<modeFile, intended, report>>

(* os.WriteFile empties the file... *)
Truncate(u) ==
    /\ updateAt[u] = "read"
    /\ \/ UpdateAt(u, "truncated") /\ modeFile' = Empty
       \/ UpdateAt(u, "failed") /\ UNCHANGED modeFile
    /\ UNCHANGED <<knew, intended, doubtful, report>>

(* ...and writes it: over what another command has written since, of which a longer
   list leaves its end. A command that is under way does not know of the change. *)
WriteMode(u) ==
    /\ updateAt[u] = "truncated"
    /\ UpdateAt(u, "done")
    /\ modeFile' \in {knew[u]} \cup IF modeFile = Empty THEN {} ELSE {Torn}
    /\ intended' = Changed(u, intended)
    /\ doubtful' = IF modeFile' = Torn THEN SIDs
                   ELSE IF UnderWay = {u} THEN doubtful \ {UpdateOf[u].sid}
                                          ELSE doubtful \cup {UpdateOf[u].sid}
    /\ UNCHANGED <<knew, report>>

(* The write fails, after none of the list, a part of it or (the error is that of
   Close) all of it: the command fails, and the modes of all SIDs may be lost. *)
WriteFails(u) ==
    /\ updateAt[u] = "truncated"
    /\ UpdateAt(u, "failed")
    /\ modeFile' \in {modeFile, Torn, knew[u]}
    /\ doubtful' = SIDs
    /\ UNCHANGED <<knew, intended, report>>

(* A kill costs the modes when the file is empty. *)
KillUpdate(u) ==
    /\ u \in UnderWay /\ UpdateAt(u, "failed")
    /\ doubtful' = IF u \in Writing THEN SIDs ELSE doubtful
    /\ UNCHANGED <<modeFile, knew, intended, report>>

(* Collect of the maintenance collector. *)
ReportMode ==
    /\ report' \in {{"error"}} \cup IF Readable THEN {ReadMode} ELSE {}
    /\ UNCHANGED <<modeFile, updateAt, knew, intended, doubtful>>

MaintenanceNext ==
    \/ ReportMode
    \/ \E u \in Updates : UpdateMaintenanceMode(u) \/ Truncate(u) \/ KillUpdate(u)
    \/ \E u \in Updates : WriteMode(u) \/ WriteFails(u)

MaintenanceSpec == MaintenanceInit /\ [][MaintenanceNext]_mmVars

------------------------------------------------------------------------------
(* The mode that was set is the mode that is kept and reported: while no command
   writes, the file and a collection that reads it name a SID exactly if the last
   command of that SID that had success enabled it. A SID is exempt from the moment
   its change was written beside a command that had read the file before, or any
   command read a file that was being written, or a write failed or was killed or fell
   on another (nothing in the code prevents any of these), until a command changes
   it with no other under way. A file that is no list is never reported as one. *)
ModeIsKept ==
    [][LET kept(sids) == \A s \in SIDs \ doubtful : s \in sids <=> s \in intended
       IN /\ Writing = {} => kept(ReadMode)
          /\ report' # report /\ report' # {"error"} =>
                Readable /\ report' \subseteq SIDs /\ (Writing = {} => kept(report'))]_mmVars
==============================================================================

----------------------------- MODULE SupportBundle -----------------------------
(***************************************************************************)
(* The support bundle (internal/onetime/supportbundle): a command that     *)
(* gathers files and the output of commands in a directory, zips it, may   *)
(* upload the zip, and rotates the bundles of the past.  Several may run   *)
(* at once, from a shell or from the log collection of the daemon, and     *)
(* they share the parent directory; a name is made of the second at which  *)
(* its run begins, so runs may share the directory of the bundle as well.  *)
(***************************************************************************)
EXTENDS Naturals, Sequences, FiniteSets, Subsequences

CONSTANTS
    None,
    Runs,           \* the executions of the command
    Name,           \* [run -> the name of its bundle]
    Options,        \* [run -> the set of its flags], out of Flags
    Old,            \* bundles of the past, the newest first
    Limit           \* how many bundles rotation keeps (5)

(* identified: the SID, the host and the instance numbers are given. *)
Flags == {"agentLogsOnly", "metrics", "bucket", "identified"}

(* A command that has not ended has no result. *)
ASSUME ResultAssumption == None \notin {"success", "failure", "usage", "panic"}

ASSUME RotationAssumption == Limit \in Nat /\ Len(Old) \in Nat /\ DOMAIN Old = 1..Len(Old)

VARIABLES
    pc,         \* [run -> the step it is at]
    rotated,    \* history: [run -> whether its rotation has succeeded]
    uploaded,   \* [run -> bundleUploaded]
    status,     \* [run -> None, "success", "failure", "usage" or "panic"]
    dirs,       \* the bundles in the parent directory: [by, full, zip], where
                \* by are the runs that wrote it, full says whether it holds
                \* files, and zip is None or the zip in it
    temps,      \* the temporary zips in the parent directory: [name -> zip]
    age,        \* both kinds of entry, the most recently written first
    bucket      \* the uploaded bundles: [name -> zip]

parent == <<dirs, temps, age>>
bundles == <<pc, rotated, uploaded, status, parent, bucket>>

NoFunction == [n \in {} |-> None]
Put(f, k, v) == [n \in DOMAIN f \cup {k} |-> IF n = k THEN v ELSE f[n]]
Drop(f, k) == [n \in DOMAIN f \ {k} |-> f[n]]
Temp(n) == <<"temp", n>>
Dir(n) == <<"bundle", n>>
Newest(s, n) == <<n>> \o Dropped(s, {n})
Has(p, flag) == flag \in Options[p]

(* What a zip holds: whose files, and whether any can be read. *)
Archive(by, full) == [by |-> by, full |-> full]

BundlesInit ==
    /\ pc = [p \in Runs |-> "idle"]
    /\ rotated = [p \in Runs |-> FALSE] /\ uploaded = [p \in Runs |-> FALSE]
    /\ status = [p \in Runs |-> None]
    /\ dirs = [n \in {Old[k] : k \in DOMAIN Old} |-> [by |-> {}, full |-> FALSE, zip |-> Archive({}, TRUE)]]
    /\ temps = NoFunction /\ age = [k \in DOMAIN Old |-> Dir(Old[k])] /\ bucket = NoFunction

Goto(p, step) == pc' = [pc EXCEPT ![p] = step]
End(p, s) == /\ Goto(p, "done") /\ status' = [status EXCEPT ![p] = s]

(* Files written into the directory of p's bundle.  It is made anew by a copy
   when rotation has removed it; the output of a command is then lost. *)
Write(p, some, makes) ==
    LET n == Name[p]
    IN IF n \in DOMAIN dirs
         THEN /\ dirs' = [dirs EXCEPT ![n].full = @ \/ some, ![n].by = @ \cup {p}]
              /\ age' = IF some THEN Newest(age, Dir(n)) ELSE age
         ELSE IF makes
           THEN /\ dirs' = Put(dirs, n, [by |-> {p}, full |-> some, zip |-> None])
                /\ age' = Newest(age, Dir(n))
           ELSE UNCHANGED <<dirs, age>>

(* validateParams and MkdirAll. *)
Validate(p) ==
    /\ pc[p] = "validate"
    /\ \/ ~Has(p, "agentLogsOnly") /\ End(p, "usage") /\ UNCHANGED parent
       \/ End(p, "failure") /\ UNCHANGED parent
       \/ Goto(p, "discover") /\ Write(p, FALSE, TRUE) /\ UNCHANGED <<status, temps>>
    /\ UNCHANGED <<rotated, uploaded, bucket>>

(* processDiscoveryData: the SID, host and numbers that were not given come
   from the discovery data in Cloud Logging, or the command ends here and
   leaves its directory. *)
Discover(p) ==
    /\ pc[p] = "discover"
    /\ IF Has(p, "agentLogsOnly") \/ Has(p, "identified")
         THEN Goto(p, "extract") /\ UNCHANGED <<status, parent>>
         ELSE \/ Goto(p, "extract") /\ Write(p, TRUE, FALSE) /\ UNCHANGED <<status, temps>>
              \/ \E some \in BOOLEAN :
                   End(p, "failure") /\ Write(p, some, FALSE) /\ UNCHANGED temps
    /\ UNCHANGED <<rotated, uploaded, bucket>>

(* extractSystemDBErrors .. fetchSystemDServices: each writes its file, or adds a
   message that changes nothing. *)
Extract(p) ==
    /\ pc[p] = "extract"
    /\ Goto(p, "copy")
    /\ \E some \in (IF Has(p, "agentLogsOnly") THEN {FALSE} ELSE BOOLEAN) : Write(p, some, FALSE)
    /\ UNCHANGED <<rotated, uploaded, status, temps, bucket>>

(* The required files, and their masking in place. *)
Copy(p) ==
    /\ pc[p] = "copy"
    /\ Goto(p, "gather")
    /\ \E some \in BOOLEAN : Write(p, some, some)
    /\ UNCHANGED <<rotated, uploaded, status, temps, bucket>>

(* collectSapDiscovery, then the metrics.  Their clients are made by
   validateParams, past its return for agent-logs-only: with both flags a nil
   function is called. *)
Gather(p) ==
    /\ pc[p] = "gather"
    /\ IF Has(p, "agentLogsOnly") /\ Has(p, "metrics")
         THEN End(p, "panic") /\ UNCHANGED parent
         ELSE /\ Goto(p, IF Has(p, "metrics") THEN "metrics" ELSE "zip")
              /\ \E some \in (IF Has(p, "agentLogsOnly") THEN {FALSE} ELSE BOOLEAN) :
                   Write(p, some, FALSE)
              /\ UNCHANGED <<status, temps>>
    /\ UNCHANGED <<rotated, uploaded, bucket>>

(* collectMetrics and collectSapEvents make directories of their own in the
   bundle; a metric that cannot be fetched is one more message. *)
GatherMetrics(p) ==
    /\ pc[p] = "metrics"
    /\ Goto(p, "zip")
    /\ Write(p, TRUE, TRUE) \/ UNCHANGED <<dirs, age>>
    /\ UNCHANGED <<rotated, uploaded, status, temps, bucket>>

(* zipSource: the zip is written beside the bundles and moved into its own.  When
   another run of the name is writing it too, it may be torn; a run that fails
   removes it, whosever it is. *)
ZipBundle(p) ==
    /\ pc[p] = "zip"
    /\ LET n == Name[p]
       IN \/ /\ n \in DOMAIN dirs
             /\ \E full \in {dirs[n].full} \cup (IF n \in DOMAIN temps THEN {FALSE} ELSE {}) :
                  temps' = Put(temps, n, Archive(dirs[n].by, full))
             /\ age' = Newest(age, Temp(n)) /\ Goto(p, "move")
          \/ Goto(p, "upload") /\ UNCHANGED <<temps, age>>
          \/ Goto(p, "upload") /\ temps' = Drop(temps, n) /\ age' = Dropped(age, {Temp(n)})
    /\ UNCHANGED <<rotated, uploaded, status, dirs, bucket>>

(* The rename, and removeUncompressedFiles, which may leave some of them. *)
Move(p) ==
    /\ pc[p] = "move"
    /\ Goto(p, "upload")
    /\ LET n == Name[p]
       IN /\ \/ /\ n \in DOMAIN dirs /\ n \in DOMAIN temps
                /\ \E left \in {FALSE, dirs[n].full} :
                     dirs' = [dirs EXCEPT ![n].full = left, ![n].zip = temps[n], ![n].by = @ \cup {p}]
                /\ age' = Newest(Dropped(age, {Temp(n)}), Dir(n))
             \/ age' = Dropped(age, {Temp(n)}) /\ UNCHANGED dirs
          /\ temps' = Drop(temps, n)
    /\ UNCHANGED <<rotated, uploaded, status, bucket>>

(* uploadZip, whether or not there is a zip, and removeDestinationFolder. *)
Upload(p) ==
    /\ pc[p] = "upload"
    /\ Goto(p, "rotate")
    /\ LET n == Name[p]
       IN \/ /\ Has(p, "bucket") /\ n \in DOMAIN dirs /\ dirs[n].zip # None
             /\ bucket' = Put(bucket, n, dirs[n].zip)
             /\ uploaded' = [uploaded EXCEPT ![p] = TRUE]
             /\ \/ dirs' = Drop(dirs, n) /\ age' = Dropped(age, {Dir(n)})
                \/ UNCHANGED <<dirs, age>>
          \/ UNCHANGED <<uploaded, dirs, age, bucket>>
    /\ UNCHANGED <<rotated, status, temps>>

(* rotateOldBundles: everything older than the newest Limit bundles goes, be it
   the bundle or the temporary zip of a run that is not over. *)
RotateBeyond(p, n) ==
    LET old == {age[k] : k \in (n + 1)..Len(age)}
    IN /\ dirs' = [d \in {m \in DOMAIN dirs : Dir(m) \notin old} |-> dirs[d]]
       /\ temps' = [t \in {m \in DOMAIN temps : Temp(m) \notin old} |-> temps[t]]
       /\ age' = Dropped(age, old)
       /\ rotated' = [rotated EXCEPT ![p] = TRUE]

(* Mutant: one bundle more is kept than the limit says. *)
RotateKeepsMore(p) ==
    /\ pc[p] = "rotate"
    /\ Goto(p, "diagnose")
    /\ RotateBeyond(p, Limit + 1)
    /\ UNCHANGED <<uploaded, status, bucket>>

Rotate(p) ==
    /\ pc[p] = "rotate"
    /\ Goto(p, "diagnose")
    /\ RotateBeyond(p, Limit) \/ UNCHANGED <<parent, rotated>>
    /\ UNCHANGED <<uploaded, status, bucket>>

(* Mutant: a bundle that was collected is a success. *)
DiagnoseCollected(p) ==
    /\ pc[p] = "diagnose"
    /\ End(p, "success")
    /\ UNCHANGED <<rotated, uploaded, parent, bucket>>

(* pacemakerLogs writes to a directory of its own, and its outcome is one more
   message; only a bundle that was uploaded makes the command succeed. *)
Diagnose(p) ==
    /\ pc[p] = "diagnose"
    /\ End(p, IF uploaded[p] THEN "success" ELSE "failure")
    /\ UNCHANGED <<rotated, uploaded, parent, bucket>>

Launch(p) ==
    /\ pc[p] = "idle" /\ Goto(p, "validate")
    /\ UNCHANGED <<rotated, uploaded, status, parent, bucket>>

BundleStep(p) ==
    \/ Validate(p) \/ Discover(p) \/ Extract(p) \/ Copy(p) \/ Gather(p) \/ GatherMetrics(p)
    \/ ZipBundle(p) \/ Move(p) \/ Upload(p) \/ Rotate(p) \/ Diagnose(p)

------------------------------------------------------------------------------
(* Old bundles do not pile up ("so we don't fill the file system"): when no
   command runs, and each that ran came to rotate, no more are left than
   rotation keeps, and no temporary zip. *)
BundlesAreBounded ==
    (\E p \in Runs : rotated[p])
      /\ (\A p \in Runs : pc[p] = "idle" \/ (pc[p] = "done" /\ rotated[p]))
        => Len(age) <= Limit /\ temps = NoFunction
==============================================================================

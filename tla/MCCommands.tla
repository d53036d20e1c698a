------------------------------- MODULE MCCommands -------------------------------
(* The commands of the agent, each with what stands beside it: the load of pairs of
   definitions, the log collection of the daemon beside bundles from a shell,
   configurations of the machine, reports of its performance, calls of the group
   services, updates of the maintenance mode and the choice of disks. A behaviour is
   one of the command that was picked. *)
EXTENDS MCCollectionLoad, LogCollection, ConfigureInstance, PerformanceDiagnostics, GroupServices, MaintenanceMode,
        DiskSelection, TLC

MCOld == <<"old">>
(* Two messages begin in the same second. *)
MCName == ("m" :> "m") @@ ("n" :> "m") @@ ("r" :> "r") @@ ("c" :> "c")
MCOptions ==
    ("m" :> {"bucket"}) @@ ("c" :> {"bucket", "identified", "metrics"}) @@ ("n" :> {"bucket", "identified"}) @@ ("r" :> {"bucket"})

Report(types, valid, param, bucketGiven) ==
    [types |-> types, valid |-> valid, param |-> param, testBucket |-> FALSE, outputBucket |-> bucketGiven]
MCRequests ==
    "x" :> {Report({"all"}, TRUE, TRUE, TRUE), Report({"compute"}, TRUE, FALSE, FALSE),
            Report({"backup"}, TRUE, FALSE, FALSE), Report({"backup"}, FALSE, TRUE, FALSE)}
      @@ "y" :> {Report({"compute"}, TRUE, FALSE, FALSE)}

(* Two commands put a system under maintenance, one takes the first out again. *)
Update(sid, enable) == [sid |-> sid, enable |-> enable]
MCUpdateOf == "u1" :> Update("A", TRUE) @@ "u2" :> Update("B", TRUE) @@ "u3" :> Update("A", FALSE)

(* A striped volume, one that is not, one that shares a device with the log, one of a
   single disk, one of a scale-out system, links that udev did not make, and a partition. *)
PersistentDisk(device, linked, cg, used) == [device |-> device, linked |-> linked, cg |-> cg, used |-> used]
StripedVolume ==
    [df |-> "lvm", findmnt |-> "lvm", whole |-> <<>>, striped |-> TRUE, dataPVs |-> {"sdb", "sdc"}, logPVs |-> {"sdd"}, instances |-> 1,
     attached |-> <<"boot", "data1", "log", "data2">>,
     disks |-> "boot" :> PersistentDisk("sda", TRUE, "", TRUE) @@ "data1" :> PersistentDisk("sdb", TRUE, "cg", TRUE)
                 @@ "data2" :> PersistentDisk("sdc", TRUE, "cg", TRUE) @@ "log" :> PersistentDisk("sdd", TRUE, "", TRUE)
                 @@ "spare" :> PersistentDisk("sde", TRUE, "cg", FALSE) @@ "far" :> PersistentDisk("sdb", TRUE, "cg", TRUE),
     snapshots |-> {[name |-> "s1", group |-> "g", disk |-> "data1", key |-> ""],
                    [name |-> "s2", group |-> "g", disk |-> "data2", key |-> "far-region"],
                    [name |-> "s3", group |-> "h", disk |-> "data1", key |-> "here"]}]
MCMachines ==
    {StripedVolume,
     [StripedVolume EXCEPT !.striped = FALSE, !.disks["data2"].cg = "other"],
     [StripedVolume EXCEPT !.dataPVs = {"sdb"}, !.logPVs = {"sdb", "sdd"}],
     [StripedVolume EXCEPT !.dataPVs = {"sdb"}],
     [StripedVolume EXCEPT !.instances = 2, !.snapshots = {[name |-> ToString(i), group |-> "g", disk |-> "data1", key |-> "global"] : i \in 1..3}],
     [StripedVolume EXCEPT !.disks["data2"].linked = FALSE],
     [StripedVolume EXCEPT !.disks["data1"].linked = FALSE, !.dataPVs = {"sdb"}],
     [StripedVolume EXCEPT !.instances = 0],
     [StripedVolume EXCEPT !.findmnt = "plain"],
     [StripedVolume EXCEPT !.dataPVs = {"sdb1"}, !.whole = "sdb1" :> "sdb"]}

(* Backups, restores of a group and of a snapshot, and changes of the disk type. *)
Call ==
    [kind |-> "backup", sid |-> TRUE, skip |-> FALSE, credentials |-> "key", type |-> "STANDARD", user |-> "root", groupName |-> "",
     disk |-> "", disks |-> <<>>, zone |-> FALSE, version |-> <<3, 10>>, snapshot |-> "", group |-> "", newName |-> "", newNames |-> <<>>,
     suffix |-> FALSE, newType |-> FALSE, csek |-> FALSE, targetKey |-> "", keyring |-> FALSE]
RestoreCall == [Call EXCEPT !.kind = "restore"]
MCInvocations ==
    {[Call EXCEPT !.user = u, !.groupName = n, !.disks = names] :
       u \in {"root", "sidadm"}, n \in {"", "g", "new"},
       names \in {<<>>, <<"data1", "far">>, <<"data1", "data2">>, <<"data1", "spare">>, <<"data1">>}}
      \cup {[Call EXCEPT !.disk = "boot"], [Call EXCEPT !.credentials = "none"], [Call EXCEPT !.groupName = "malformed"]}
      \cup {[RestoreCall EXCEPT !.group = "g", !.version = w, !.disks = names, !.newNames = n, !.suffix = x] :
              w \in {<<3, 9>>, <<4, 0>>, <<>>}, n \in {<<>>, <<"n1", "n2">>, <<"n1", "boot">>}, x \in BOOLEAN,
              names \in {<<>>, <<"data1", "far", "data2">>, <<"data1", "far">>, <<"data1", "far", "far">>, <<"data1", "spare">>}}
      \cup {[RestoreCall EXCEPT !.group = "gone", !.version = <<3, 9>>]}
      \cup {[RestoreCall EXCEPT !.snapshot = s, !.newName = n, !.disk = d, !.zone = z, !.user = u] :
              u \in {"root", "sidadm"}, s \in {"s2", "s3"}, n \in {"n1", "long"}, d \in {"", "data1", "log"}, z \in BOOLEAN}
      \cup {[RestoreCall EXCEPT !.group = "g", !.targetKey = k, !.keyring = r, !.csek = c, !.newType = TRUE] :
              k \in {"", "here", "far-region"}, r \in BOOLEAN, c \in BOOLEAN}
      \cup {[Call EXCEPT !.kind = "change", !.skip = s, !.disk = d, !.zone = TRUE, !.credentials = "none", !.snapshot = n, !.newName = "n1"] :
              s \in BOOLEAN, d \in {"data1", "spare"}, n \in {"s1", "s9"}}
MCAnyRegion == {"global"}
MCSuffixed == "data1" :> "data1-x" @@ "data2" :> "data2-x" @@ "boot" :> "" @@ "log" :> "" @@ "spare" :> "" @@ "far" :> "far-x"

VARIABLE command

mcVars == <<command, vars, logVars, ciVars, diagVars, gsVars, mmVars, dsVars>>

(* The commands that were not picked begin in one way only; of all systems only SLES on
   x4 begins with every state of its services, and only the unknown one with a line of
   the kernel that is commented out. *)
MCInit ==
    /\ command \in {"definitions", "logs", "twice", "configure", "diagnostics", "groups", "maintenance", "selection"}
    /\ Init
    /\ LogInit
    /\ ConfigureInit
    /\ command # "configure" => series = "x4" /\ os = "other" /\ grubLine = "active"
    /\ nosmt = "absent" /\ (grubLine = "comment" => series = "x4" /\ os = "other")
    /\ series = "x5" => os # "other" /\ service.tuner = "stopped" /\ (os = "SLES" => service.sapconf = "running")
    /\ os # "SLES" => service.sapconf = "stopped"
    /\ os = "other" => service.tuner = "absent"
    /\ DiagInit /\ (command # "diagnostics" => request["x"].types = {"compute"})
    /\ GroupInit /\ (command # "groups" => kind = "sg")
    /\ MaintenanceInit /\ (command # "maintenance" => modeFile = Absent)
    /\ SelectionInit /\ (command # "selection" => dsMachine = StripedVolume /\ dsCall = Call)

(* The commands that were not picked stand still. *)
Still(c, itsVars) == IF command = c THEN TRUE ELSE UNCHANGED itsVars

MCNext ==
    /\ UNCHANGED command
    /\ \/ command = "definitions" /\ Next
       \/ command = "logs" /\ LogNext /\ deliveries'["n"] = 0
       \/ command = "twice" /\ LogNext /\ pc'["c"] = "idle" /\ deliveries'["r"] = 0
       \/ command = "configure" /\ ConfigureNext
       \/ command = "diagnostics" /\ DiagNext
       \/ command = "groups" /\ GroupNext
       \/ command = "maintenance" /\ MaintenanceNext
       \/ command = "selection" /\ SelectionNext
    /\ Still("definitions", vars) /\ (IF command = "twice" THEN TRUE ELSE Still("logs", logVars)) /\ Still("configure", ciVars)
    /\ Still("diagnostics", diagVars) /\ Still("groups", gsVars) /\ Still("maintenance", mmVars)
    /\ Still("selection", dsVars)

MCSpec == MCInit /\ [][MCNext]_mcVars
=================================================================================

--------------------------- MODULE WorkloadSections ---------------------------
(* internal/workloadmanager: one collection of the workload validation.  Five routines
   collect the sections side by side - the one of the cluster, module Pacemaker, goes on
   with corosync - and the request is put together when all have come to their end.
   Discovery, HANA's backups and the role of the database change in the meantime. *)
EXTENDS Pacemaker, Subsequences, FiniteSets

CONSTANTS Zone,         \* where this machine is
          Landscapes,   \* what discovery may have found
          Volumes,      \* the volumes of HANA that are asked for and the paths they are at
          BlockDevices,      \* the block devices, in the order of lsblk
          Overrides,    \* the contents of the file that overrides the collection, <<>> for none
          Tenants, Threads, BackupTypes,
          FirstLog,     \* the backups before the behaviour begins
          MaxBackupLines, MaxLandscapes, MaxSectionFaults

Device == [name : STRING, disk : STRING, size : STRING, mount : STRING,
           children : Seq([mount : STRING, size : STRING])]
(* The labels of a section have different names. *)
HANALabelNames == {"ini", "ha_in_same_zone", "dr_in_same_region"}
ASSUME SectionsAssumption ==
    /\ BlockDevices \in Seq(Device) /\ \A l \in Landscapes : l.systems \in Seq(ToSet(l.systems))
    /\ \A o \in Overrides : Len(o) \in Nat /\ o = [i \in 1..Len(o) |-> o[i]]
    /\ IsFiniteSet(Tenants) /\ Tenants # {} /\ "" \notin Tenants
    /\ DOMAIN Volumes \cap (BackupTypes \cup HANALabelNames) = {} /\ BackupTypes \cap HANALabelNames = {}

VARIABLES landscape,        \* what discovery has found
          primary,      \* this database is the primary of its replication
          backupLog,          \* the lines of the backup log of each tenant
          wlStep,       \* of every routine the next step
          section,      \* of every section its value and labels
          backupRead,         \* the backups a tenant's log held when it was read
          wlRequest, overrides,
          wlLandscapes, wlFaults

wlEnv == <<landscape, primary, backupLog, wlLandscapes>>
wlVars == <<wlEnv, wlStep, section, backupRead, wlRequest, overrides, wlFaults>>
SectionsVars == <<wlVars, pmVars>>

Routines == {"collection", "system", "hana", "netweaver", "custom", "corosync"}
SectionNames == <<"system", "corosync", "hana", "netweaver", "pacemaker", "custom">>
NoSection == [value |-> 0, labels |-> <<>>]
SharedSystemMetrics == {"instance_name", "os"}

-----------------------------------------------------------------------------
(* What discovery knows. *)
Roles == {"APP", "ASCS", "ERS"}
KnownSystems == {landscape.systems[i] : i \in DOMAIN landscape.systems}

(* hasInstanceRole. *)
HasRole(wanted) == \E s \in KnownSystems : \E r \in s.resources : r.vm = Here /\ wanted \in r.roles

(* appServerZonalSeparation: the first system of several hosts that is in one zone
   decides; without any the answer is yes. *)
ZonalSeparation ==
    LET zones(s, roles) == {r.zone : r \in {q \in s.resources : q.roles \cap roles # {}}}
    IN \A s \in KnownSystems : Cardinality(s.appHosts) >= 2 =>
          Cardinality(zones(s, {"APP"})) >= 2 /\ Cardinality(zones(s, {"ASCS", "ERS"})) >= 2

(* checkHAZones: the other hosts, in this zone, of the first system this machine is
   highly available with. *)
SameZone(s) == {h.vm : h \in {g \in s.haHosts : g.vm # Here /\ g.zone = Zone}}
(* Mutant: the system need not be one of this machine. *)
CheckHAZonesOfAny ==
    LET ours == SelectSeq(landscape.systems, LAMBDA s : SameZone(s) # {})
    IN IF ours = <<>> THEN {} ELSE SameZone(ours[1])

CheckHAZones ==
    LET ours == Kept(landscape.systems, {s \in KnownSystems : (\E h \in s.haHosts : h.vm = Here) /\ SameZone(s) # {}})
    IN IF ours = <<>> THEN {} ELSE SameZone(ours[1])

(* checkDRRegions: the sites of every system that are in the region of its primary. *)
CheckDRRegions == UNION {{site.vm : site \in {t \in s.sites : t.region = s.region}} : s \in KnownSystems}

(* diskInfo: the first device with a child - or that is itself - mounted there, and the
   first disk of the machine whose mapping the name of the device ends with. *)
Children(d) == IF d.children = <<>> THEN <<[mount |-> d.mount, size |-> d.size]>> ELSE d.children
ChildrenAt(d, mount) == Kept(Children(d), {c \in ToSet(Children(d)) : c.mount = mount})
MountedAt(mount) == Kept(BlockDevices, {d \in ToSet(BlockDevices) : ChildrenAt(d, mount) # <<>>})
(* Mutant: the sizes are those of the last device. *)
DiskInfoOfLast(mount) ==
    LET ds == MountedAt(mount)
        child == ChildrenAt(ds[1], mount)[1]
    IN IF mount = "" \/ ds = <<>> \/ ds[1].disk = "" THEN [type |-> "", mount |-> "", size |-> "", pdsize |-> "", device |-> ""]
       ELSE [type |-> ds[1].disk, mount |-> mount, size |-> child.size, pdsize |-> Last(BlockDevices).size, device |-> ds[1].name]

DiskInfo(mount) ==
    LET ds == MountedAt(mount)
        child == ChildrenAt(ds[1], mount)[1]
    IN IF mount = "" \/ ds = <<>> \/ ds[1].disk = "" THEN [type |-> "", mount |-> "", size |-> "", pdsize |-> "", device |-> ""]
       ELSE [type |-> ds[1].disk, mount |-> mount, size |-> child.size, pdsize |-> ds[1].size, device |-> ds[1].name]

-----------------------------------------------------------------------------
(* HANA's backups.  The log has a line with the command when a backup begins and a line
   of its thread when it succeeds; the type is in the command only.  The time of a line
   is its number among those of all tenants. *)
CommandLine(thread, type, time) == [what |-> "command", thread |-> thread, type |-> type, time |-> time]
Infinite == MaxBackupLines + 1
Finished(thread, time) == [what |-> "finished", thread |-> thread, type |-> "", time |-> time]
Clock == Cardinality(UNION {ToSet(backupLog[t]) : t \in Tenants})
Lines(l, what) == {x \in ToSet(l) : x.what = what}
NewestLine(lines) == IF lines = {} THEN 0 ELSE (CHOOSE x \in lines : \A y \in lines : y.time <= x.time).time
TypeOf(l, thread, before) ==
    LET of == {x \in Lines(l, "command") : x.thread = thread /\ x.time < before}
    IN IF of = {} THEN "" ELSE (CHOOSE x \in of : \A y \in of : y.time <= x.time).type

(* The last backup of a type that succeeded, 0 for none. *)
Latest(l, type) == NewestLine({x \in Lines(l, "finished") : TypeOf(l, x.thread, x.time) = type})

(* Mutant: every success counts for every type. *)
FetchedOfAny(successes, l, type) == NewestLine(successes)

(* fetchBackupThreadIDs and fetchLastBackupTimestamps: a thread stands for the type of
   its last command, and the newest success of each type counts. *)
Fetched(successes, l, type) == NewestLine({x \in successes : TypeOf(l, x.thread, Infinite) = type})

(* The lines before the behaviour begins are of backups that have begun before they
   succeeded. *)
ASSUME FirstLogAssumption ==
    LET first == Cardinality(UNION {ToSet(FirstLog[t]) : t \in Tenants})
    IN /\ MaxBackupLines \in Nat /\ first <= MaxBackupLines /\ DOMAIN FirstLog = Tenants
       /\ \A t \in Tenants :
            /\ FirstLog[t] \in Seq(ToSet(FirstLog[t])) /\ \A x \in ToSet(FirstLog[t]) : x.time \in 1..first
            /\ \A x \in Lines(FirstLog[t], "finished") :
                 \E c \in Lines(FirstLog[t], "command") : c.thread = x.thread /\ c.time < x.time

-----------------------------------------------------------------------------
SectionsInit ==
    /\ landscape \in Landscapes
    /\ primary \in BOOLEAN
    /\ backupLog = FirstLog
    /\ wlStep = [r \in Routines |-> IF r = "collection" THEN "idle" ELSE ""]
    /\ section = [s \in ToSet(SectionNames) |-> NoSection]
    /\ backupRead = [now |-> 0, left |-> <<>>, successes |-> {}, oldest |-> <<>>, tenant |-> <<>>]
    /\ wlRequest = <<>> /\ overrides \in Overrides
    /\ wlLandscapes = 0 /\ wlFaults = 0

(* Discovery finds another landscape, the database takes over or is taken over. *)
LandscapeMoves ==
    /\ wlLandscapes < MaxLandscapes /\ wlLandscapes' = wlLandscapes + 1
    /\ \/ landscape' \in Landscapes \ {landscape} /\ UNCHANGED primary
       \/ primary' = ~primary /\ UNCHANGED landscape
    /\ UNCHANGED <<backupLog, wlStep, section, backupRead, wlRequest, overrides, wlFaults, pmVars>>

(* A backup begins or succeeds; one that fails leaves no line. *)
Running(t) == {thread \in Threads :
                 LET of == {x \in ToSet(backupLog[t]) : x.thread = thread}
                 IN of # {} /\ (CHOOSE x \in of : \A y \in of : y.time <= x.time).what = "command"}
HANABackup(t) ==
    /\ Clock < MaxBackupLines
    /\ \/ \E thread \in Threads, type \in BackupTypes : backupLog' = [backupLog EXCEPT ![t] = Append(@, CommandLine(thread, type, Clock + 1))]
       \/ \E thread \in Running(t) : backupLog' = [backupLog EXCEPT ![t] = Append(@, Finished(thread, Clock + 1))]
    /\ UNCHANGED <<landscape, primary, wlLandscapes, wlStep, section, backupRead, wlRequest, overrides, wlFaults, pmVars>>

-----------------------------------------------------------------------------
WlAt(r, absorb, next) == wlStep[r] = absorb /\ wlStep' = [wlStep EXCEPT ![r] = next]
(* Labels are written over those of the same names. *)
WrittenOver(new, labels) == [k \in DOMAIN new \cup DOMAIN labels |-> IF k \in DOMAIN new THEN new[k] ELSE labels[k]]
Label(s, new) == section' = [section EXCEPT ![s].labels = WrittenOver(new, @)]
Close(s, value, new) == section' = [section EXCEPT ![s] = [value |-> value, labels |-> WrittenOver(new, @.labels)]]
Fine == UNCHANGED wlFaults
Fault == wlFaults < MaxSectionFaults /\ wlFaults' = wlFaults + 1
Rest == UNCHANGED <<wlEnv, wlRequest, overrides>>

(* getMetric: the lines up to the next metric belong to a metric; what stands before the
   first one is taken for part of it. *)
NoMetric(name) == [type |-> name, value |-> 0, labels |-> <<>>]
Absorbed(r, l) ==
    CASE l.key = "metric" /\ r.cur.type # "" -> [done |-> Append(r.done, r.cur), cur |-> NoMetric(l.value)]
      [] l.key = "metric" /\ r.cur.type = "" -> [r EXCEPT !.cur.type = l.value]
      [] l.key = "metric_value"              -> [r EXCEPT !.cur.value = l.value]
      [] OTHER                               -> [r EXCEPT !.cur.labels = (l.key :> l.value) @@ @]
Parsed(lines) ==
    LET read[i \in 0..Len(lines)] ==
          IF i = 0 THEN [done |-> <<>>, cur |-> NoMetric("")] ELSE Absorbed(read[i - 1], lines[i])
        r == read[Len(lines)]
    IN IF r.cur.type = "" THEN r.done ELSE Append(r.done, r.cur)

(* createWriteInsightRequest: a validation of an unknown type has no type. *)
Detail(type, s) ==
    [type |-> IF type \in ToSet(SectionNames) THEN type ELSE "unspecified", present |-> s.value > 0, labels |-> s.labels]

(* collectMetricsFromConfig: a file of overrides is sent in place of the sections;
   otherwise the five routines are started. *)
CollectMetrics ==
    /\ wlStep["collection"] = "idle"
    /\ \/ /\ overrides # <<>> /\ wlStep' = [wlStep EXCEPT !["collection"] = "sent"]
          /\ wlRequest' = [i \in DOMAIN Parsed(overrides) |-> Detail(Parsed(overrides)[i].type, Parsed(overrides)[i])]
          /\ UNCHANGED pmVars
       \/ /\ overrides = <<>>
          /\ wlStep' = [r \in Routines |-> CASE r = "collection" -> "waiting" [] r = "corosync" -> "pacemaker" [] OTHER -> "start"]
          /\ UNCHANGED wlRequest /\ CollectPacemaker
    /\ UNCHANGED <<wlEnv, section, backupRead, overrides, wlFaults>>

(* CollectSystemMetricsFromConfig: the roles and the zones are asked one after the
   other; the settings of the machine are checked by configureinstance, unless it does
   not know the machine type. *)
SystemRoles ==
    /\ WlAt("system", "start", "zones") /\ Fine /\ Rest /\ UNCHANGED <<backupRead, pmVars>>
    /\ Label("system", [instance_name |-> Here, os |-> "os", has_app_server |-> HasRole("APP"),
                        has_ascs |-> HasRole("ASCS"), has_ers |-> HasRole("ERS")])
SystemZones ==
    /\ WlAt("system", "zones", "done") /\ Rest /\ UNCHANGED <<backupRead, pmVars>>
    /\ \E settings \in {"pass", "fail", ""} :
         /\ IF settings = "" THEN Fault ELSE Fine
         /\ Close("system", 1, [app_server_zonal_separation |-> ZonalSeparation, os_settings |-> settings])

(* CollectNetWeaverMetricsFromConfig and CollectCustomMetricsFromConfig. *)
NetweaverSection ==
    /\ WlAt("netweaver", "start", "done") /\ Fine /\ Rest /\ UNCHANGED <<backupRead, pmVars>>
    /\ Close("netweaver", IF landscape.netweaver THEN 1 ELSE 0, IF landscape.netweaver THEN [command |-> "output"] ELSE <<>>)
CustomSection ==
    /\ WlAt("custom", "start", "done") /\ Fine /\ Rest /\ UNCHANGED <<backupRead, pmVars>>
    /\ Close("custom", 1, [command |-> "output"])

(* The routine of the cluster goes on with corosync, whose section is empty without a
   cluster. *)
CorosyncSection ==
    /\ WlAt("corosync", "pacemaker", "done") /\ pmStep = "done" /\ Fine /\ Rest /\ UNCHANGED <<backupRead, pmVars>>
    /\ section' = [section EXCEPT !["pacemaker"] = [value |-> pmValue, labels |-> pmLabels],
                                  !["corosync"] = IF pmValue = 0 THEN NoSection
                                                  ELSE [value |-> 1, labels |-> [totem |-> "value"]]]

(* CollectHANAMetricsFromConfig: without an instance of HANA, or without its global.ini,
   the section is empty. *)
HANAStart ==
    /\ Rest /\ UNCHANGED <<backupRead, pmVars>>
    /\ \/ landscape.hana /\ WlAt("hana", "start", "volumes") /\ Fine /\ Label("hana", [ini |-> "value"])
       \/ ~landscape.hana /\ WlAt("hana", "start", "done") /\ Fine /\ UNCHANGED section
       \/ landscape.hana /\ WlAt("hana", "start", "done") /\ Fault /\ UNCHANGED section

(* The path of a volume comes from global.ini, from the path of the index server or from
   the instance's environment; df says where it is mounted. *)
HANAVolumes ==
    /\ WlAt("hana", "volumes", "zones") /\ Rest /\ UNCHANGED <<backupRead, pmVars>>
    /\ \/ Fine /\ Label("hana", [v \in DOMAIN Volumes |-> DiskInfo(Volumes[v])])
       \/ \E v \in DOMAIN Volumes : Fault /\ Label("hana", [w \in DOMAIN Volumes |-> DiskInfo(IF w = v THEN "" ELSE Volumes[w])])

HANAZones ==
    /\ WlAt("hana", "zones", "role") /\ Fine /\ Rest /\ UNCHANGED <<backupRead, pmVars>>
    /\ Label("hana", [ha_in_same_zone |-> CheckHAZones])

(* checkDRRegions: a database that is not the primary, or does not say so, has no answer
   to give. *)
HANARole ==
    /\ Rest /\ UNCHANGED <<backupRead, pmVars>>
    /\ \/ primary /\ WlAt("hana", "role", "regions") /\ Fine /\ UNCHANGED section
       \/ ~primary /\ WlAt("hana", "role", "tenants") /\ Fine /\ Label("hana", [dr_in_same_region |-> {}])
       \/ primary /\ WlAt("hana", "role", "tenants") /\ Fault /\ Label("hana", [dr_in_same_region |-> {}])
HANARegions ==
    /\ WlAt("hana", "regions", "tenants") /\ Fine /\ Rest /\ UNCHANGED <<backupRead, pmVars>>
    /\ Label("hana", [dr_in_same_region |-> CheckDRRegions])

(* hanaBackupMetrics: the time now is the newest that may be reported. *)
HANATenants ==
    /\ Rest /\ UNCHANGED pmVars
    /\ \/ /\ WlAt("hana", "tenants", "successes") /\ Fine
          /\ backupRead' = [now |-> Clock + 1, left |-> SetToSeq(Tenants), successes |-> {},
                      oldest |-> [type \in BackupTypes |-> Clock + 1], tenant |-> [type \in BackupTypes |-> ""]]
          /\ UNCHANGED section
       \/ /\ WlAt("hana", "tenants", "done") /\ Fault /\ UNCHANGED backupRead
          /\ Close("hana", 1, [type \in BackupTypes |-> [tenant |-> "", time |-> 0, known |-> FALSE]])

(* The tenant with the older backup is the one to be reported. *)
Reported(fetched) ==
    LET t == Head(backupRead.left)
    IN [backupRead EXCEPT !.left = Tail(@), !.successes = {},
          !.oldest = [type \in BackupTypes |-> IF fetched[type] < @[type] THEN fetched[type] ELSE @[type]],
          !.tenant = [type \in BackupTypes |-> IF fetched[type] < backupRead.oldest[type] THEN t ELSE @[type]]]
Closing(r) ==
    IF r.left # <<>> THEN wlStep' = [wlStep EXCEPT !["hana"] = "successes"] /\ UNCHANGED section
    ELSE wlStep' = [wlStep EXCEPT !["hana"] = "done"]
           /\ Close("hana", 1, [type \in BackupTypes |-> [tenant |-> r.tenant[type], time |-> r.oldest[type], known |-> TRUE]])
(* A tenant whose log cannot be read is named, without a time. *)
Unread ==
    /\ Fault /\ wlStep' = [wlStep EXCEPT !["hana"] = "done"] /\ UNCHANGED backupRead
    /\ Close("hana", 1, [type \in BackupTypes |-> [tenant |-> Head(backupRead.left), time |-> 0, known |-> FALSE]])

(* fetchSuccessfulBackups: without a success the commands are not asked for. *)
HANASuccesses ==
    /\ wlStep["hana"] = "successes" /\ Rest /\ UNCHANGED pmVars
    /\ LET successes == Lines(backupLog[Head(backupRead.left)], "finished")
       IN \/ /\ successes = {} /\ Fine
             /\ backupRead' = Reported([type \in BackupTypes |-> 0]) /\ Closing(backupRead')
          \/ /\ successes # {} /\ Fine
             /\ backupRead' = [backupRead EXCEPT !.successes = successes]
             /\ wlStep' = [wlStep EXCEPT !["hana"] = "commands"] /\ UNCHANGED section
          \/ Unread
HANACommands ==
    /\ wlStep["hana"] = "commands" /\ Rest /\ UNCHANGED pmVars
    /\ \/ /\ Fine
          /\ backupRead' = Reported([type \in BackupTypes |-> Fetched(backupRead.successes, backupLog[Head(backupRead.left)], type)])
          /\ Closing(backupRead')
       \/ Unread

(* The routines have come to their end: the shared labels of the system are put into the
   other sections. *)
Shared == [k \in DOMAIN section["system"].labels \cap SharedSystemMetrics |-> section["system"].labels[k]]
Append5(s) == IF s = "system" THEN section[s] ELSE [section[s] EXCEPT !.labels = WrittenOver(Shared, @)]
(* Mutant: the request does not wait for the routine of the cluster. *)
SendRequestEarly ==
    /\ WlAt("collection", "waiting", "sent")
    /\ \A r \in Routines \ {"collection", "corosync"} : wlStep[r] = "done"
    /\ wlRequest' = [i \in DOMAIN SectionNames |-> Detail(SectionNames[i], Append5(SectionNames[i]))]
    /\ UNCHANGED <<wlEnv, section, backupRead, overrides, wlFaults, pmVars>>

SendRequest ==
    /\ WlAt("collection", "waiting", "sent")
    /\ \A r \in Routines \ {"collection"} : wlStep[r] = "done"
    /\ wlRequest' = [i \in DOMAIN SectionNames |-> Detail(SectionNames[i], Append5(SectionNames[i]))]
    /\ UNCHANGED <<wlEnv, section, backupRead, overrides, wlFaults, pmVars>>

SectionsNext ==
    \/ LandscapeMoves \/ (\E t \in Tenants : HANABackup(t)) \/ CollectMetrics
    \/ SystemRoles \/ SystemZones \/ NetweaverSection \/ CustomSection \/ CorosyncSection
    \/ HANAStart \/ HANAVolumes \/ HANAZones \/ HANARole \/ HANARegions
    \/ HANATenants \/ HANASuccesses \/ HANACommands \/ SendRequest
    \/ pmStep \notin {"idle", "done"} /\ PacemakerNext /\ UNCHANGED wlVars
SectionsSpec == SectionsInit /\ PacemakerInit /\ [][SectionsNext]_SectionsVars

-----------------------------------------------------------------------------
(* As long as a thread runs one backup only, the time reported for a type of backup is
   never newer than the last success of any tenant, and it is that of a success of the
   tenant that is named: the report never says that a tenant is better protected than
   it is, though backups begin and succeed while the log is read twice
   (hanametrics.go:583). *)
BackupsAreNotOverstated ==
    LET once == \A t \in Tenants : \A x, y \in Lines(backupLog[t], "command") : x.thread = y.thread => x = y
    IN wlStep["hana"] = "done" /\ section["hana"].value = 1 /\ once =>
         \A type \in BackupTypes :
            LET d == section["hana"].labels[type]
            IN d.known => /\ \A t \in Tenants : d.time <= Latest(backupLog[t], type)
                          /\ d.tenant # "" /\ d.time > 0 =>
                               \E x \in Lines(backupLog[d.tenant], "finished") :
                                  x.time = d.time /\ TypeOf(backupLog[d.tenant], x.thread, x.time) = type

(* What is reported of a volume is of one device, which is mounted where the volume is
   (hanametrics.go:216), and the hosts reported to be in the same zone are hosts of a
   system this machine belongs to (hanametrics.go:411). *)
HANALabelsBelongTogether ==
    LET labels == section["hana"].labels
    IN /\ \A v \in DOMAIN Volumes \cap DOMAIN labels : labels[v].mount # "" =>
            \E i \in DOMAIN BlockDevices : /\ BlockDevices[i].name = labels[v].device /\ BlockDevices[i].size = labels[v].pdsize
                                      /\ [mount |-> Volumes[v], size |-> labels[v].size] \in ToSet(Children(BlockDevices[i]))
       /\ "ha_in_same_zone" \in DOMAIN labels => \A vm \in labels["ha_in_same_zone"] :
            vm # Here /\ \E l \in Landscapes : \E i \in DOMAIN l.systems :
               {vm, Here} \subseteq {h.vm : h \in l.systems[i].haHosts}

(* A request has every section once, as it was when its routine came to the end, with
   the shared labels of this round; corosync is present with a cluster only
   (workloadcollector.go:280).  A file of overrides gives one section per metric it names. *)
RequestIsWhole ==
    LET of(type) == {wlRequest[i] : i \in {j \in DOMAIN wlRequest : wlRequest[j].type = type}}
    IN wlStep["collection"] = "sent" =>
         IF overrides = <<>>
         THEN /\ Len(wlRequest) = Len(SectionNames)
              /\ \A type \in ToSet(SectionNames) : \E d \in of(type) :
                    /\ d.labels["instance_name"] = Here
                    /\ \A k \in DOMAIN section[type].labels \ SharedSystemMetrics : d.labels[k] = section[type].labels[k]
              /\ \E d \in of("pacemaker") : (d.present <=> pmStep = "done" /\ pmValue = 1) /\ DOMAIN pmLabels \subseteq DOMAIN d.labels
              /\ \E d \in of("corosync"), p \in of("pacemaker") : d.present <=> p.present
         ELSE Len(wlRequest) = Cardinality({i \in DOMAIN overrides : overrides[i].key = "metric" /\ overrides[i].value # ""})

(* The workload validation reports what is there. *)
ValidationIsSound == BackupsAreNotOverstated /\ HANALabelsBelongTogether /\ RequestIsWhole /\ PacemakerLabelsAreTrue
=============================================================================

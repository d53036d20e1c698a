-------------------------------- MODULE MCJobs --------------------------------
(* Jobs that are started, run to their end and may fail on the way: rounds of
   system discovery, discoveries of cloud resources, collections of process metrics
   and of host metrics, HANA insights, descriptions of the cluster, workload
   validations and restores of disks. A behaviour is one of the job that was picked. *)
EXTENDS SystemDiscovery, CloudDiscovery, HANACollectors, ProcessUsage, HANAInsights, HostMetrics,
        WorkloadSections, DiskRestore, TLC

MCSystems == <<"a", "b">>
(* An instance with a disk in a network, another of the same network, a group of both
   and an address that leads to either. *)
MCOwner == "ip1" :> "i1" @@ "ip2" :> "i2" @@ "vip" :> "adr"
MCResolved == "h" :> "vip" @@ "g" :> "ip1"
MCKind == "i1" :> "instance" @@ "i2" :> "instance" @@ "adr" :> "address" @@ "net" :> "network" @@ "grp" :> "group" @@ "dsk" :> "disk"
MCRelated == "i1" :> <<"dsk", "net", "ip1">> @@ "i2" :> <<"net", "ip2">> @@ "adr" :> <<"net">> @@ "net" :> <<>>
               @@ "dsk" :> <<>> @@ "grp" :> <<"i1", "i2">>
MCBackends == {"i1", "grp"}
MCHostLists == {<<"h">>, <<"h", "g">>, <<"g", "h">>}

(* The global rule, a rule whose queries depend on each other, one with a query of
   the same name, a cycle, an ID that was there already, and a cycle beside a query
   that nobody knows. *)
Plain(id, queries, refs, scalars, cond) ==
    [id |-> id, queries |-> queries, deps |-> [q \in queries |-> {}], refs |-> refs, scalars |-> scalars,
     dup |-> FALSE, cond |-> cond, force |-> FALSE]
MCRuleFiles == <<"g", "a", "b", "c", "d", "e">>
MCRule ==
    "g" :> [Plain("knowledgebase", {"v", "n"}, {}, {}, "OR") EXCEPT !.deps = [v |-> {}, n |-> {"v"}]]
      @@ "a" :> [Plain("a", {"p", "q", "s"}, {"p", "v"}, {"v"}, "AND")
                   EXCEPT !.deps = [p |-> {"q", "s"}, q |-> {}, s |-> {"q"}]]
      @@ "b" :> Plain("b", {"p"}, {"p"}, {"p"}, "AND")
      @@ "c" :> [Plain("c", {"p", "q"}, {"p"}, {}, "OR") EXCEPT !.deps = [p |-> {"q"}, q |-> {"p"}]]
      @@ "d" :> Plain("a", {"p"}, {}, {}, "OR")
      @@ "e" :> [Plain("e", {"p", "q"}, {"p"}, {}, "OR")
                   EXCEPT !.deps = [p |-> {"x"}, q |-> {"q"}], !.force = TRUE]

MCDevices == <<"sda", "sdb">>

(* Two machines one of whose names is the beginning of the other's: a cluster of HANA,
   one of ASCS and ERS whose fence device names a service account and that has an
   instance outside the groups, and one with a further group. *)
ClusterResource(type, on, pairs, opers) ==
    [type |-> type, class |-> IF type = "fence_gce" THEN "stonith" ELSE "ocf",
     provider |-> IF type = "IPaddr2" THEN "gcp" ELSE "suse", contains |-> on, endsWith |-> IF "vm11" \in on THEN {"vm11"} ELSE on,
     pairs |-> pairs, meta |-> "notify" :> "true", opers |-> opers]
Operation(name, role_, v) == [name |-> name, role |-> role_, interval |-> v, timeout |-> v]
Fence(on, pairs) == ClusterResource("fence_gce", on, pairs @@ "pcmk_delay_max" :> "30", <<>>)
Instance(profile) ==
    ClusterResource("SAPInstance", {}, "START_PROFILE" :> profile @@ "AUTOMATIC_RECOVER" :> profile @@ "IS_ERS" :> profile,
             <<Operation("monitor", "", profile)>>)
Address(ip) == ClusterResource("IPaddr2", {}, "ip" :> ip @@ "type" :> "alias", <<Operation("monitor", "", ip)>>)
HANAResource(type) ==
    ClusterResource(type, {}, "AUTOMATED_REGISTER" :> "true",
             <<Operation("start", "", "s"), Operation("monitor", "Master", "m"), Operation("monitor", "Slave", "l")>>)
CentralServices ==
    <<[name |-> "ascs", primitives |-> <<Address("1"), Instance("SCS")>>],
      [name |-> "ers", primitives |-> <<Instance("ERS"), Address("2"), ClusterResource("haproxy", {}, <<>>, <<Operation("monitor", "", "h")>>)>>]>>
MCCIB ==
    [nodes |-> {"vm1", "vm11"},
     primitives |-> <<Fence({"vm1"}, "port" :> "vm1"), Fence({"vm1", "vm11"}, "port" :> "vm11" @@ "project" :> "p")>>,
     locations |-> {"cli-prefer"}, rsc |-> "migration-threshold" :> "5",
     clones |-> <<[pairs |-> "clone-max" :> "2", primitives |-> <<HANAResource("SAPHanaTopology")>>],
                  [pairs |-> "interleave" :> "true", primitives |-> <<HANAResource("SAPHanaController")>>]>>,
     master |-> [pairs |-> <<>>, primitives |-> <<>>], groups |-> <<>>, loose |-> <<>>,
     bootstrap |-> "stonith-enabled" :> "true", opDefaults |-> "timeout" :> "6"]
MCCIBs ==
    {MCCIB,
     [MCCIB EXCEPT !.clones = <<>>, !.groups = CentralServices, !.loose = <<"vm1">>,
                   !.primitives = <<Fence({"vm1"}, "port" :> "vm1" @@ "serviceaccount" :> "file")>> \o @],
     [MCCIB EXCEPT !.clones = <<>>,
                   !.groups = Append(CentralServices, [name |-> "other", primitives |-> <<Address("3"), Instance("D00")>>])]}
MCNameLength == "vm1" :> 3 @@ "vm11" :> 4
MCConfigured == Prunable \ {"ers_virtual_ip", "saphana_notify"}

(* A system of other hosts in the zone comes before the one of this machine. *)
Landscape(hasHANA, known) == [hana |-> hasHANA, netweaver |-> hasHANA, systems |-> known]
System(members, resources, sites) ==
    [haHosts |-> {[vm |-> vm, zone |-> "z"] : vm \in members}, appHosts |-> members, resources |-> resources, sites |-> sites, region |-> "r"]
MCLandscapes ==
    {Landscape(TRUE, <<System({"x"}, {}, {}),
                       System({"vm1", "vm11"}, {[vm |-> "vm1", zone |-> "z", roles |-> {"APP"}]}, {[vm |-> "d", region |-> "r"]})>>),
     Landscape(FALSE, <<>>)}
MCVolumes == "data" :> "/hana/data" @@ "log" :> "/hana/log"
BlockDevice(name, disk, size, mount, children) == [name |-> name, disk |-> disk, size |-> size, mount |-> mount, children |-> children]
MCBlockDevices ==
    <<BlockDevice("sda", "pd", "10", "", <<[mount |-> "/hana/data", size |-> "8"], [mount |-> "/x", size |-> "1"]>>),
      BlockDevice("sdb", "ssd", "20", "/hana/log", <<>>)>>
KeyValue(k, v) == [key |-> k, value |-> v]
MCOverrides == {<<>>, <<KeyValue("os", "x"), KeyValue("metric", "system"), KeyValue("metric_value", 1), KeyValue("metric", "odd"), KeyValue("metric", "")>>}
(* One tenant had a backup before. *)
MCFirstLog == "t1" :> <<CommandLine("a", "FULL", 1), Finished("a", 2)>> @@ "t2" :> <<>>

VARIABLE job

mcVars == <<job, sdVars, cdVars, hcVars, mcoVars, puVars, insVars, hostVars, SectionsVars, vars>>

Jobs == {"discovery", "cloud", "hanaSlow", "hanaFast",
         "collection", "usage", "insights", "host", "hostRestarts", "cluster", "validation", "backups", "restore"}

(* The jobs that were not picked begin in one way only. *)
MCInit ==
    /\ job \in Jobs
    /\ DiscoveryInit /\ (job # "discovery" => ~override /\ ~enabled)
    /\ CloudInit /\ (job # "cloud" => user = "i1")
    /\ HANAInit /\ (job \notin {"hanaSlow", "hanaFast"} => role = "primary" /\ password = "right")
    /\ CollectionInit /\ (job # "collection" => collector = "pacemaker" /\ skipped = {})
    /\ UsageInit
    /\ InsightsInit
    /\ HostMetricsInit
    /\ attached["sda"] = "d1"
    /\ SectionsInit /\ ~primary /\ (job # "validation" => landscape.hana /\ overrides = <<>>)
    /\ PacemakerInit /\ (job # "cluster" => cib = MCCIB /\ enqueue = "ENSA2")
    /\ Init /\ (job # "restore" => mode = "bulk" /\ lateEffects = "excluded" /\ vg = "target")
    /\ job # "host" => ~bareMetal /\ attached = "sda" :> "d1" @@ "sdb" :> "d2"

(* The jobs that were not picked stand still. *)
Still(jobs, itsVars) == IF job \in jobs THEN TRUE ELSE UNCHANGED itsVars

(* The slow and the fast collector of HANA are jobs of their own: they share the site
   only, which the collector of the reliability metrics writes in both jobs. The host
   metrics are collected once with devices at work and once with a restart.  The cluster
   moves while it is described, discovery while the sections are collected side by side,
   and backups run while HANA's log is read. *)
HANARoutine ==
    \/ HANAStart \/ HANAVolumes \/ HANAZones \/ HANARole \/ HANARegions \/ HANATenants \/ HANASuccesses \/ HANACommands
MCNext ==
    /\ UNCHANGED job
    /\ \/ job = "discovery" /\ DiscoveryNext
       \/ job = "cloud" /\ CloudNext
       \/ job = "hanaSlow" /\ UNCHANGED hcFast /\ HANANext
       \/ job = "hanaFast" /\ UNCHANGED hcSlow /\ HANANext
       \/ job = "collection" /\ CollectionNext
       \/ job = "usage" /\ UsageNext
       \/ job = "insights" /\ InsightsNext
       \/ job = "host" /\ UNCHANGED hmGen /\ HostMetricsNext
       \/ job = "hostRestarts" /\ UNCHANGED hmEnv /\ HostMetricsNext /\ hmCollections' < MaxHMCollections
       \/ job = "cluster" /\ UNCHANGED wlVars /\ PacemakerNext
       \/ job = "validation" /\ UNCHANGED <<backupLog, pmMoves, pmFaults>> /\ SectionsNext
       \/ job = "backups" /\ wlStep["hana"] \in {"", "successes", "commands"} /\ \E t \in Tenants : HANABackup(t)
       \/ job = "backups" /\ (CollectMetrics \/ HANARoutine)
       \/ job = "restore" /\ Next
    /\ Still({"discovery"}, sdVars) /\ Still({"cloud"}, cdVars) /\ Still({"hanaSlow", "hanaFast"}, hcVars)
    /\ Still({"collection"}, mcoVars) /\ Still({"usage"}, puVars) /\ Still({"insights"}, insVars)
    /\ Still({"host", "hostRestarts"}, hostVars) /\ Still({"cluster", "validation", "backups"}, SectionsVars)
    /\ Still({"restore"}, vars)

MCSpec == MCInit /\ [][MCNext]_mcVars
==============================================================================

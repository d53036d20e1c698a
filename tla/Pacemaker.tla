------------------------------ MODULE Pacemaker ------------------------------
(* internal/pacemaker: the labels that describe a Linux cluster to Workload Manager.
   A collection reads the cluster's configuration once and then asks one command
   after the other, while the cluster moves its resources, goes under maintenance or
   loses a node.  Attribute names occur once in a set of attributes; times are values,
   their unit is left out. *)
EXTENDS Naturals, SequencesExt

CONSTANTS VMs,          \* the names of the cluster's machines
          Here,         \* the machine the agent runs on
          NameLength,   \* how long each name is
          CIBs,         \* the configurations the cluster may have
          Configured,   \* the labels the collection definition asks for
          CommandLabels,\* the labels of its OS commands
          MaxPmCollections,
          MaxPmMoves,   \* changes of the cluster in a behaviour
          MaxPmFaults   \* commands and requests that fail

ASSUME PacemakerAssumption == Here \in VMs /\ \A v \in VMs : NameLength[v] \in Nat

VARIABLES cib,          \* the cluster's configuration
          enqueue,      \* the enqueue server of the profile
          cluster,      \* where ASCS and ERS run, maintenance, health, access to the APIs
          pmStep, pmValue, pmLabels, pmProject,
          observed,     \* what each part of the cluster was during this collection
          pmCollections, pmMoves, pmFaults

pmVars == <<cib, enqueue, cluster, pmStep, pmValue, pmLabels, pmProject, observed, pmCollections, pmMoves, pmFaults>>
pmEnv == <<cib, enqueue, cluster, observed, pmMoves>>

(* CollectPacemakerMetrics: the labels that are pruned unless they are configured. *)
Prunable ==
    {"pcmk_delay_base", "pcmk_delay_max", "pcmk_monitor_retries", "pcmk_reboot_timeout", "location_preference_set",
     "fence_agent", "fence_agent_compute_api_access", "fence_agent_logging_api_access", "maintenance_mode_active",
     "ascs_instance", "ers_instance", "enqueue_server", "ensa2_capable", "ascs_ip", "ers_ip", "ascs_virtual_ip",
     "ers_virtual_ip", "is_ers", "op_timeout", "has_alias_ip", "cluster_healthy", "stonith_enabled", "stonith_timeout",
     "saphanacontroller_ra_configured"}
      \cup {a \o "_" \o b : a \in {"saphana", "saphanatopology"},
                            b \in {"start_timeout", "stop_timeout", "promote_timeout", "demote_timeout",
                                   "monitor_interval", "monitor_timeout", "clone_node_max", "interleave"}}
      \cup {"saphana_" \o b : b \in {"primary_monitor_interval", "primary_monitor_timeout", "secondary_monitor_interval",
                                     "secondary_monitor_timeout", "automated_register", "duplicate_primary_timeout",
                                     "prefer_site_takeover", "notify", "clone_max"}}
      \cup {a \o b : a \in {"", "ascs_", "ers_"},
                     b \in {"healthcheck_monitor_interval", "healthcheck_monitor_timeout",
                            "ilb_monitor_interval", "ilb_monitor_timeout", "migration_threshold", "resource_stickiness"}}
      \cup {a \o b : a \in {"ascs_", "ers_"}, b \in {"automatic_recover", "failure_timeout", "monitor_interval", "monitor_timeout"}}

-----------------------------------------------------------------------------
(* The labels of the configuration. *)
Value(pairs, name) == IF name \in DOMAIN pairs THEN pairs[name] ELSE ""
Blank(labels) == [k \in labels |-> ""]
(* The pairs with these names, as labels. *)
Renamed(pairs, names) == [k \in {names[n] : n \in DOMAIN pairs \cap DOMAIN names} |->
                            pairs[CHOOSE n \in DOMAIN pairs \cap DOMAIN names : names[n] = k]]
Overlay(l, new) == new @@ l
Later(seqOfLabels) == FoldLeft(Overlay, <<>>, seqOfLabels)

(* Mutant: the shortest name the id contains. *)
InstanceOfShortest(p) ==
    IF p.contains \cap cib.nodes = {} THEN ""
    ELSE CHOOSE v \in p.contains \cap cib.nodes : \A w \in p.contains \cap cib.nodes : NameLength[v] <= NameLength[w]

(* clusterNodes, sorted by length, and instanceNameFromPrimitiveID: the longest name
   the id contains, so that vm1 is not taken for vm11. *)
InstanceOf(p) ==
    IF p.contains \cap cib.nodes = {} THEN ""
    ELSE CHOOSE v \in p.contains \cap cib.nodes : \A w \in p.contains \cap cib.nodes : NameLength[v] >= NameLength[w]

(* instanceAttributeValue: the attribute belongs to the machine of the id. *)
HasDelay(p) == InstanceOf(p) # "" /\ "pcmk_delay_max" \in DOMAIN p.pairs /\ InstanceOf(p) \in p.endsWith

(* setPacemakerPrimitives: the loop ends with the first primitive that names a service
   account. *)
Looked(p) == p.type = "fence_gce" \/ Here \in p.endsWith
NamesAccount(p) == Looked(p) /\ Value(p.pairs, "serviceaccount") # ""
Primitives ==
    LET names == {i \in DOMAIN cib.primitives : NamesAccount(cib.primitives[i])}
    IN IF names = {} THEN cib.primitives
       ELSE SubSeq(cib.primitives, 1, CHOOSE i \in names : \A j \in names : i <= j)

(* iteratePrimitiveChild: the fence device of this machine. *)
FenceLabels(p) ==
    IF (p.type = "fence_gce" /\ Value(p.pairs, "port") = Here) \/ Here \in p.endsWith
    THEN [k \in {"pcmk_delay_base", "pcmk_reboot_timeout", "pcmk_monitor_retries"} |-> Value(p.pairs, k)]
           @@ (IF p.class = "stonith" THEN "fence_agent" :> p.type ELSE <<>>)
    ELSE <<>>

PrimitiveLabels ==
    LET looked == SelectSeq(Primitives, Looked)
        delays == SelectSeq(Primitives, HasDelay)
    IN (IF delays = <<>> THEN <<>>
        ELSE "pcmk_delay_max" :> {<<InstanceOf(delays[i]), delays[i].pairs["pcmk_delay_max"]>> : i \in DOMAIN delays})
         @@ Later([i \in DOMAIN looked |-> FenceLabels(looked[i])])

Account == IF Primitives # <<>> /\ NamesAccount(Last(Primitives)) THEN Last(Primitives).pairs["serviceaccount"] ELSE ""
Project ==
    LET named == SelectSeq(Primitives, LAMBDA p : Looked(p) /\ "project" \in DOMAIN p.pairs)
    IN IF named = <<>> THEN "" ELSE Last(named).pairs["project"]

(* setLabelsForRSCNVPairs and the location constraints of a resource that was moved. *)
DefaultLabels ==
    "location_preference_set" :> (IF "cli-prefer" \in cib.locations THEN "true" ELSE "false")
      @@ Renamed(cib.rsc, "migration-threshold" :> "migration_threshold" @@ "resource-stickiness" :> "resource_stickiness")

Clones == Append(cib.clones, cib.master)
ClonePrimitives == FlattenSeq([i \in DOMAIN Clones |-> Clones[i].primitives])

(* setPacemakerHanaOperations and pacemakerHanaTopology. *)
HanaOperation(oper) ==
    CASE oper.name \in {"start", "stop", "promote", "demote"} -> ("saphana_" \o oper.name \o "_timeout") :> oper.timeout
      [] oper.name = "monitor" /\ oper.role \in {"Master", "Promoted"} ->
           "saphana_primary_monitor_interval" :> oper.interval @@ "saphana_primary_monitor_timeout" :> oper.timeout
      [] oper.name = "monitor" /\ oper.role \in {"Slave", "Unpromoted"} ->
           "saphana_secondary_monitor_interval" :> oper.interval @@ "saphana_secondary_monitor_timeout" :> oper.timeout
      [] OTHER -> <<>>
TopologyOperation(oper) ==
    CASE oper.name = "monitor" ->
           "saphanatopology_monitor_interval" :> oper.interval @@ "saphanatopology_monitor_timeout" :> oper.timeout
      [] oper.name \in {"start", "stop"} -> ("saphanatopology_" \o oper.name \o "_timeout") :> oper.timeout
      [] OTHER -> <<>>

(* filterPrimitiveOpsByType. *)
OpsOf(types) ==
    LET ps == SelectSeq(ClonePrimitives, LAMBDA p : p.type \in types)
    IN FlattenSeq([i \in DOMAIN ps |-> ps[i].opers])
Labelled(Op(_), opers) == Later([i \in DOMAIN opers |-> Op(opers[i])])

(* setPacemakerHANACloneAttrs: of every clone the first primitive of HANA; the
   attributes of the clone and of the primitive are one list. *)
FirstOf(types) ==
    LET withOne == SelectSeq(Clones, LAMBDA c : \E i \in DOMAIN c.primitives : c.primitives[i].type \in types)
    IN [i \in DOMAIN withOne |->
          [clone |-> withOne[i], primitive |-> SelectSeq(withOne[i].primitives, LAMBDA p : p.type \in types)[1]]]
MetaOf(firsts) == Later([i \in DOMAIN firsts |-> firsts[i].primitive.meta @@ firsts[i].clone.pairs])

HANACloneLabels ==
    LET hana == FirstOf({"SAPHana", "SAPHanaController"})
        suse == \E i \in DOMAIN hana : hana[i].primitive.type = "SAPHanaController" /\ hana[i].primitive.provider = "suse"
        meta == Renamed(MetaOf(hana), "notify" :> "saphana_notify" @@ "clone-max" :> "saphana_clone_max"
                                        @@ "clone-node-max" :> "saphana_clone_node_max" @@ "interleave" :> "saphana_interleave")
        own == IF hana = <<>> THEN <<>> ELSE Last(hana).primitive.pairs
        instance == Renamed(own, "AUTOMATED_REGISTER" :> "saphana_automated_register"
                                   @@ "DUPLICATE_PRIMARY_TIMEOUT" :> "saphana_duplicate_primary_timeout"
                                   @@ "PREFER_SITE_TAKEOVER" :> "saphana_prefer_site_takeover")
    IN meta @@ instance @@ "saphanacontroller_ra_configured" :> (IF suse THEN "true" ELSE "false")
         @@ Blank({"saphana_automated_register", "saphana_duplicate_primary_timeout", "saphana_prefer_site_takeover",
                   "saphana_notify", "saphana_clone_max", "saphana_clone_node_max", "saphana_interleave"})

TopologyCloneLabels ==
    Renamed(MetaOf(FirstOf({"SAPHanaTopology"})),
            "clone-node-max" :> "saphanatopology_clone_node_max" @@ "interleave" :> "saphanatopology_interleave")
      @@ Blank({"saphanatopology_clone_node_max", "saphanatopology_interleave"})

(* setPacemakerStonithClusterProperty and setOPOptions. *)
StonithLabels == Renamed(cib.bootstrap, "stonith-enabled" :> "stonith_enabled" @@ "stonith-timeout" :> "stonith_timeout")
                   @@ Blank({"stonith_enabled", "stonith_timeout"})
OpLabels == Renamed(cib.opDefaults, "timeout" :> "op_timeout") @@ Blank({"op_timeout"})

-----------------------------------------------------------------------------
(* The resource groups of the central services. *)
Instances(g) == SelectSeq(g.primitives, LAMBDA p : p.type = "SAPInstance")
Profiles(g) == SelectSeq(Instances(g), LAMBDA p : "START_PROFILE" \in DOMAIN p.pairs)
Serves(g, profile) == \E i \in DOMAIN Profiles(g) : Profiles(g)[i].pairs["START_PROFILE"] = profile
Monitor(p, prefix) ==
    LET opers == SelectSeq(p.opers, LAMBDA oper : oper.name = "monitor")
    IN IF opers = <<>> THEN <<>>
       ELSE (prefix \o "monitor_interval") :> Last(opers).interval @@ (prefix \o "monitor_timeout") :> Last(opers).timeout

(* The group setASCSConfigMetrics and setERSConfigMetrics take: the first one. *)
GroupOf(profile) == SelectSeq(cib.groups, LAMBDA g : Serves(g, profile))

ASCSGroupLabels ==
    LET g == GroupOf("SCS")
        of(p) == Monitor(p, "ascs_")
                   @@ Renamed(p.meta, "failure-timeout" :> "ascs_failure_timeout" @@ "migration-threshold" :> "ascs_migration_threshold"
                                        @@ "resource-stickiness" :> "ascs_resource_stickiness")
                   @@ Renamed(p.pairs, "AUTOMATIC_RECOVER" :> "ascs_automatic_recover")
    IN (IF g = <<>> THEN <<>> ELSE Later([i \in DOMAIN Instances(g[1]) |-> of(Instances(g[1])[i])]))
         @@ Blank({"ascs_automatic_recover", "ascs_failure_timeout", "ascs_migration_threshold", "ascs_resource_stickiness",
                   "ascs_monitor_interval", "ascs_monitor_timeout", "ensa2_capable"})

ERSGroupLabels ==
    LET g == GroupOf("ERS")
        of(p) == Monitor(p, "ers_")
                   @@ Renamed(p.pairs, "AUTOMATIC_RECOVER" :> "ers_automatic_recover" @@ "IS_ERS" :> "is_ers")
    IN (IF g = <<>> THEN <<>> ELSE Later([i \in DOMAIN Instances(g[1]) |-> of(Instances(g[1])[i])]))
         @@ Blank({"ers_automatic_recover", "is_ers", "ers_monitor_interval", "ers_monitor_timeout"})

(* collectASCSIP: the last group of each kind, a group's kind being that of its last
   profile. *)
AddressOf(g) ==
    LET ips == SelectSeq(g.primitives, LAMBDA p : p.type = "IPaddr2" /\ "ip" \in DOMAIN p.pairs)
    IN IF ips = <<>> THEN "" ELSE Last(ips).pairs["ip"]
KindOf(g) == IF Profiles(g) = <<>> THEN "" ELSE Last(Profiles(g)).pairs["START_PROFILE"]
AddressLabels ==
    LET of(g) == CASE KindOf(g) = "SCS" -> "ascs_ip" :> AddressOf(g)
                   [] KindOf(g) = "ERS" -> "ers_ip" :> AddressOf(g)
                   [] OTHER -> <<>>
    IN Later([i \in DOMAIN cib.groups |-> of(cib.groups[i])]) @@ Blank({"ascs_ip", "ers_ip"})

(* setHealthCheckInternalLoadBalancerMetrics: the prefix is that of the group's last
   instance of ASCS or ERS. *)
BalancerLabels ==
    LET prefix(g) ==
            LET ps == SelectSeq(Profiles(g), LAMBDA p : p.pairs["START_PROFILE"] \in {"SCS", "ERS"})
            IN IF ps = <<>> THEN "" ELSE IF Last(ps).pairs["START_PROFILE"] = "SCS" THEN "ascs_" ELSE "ers_"
        of(g) == Later([i \in DOMAIN g.primitives |->
                          CASE g.primitives[i].type \in {"anything", "haproxy"} -> Monitor(g.primitives[i], prefix(g) \o "healthcheck_")
                            [] g.primitives[i].type = "IPaddr2" -> Monitor(g.primitives[i], prefix(g) \o "ilb_")
                            [] OTHER -> <<>>])
        alias == \E i \in DOMAIN cib.groups : \E j \in DOMAIN cib.groups[i].primitives :
                   LET p == cib.groups[i].primitives[j]
                   IN p.type = "IPaddr2" /\ p.provider = "gcp" /\ Value(p.pairs, "type") = "alias"
    IN Later([i \in DOMAIN cib.groups |-> of(cib.groups[i])]) @@ "has_alias_ip" :> (IF alias THEN "true" ELSE "false")
         @@ Blank({a \o b : a \in {"", "ascs_", "ers_"},
                            b \in {"healthcheck_monitor_interval", "healthcheck_monitor_timeout", "ilb_monitor_interval", "ilb_monitor_timeout"}})
-----------------------------------------------------------------------------
(* The cluster.  What it was in the course of a collection is remembered. *)
PartsOfCluster == {"ascs", "ers", "maintenance", "healthy", "compute", "logging"}
Seen(c) == [piece \in PartsOfCluster |-> {c[piece]}]

PacemakerInit ==
    /\ cib \in CIBs
    /\ enqueue \in {"ENSA1", "ENSA2"}
    /\ cluster = [ascs |-> Here, ers |-> "", maintenance |-> FALSE, healthy |-> TRUE, compute |-> TRUE, logging |-> TRUE]
    /\ pmStep = "idle" /\ pmValue = 0 /\ pmLabels = <<>> /\ pmProject = ""
    /\ observed = Seen(cluster)
    /\ pmCollections = 0 /\ pmMoves = 0 /\ pmFaults = 0

(* A failover, a change of the mode, a node that is lost or back, a right that is taken. *)
ClusterMoves ==
    /\ pmMoves < MaxPmMoves /\ pmMoves' = pmMoves + 1
    /\ \/ \E r \in {"ascs", "ers"}, v \in VMs \cup {""} : cluster' = [cluster EXCEPT ![r] = v]
       \/ \E piece \in {"maintenance", "healthy", "compute", "logging"} : cluster' = [cluster EXCEPT ![piece] = ~@]
    /\ cluster' # cluster
    /\ observed' = [piece \in PartsOfCluster |-> observed[piece] \cup {cluster'[piece]}]
    /\ UNCHANGED <<cib, enqueue, pmStep, pmValue, pmLabels, pmProject, pmCollections, pmFaults>>

-----------------------------------------------------------------------------
At(from, next) == pmStep = from /\ pmStep' = next
Set(new) == pmLabels' = new @@ pmLabels
Answered == UNCHANGED pmFaults
Unanswered == pmFaults < MaxPmFaults /\ pmFaults' = pmFaults + 1
PmKept == UNCHANGED <<pmValue, pmProject, pmCollections>> /\ UNCHANGED pmEnv

(* The collector is called; without cloud properties there is nothing but the OS
   commands. *)
CollectPacemaker ==
    /\ At("idle", "xml") \/ At("idle", "prune")
    /\ pmCollections < MaxPmCollections /\ pmCollections' = pmCollections + 1
    /\ pmValue' = 0 /\ pmLabels' = <<>> /\ pmProject' = "" /\ observed' = Seen(cluster)
    /\ UNCHANGED <<cib, enqueue, cluster, pmMoves, pmFaults>>

(* XMLString and ParseXML: a tool that fails gives nothing that can be parsed. *)
ReadXML ==
    \/ At("xml", "token") /\ Set(PrimitiveLabels) /\ pmProject' = Project
         /\ Answered /\ UNCHANGED <<pmValue, pmCollections>> /\ UNCHANGED pmEnv
    \/ At("xml", "prune") /\ Unanswered /\ UNCHANGED pmLabels /\ PmKept

(* Mutant: a collection without a token goes on. *)
GetBearerTokenIsOptional ==
    /\ PmKept
    /\ \/ At("token", "compute") /\ Answered
            /\ Set(TopologyCloneLabels @@ Labelled(TopologyOperation, OpsOf({"SAPHanaTopology"})) @@ HANACloneLabels
                     @@ Labelled(HanaOperation, OpsOf({"SAPHana", "SAPHanaController"})) @@ DefaultLabels)
       \/ At("token", "prune") /\ Unanswered /\ Set(DefaultLabels)

(* getBearerToken: of the account the fence device names, or of the machine.  Without
   a token the collection ends with what is there. *)
GetBearerToken ==
    /\ PmKept
    /\ \/ At("token", "compute") /\ Answered
            /\ Set(TopologyCloneLabels @@ Labelled(TopologyOperation, OpsOf({"SAPHanaTopology"})) @@ HANACloneLabels
                     @@ Labelled(HanaOperation, OpsOf({"SAPHana", "SAPHanaController"})) @@ DefaultLabels)
       \/ At("token", "prune") /\ Unanswered /\ UNCHANGED pmLabels

(* setPacemakerAPIAccess: a request that fails says that there is no access. *)
CheckAPIAccess(from, next, api) ==
    /\ At(from, next) /\ PmKept
    /\ \/ Answered /\ Set(("fence_agent_" \o api \o "_api_access") :> ToString(cluster[api]))
       \/ Unanswered /\ Set(("fence_agent_" \o api \o "_api_access") :> "FALSE")

(* setPacemakerMaintenanceMode: a command that fails says that there is no
   maintenance. *)
MaintenanceLabel ==
    /\ At("maintenance", "health") /\ PmKept
    /\ \/ Answered /\ Set("maintenance_mode_active" :> ToString(cluster.maintenance))
       \/ Unanswered /\ Set("maintenance_mode_active" :> "FALSE")

(* setPacemakerClusterHealthy: a line between the nodes and the fencing actions that
   failed names a node or a resource in trouble. *)
HealthLabel ==
    /\ At("health", "status") /\ PmKept
    /\ \/ Answered /\ Set("cluster_healthy" :> ToString(cluster.healthy) @@ StonithLabels)
       \/ Unanswered /\ Set("cluster_healthy" :> "command_failed" @@ StonithLabels)

(* collectASCSInstance: the lines of the status are the groups, with the instance of
   each, and then the instances of no group, which count for the group that came last.
   An instance that is not started names no machine. *)
StatusLines ==
    FlattenSeq([i \in DOMAIN cib.groups |->
        <<[group |-> cib.groups[i].name, at |-> ""]>> \o
        [j \in DOMAIN Profiles(cib.groups[i]) |->
            [group |-> "", at |-> CASE Profiles(cib.groups[i])[j].pairs["START_PROFILE"] = "SCS" -> cluster.ascs
                                    [] Profiles(cib.groups[i])[j].pairs["START_PROFILE"] = "ERS" -> cluster.ers
                                    [] OTHER -> Here]]])
      \o [i \in DOMAIN cib.loose |-> [group |-> "", at |-> cib.loose[i]]]

(* Mutant: a group of another kind does not end the group before it. *)
InstanceLabelsRunOn ==
    LET read(r, line) ==
            CASE line.group \in {"ascs", "ers"}        -> [r EXCEPT !.in = line.group]
              [] line.group = "" /\ r.in # "" /\ line.at # "" -> [r EXCEPT ![r.in] = line.at]
              [] OTHER                                 -> r
        r == FoldLeft(read, [in |-> "", ascs |-> "", ers |-> ""], StatusLines)
    IN "ascs_instance" :> r.ascs @@ "ers_instance" :> r.ers

InstanceLabels ==
    LET read(r, line) ==
            CASE line.group # ""                       -> [r EXCEPT !.in = line.group]
              [] line.group = "" /\ line.at = ""       -> r
              [] r.in \in {"ascs", "ers"} /\ line.at # "" -> [r EXCEPT ![r.in] = line.at]
              [] OTHER                                 -> r
        r == FoldLeft(read, [in |-> "", ascs |-> "", ers |-> ""], StatusLines)
    IN "ascs_instance" :> r.ascs @@ "ers_instance" :> r.ers

CollectASCSInstance ==
    /\ At("status", "enqueue") /\ PmKept
    /\ \/ Answered /\ Set(InstanceLabels)
       \/ Unanswered /\ Set(Blank({"ascs_instance", "ers_instance"}))

(* collectEnqueueServer: the profile of the SAP system names the enqueue server. *)
CollectEnqueueServer ==
    /\ At("enqueue", "profile") /\ PmKept
    /\ \/ Answered /\ Set("enqueue_server" :> enqueue)
       \/ Unanswered /\ Set("enqueue_server" :> "")

(* setASCSConfigMetrics asks the profile of ASCS whether it is capable of ENSA2; the
   labels of ERS and the addresses come with it. *)
CollectGroups ==
    LET ascs == GroupOf("SCS") # <<>>
        capable(v) == Set(AddressLabels @@ ERSGroupLabels @@ (IF ascs THEN "ensa2_capable" :> v ELSE <<>>) @@ ASCSGroupLabels)
    IN /\ At("profile", "hosts") /\ PmKept
       /\ \/ Answered /\ capable(IF enqueue = "ENSA2" THEN "true" ELSE "false")
          \/ ascs /\ Unanswered /\ capable("false")

(* collectASCSVirtualIP: ENSA1 has no host name for ERS; a name that is not found leaves
   the label empty.  The labels of the defaults and the load balancers are last. *)
CollectVirtualIP ==
    LET addresses == "ascs_virtual_ip" :> "ascs" @@ "ers_virtual_ip" :> (IF pmLabels["enqueue_server"] = "ENSA2" THEN "ers" ELSE "")
        none == Blank({"ascs_virtual_ip", "ers_virtual_ip"})
    IN /\ At("hosts", "prune") /\ pmValue' = 1
       /\ \/ Answered /\ Set(BalancerLabels @@ OpLabels @@ (IF pmLabels["enqueue_server"] = "" THEN none ELSE addresses))
          \/ /\ Unanswered
             /\ \E ascs \in {{}, {"ascs_virtual_ip"}, {"ers_virtual_ip"}} :
                  Set(BalancerLabels @@ OpLabels
                        @@ [k \in DOMAIN none |-> IF k \in ascs /\ pmLabels["enqueue_server"] # "" THEN addresses[k] ELSE ""])
       /\ UNCHANGED <<pmProject, pmCollections>> /\ UNCHANGED pmEnv

(* Mutant: only the labels that are configured nowhere else are taken out. *)
PruneConfigured ==
    /\ At("prune", "done") /\ PmKept /\ Answered
    /\ \E ran \in {CommandLabels, {}} :
         pmLabels' = [k \in ran |-> "command"] @@ [k \in DOMAIN pmLabels \ (Prunable \cap Configured) |-> pmLabels[k]]

(* The labels nobody asked for are taken out and the OS commands are run. *)
Prune ==
    /\ At("prune", "done") /\ PmKept /\ Answered
    /\ \E ran \in {CommandLabels, {}} :
         pmLabels' = [k \in ran |-> "command"]
                       @@ [k \in DOMAIN pmLabels \ (Prunable \ Configured) |-> pmLabels[k]]

ReturnLabels == At("done", "idle") /\ PmKept /\ Answered /\ UNCHANGED pmLabels

PacemakerNext ==
    \/ ClusterMoves \/ CollectPacemaker \/ ReadXML \/ GetBearerToken
    \/ CheckAPIAccess("compute", "logging", "compute") \/ CheckAPIAccess("logging", "maintenance", "logging")
    \/ MaintenanceLabel \/ HealthLabel \/ CollectASCSInstance \/ CollectEnqueueServer
    \/ CollectGroups \/ CollectVirtualIP \/ Prune \/ ReturnLabels

-----------------------------------------------------------------------------
Collected == pmStep = "done"
HasLabel(k) == k \in DOMAIN pmLabels

(* A label of the cluster's state was true at some moment of the collection, though the
   commands ran one after the other while the cluster moved; only a command that failed
   may have said otherwise. *)
Truthful ==
    LET saw(piece) == {ToString(v) : v \in observed[piece]} \cup (IF pmFaults > 0 THEN {"FALSE", "command_failed"} ELSE {})
        grouped == /\ cib.loose = <<>>
                   /\ \A i \in DOMAIN cib.groups : cib.groups[i].name = (CASE KindOf(cib.groups[i]) = "SCS" -> "ascs"
                                                                          [] KindOf(cib.groups[i]) = "ERS" -> "ers" [] OTHER -> "other")
    IN /\ HasLabel("maintenance_mode_active") => pmLabels["maintenance_mode_active"] \in saw("maintenance")
       /\ HasLabel("cluster_healthy") => pmLabels["cluster_healthy"] \in saw("healthy")
       /\ \A api \in {"compute", "logging"} :
            HasLabel("fence_agent_" \o api \o "_api_access") => pmLabels["fence_agent_" \o api \o "_api_access"] \in saw(api)
       /\ grouped => \A r \in {"ascs", "ers"} :
            HasLabel(r \o "_instance") => pmLabels[r \o "_instance"] \in observed[r] \cup {""}

(* A collection that could not read the cluster or get a token says nothing of it but
   what the fence devices are, and no collection reports what nobody asked for. *)
Modest ==
    /\ DOMAIN pmLabels \subseteq (Configured \cup CommandLabels)
    /\ pmValue = 0 => DOMAIN pmLabels \subseteq CommandLabels \cup DOMAIN PrimitiveLabels

(* The labels of ASCS never come from the group of ERS, nor the other way round, and
   the delay before fencing is told for every machine that has one, unless a fence
   device names a service account. *)
Attributed ==
    LET groups(profile) == {cib.groups[i] : i \in {j \in DOMAIN cib.groups : Serves(cib.groups[j], profile)}}
        ips(profile) == UNION {{g.primitives[i].pairs["ip"] : i \in {j \in DOMAIN g.primitives : "ip" \in DOMAIN g.primitives[j].pairs}} : g \in groups(profile)}
        delayed == {v \in cib.nodes : \E i \in DOMAIN cib.primitives :
                      v \in cib.primitives[i].endsWith /\ "pcmk_delay_max" \in DOMAIN cib.primitives[i].pairs}
    IN /\ HasLabel("ascs_ip") => pmLabels["ascs_ip"] \in ips("SCS") \cup {""}
       /\ HasLabel("ers_ip") => pmLabels["ers_ip"] \in ips("ERS") \cup {""}
       /\ pmValue = 1 /\ Account = "" /\ "pcmk_delay_max" \in Configured /\ delayed # {} =>
            HasLabel("pcmk_delay_max") /\ delayed = {d[1] : d \in pmLabels["pcmk_delay_max"]}

(* The labels of the cluster can be relied on. *)
PacemakerLabelsAreTrue == Collected => Truthful /\ Modest /\ Attributed
=============================================================================

--------------------------- MODULE MetricCollection ---------------------------
(* One collection of a slow collector of process metrics (the packages under
   internal/processmetrics): its parts in their order, the metrics that are to be
   skipped, errors, and CollectWithRetry around it. The collectors of the HANA
   metrics are in HANACollectors, what computeresources remembers in ProcessUsage. *)
EXTENDS Naturals, Sequences

CONSTANTS
    CollectorKinds,         \* the collectors of this instance
    MaySkip,                \* metrics of which one is to be skipped, or none
    MayBeAbsent,            \* metrics that a reading without an error may not have
    MaxCollectionAttempts   \* of the backoff of process metrics

Table == {"netweaverICM", "netweaverMS", "infra", "cluster", "network", "volume", "pacemaker",
          "services", "instance", "control", "memory", "maintenance"}

ASSUME MetricCollectionAssumption ==
    CollectorKinds \subseteq Table /\ MaxCollectionAttempts \in Nat \ {0}

(* A part of a collector: the metrics it reads, of which each is left out if it is
   to be skipped or only all of them, if one of the metrics off is; and what
   an error does, where it can meet one. *)
Whole(metrics, off, onError) == [metrics |-> metrics, off |-> off, each |-> FALSE, onError |-> onError]
Each(metrics, onError) == [metrics |-> metrics, off |-> {}, each |-> TRUE, onError |-> onError]

(* What the ABAP instance is asked over sapcontrol, dpmon and ensmon. *)
WorkProcesses == Whole({"proc/count", "proc/busy", "proc/utilization"}, {"proc/count", "proc/busy", "proc/utilization"}, "lose")
Queues == Whole({"queue/current", "queue/peak"}, {"queue/current", "queue/peak"}, "lose")
Sessions == Whole({"sessions"}, {"sessions"}, "lose")
RFCConnections == Whole({"rfc"}, {"rfc"}, "lose")
EnqueueLocks == Whole({"locks"}, {"locks"}, "lose")
Role == Whole({"role"}, {"role"}, "lose")

(* The check of the health URL looks for the response code only, and for nothing
   where the service has no URL. *)
ICM == Whole({"icm/rcode", "icm/rtime"}, {"icm/rcode"}, "lose")
MessageServer == Whole({"ms/rcode", "ms/rtime", "ms/wp"}, {"ms/rcode"}, "lose")

ServiceAvailability == Whole({"service"}, {"service"}, "zero")

NetWeaverParts(http) ==
    <<ServiceAvailability, http, WorkProcesses, Queues, Sessions, RFCConnections, EnqueueLocks, Role>>

Maintenances == {"can_reschedule", "type", "maintenance_status", "window_start_time", "window_end_time",
                 "latest_window_start_time"}
InfraParts == <<Whole({"migration"}, {"migration"}, "lose"), Each(Maintenances, "zeroOrLose")>>

(* crm_mon first, for all of them. *)
ClusterParts ==
    <<Each({}, "abort"), Whole({"nodes"}, {"nodes"}, "lose"),
      Whole({"resources"}, {"resources"}, "lose"), Whole({"failcounts"}, {"failcounts"}, "lose")>>

NetworkParts == <<Each({"rtt", "rcv_rtt", "rto", "bytes_acked", "bytes_received", "lastsnd", "lastrcv"}, "abort")>>

VolumeParts == <<Whole({"volumes"}, {}, "lose")>>

PacemakerParts == <<Whole({"pacemaker"}, {"pacemaker"}, "none")>>

ServiceParts == <<Whole({"is_failed"}, {"is_failed"}, "none"), Whole({"is_disabled"}, {"is_disabled"}, "none")>>

CPU == Whole({"cpu"}, {"cpu"}, "part")
Memory == Whole({"memory"}, {"memory"}, "part")
ControlParts == <<CPU, Memory>>
InstanceParts == <<CPU, Memory, Whole({"iops/reads", "iops/writes"}, {"iops/reads", "iops/writes"}, "part")>>

MemoryParts == <<Each({"meminfo", "commit_percent"}, "lose"), Each({"free", "swap"}, "lose")>>

MaintenanceParts == <<Whole({"mntmode"}, {"mntmode"}, "lose")>>

PartsOf(kind) ==
    CASE kind = "netweaverICM" -> NetWeaverParts(ICM)
      [] kind = "netweaverMS"  -> NetWeaverParts(MessageServer)
      [] kind = "infra"        -> InfraParts
      [] kind = "cluster"      -> ClusterParts
      [] kind = "network"      -> NetworkParts
      [] kind = "volume"       -> VolumeParts
      [] kind = "pacemaker"    -> PacemakerParts
      [] kind = "services"     -> ServiceParts
      [] kind = "instance"     -> InstanceParts
      [] kind = "control"      -> ControlParts
      [] kind = "memory"       -> MemoryParts
      [] kind = "maintenance"  -> MaintenanceParts

MetricsOf(kind) == UNION {PartsOf(kind)[i].metrics : i \in 1..Len(PartsOf(kind))}

(* What a reading without an error has in any case. Any other metric may be absent from
   it: no process, queue, lock or failed service is there, a value is not in the output
   or not a number, the output is too short (linux_os_metrics.go:201-214,
   networkstats.go:222-225), or a process is seen for the first time. *)
Sure == {"icm/rcode", "icm/rtime", "ms/rcode", "ms/rtime", "ms/wp", "sessions", "role", "migration",
         "pacemaker", "mntmode"} \cup Maintenances
Absentable == MayBeAbsent \ Sure

VARIABLES
    collector,
    skipped,        \* SkippedMetrics
    part,           \* the next part, 0 when the collection is over
    collectAttempt,
    have,           \* what the attempt has until now, of which parts, with an error or without
    res,            \* what the attempt before returned
    collectOutcome,
    cancelled       \* the context of the collectors

mcoVars == <<collector, skipped, part, collectAttempt, have, res, collectOutcome, cancelled>>

NothingYet == [readings |-> {}, read |-> {}, err |-> FALSE]

CollectionInit ==
    /\ collector \in CollectorKinds
    /\ skipped \in {{}} \cup {{m} : m \in MetricsOf(collector) \cap MaySkip}
    /\ part = 1 /\ collectAttempt = 1 /\ have = NothingYet /\ res = NothingYet
    /\ collectOutcome = "none" /\ cancelled = FALSE

PartWanted(p) ==
    IF p.each THEN p.metrics \ skipped
    ELSE IF p.off \cap skipped # {} THEN {} ELSE p.metrics

Values(metrics, value) == {[metric |-> m, value |-> value, attempt |-> collectAttempt] : m \in metrics}

Over(o) == part' = 0 /\ collectOutcome' = o

(* The end of an attempt that returned what: an error leads to the next, while
   there is one. *)
EndAttempt(what) ==
    /\ res' = what /\ have' = NothingYet
    /\ IF what.err /\ collectAttempt < MaxCollectionAttempts
         THEN part' = 1 /\ collectAttempt' = collectAttempt + 1 /\ UNCHANGED collectOutcome
         ELSE Over(IF what.err THEN "error" ELSE "ok") /\ UNCHANGED collectAttempt

(* Mutant: what an attempt before had read is kept. *)
DoneKeeps(added, err) ==
    LET now == [readings |-> have.readings \cup added \cup res.readings,
                read |-> IF err THEN have.read ELSE have.read \cup {part},
                err |-> have.err \/ err]
    IN IF part = Len(PartsOf(collector))
         THEN EndAttempt(now)
         ELSE part' = part + 1 /\ have' = now /\ UNCHANGED <<collectAttempt, res, collectOutcome>>

(* A part is done: what it adds, and whether it met an error. *)
Done(added, err) ==
    LET now == [readings |-> have.readings \cup added,
                read |-> IF err THEN have.read ELSE have.read \cup {part},
                err |-> have.err \/ err]
    IN IF part = Len(PartsOf(collector))
         THEN EndAttempt(now)
         ELSE part' = part + 1 /\ have' = now /\ UNCHANGED <<collectAttempt, res, collectOutcome>>

(* Whether an error can be met at all: a part that is to be skipped does not even
   look, but for the URL of the health check and for the parts that ask for each
   metric when they have read. *)
MayFail(p) ==
    /\ p.onError # "none"
    /\ p.each \/ PartWanted(p) # {} \/ p.metrics \cap {"icm/rcode", "ms/rcode"} # {}
    /\ collector = "network" => PartWanted(p) # {}

(* What an error leaves: nothing and the end of the attempt, nothing, zeros in
   place of the readings, or what the other processes had. *)
PartFails(p) ==
    /\ MayFail(p)
    /\ CASE p.onError = "abort" -> EndAttempt([have EXCEPT !.err = TRUE])
         [] p.onError = "lose"  -> Done({}, TRUE)
         [] p.onError = "zero"  -> Done(Values(PartWanted(p), "zero"), TRUE)
         [] p.onError = "zeroOrLose" -> Done({}, TRUE) \/ Done(Values(PartWanted(p), "zero"), TRUE)
         [] p.onError = "part"  -> Done({}, TRUE) \/ Done(Values(PartWanted(p), "read"), TRUE)

(* Collect of all these collectors, part by part. A part that meets no error may still
   be without some of its metrics. Whether the migration is to be skipped is asked by
   the upcoming maintenance as well, which then sends zeros. *)
CollectPart ==
    /\ part # 0 /\ ~(part = 1 /\ have = NothingYet /\ cancelled)
    /\ LET p == PartsOf(collector)[part] IN
         \/ PartFails(p)
         \/ \E absent \in SUBSET (PartWanted(p) \cap Absentable) :
              Done(Values(PartWanted(p) \ absent,
                          IF p.metrics = Maintenances /\ "migration" \in skipped THEN "zero" ELSE "read"), FALSE)
    /\ UNCHANGED <<collector, skipped, cancelled>>

(* The processes of an instance are listed first; without any there is nothing to
   return and no error. Without cloud metadata of a machine there is no infra
   collection either (bare metal). *)
NothingThere ==
    /\ part = 1 /\ collector \in {"instance", "control", "infra", "pacemaker"}
    /\ EndAttempt(NothingYet)
    /\ UNCHANGED <<collector, skipped, cancelled>>

(* CollectWithRetry of a context that is done: no error, and what the attempt
   before returned. *)
CollectCancelled ==
    /\ part = 1 /\ have = NothingYet /\ cancelled
    /\ Over("cancelled")
    /\ UNCHANGED <<collector, skipped, collectAttempt, have, res, cancelled>>

CancelCollectors ==
    /\ ~cancelled /\ part # 0 /\ cancelled' = TRUE
    /\ UNCHANGED <<collector, skipped, part, collectAttempt, have, res, collectOutcome>>

CollectionNext == CollectPart \/ NothingThere \/ CollectCancelled \/ CancelCollectors

CollectionSpec == CollectionInit /\ [][CollectionNext]_mcoVars

------------------------------------------------------------------------------
(* A metric that is to be skipped is not sent, but for those that are read together
   with the response code of a health check, of which the code asks for the latter
   only, although netweaver.go:312 and 340 say of them that "even if one of the metric is
   skipped the whole group will be skipped"; and for the volumes, whose collector does
   not get the list. *)
SkippedStays ==
    {r.metric : r \in res.readings} \cap skipped \subseteq {"icm/rtime", "ms/rtime", "ms/wp", "volumes"}

(* What a collection sends was read by one attempt, its last; an error in one part
   takes nothing from the parts that were read, unless it is the first of them and
   the others have nothing to work on: all their metrics are sent but for those that a
   reading may be without; a zero that stands for a failed reading comes with an
   error or under a migration that is to be skipped; and nothing that is to be skipped
   is sent. *)
CollectionsKeepWhatTheyRead ==
    collectOutcome # "none" =>
      /\ SkippedStays
      /\ \A r, q \in res.readings : r.attempt = q.attempt /\ (r.metric = q.metric => r = q)
      /\ \A r \in res.readings : collectOutcome # "cancelled" => r.attempt = collectAttempt
      /\ \A i \in res.read : PartWanted(PartsOf(collector)[i]) \ Absentable \subseteq {r.metric : r \in res.readings}
      /\ collectOutcome = "ok" => ~res.err
      /\ (\E r \in res.readings : r.value = "zero") => res.err \/ "migration" \in skipped
==============================================================================

------------------------------ MODULE HostMetrics ------------------------------
(* The metrics of the SAP Host Agent (internal/hostmetrics): every minute one
   collection reads the instance, the operating system and Cloud Monitoring and
   replaces the document that the HTTP server answers with. A restart of the services
   starts a collector with readers of its own beside one that may be in the middle of
   a collection; the document is the same variable for both. The agent of a Linux
   machine is modelled; the fields of /proc/diskstats are numbers. *)
EXTENDS Integers, Sequences, SequencesExt, Subsequences

CONSTANTS
    HMDevices,          \* sequence of the names of devices, "sda", "sdb", ...
    HMDisks,            \* disks that may be attached
    Provisioned,        \* the disks with guaranteed throughput
    Adapters,           \* network adapters
    MaxHMGenerations,
    MaxHMCollections,   \* bound on the collections of all generations
    MaxIO,              \* bound on the I/O operations that are measured
    MaxSwaps,           \* bound on the disks attached after the start
    MaxHMFaults,        \* bound on the readings and queries that fail
    NoDisk

ASSUME HostMetricsAssumption ==
    /\ HMDevices \in Seq(STRING) /\ HMDevices # <<>> /\ \A i, j \in DOMAIN HMDevices : HMDevices[i] = HMDevices[j] => i = j
    /\ Provisioned \subseteq HMDisks /\ NoDisk \notin HMDisks
    /\ MaxHMGenerations \in Nat \ {0} /\ MaxHMCollections \in Nat /\ MaxIO \in Nat /\ MaxSwaps \in Nat /\ MaxHMFaults \in Nat

HMGenerations == 1..MaxHMGenerations
Devices == Range(HMDevices)
Directions == {"Read", "Write"}

VARIABLES
    bareMetal,          \* the configuration says so
    hmGen,              \* the generation that is not cancelled
    hmAt,               \* [generation -> where its collector is]
    hmCollections,
    hmFaults,
    instanceProperties, \* [generation -> what the collection under way knows of the instance]
    prevDiskStats,      \* [generation -> the counters its reader read last, by device]
    gathered,           \* [generation -> the collection under way]
    metricsXML,         \* the document: the collections its text and its length are of
    attached,           \* [device -> the disk, or NoDisk]
    counters,           \* [device -> [direction -> operations and milliseconds since the attachment]]
    measured, swaps,
    readings            \* [generation -> the state of the devices at its last two readings]

hmEnv == <<bareMetal, attached, counters, measured, swaps>>
hostVars == <<hmGen, hmAt, hmCollections, hmFaults, instanceProperties, prevDiskStats, gathered, metricsXML, readings, hmEnv>>

Number(n) == <<"number", n>>
Text(t) == <<"text", t>>
Unavailable == Number(-1)
Nothing == [id |-> <<0, 0>>, metrics |-> {}, inOrder |-> TRUE]
NotKnown == [disks |-> <<>>, platform |-> FALSE, listed |-> FALSE]
NoReading == [ok |-> FALSE, mapped |-> {}]

HostMetricsInit ==
    /\ bareMetal \in BOOLEAN
    /\ hmGen = 1 /\ hmAt = [g \in HMGenerations |-> IF g = 1 THEN "start" ELSE "not started"]
    /\ hmCollections = 0 /\ hmFaults = 0
    /\ instanceProperties = [g \in HMGenerations |-> NotKnown]
    /\ prevDiskStats = [g \in HMGenerations |-> <<>>]
    /\ gathered = [g \in HMGenerations |-> Nothing]
    /\ metricsXML = [text |-> Nothing.id, length |-> Nothing.id]
    /\ attached \in [Devices -> HMDisks \cup {NoDisk}] /\ attached[HMDevices[1]] # NoDisk
    /\ \A v, w \in Devices : v # w => attached[v] # attached[w]
    /\ counters = [v \in Devices |-> [r \in Directions |-> [ops |-> 0, time |-> 0]]]
    /\ measured = 0 /\ swaps = 0
    /\ readings = [g \in HMGenerations |-> [prev |-> NoReading, now |-> NoReading]]

HMTo(g, where) == hmAt' = [hmAt EXCEPT ![g] = where]
Metric(name, id, value) == [name |-> name, id |-> id, value |-> value]
Faults(n) == hmFaults + n <= MaxHMFaults /\ hmFaults' = hmFaults + n
AddMetrics(g, metrics) == gathered' = [gathered EXCEPT ![g].metrics = @ \cup metrics]

------------------------------------------------------------------------------
(* The loop of collectHostMetrics. When the tick and the cancellation are both there,
   select takes either. The parameters hold the reader of the instance by value and are
   given by value: every collection begins with the properties of New, and what it
   reads goes with it. *)
HMTick(g) ==
    /\ hmAt[g] = "idle" \/ (hmAt[g] = "start" /\ g = hmGen)
    /\ hmCollections < MaxHMCollections /\ hmCollections' = hmCollections + 1
    /\ HMTo(g, "info")
    /\ gathered' = [gathered EXCEPT ![g] = [Nothing EXCEPT !.id = <<g, hmCollections + 1>>]]
    /\ instanceProperties' = [instanceProperties EXCEPT ![g] = NotKnown]
    /\ UNCHANGED <<hmGen, hmFaults, prevDiskStats, metricsXML, readings, hmEnv>>

HMCancelled(g) ==
    /\ hmAt[g] \in {"start", "idle"} /\ g < hmGen /\ HMTo(g, "gone")
    /\ UNCHANGED <<hmGen, hmCollections, hmFaults, instanceProperties, prevDiskStats, gathered, metricsXML, readings, hmEnv>>

(* The disk behind a link of /dev/disk/by-id; the link may be missing. *)
ForDeviceName(v, linked) == IF linked THEN v ELSE "unknown"

(* ReadDiskMapping: the disks of the instance in the order of the Compute API. *)
ReadDiskMapping(linked, listed) ==
    LET present == Kept(HMDevices, {v \in Devices : attached[v] # NoDisk})
    IN [disks |-> [i \in DOMAIN present |-> [name |-> attached[present[i]],
                                             mapping |-> ForDeviceName(present[i], present[i] \in linked)]],
        platform |-> TRUE, listed |-> listed]

(* Reader.Read: an error assigns nothing, and the collection knows no disk. *)
ReadInstance(g) ==
    /\ hmAt[g] = "info" /\ HMTo(g, "disks")
    /\ \/ UNCHANGED instanceProperties /\ (IF bareMetal THEN UNCHANGED hmFaults ELSE Faults(1))
       \/ /\ ~bareMetal
          /\ \E linked \in {Devices, {HMDevices[1]}}, listed \in BOOLEAN :
                 /\ Faults(IF linked = Devices /\ listed THEN 0 ELSE 1)
                 /\ instanceProperties' = [instanceProperties EXCEPT ![g] = ReadDiskMapping(linked, listed)]
    /\ UNCHANGED <<hmGen, hmCollections, prevDiskStats, gathered, metricsXML, readings, hmEnv>>

------------------------------------------------------------------------------
(* Go's division truncates. *)
Truncated(a, b) ==
    LET Abs(x) == IF x < 0 THEN -x ELSE x
        q == Abs(a) \div Abs(b)
    IN IF (a < 0) = (b < 0) THEN q ELSE -q

calculateAverage(svcTimeDelta, opsCountDelta) ==
    IF svcTimeDelta = 0 \/ opsCountDelta = 0 THEN 0 ELSE Truncated(svcTimeDelta, opsCountDelta)

averageResponseTime(prev, curr) == Number(calculateAverage(curr.time - prev.time, curr.ops - prev.ops))

Since(g, v, r) ==
    IF v \in DOMAIN prevDiskStats[g] THEN averageResponseTime(prevDiskStats[g][v][r], counters[v][r]) ELSE Unavailable

(* averageReadResponseTime, averageWriteResponseTime: the average since the reading before. *)
averageReadResponseTime(g, v) == Since(g, v, "Read")
averageWriteResponseTime(g, v) == Since(g, v, "Write")

(* The devices of /proc/diskstats that the instance is known to have. *)
parseDiskStats(g) ==
    {v \in Devices : attached[v] # NoDisk /\ \E i \in DOMAIN instanceProperties[g].disks :
                                                instanceProperties[g].disks[i].mapping = v}

(* The metrics of every disk of the instance, whether or not its device was read. *)
DiskMetrics(g, stats) ==
    UNION {LET disk == instanceProperties[g].disks[i]
               v == disk.mapping
               Or(value) == IF v \in stats THEN value ELSE Unavailable
           IN {Metric("Volume ID", disk.name, Text(disk.name)), Metric("Mapping", disk.name, Text(v)),
               Metric("Volume Read Response Time", disk.name, Or(averageReadResponseTime(g, v))),
               Metric("Volume Write Response Time", disk.name, Or(averageWriteResponseTime(g, v)))} :
           i \in DOMAIN instanceProperties[g].disks}

Reading(g, ok) ==
    [ok |-> ok, mapped |-> parseDiskStats(g), attached |-> attached, counters |-> counters]

(* Mutant: a reading that fails leaves the counters of the one before. *)
KeptOnError(g) == prevDiskStats[g]

(* What readDiskStatsForLinux returns when /proc/diskstats cannot be read. *)
StatsOnError(g) == <<>>

(* Reader.Read of the disk statistics. *)
ReadDisks(g) ==
    /\ hmAt[g] = "disks" /\ HMTo(g, "local")
    /\ \E ok \in BOOLEAN :
         /\ Faults(IF ok THEN 0 ELSE 1)
         /\ LET stats == IF ok THEN parseDiskStats(g) ELSE {}
            IN
            /\ prevDiskStats' = [prevDiskStats EXCEPT ![g] =
                                    IF ok THEN [v \in stats |-> counters[v]] ELSE StatsOnError(g)]
            /\ AddMetrics(g, DiskMetrics(g, stats))
            /\ readings' = [readings EXCEPT ![g] = [prev |-> @.now, now |-> Reading(g, ok)]]
    /\ UNCHANGED <<hmGen, hmCollections, instanceProperties, metricsXML, hmEnv>>

------------------------------------------------------------------------------
(* A file of /proc that cannot be read counts as empty. *)
memoryMetrics(ok) == {Metric("Memory Consumption", "", IF ok THEN Text("used of total") ELSE Number(0))}
cpuStats(ok) == IF ok THEN 4 ELSE 0
cpuMetrics(g, cpus) ==
    {Metric("Guaranteed VM Processing Power", "", Number(cpus))}
      \cup (IF instanceProperties[g].platform THEN {Metric("Processor Type", "", Text("platform"))} ELSE {})
networkMetrics(g, cpus) ==
    IF instanceProperties[g].platform
      THEN {Metric("Current Network Bandwidth", a, Number(cpus * 2 * 1000)) : a \in Adapters} ELSE {}
bareMetalMetrics(cpus) == {Metric("Instance Type", "", Number(cpus)), Metric("Hardware Model", "", Text("Google Cloud Bare Metal"))}
configMetrics(g, cpus) ==
    {Metric("Cloud Provider", "", Text("Google Cloud Platform"))}
      \cup IF bareMetal THEN bareMetalMetrics(cpus)
           ELSE {Metric("Instance Type", "", Text(IF instanceProperties[g].platform THEN "type" ELSE "")),
                 Metric("Hardware Model", "", Text("Google"))}

(* What the operating system and the configuration say, but for the disks. *)
ReadLocal(g) ==
    /\ hmAt[g] = "local" /\ HMTo(g, "cloud")
    /\ \E mem, cpu \in BOOLEAN :
         /\ Faults(IF mem /\ cpu THEN 0 ELSE 1)
         /\ LET cpus == cpuStats(cpu)
            IN AddMetrics(g, memoryMetrics(mem) \cup networkMetrics(g, cpus) \cup cpuMetrics(g, cpus) \cup configMetrics(g, cpus))
    /\ UNCHANGED <<hmGen, hmCollections, instanceProperties, prevDiskStats, metricsXML, readings, hmEnv>>

------------------------------------------------------------------------------
(* A query of Cloud Monitoring asks for the metrics of one alignment. *)
DiskQueries == {"delta", "rate", "max"}
sapMetrics == [q \in DiskQueries |-> CASE q = "delta" -> {"Volume Read Throughput", "Volume Read Ops"}
                                       [] OTHER -> {}]

DiskNames(g) == [i \in DOMAIN instanceProperties[g].disks |-> instanceProperties[g].disks[i].name]

(* What queryTimeSeriesData returns: nothing after an error, or series of the disks
   that have data, in an order that Cloud Monitoring picks. *)
SeriesOf(g) ==
    IF DiskNames(g) = <<>> THEN {<<>>} ELSE {<<>>, DiskNames(g), Reverse(DiskNames(g)), Tail(DiskNames(g))}

(* Mutant: a disk is given the series after its own. *)
SeriesAfter(names, series, i) == IF i + 1 <= Len(series) THEN Text(series[i + 1]) ELSE Unavailable

(* parseTimeSeriesDataByDisk: the series in place i is taken for the disk in place i. *)
parseTimeSeriesDataByDisk(names, series, i) == IF i <= Len(series) THEN Text(series[i]) ELSE Unavailable

(* The utilization is computed of a rate and a maximum, and is zero without one of them. *)
VolumeUtilization(rate, max) == IF Unavailable \in {rate, max} THEN Number(0) ELSE <<"of", rate, max>>

CloudDiskMetrics(g, answer) ==
    LET names == DiskNames(g)
        Value(q, i) == parseTimeSeriesDataByDisk(names, answer[q], i)
    IN UNION {{Metric(n, names[i], Value("delta", i)) : n \in sapMetrics["delta"]}
                \cup {Metric("Volume Utilization", names[i], VolumeUtilization(Value("rate", i), Value("max", i)))}
                \cup (IF names[i] \in Provisioned /\ instanceProperties[g].listed
                        THEN {Metric("Guaranteed Throughput", names[i], Number(1))} ELSE {}) : i \in DOMAIN names}

(* The values of the first series, and the default without one. *)
parseTimeSeriesData(data) == IF data THEN Text("cloud") ELSE Unavailable
PassthroughMetrics(data) == {Metric("VM Processing Power Consumption", "", parseTimeSeriesData(data))}
CloudNetworkMetrics(g, data) ==
    IF instanceProperties[g].platform
      THEN {Metric("Network Read Throughput", a, parseTimeSeriesData(data)) : a \in Adapters} ELSE {}

(* CloudMetricReader.Read: no failure keeps the other queries from their answers. One
   of the queries for disks may be answered badly, all of them without a network. *)
ReadCloud(g) ==
    /\ hmAt[g] = "cloud" /\ HMTo(g, "text")
    /\ IF bareMetal THEN UNCHANGED <<gathered, hmFaults>>
       ELSE \E data \in BOOLEAN, q \in DiskQueries, series \in SeriesOf(g) :
            /\ Faults(IF data /\ series = DiskNames(g) THEN 0 ELSE 1)
            /\ LET answer == [p \in DiskQueries |-> IF ~data THEN <<>> ELSE IF p = q THEN series ELSE DiskNames(g)]
               IN gathered' = [gathered EXCEPT
                   ![g].metrics = @ \cup PassthroughMetrics(data) \cup CloudNetworkMetrics(g, data)
                                    \cup CloudDiskMetrics(g, answer),
                   ![g].inOrder = \A p \in DiskQueries : answer[p] \in {<<>>, DiskNames(g)}]
    /\ UNCHANGED <<hmGen, hmCollections, instanceProperties, prevDiskStats, metricsXML, readings, hmEnv>>

(* The assignment of metricsXML: its pointer and its length are two writes. *)
PublishText(g) ==
    /\ hmAt[g] = "text" /\ HMTo(g, "length")
    /\ metricsXML' = [metricsXML EXCEPT !.text = gathered[g].id]
    /\ UNCHANGED <<hmGen, hmCollections, hmFaults, instanceProperties, prevDiskStats, gathered, readings, hmEnv>>

PublishLength(g) ==
    /\ hmAt[g] = "length" /\ HMTo(g, "idle")
    /\ metricsXML' = [metricsXML EXCEPT !.length = gathered[g].id]
    /\ gathered' = [gathered EXCEPT ![g] = Nothing]
    /\ UNCHANGED <<hmGen, hmCollections, hmFaults, instanceProperties, prevDiskStats, readings, hmEnv>>

------------------------------------------------------------------------------
(* The services restart; the collector of the generation before is cancelled. *)
HMRestart ==
    /\ hmGen < MaxHMGenerations /\ hmGen' = hmGen + 1 /\ HMTo(hmGen + 1, "start")
    /\ UNCHANGED <<hmCollections, hmFaults, instanceProperties, prevDiskStats, gathered, metricsXML, readings, hmEnv>>

(* An operation of a device in one direction, each a millisecond longer than the last. *)
InputOutput(v, r) ==
    /\ attached[v] # NoDisk /\ measured < MaxIO /\ measured' = measured + 1
    /\ counters' = [counters EXCEPT ![v][r] = [ops |-> @.ops + 1, time |-> @.time + measured']]
    /\ UNCHANGED <<hmGen, hmAt, hmCollections, hmFaults, instanceProperties, prevDiskStats, gathered, metricsXML, readings,
                   bareMetal, attached, swaps>>

(* A disk is replaced by another, whose counters start at zero. *)
SwapDisk(v, d) ==
    /\ swaps < MaxSwaps /\ swaps' = swaps + 1
    /\ d \notin Range(attached)
    /\ attached' = [attached EXCEPT ![v] = d]
    /\ counters' = [counters EXCEPT ![v] = [r \in Directions |-> [ops |-> 0, time |-> 0]]]
    /\ UNCHANGED <<hmGen, hmAt, hmCollections, hmFaults, instanceProperties, prevDiskStats, gathered, metricsXML, readings,
                   bareMetal, measured>>

HostMetricsNext ==
    \/ \E g \in HMGenerations :
         \/ HMTick(g) \/ HMCancelled(g) \/ ReadInstance(g) \/ ReadDisks(g) \/ ReadLocal(g) \/ ReadCloud(g)
         \/ PublishText(g) \/ PublishLength(g)
    \/ HMRestart
    \/ \E v \in Devices : (\E r \in Directions : InputOutput(v, r)) \/ (\E d \in HMDisks : SwapDisk(v, d))

HostMetricsSpec == HostMetricsInit /\ [][HostMetricsNext]_hostVars

------------------------------------------------------------------------------
ValueOf(metrics, name, id) == {m.value : m \in {n \in metrics : n.name = name /\ n.id = id}}

(* The average response time that a collection gathers for a device is that of the
   operations between this reading of the counters and the reading of the minute
   before; it is unavailable when one of the two could not be taken, did not find the
   device or did not know the instance (diskstatsreader.go:284-316). For a disk that
   took over the device in between nothing is said: the reader compares its counters
   with those of the disk that is gone. *)
AveragesAreOfTheInterval ==
    \A g \in HMGenerations : hmAt[g] = "local" =>
        LET prev == readings[g].prev
            now == readings[g].now
        IN \A i \in DOMAIN instanceProperties[g].disks, r \in Directions :
             LET v == instanceProperties[g].disks[i].mapping
                 name == IF r = "Read" THEN "Volume Read Response Time" ELSE "Volume Write Response Time"
                 gatheredValue == ValueOf(gathered[g].metrics, name, instanceProperties[g].disks[i].name)
             IN IF now.ok /\ prev.ok /\ v \in now.mapped \cap prev.mapped
                  THEN now.attached[v] = prev.attached[v] /\ now.counters[v][r].ops >= prev.counters[v][r].ops =>
                         LET ops == now.counters[v][r].ops - prev.counters[v][r].ops
                             time == now.counters[v][r].time - prev.counters[v][r].time
                         IN gatheredValue = {Number(IF ops = 0 THEN 0 ELSE time \div ops)}
                  ELSE gatheredValue = {Unavailable}

(* A document holds one value of a metric at most; and when Cloud Monitoring answers for
   all disks in the order it was asked, or not at all, what it said of one disk is never
   given as that of another. Of an answer that leaves a disk out or takes another order
   nothing is said: series are taken by their place (cloudmetricreader.go:435-440). *)
DiskValuesAreTheirOwn ==
    \A g \in HMGenerations :
        LET c == gathered[g]
        IN /\ \A m, n \in c.metrics : m.name = n.name /\ m.id = n.id => m = n
           /\ c.inOrder => \A m \in c.metrics :
                m.name \in sapMetrics["delta"] \cup {"Volume Utilization"} =>
                    m.value \in {Text(m.id), Unavailable, Number(0), <<"of", Text(m.id), Text(m.id)>>}

(* No collector tears its own document: its text and its length are of one collection
   but between the two writes of an assignment, or when the collectors of two
   generations have written at once (hostmetrics.go:202), of which it is then a mixture. *)
WholeDocument ==
    \/ metricsXML.text = metricsXML.length
    \/ \E g \in HMGenerations : hmAt[g] = "length"
    \/ metricsXML.text[1] # metricsXML.length[1]

HostMetricsAreSound == WholeDocument /\ AveragesAreOfTheInterval /\ DiskValuesAreTheirOwn
==============================================================================

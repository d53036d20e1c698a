# A TLA+ verification project for the Google Cloud agent for SAP

The agent is one Go program with two faces. As a **daemon** it runs beside SAP
workloads on a Compute Engine instance, collects metrics of many kinds and sends
them to Google Cloud. As a **one-time command** it configures, diagnoses, backs
up and restores a host. This directory models the parts of it in which the order
of steps, concurrency or failures decide what is correct, checks the models with
TLC on small instances, and proves the central invariants with TLAPS for all
values of the constants.

Paths below are relative to `src/internal/` unless they say otherwise.
`PROJECT.json` lists components, runs, mutants, the map from definitions to
source lines, hazards, findings and theorems.

Contents: 1 Inventory, 2 Modules, 3 Runs, 4 Properties worth a word, 5 What the
models show of the code, 6 Fairness, 7 Proofs, 8 Plan, 9 Not modelled.

## 1. Inventory

### Daemon

| Component | State | Operations | What is hard | What makes it correct |
|---|---|---|---|---|
| `startdaemon` | `d.config`, `d.pmVersion`, one cancel function per generation of services | read the configuration, start services, wait for a signal, poll file and Parameter Manager, restart | handlers of several generations, poller and signals run concurrently on unsynchronised fields | one generation is live and can be stopped; edits reach the services; a signal ends the process |
| `configuration` | none; returns a proto | parse, merge the Parameter Manager section, defaults | partial parse, failing fetch | the version it reports is the one that was merged |
| `heartbeat` | registrations with a count of missed beats, a read-write lock, a lock per registration | register, beat, run loop, statuses | beats between the visits of a round | counts are the rounds without a beat; silence is noticed |
| `agentmetrics` | last samples | a health loop and a usage loop | reads statuses during a round | the verdict is the conjunction of the statuses |
| `collectiondefinition` | the definition that is loaded | fetch, verify, merge, filter, validate, periodic refresh over channels | failing stages, an unbuffered channel | only valid definitions get out; local files cannot break or override the agent's |
| `workloadmanager` | current definition; a pool for remote hosts | wait for activation, collect on tickers in five routines, send with a retry; the same over `ssh` or `gcloud` | delivery between two rounds, restart after a panic, routines that read a host in motion, workers that wait for an answer | the newest definition comes to be used; the request is put together from complete sections that were true; every host is sent for once |
| `pacemaker` | none | reads the cluster's configuration, then one command after the other | the cluster moves meanwhile, commands fail | no label that was never true |
| `hostmetrics` | the last document, counters of disks, an HTTP server | collect each minute, serve | server outlives restarts, differences of counters over failed readings | averages are of the interval; no collector tears its own document |
| `processmetrics` | collectors in a worker pool, an updater, what collectors remember | compare instances, start and cancel generations, collect, retry, reschedule | tasks that put themselves back, three reads of one list, logins that lock a user out | collectors follow the instances and end with their generation; what was read is sent once |
| `hanamonitoring`, `databaseconnector` | connections, tasks, refusals | connect, query, send, reschedule | retries of connections beside running tasks | one task per query; a refused one never returns; every other one is asked again |
| `system` (discovery), `clouddiscovery` | systems and instances, retries, a cache of resources | discover in rounds, send to Workload Manager, retry what is forbidden, walk related resources | a retry beside the next round, cached objects with many names | no retry outlives its round; a discovery is complete |
| `pubsubactions`, `sapguestactions` | a subscription | receive, acknowledge, collect, publish; run commands | redelivery, restart in the middle | an event names the bundle of its message |
| `hanainsights` | a global knowledge base | read rules, order queries, run, evaluate | order by dependency, values shared between rules | an insight stands on its own rule's queries |
| `utils/snapshotgroup`, `utils/instantsnapshotgroup` | a base URL kept between calls | create, list, delete, wait with bounded retries | lost answers, state shared between calls | a call reaches its own resource |
| `iam`, `metricoverrides`, `instanceinfo`, `sapcontrolclient`, `soap`, `usagemetrics` | none or tables | single requests, tables | deep data, little control | |

### One-time commands

| Component | State | Operations | What is hard | What makes it correct |
|---|---|---|---|---|
| `onetime/hanadiskbackup` | HANA's backup catalog, xfs freeze, disk images, groups | select disks; four workflows of prepare, freeze, image, thaw, upload, confirm, clean up | concurrent invocations, failing calls that took effect, kills | the disks are those of the volume; what the catalog certifies can be restored; the file system is thawed |
| `onetime/hanadiskrestore` | attached disks, consistency group, volume group, mount | select disks and snapshots; stop, unmount, detach, create, attach, rename, mount, verify, roll back | a failure in the middle of a loop, namesake volumes | success serves the restored volume; failure goes back where it can |
| `onetime/hanachangedisktype` | composes the two above | backup, restore | each half takes its parameters from the command | it restores the disk that it backed up |
| `hanabackup` | none | LVM, topology, stop HANA, freeze, unmount, rescan | shared by both commands | as used by its callers |
| `backint/*`, `onetime/backint` | files, pipes and objects in a bucket | backup, restore, inquire, delete | chunks in parallel, protocol towards HANA | each request gets exactly one answer; what was answered is restorable |
| `onetime/configureinstance` | configuration files of the machine | check, apply | repeated runs with drift and failures between | success means compliant |
| `onetime/supportbundle` | folders, archives, a bucket | collect, zip, upload, rotate | several at once | bundles are bounded, none is lost |
| `onetime/performancediagnostics` | a folder per report, one temporary file for all | measure, zip, upload, remove | several at once | a successful report is whole |
| `onetime/maintenance`, `processmetrics/maintenance` | `maintenance.json` | set, unset, show; the daemon reads it | no lock, the file is truncated before it is written | the mode that was set is kept |
| `onetime/configure*`, `installbackint`, `migrate*`, `status` and the small commands | files | edit, migrate, report | partial failures, repeated runs | a second run changes nothing |

### How the parts interact

- `startServices` starts every service of the daemon with one context per
  generation; a restart cancels it and starts the next one five seconds later.
- Services beat on the heartbeat monitor; the agent metrics service reads it.
- The collection definition flows from a bucket through the refresher over an
  unbuffered channel to the workload manager collector.
- System discovery publishes lists that process metrics, HANA monitoring and the
  workload sections read, each when it likes.
- The daemon's HANA collectors of two generations log in as one database user.
- A message of Pub/Sub starts the support bundle inside the daemon, beside those
  started from a shell.
- The disk commands talk to HANA with SQL, to Compute Engine with REST calls that
  are polled with bounded retries, and to the operating system with commands.
  None of them takes a lock against another invocation of itself.

The hazards that follow from this are listed, each at its line, in
`PROJECT.json` under `hazards`.

## 2. Modules

| Module | Models | Extends |
|---|---|---|
| `DiskBackup` | `onetime/hanadiskbackup`, freeze and thaw of `hanabackup`; HANA's catalog and Compute Engine as its environment | |
| `DiskRestore` | `onetime/hanadiskrestore`, stop, unmount and rescan of `hanabackup` | |
| `DiskSelection` | what backup, restore and change of the disk type do before the first change: parameters, LVM, disks, snapshots, names | |
| `Heartbeat` | `heartbeat`, the health loop of `agentmetrics` | |
| `Daemon` | `startdaemon`, `configuration.Read` and `mergePMConfig`, the HTTP server's life in `hostmetrics` | |
| `CollectionLoad` | merge, filter, validation and version order of `collectiondefinition`, as operators | |
| `WorkloadRefresh` | first load, refresher, channel, and the loop of the workload manager collector | `CollectionLoad` |
| `RequestAnswers` | what a Backint command promises: the abstract specification | |
| `Backint` | the reader, worker pool, chunks, four functions and the bucket; implements `RequestAnswers` | |
| `HANAMonitoring` | connections, query tasks, retry ticks | |
| `ProcessMetrics` | the updater and generations of slow, fast and reliability collectors | |
| `RemoteCollection` | the pool of `workloadmanager/remote.go` | |
| `SystemDiscovery`, `CloudDiscovery` | rounds, sends and their retries; the walk over cloud resources with its cache | |
| `SupportBundle`, `LogCollection` | the command; messages, handlers and events around it | `LogCollection` extends `SupportBundle` |
| `ConfigureInstance`, `PerformanceDiagnostics` | the commands of these names | |
| `GroupServices` | both REST services of snapshot groups | |
| `HANACollectors` | slow, fast and reliability collector of a HANA instance over generations | |
| `MetricCollection`, `ProcessUsage`, `MaintenanceMode` | the other collectors of process metrics as lists of parts; the counters per process; the maintenance file | |
| `HANAInsights` | preprocessor and rule engine | |
| `HostMetrics` | one collection after the other, readers, counters, document | |
| `Pacemaker` | labels of a cluster that moves while it is read | |
| `WorkloadSections` | the five routines of a round and the request | `Pacemaker` |
| `Subsequences` | what a loop keeps of a list, for the modules that filter: `SelectSeq` as a recursive function | |
| `DiskBackup_proofs`, `DiskRestore_proofs`, `Daemon_proofs`, `Backint_proofs` | theorems about the module of that name | it |
| `Services_proofs` | theorems about `Heartbeat`, `HANAMonitoring`, `SystemDiscovery`, `HANACollectors`, `MetricCollection`, `ProcessUsage`, `HostMetrics` | these |
| `Commands_proofs` | theorems about `CollectionLoad` (with the run's module `MCCollectionLoad`), `ConfigureInstance`, `LogCollection`, `SupportBundle`, `PerformanceDiagnostics`, `GroupServices`, `MaintenanceMode`, `DiskSelection` | these |
| `WorkloadRefresh_proofs` | theorems about `WorkloadRefresh`, `HANAInsights`, `CloudDiscovery`, `WorkloadSections` | these |
| `Subsequences_proofs` | lemmas about `Subsequences`, and induction over numbers for the modules above | `Subsequences` |
| `MC*` | instances for TLC | the modules named |

`MCServices`, `MCCommands` and `MCJobs` put several components side by side that do not touch
each other: the initial state picks one, which alone moves. Each component still
has its own `Init`, actions and `Next` (`DiscoveryNext`, `GroupNext`, ...), and
each property speaks about one of them.

A definition whose comment begins with "Mutant" is a plausible wrong version of
the definition after it. It takes no part in any specification; substituted for
the right one, it makes TLC violate a property, which shows that the property
depends on that code.

### DiskBackup

*State.* Per invocation: workflow (`wf`), flags, control (`pc`), the error being
returned (`reason`), `snapshotID` (`sid`), `snapErr`, and what it created in
Compute Engine: `img` (none, requested, taken), `imgHana` (the HANA snapshot that
was prepared at that moment), `imgFrozen`, `isg`, `durable` (uploaded). Shared:
HANA's `catalog` with external backup IDs (`ebid`), whether the database is `up`,
and the file system (`fs`).

*Actions.* One per external call of the workflows, since other invocations act
between any two calls. `SnapshotHandler` to `CheckAttached` are the checks;
`FindPreparedSnapshot`, `ClosePreparedSnapshot`, `CreateNewHANASnapshot` and
`ReadSnapshotID` the four SQL statements before the image; `FreezeXFS`,
`RequestImage`, `WaitForImage` and `UnFreezeXFS` the image; `MakeGroupSnapshots`,
`MarkEarly`, `WaitForUpload`, `UpdateLabels`, `MarkLate` what follows; and
`DiskSnapshotFailureHandler`, `DeleteISG`, `DeleteSG` the clean-up. `TakeImage`
and `FinishUpload` are Compute Engine's, `Kill` the operating system's. Every
call of a class in `Faults` may fail, before or after it took effect.

*Abstraction.* Each invocation names the HANA snapshot and the disk snapshot it
creates, so an ID collision of two invocations in the same second is left out.
The disks of a group are one image, as an instant snapshot group is atomic. The
checks before the first statement are outcomes here; `DiskSelection` has them.

### DiskRestore

*State.* Attached old and new disks and their consistency groups, the mounted
volume, the name of the restored volume group, HANA, and the two lists the code
keeps for its rollback (`disksDetached`, `newAttachedDisks`). *Actions.* One per
call; loops over disks take a disk in any order. `Undo` is the decision of
`handleRestoreFailure` (groups) and of `diskRestore` (one disk): what is detached
and reattached depends only on what the lists know. A rescan ends with
`mount -a`, which mounts whatever volume group bears the right name and is
complete (`Mountable`); if both do it may be either. The number of failing calls
is bounded by `MaxFaults`. With `lateEffects = "possible"` a failing attach, detach or
insert may take effect at any later step (`TakesEffect`), during the run or after it:
the wait for an operation ends with an error while the operation goes on, so that a
disk may go from under a directory that an error path has mounted again.

### DiskSelection

*State.* The machine (device names and their udev links, physical volumes behind
data and log, attached disks with their consistency groups and keys, snapshots),
the flags of the invocation, and what the code has derived from them so far.
*Actions.* One per command or request, since another invocation may take a
snapshot or a disk between two of them (`MaxSelectionMoves`). `DiskBackup` and
`DiskRestore` begin where this ends. Left out are the cut of names at 63
characters, the records of the state of the system and the renaming that the
restore prepares.

### Heartbeat

`lock` is `registrationLock`; `Tick` and `Increment` are a round of
`incrementAll`, `CollectHealth` and `ReadStatus` a pass of the health loop; the
registrations still to visit are in `todo`. Beats interleave with both because
they only take the lock of their registration. `age` is a history variable: the
rounds that began since the last beat, capped as the count is. `MonitoredSpec`
calls `Run`, as the tests do; `DaemonSpec` is the monitor as the daemon uses it.

### Daemon

Generation 0 is the main goroutine, generation *g* the handler of the *g*-th
restart. `gpc` says where each handler is, `held` what it has read and not yet
assigned, `config` the shared fields. `Execute` is the read at start;
`ReadConfig` and `ApplyConfig` separate the slow read (a request to Parameter
Manager) from the assignment. `EnterServices`, `FinishServices` and
`FailServices` are `startServices`, which returns at the first client it cannot
create. `PollerBegins`, `FileChanged`, `ParameterChanged` and `PollerStops` are
the cases of the poller's select; `Restart` and `Respawn` the two halves around
the sleep of `Restart`. Signals go to every registered channel that somebody
reads. Of a configuration, only what restarts tell apart is kept: modification
time of its file, host metrics on or off, and the outcome of the Parameter
Manager section.

### CollectionLoad and WorkloadRefresh

A definition is a set of metrics; a metric is reduced to its section kind, its
type and label (one key), vendor, minimal version as a sequence of numbers, and
whether the rest of it is complete. `shouldMerge` and the validator implement the
vendor rule independently in the code; in the model both refer to `Overlaps`, and
the sections each of them visits differ as in the code (`Checked` omits
`indexserver.ini`). A local metric for a section that the agent's definition lacks makes the
merge panic (`MergePanics`), which ends the first load (`wlm` is "crashed") or the
refresher ("dead"). `WorkloadRefresh` puts `Load` to work: `Start` loads with
fallback, `loadAndBroadcast` without; `Deliver` is the rendezvous of send and
receive; the collector waits for activation, collects, writes with one retry and
may panic, after which it continues with the definition of its start.

### Backint and RequestAnswers

*State.* The lines of the running command and the stage of each task (a file, or
a chunk of it), chunks that are done, the first error, the mutex of the output,
the answers, and the bucket as the sequence of its objects in order of creation, with
parts and types. Commands run one after the other over the same bucket. An
upload may be cut off, answered with an error although it worked, or fail; a
command may be killed. `RequestAnswers` says only that a request which was taken
from the input is answered once and that a command that ends well leaves none
unanswered. `AnswersOnce` is `Abstract!Spec`, its fairness included: what is
`taken`, the number of `replies` and whether it is `over` are functions of the
tasks and the output.

### Services

`HANAMonitoring`: each query of an instance is a task that is unsent, queued,
running or waiting on its timer; `refused` is a history variable. The outcome of
a query is chosen: answered, failed, refused (which only the driver reports as
such; an error of `hdbsql` never is); `failing` is the count of failures, as far as it is
zero or not. `ProcessMetrics`: the updater reads the
list of instances at three places, each of which may see another list.
`RemoteCollection`: each host goes through copy, run, parse and remove in a
routine that answers its worker over a channel.

### Commands and jobs

*`SystemDiscovery`*: `nextSystem` walks over the systems of a round, each of which
may be refused; a retry is a routine of its own with the round it belongs to.
*`CloudDiscovery`*: a queue of names with their parents, objects with many names,
a cache over discoveries. *`SupportBundle`* and *`LogCollection`*: the steps of each
run, the entries of the parent directory in the order of their modification, the
bucket; `Rotate` sees bundles by name only; the name of a bundle is the second in which
its collection begins (`Name`), and two runs may have the same. *`ConfigureInstance`*: every file is
"ok" or "stale", what is generated from it likewise; the line of the boot loader is there
or commented out (`grubLine`), and `nosmt` stands right behind its quote, later or not at
all. *`PerformanceDiagnostics`*: operations in any order, errors that are
collected, the temporary archive that all share. *`GroupServices`*: one call at a
time with its parts (wait, request, pages, poll). *`HANACollectors`*: what each
collector of a generation has reached in its attempts, the count of refusals it
keeps, and the refusals the database has counted. *`MetricCollection`*: a
collector is the sequence of its parts, each with its metrics and what an error
in it stops; a part that was read without an error may lack those metrics that the
code leaves out silently (`Absentable`). *`ProcessUsage`*: counters, labels and PIDs that
are used again. *`MaintenanceMode`*: commands between reading, truncation and writing, where
a write may fail or be killed after any part of it. *`HANAInsights`*: a
rule is its queries with dependencies and references; a query that fails leaves the rows
it had read. *`HostMetrics`*: the counters of a disk between collections, the series of
Cloud Monitoring, the document. What is known of the instance lives for one collection:
the reader is part of the parameters, which are passed by value. *`Pacemaker`*: primitives with attributes, groups, clones, locations;
labels are a function that grows from step to step. *`WorkloadSections`*: a step
for each routine; the log of HANA's backups grows between its two readings.

## 3. Runs

Passing runs. Deadlock checking is off in all of them: commands end, an idle
daemon may be quiet, and enumerations stop at their bounds.

| Run | Question | Bounds, and why they are enough |
|---|---|---|
| `backup_safety` | Is what the catalog certifies restorable, who can leave the file system frozen, which exits leave a prepared snapshot or a group? | two invocations and a prior snapshot, so that one can abandon and replace the snapshot of the other; every flag and fault for the disk and the snapshot group workflow, then all four workflows without failing SQL and deletes, since those leave things behind trivially. Invocations are interchangeable, which the symmetry uses; no liveness is checked there |
| `backup_live` | Is every freeze undone? | two invocations; no kill and no failing thaw, which do leave it frozen |
| `heartbeat` | Are the counts right under interleaved beats and passes, is silence reported? | three services, threshold two |
| `daemon` | Is exactly the owned generation live, do changes reach services, does a signal end the process, is every restart justified? | two times of the file, two versions, one fault, and three restarts, as many as these changes need |
| `refresh` | Is only a valid definition used, never an older one, and the newest eventually? | two published versions beside the built-in one, two local files, one panic |
| `backint` | Does every request get one answer, and is what was answered restorable? | a backup of a file in two chunks and of a pipe with two threads, then a second command and a third over the same bucket, so that a restore meets leftovers of failed uploads and of failed deletes |
| `services` | Do query tasks, collectors and remote hosts each run once, again and to their end? | three HANA instances of which two share their key, two queries; two changes of the SAP instances with collectors at work, hence generations, and three with the updater alone, one for a restart and two around the reading anew; two hosts and one worker, so that one waits; two collections |
| `commands` | Seven one-time commands, each for itself, and the merge of definitions as a calculation | see below |
| `jobs` | Twelve jobs of the daemon, and a restore of disks, each for itself | see below |

The `commands`: the definitions (all pairs of definitions of up to two metrics,
since overlap is a relation of two, and all versions of one to three parts over
0..2); `logs` (two valid messages that come in the same second, a refused one, a bundle from the
shell, a bundle of the past, room for one, two deliveries);
`configure` (two runs with drift between, both series and three distributions); `diagnostics` (two reports at once); `groups`
(each call twice over, two pages, two repetitions); `maintenance` (three commands over two systems, any of which may fail or be killed); `selection` (ten machines and every kind of invocation, with one
move between its steps).

The `jobs`: `discovery` (two systems, two rounds, so that the second cancels the
retries of the first); `cloud` (two discoveries, one failing request, one
fail-over); `hanaSlow` and `hanaFast` (two generations, one take-over, one change of
the password, two attempts); `collection` (one collection of each of eleven
collectors with two attempts, ten metrics that may be skipped and nine that may be absent); `usage` (two
labels whose PIDs are used again); `insights` (six rules with dependencies, a cycle,
an unknown query, a global rule and a repeated ID, and a failure after any row of a query); `host` (three collections,
devices that come, go and are swapped, one fault) and `hostRestarts` (two
generations of collectors); `cluster` (three configurations, one move, one failing
command); `validation` (the five routines beside one change of discovery and one
failing read), `backups` (two tenants, two threads, five lines of the backup
log), and `restore` (one to three disks, so that a loop can fail in its middle, and three
failing calls, with and without late effects). The smallest bound at which the second of two things can disturb the first
is used everywhere.

Runs that TLC must refute, each a disagreement between the code and its own
words (`findings` quotes them):

| Run | What it shows |
|---|---|
| `heartbeat_daemon` | The daemon never calls `Monitor.Run`: missed beats are not counted and a hanging service is not reported. |
| `monitoring_errors` | A query that has nothing but errors is put back for ever, although "after several consecutive errors, the query will not be restarted" (`hanamonitoring.go:315`): `failCount` is counted and only logged. |
| `hana_lockout` | A collector stops after two refused logins because HANA locks the user after three; the next generation of collectors begins with zero and makes the third. |

## 4. Properties worth a word

- `CatalogNamesImage`: the ID is read with a second SELECT, so another
  invocation's snapshot may be read; the image is still taken while that snapshot
  is prepared, because a snapshot is never prepared again once closed and at most
  one is prepared at a time.
- `OnlyTheseExitsLeave`: the complete list of exits that leave something behind.
- `FreezeHasOwner` needs for its second half that no other invocation freezes: an
  invocation whose own freeze is refused still thaws.
- `FailureOutcome`: for each call of a restore, the disks that its failure leaves, however
  many calls fail (`DisksLeft`); and after a single failure the mounted volume and the
  consistency group as well (`OneFaultOutcome`). It says nothing of runs in which a call
  takes effect late.
- `MountedKeepsDisks` does: a disk goes from under a mounted volume only when its detach
  had failed and completes late. On the old volume that is one disk at most, for the
  loop over the disks ends with the first error.
- `SelectionIsSound` is a conjunction: a backup that passes the checks takes the
  disks of the data volume and no other, a restore replaces them, the snapshots
  are as many as the disks and of the group, the keys are those in use, and a
  change of the disk type restores the disk it backed up. It assumes that udev
  has linked the data disks, and that disks which were named on the command
  line are the intended ones; what the code does otherwise is in section 5.
- `LiveIsOwned`: restarts hand the cancel function on; the poller can stop what
  runs.
- `EditsReachServices` excludes behaviours in which a handler is overtaken by the
  next one while it reads (`Overtaken`): the slow one then overwrites the newer
  configuration, a hazard nothing in the code prevents. The run has
  `SlowGens = {}`; `OneGenerationLive` is proved for every `SlowGens`.
- `RestartMeansChange` keeps, with each configuration, the version of the resource
  at the time it was read (`seen`), so that it can tell a restart for a change
  from one for a version somebody asked not to use.
- `KeepsQuerying` is what the code does with a query that fails, whatever its comment says;
  `ErrorsEndQuery`, the comment, is refuted (`monitoring_errors`).
- `CollectsWhatIsThere` names the one change that is not followed (`CameBack`, section 5).
- `EventHasItsBundle` speaks of names that several runs share: each of them may find the
  other's bundle under its event, and no third one. A message that was acknowledged and
  has no event failed or was lost with a restart or its publication (`lost`).
- `CollectionsKeepWhatTheyCount`: the first difference of a label that another process took
  over is of two processes and is exempt (`foreign`); every other byte is reported once.
- `ModeIsKept` exempts a system from a change beside another one, or a write that failed, was
  killed or fell on another, until it is changed again (`doubtful`).
- `InsightsAreGrounded`: of the global values those of one query may be cut short, the one
  whose rows could not be read to the end; no query that was answered depends on it.
- `NeverBack` excludes the restart after a panic, which does go back.
- `LoadFollowsTheRules` joins merge, filter, validation and the choice of a version; it says
  exactly when a merge panics.
- `SuccessIsCompliant` accepts what the code takes for compliant: with hyper threading on,
  `nosmt` right behind the quote (section 5), and a boot that a line which is commented out
  does not change.
- `SavedIsRestorable` names its exceptions: with metadata in the parameter file all
  uploads share one map; a restore of the *latest* backup may meet leftovers.
- `OneTaskPerQuery` assumes that `queries_to_run` names a query once.
- `RetryEndsWithItsRound`: two refused systems of one round share one variable for
  the cancel function, so the first retry ends by its context or its own
  attempts (`Replaced`).
- `CollectorsKeepToTheirBounds` is what a single generation keeps;
  `hana_lockout` is what two do not.
- `ValidationIsSound` joins four statements: a backup that is reported was one of
  that tenant and type (as long as a thread of HANA runs one backup), the labels
  of HANA are of one landscape, the request is put together from complete
  sections, and every label of the cluster was true at some moment of its
  collection. A failed command may make FALSE any label that has to do with it, and the
  types of backups are only vouched for while a thread of HANA runs one backup.
- `HostMetricsAreSound`: an average is of the interval between the last two readings, and
  unavailable without one of them; nothing is said for a disk that took over the device
  of another in between. Series that come in the order of the disks, or not at all, are
  given to their own disks. The document is torn only between the two writes of an
  assignment, or by the collectors of two generations, of which it is then a mixture.
- `DiscoveryIsComplete` excuses what changed or failed meanwhile (`since`, `missed`).

## 5. What the models show of the code

Observations that came up while translating and checking. They are behaviours
of the code as it is; the properties state what holds beside them.

*Backup.* With early confirmation, a failed upload is reported as a HANA snapshot
that is not successful; the catalog keeps it as SUCCESSFUL because a closed
snapshot cannot be closed again (`singledisk.go:77`). The snapshot group workflow
returns on upload and label errors without any clean-up.

*Restore.* An error of a detach leads to a rescan, which ends with `mount -a`
(`hanadiskrestore.go:696-725`); the operation may still be going on at Compute Engine, and
the disk then goes from under the mounted volume, with HANA up on it or not. The same holds
for a new disk whose detach failed during the rollback. `MountedKeepsDisks` bounds what can
be lost so.

*Selection of disks.* A data disk without its udev link maps to "unknown", so a
striped volume may be taken for one disk and the striping is never looked at.
`-source-disks` with a single disk on a scale-up system leaves `s.Disk` empty, and
the backup fails at the check of the attachment. Disks that are named are not
compared with the data volume. A restore compares the number of snapshots with
that of the disks, not their sources; in the instant snapshot group workflow
zero of both pass. The snapshot group workflow looks at the key of the first
snapshot only, and a mismatch is a warning. A new name that is free when it is
checked may be taken when it is used. A change of the disk type passes no
credentials, so that without `-skip-db-snapshot-for-change-disk-type` it ends with a
usage error, and `StopHANA` inverts its force flag (`hanabackup.go:324-332`) with
respect to the words of the flag (`hanachangedisktype.go:97`).

*Daemon.* An edit between `Execute`'s read and the poller's first `stat` is taken
as known and never applied (`startdaemon.go:662`; `EditsReachServices` is about
edits with `file.v > first`). A handler that is slower than the time between two
restarts assigns its older configuration last (`startdaemon.go:217`). With a pinned
`parameter_version` the poller compares with the latest version and restarts at
every tick (`startdaemon.go:689`). Host metrics that are switched on by an edit
are collected, but no HTTP server serves them (`hostmetrics.go:91`).

*Definition.* The refresher blocks in its unbuffered send while nobody receives;
it neither beats nor sees the cancellation (`collectiondefinition.go:204`).
`indexserver.ini` metrics may repeat a type and label although the validator
promises uniqueness. A metric of a section that the agent's definition does not have makes
the merge append to a field of a nil section (`collectiondefinition.go:480-563`): a
well-formed local file ends the agent at its start by a panic, or the routine of the
refresher later.

*HANA monitoring.* "After several consecutive errors, the query will not be
restarted" (`hanamonitoring.go:315`) is not what happens: the count of failures is never
looked at (`monitoring_errors`). Errors
of `hdbsql` never count as refusals. Instances that share the key "::" are one.

*Process metrics.* The updater compares one reading of the instances and starts collectors
from another (`processmetrics.go:335-343`, `:576`): instances that change in between and
change back before the next tick leave the collectors on what was there in between, for as
long as nothing changes again. The fast collector falls back to zeros of
the HA state even when those are to be skipped. "Even if one of the metric is skipped the
whole group will be skipped" (`netweaver.go:312`, `:340`) is not so: only the skip of the
response code skips the group, and a response time that is to be skipped is sent. Metrics may be
missing from a collection without an error (`linux_os_metrics.go:201-214`, `:281-285`,
`networkstats.go:222-225`). A cancelled retry returns the result of the attempt
before without an error; deltas of a failed attempt are lost, and the first difference of a
PID that is used again is of two processes and may wrap around.

*Maintenance mode.* The file is emptied before it is written (`maintenance.go:99-101`,
`:166-169`): a write that fails or is killed leaves an empty file, which reads as no system
under maintenance, or a torn one, which is an error for every later command and collection.
Updates that overlap may be lost.

*configureinstance.* `removeValues` strips " nosmt" and "=nosmt" "if it's the first value or
later in the list" (`configureinstance.go:409`), but in
`GRUB_CMDLINE_LINUX_DEFAULT="nosmt ..."` the first value follows a quote: it stays while
the run reports success. A line that is commented out passes for the setting. When
`grub2-mkconfig` fails after the file was written, no later run repeats it, for the file is
then up to date.

*Log collection.* A message is acknowledged before its bundle is collected, so that a
restart or an event that cannot be published loses the request. The name of a bundle is the second of
its beginning (`logcollection.go:267`): two messages of one second write one folder and one
object, and an event may lead to the bundle of the other message.

*Workload validation.* `setPacemakerPrimitives` leaves its loop at the first
primitive that names a service account, so that `pcmk_delay_max` misses later
machines although the comment (`pacemakermetrics.go:500-501`) says it reports every
instance. A failing command reads as "false". Names are matched by their end:
"sapvm1" is taken for "vm1". The type of a HANA backup comes from the last command
of its thread, so a thread that is used again misleads.

*Insights.* "If visited_nodes != number_of_nodes - return an error because a cycle is
found" (`preprocessor.go:232-233`) compares the nodes with the queries (`:270-274`): a
dependency that is unknown counts as visited, so that as many unknown names as a cycle has
queries hide the cycle, and the engine panics on a nil query (rule "e" of the run). A
row that cannot be read ends a query after those before it were added
(`ruleengine.go:108-114`); of a global query they stay and are compared with.
An empty answer adds "" and not "nilstring" (`ruleengine.go:116`). A global rule
that fails reads as FALSE, which is "passed".

*Others.* Cloud discovery relates a cached child neither to a newly fetched
parent nor to a second one. The last cancel function of a round replaces those
before. `ListSGs` uses the remembered URL of another call; a POST or DELETE whose
answer was lost fails when repeated though it worked. `mask-ips` does not reach
`copyVarLogMessagesToBundle`. `execAndWriteToFile` takes a non-zero exit without
output on stderr for success, and `createTempParamFile` panics for a name without
a dot.

*Host metrics.* Series of Cloud Monitoring are given to disks by their position
(`cloudmetricreader.go:435-440`), so that an answer that leaves a disk out or takes another
order gives a disk the values of another. A disk that took over the device of another is
compared with the counters of the other. A failing `GetInstance` leaves a
collection without any disk, since the reader with the properties of the minute before
is a copy (`hostmetrics.go:180-184`), and with it the counters of all devices are dropped. Two generations
of collectors write one document without a lock.

## 6. Fairness

- Backup and restore: weak fairness of the command's next step, as every call and
  every wait is bounded by retries, and of Compute Engine finishing what it
  accepted. Nothing is assumed to succeed.
- Heartbeat: the lock is released (weak fairness of the visits); tickers and the
  cancellation case of a select are strongly fair, because Go's select chooses
  uniformly among ready cases and the ticks recur.
- Daemon: goroutines run (weak); the two tickers and the signal case of the
  poller's select are strongly fair for the same reason. Edits, signals, faults
  and publications are not fair.
- Refresh: rounds end (weak); a refresh, a delivery and the two cancellation
  cases are strongly fair; a *successful* download is assumed to recur, as
  otherwise nothing can reach the collector, while `accepting` may change at will
  and is constrained in the property itself.
- Backint: the reader and each task proceed (weak) while the process lives. This
  is what implements the fairness of `RequestAnswers`.
- Services: goroutines and tasks run and timers fire (weak); the ends of the fast
  and reliability loops are strongly fair, again for their select. A remote
  command ends, well or not, as it has a timeout.
- Commands and jobs: only safety is checked, so no fairness is stated.

## 7. Proofs

All theorems are for every value of the constants (any number of invocations,
services, generations, metrics) under the named assumptions of each module.

- **`DiskBackup_proofs`.** `TypeCorrect`; then `ImageInvariant`, from which
  `CatalogIsSound` (`CatalogNamesImage`) follows. `CatalogNamesImage` alone is not
  inductive: `MarkLate` closes `sid[p]` and needs that the image of *p* was taken
  under that snapshot. `ImageInv` adds that at most one snapshot is prepared, that
  no image exists before the ID is read, that one exists after the thaw without
  error, that a snapshot an invocation knows was created, and that an image taken
  while its known snapshot is still prepared holds it (`ImageOfKnown`: no other
  snapshot can have been prepared in between).
  `FrozenIsOwned` (`FreezeHasOwner`), `SuccessIsSound` (`SuccessIsRestorable`) and
  `ExitsAreKnown` (`OnlyTheseExitsLeave`) stand on top of `ImageInv`.
  *Freeze:* `FrozenInv` follows an invocation that alone uses the flag: the file system stays frozen from its freeze to its thaw, so its image is one of a
  frozen file system. *Success:* the invariant knows the route of each workflow
  (`Route`), that nothing goes on before the upload is there (`Uploaded`), that what was
  to be confirmed early is certified by then and a success is certified in any case
  (`Confirmed`), and that a late confirmation was of something uploaded
  (`LateIsDurable`); the last one needs that the name in the catalog never changes
  once a snapshot is closed (`ClosedStays`). *Exits:* the own snapshot is created only by
  the own statement (`OwnEntry`), is the one the second SELECT finds while it is
  prepared (`OwnSnapshot`), and can be left prepared only by the steps that
  `LeftSnapshot` names; `LeftGroup` says the same of the instant snapshot group.
- **`DiskRestore_proofs`.** `RestoreTypes`, `RestoreInvariant`, and from it the three
  properties of a restore: `SuccessServes` (`SuccessServesRestored`), `MountedVolumesAreWhole`
  (`MountedKeepsDisks`) and `FailuresAreUndone` (`FailureOutcome`), for any number of
  disks and failing calls; the first two whenever those take effect, the last when they take none. `RestoreInv` says for each
  step of the restore and of its rollback what the disks, the lists, the directory and
  HANA are: while the run prepares, the list of the rollback is the disks of the group
  that are detached; while it restores, the new ones that were attached are those it is
  through with; from the unmount to the rescan nothing is mounted and HANA is down. Which
  disks are missing is always explained by calls that failed (`FailedOnes`, `Accounting`);
  the outcome of a single failure needs in addition which step failed (`failedAt`) and how
  far the undoing is: the disks it is through with are back, and back in the group.
- **`Daemon_proofs`.** `OwnInvariant`, `OneGenerationLive`. `OwnInv` states per
  generation that it is not started, held, or cancelled, that the held one is
  cancelled while the poller sleeps, and that the poller does not exist before
  `Execute`. One lemma, `MoveKeepsOwn`, covers every step of a handler.
  `RestartsHaveReason` (`RestartMeansChange`) has the hypothesis `PMMode # "pinned"`,
  as a pinned version does restart at every tick (section 5); `SeenInv` says that what is
  in `d.config`, or about to be assigned to it, names the version that was there when
  it was read.
- **`WorkloadRefresh_proofs`.** Of the refresh: `OnlyValidIsUsed` (`UsedIsValid`) from
  `ValidInv`, which
  adds that the refresher lives only beside a collector that was started;
  `LoadResult` says what `Load` returns. `RefreshNeverGoesBack` (`NeverBack`) from
  `VersionInv`: what is used, what a panic returns to and what is being sent are of
  versions that were published, and what is sent is not older than the others.
  Of the rule engine: `InsightsStandOnTheirQueries` (`InsightsAreGrounded`), for any files,
  rules and dependencies, cycles and unknown queries included. `GraphInv` says that what
  was visited is what is no longer in the graph and that what is ready needs nothing that
  still is; so every order is one of the dependencies, and one that is as long as the
  rule has queries and holds nothing but queries holds all of them (`FullRange`).
  `KnowledgeInv` bounds the rows by those of one run, but for a query with the name of one
  of the global rule, whose rows a rule adds to those it was given; `AnsweredInv` that
  every global value but those of the query that failed was answered in full. The proof showed that
  the property has to speak of the global values (`gkb`): the names that `globalKBKeys`
  validates against are those of the last file with the global ID, even if it is refused.
  Of the cloud discovery: `NothingIsAskedTwice` (`AsksOnce`) and `DiscoveriesAreComplete`
  (`DiscoveryIsComplete`, of which the former is a conjunct). `AskedInv` says that what a
  discovery has been answered is in the cache under its URI and young enough to be used
  until the discovery ends: an entry that is overwritten is one that was too old, or gets
  a finding that is not. `DiscoveryInv` follows the queue: unless something was missed, each
  host and each name that a found resource mentions is found or still queued (`CoverInv`),
  and unless something changed meanwhile, nothing is found or queued that is not reached
  from the hosts (`ReachInv`). What is reached is the least set that is closed under the
  relation (`Reachable`), so neither direction needs to count steps.
  Of the sections: `ReportInvariant`, and from it `BackupsAreReported`
  (`BackupsAreNotOverstated`) and `LabelsAreOfOneDevice` (`HANALabelsBelongTogether`), and
  `RequestsAreWhole` (`RequestIsWhole`): three of the four conjuncts of `ValidationIsSound`.
  The log of backups is read twice for each tenant and grows between and during the reads.
  `BackupsInv` says that what is known so far is reliable for the tenants that had their
  turn (`Reliable`): the time of a type is of a finished backup of that type, and no tenant
  that was looked at is behind it. It stays so since a success that was read stays in the
  log, and the type of a thread that has finished is that of the command it ran, as long
  as a thread runs one backup (section 4). `WholeInv`
  follows each routine: a section is only written by its own routine, a routine that is done
  has written what it stands for (`PartsInv`), and the request is put together from the
  sections when all are done, after which nothing changes them (`SentInv`). The number of
  sections that a file of overrides gives is counted along the lines (`ParsedIsWhole`).
- **`Backint_proofs`.** `AnswersEachOnce`: the initial state of `Backint` maps to one of
  `RequestAnswers` and every step to a step or a stutter, that is, the safety part of
  the refinement that `AnswersOnce` states with fairness. It rests on `LinesInOrder`
  (`LinesInv`): a line is not yet read, refused by the reader, which answers it, or handed
  to one task, or to one for each chunk; the counter of completed chunks is the number of
  chunks that have counted themselves, so one chunk only finds itself the last; only
  the holder of the mutex composes; and the first answer to a line is its only one.
  `SavedStayRestorable` (`SavedIsRestorable`) has the hypothesis `FilesAreDistinct`: HANA
  names a file once in the input of a backup. `StoreInv` relates each line to the bucket:
  what a task has stored so far is there and belongs to it alone (`OwnersInv`, `StoredInv`),
  what is not a whole object is being worked on or its file is tainted by a crash
  or a refused deletion (`LeftInv`), and what was answered `#SAVED` is restorable and no
  task is at work on it, so that no later command but its own deletion touches it
  (`SavedInv`).
- **`Services_proofs`**, for the loops of the daemon. *Heartbeat:* `MonitorTypes`,
  `RoundInvariant`, `RoundsAreCounted`; `CountsRounds` speaks about the moments between
  two rounds, and `RoundInv` adds that inside a round a registration that is still to be
  visited lags by one. *HANA monitoring:* `OneTaskEach` (`OneTaskPerQuery`) from
  `TaskInv`: a task is in one place, and an instance that is reached in the current pass
  has no task yet, because tasks are only handed out for keys that are connected and a
  connected key is never connected to again. *System discovery:* `RetriesEnd`
  (`RetryEndsWithItsRound`) from `RetryInv`: a retry of the current round is held by the
  cancel function, or a later system of the round took its place there. *HANA
  collectors:* `CollectorsAreBounded` (`CollectorsKeepToTheirBounds`). The bound is on a
  sum over generations, whose induction is avoided: `CountInv` compares the refused
  logins with the cardinality of the set of counted ones (`CountedRefusals`), which
  grows by one element with each and lies within generations times two.
  *Collections:* `CollectionsCountOnce` (`CollectionsKeepWhatTheyCount`), for any metrics that
  may be absent. All twelve lists
  of parts are well formed (no metric in two parts, each part asks for what it reads
  but for four metrics); from that alone `CollectionInv` follows for whatever is
  skipped and fails: an attempt has nothing of the parts to come, so that what a part
  adds is new. `UsageInv` relates, for the process that a label has, the counter, the
  value when it was seen first, the remembered one and what was sent. *Host metrics:*
  `MetricsAreSound` (`HostMetricsAreSound`) from `HMInv`: a collector that writes the length
  of a document has written its text, or another has since (`DocumentInv`), what a collection has gathered at
  each of its places has one value per metric and disk (`GatheredInv`), the disks a reader
  knows are different ones (`DisksInv`), and what it kept of its last reading was read
  before the counters of now, or of another disk (`ReadingsInv`). In the model an operation
  takes longer than those before it, so a device with no fewer operations than it was
  remembered with has taken no less time either, even if the disk behind it was exchanged.
- **`Commands_proofs`.** *Load of the collection definition:* `LocalDefinitionIsSafe`,
  `AgentDefinitionWins`, `AmbiguityIsInIndexserver` for definitions of any size. The key
  is `MergeMembers`: a merged metric is the agent's, or local and without overlap
  with any metric of the agent's, those for newer agents included. They allow for the panic
  of the merge and say when it happens (`NewSectionsPanic`). `VersionsAreNumbers` says
  that `compareVersions` orders as the number does which the parts of a version make in
  base `Base`, as long as they are below it; `LoadsFollowTheRules` (`LoadFollowsTheRules`)
  joins both. *configureinstance:* `ConfigureSuccess` (`SuccessIsCompliant`)
  from `ConfigureInv`: what the invocation has passed is settled, so at the end all is.
  *Log collection:* `EventsLeadToBundles` (`EventHasItsBundle`) from `LogInv`, for any names,
  those that several messages share included: an object of a name was written by runs of that name
  (`EventInv`), and a message that is acknowledged is being handled, or has its event, failed or
  was lost (`HandlerInv`). *Support bundle:* `BundlesStayBounded`
  (`BundlesAreBounded`) from `BoundInv`: a temporary zip belongs to a run that is about to
  move it, or was stopped before its rotation; and once every run has passed, the last
  rotation has left no more than the limit and nothing was written since. *Diagnostics:* `ReportsAreWhole`
  (`ReportIsWhole`) from `DiagInv`: a part that was done is in the folder until the archive
  is written, or an error is noted. *Group services:* `RequestsReachTheirResource`
  (`CallsReachTheirResource`) from `GroupInv`: the service of instant snapshot groups
  remembers no URL or that of the call under way; the one of standard snapshot groups
  may remember a foreign one, which only `ListSGs` would take; and a success of a wait
  or a deletion came from what Compute Engine did with the group. *Maintenance mode:*
  `MaintenanceModeIsKept` (`ModeIsKept`, an action property) from `ModeInv`: an update that is
  alone knows what all before it asked for, but for the systems that are in doubt.
  *Selection of disks:* `SelectionInvariant`, and from it `SelectionsAreSound`
  (`SelectionIsSound`) under the hypothesis `WholeDevices`: when root runs the command, the data
  volume is on whole devices. `lvdisplay` lists partitions, and the code looks for them
  among the names of devices (`ParsePhysicalPath`); a volume on "sdc" and a partition of
  "sdb" would be backed up without the disk of "sdb", which TLC confirms on a machine
  with such a volume. `BackupInv`, `ChangeInv` and `RestoreInv` say what each command has
  established when it comes to its next check, `SnapshotsInv` what it knows of the
  snapshots of the group.
- **`Subsequences_proofs`.** What `Kept` keeps of a list, and the two facts by which the
  other modules reason about numbers and lists of any length: a non-empty set of natural
  numbers has a least element (`LeastElement`), so a set that has 0 and with each number its
  successor has all (`UpTo`).

Each of these invariants is also checked by TLC on the instance of its run. Assumptions
on constants: numbers and sets are what their names say; `None` is no value of the code;
the lines of a Backint command are a sequence of parameters; the SIDs of the maintenance
file differ from the words for an empty, absent or broken file; a counter of a process
stays below its width; `Threads` and retries are positive; hosts, addresses and URIs
of the cloud are different names (`CloudAssumption`); volumes are not named like labels of
HANA's section, and in the log HANA begins with, each finished backup follows its
command (`SectionsAssumption`, `FirstLogAssumption`).

Only model-checked: every liveness property, and the fairness of the refinement of
`RequestAnswers` (fairness is out of the prover's reach); `RemoteCollection`, which only
promises that collections end. Of the safety properties one conjunct of
`ValidationIsSound`, `PacemakerLabelsAreTrue`: its labels are put together with string
concatenation, `ToString`, `@@` over labels whose names are computed and folds over the
groups of a cluster, none of which the provers can expand.

Induction is done over sets of numbers, with `LeastElement`: a recursive *function* is
shown to be defined as far as each number, then to have the property as far as each
number. Induction theorems with an operator as parameter and recursive operators (`SelectSeq`,
`FoldLeft`) are opaque to the provers; where a theorem speaks about what such an
operator returns, the module uses a recursive function in its place (`Kept`, `Parsed`).

## 8. Plan

1. The instant snapshot group workflow of `hanadiskrestore`, once a version of
   the agent chooses it.
2. `DiskSelection` and `DiskRestore` composed for `hanachangedisktype`, with the
   state that the backup leaves to the restore.
3. `configure`, `configurebackint`, `installbackint`: the migration of files with
   partial failures; a second run changes nothing.
4. `sapguestactions`: commands of a guest action, which stop at the first failure,
   and the restart of the agent.
5. Application discovery: how systems found on several hosts are merged.
6. Proofs: `PacemakerLabelsAreTrue`, once the labels of `Pacemaker` are records of sets.

## 9. Not modelled, and why

Generated protocol buffers, REST client wrappers, packaging, dashboards and
scripts have no logic of their own. `sap`, `apps` and `host` discovery, and readers
of `/proc`, `crm_mon`, `sapcontrol` and `dpmon` output are parsers: their control is
a sequence of early returns, and their results are outcomes of the modules that
use them. Reports (`status`) change nothing. Short commands have one effect each.
Wording, logging, usage metrics and flag parsing are left out everywhere, except
where `DiskSelection` follows parameters. Windows variants of commands are stubs,
and the Windows readers of host metrics call one API each.

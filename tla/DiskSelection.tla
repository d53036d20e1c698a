---------------------------- MODULE DiskSelection ----------------------------
(***************************************************************************)
(* What hanadiskbackup, hanadiskrestore and hanachangedisktype find out    *)
(* and check before they touch anything: the parameters, the volumes of    *)
(* LVM, the disks behind them, their consistency group, the snapshots to   *)
(* restore, their keys and the names of the new disks                      *)
(* (internal/onetime/hanadiskbackup, internal/onetime/hanadiskrestore,     *)
(* internal/onetime/hanachangedisktype, internal/hanabackup).  DiskBackup  *)
(* and DiskRestore begin where this module ends.                           *)
(*                                                                         *)
(* A string that was not given is "".  The location of a key stands for    *)
(* the key.  Meanwhile somebody attaches and detaches disks of no volume   *)
(* and deletes snapshots, at most MaxSelectionMoves times, and any call    *)
(* may fail, once in a run.                                                *)
(***************************************************************************)
EXTENDS Naturals, Sequences, FiniteSets, SequencesExt, Subsequences

CONSTANTS
    Machines,      \* [df, findmnt: the source of /hana/data, "lvm" for a logical volume, striped,
                   \*  dataPVs, logPVs: devices of the volumes, whole: of a partition its device,
                   \*  instances: lines of GetSystemInstanceList, attached: the disks of this host in the order of the API,
                   \*  disks: of each disk [device, linked: udev made its link, cg, used: attached to some instance],
                   \*  snapshots: set of [name, group, disk, key]]
    Invocations,   \* the flags of a command, see the operators that read them
    DiskRegion,    \* the region of the zone of the disks
    AnyRegion,     \* locations of keys that serve several regions
    Suffixed,      \* the name made of a disk and -new-disk-suffix, "" when it is longer than 63
    MaxSelectionMoves

(* A link leads to a device or to none; a device with partitions is no physical volume
   itself, and snapshots have names, each its own. *)
IsMachine(mach) ==
    /\ DOMAIN mach = {"df", "findmnt", "whole", "striped", "dataPVs", "logPVs", "instances", "attached", "disks", "snapshots"}
    /\ DOMAIN mach.disks \in SUBSET (STRING \ {""})
    /\ mach.disks \in [DOMAIN mach.disks -> [device : STRING, linked : BOOLEAN, cg : STRING, used : BOOLEAN]]
    /\ mach.attached \in Seq(DOMAIN mach.disks)
    /\ mach.instances \in Nat
    /\ mach.dataPVs # {} /\ "unknown" \notin mach.dataPVs
    /\ \A p \in DOMAIN mach.whole : mach.whole[p] \notin mach.dataPVs \cup {"unknown"}
    /\ IsFiniteSet(mach.snapshots)
    /\ \A s, t \in mach.snapshots : s.name # "" /\ (s.name = t.name => s = t)

(* hanachangedisktype names a snapshot itself when it was given no name, and no group. *)
ASSUME SelectionAssumption ==
    /\ MaxSelectionMoves \in Nat
    /\ \A mach \in Machines : IsMachine(mach)
    /\ \A call \in Invocations : /\ call.disks \in Seq(STRING)
                                 /\ call.kind = "change" => call.group = "" /\ call.snapshot # ""

VARIABLES
    dsMachine,   \* the machine, with what others change
    dsCall,      \* the flags
    dsStep,      \* where the command is: ends are "usage", "failed", "backedUp", "ready"
    dsDisk,      \* s.Disk, r.DataDiskName
    dsDisks,     \* s.disks, r.disks
    dsGroup,     \* s.groupSnapshot, r.isGroupSnapshot
    dsCg,        \* cgName
    dsItems,     \* the snapshots that were examined, in the order of the listing
    dsNames,     \* r.NewDiskNames
    dsKeys,      \* the keys whose roles were verified
    dsMoves

dsVars == <<dsMachine, dsCall, dsStep, dsDisk, dsDisks, dsGroup, dsCg, dsItems, dsNames, dsKeys, dsMoves>>
dsFound == <<dsDisk, dsDisks, dsGroup, dsCg, dsItems, dsNames, dsKeys>>

SelectionInit ==
    /\ dsMachine \in Machines
    /\ dsCall \in Invocations
    /\ dsStep = IF dsCall.kind = "restore" THEN "restore" ELSE "backup"
    /\ dsDisk = "" /\ dsDisks = <<>> /\ dsGroup = FALSE /\ dsCg = "" /\ dsItems = <<>> /\ dsNames = <<>> /\ dsKeys = {}
    /\ dsMoves = 0

(* A check passes, or the command fails. *)
Check(ok, next) == dsStep' = IF ok THEN next ELSE "failed"

AttachedHere(disk) == \E i \in DOMAIN dsMachine.attached : dsMachine.attached[i] = disk
Exists(disk) == disk \in DOMAIN dsMachine.disks

(* instanceinfo: the device that the link of an attached disk leads to, and DiskMatches. *)
ReadMapping(disk) == IF dsMachine.disks[disk].linked THEN dsMachine.disks[disk].device ELSE "unknown"
(* compareVersions: agents before 3.10 work with instant snapshot groups only; a version
   that is not major.minor counts as new. *)
M2AgentVersion == <<3, 10>>
OlderThan(version, other) ==
    Len(version) = 2 /\ (version[1] < other[1] \/ (version[1] = other[1] /\ version[2] < other[2]))
UseSnapshotGroupWorkflow == ~OlderThan(dsCall.version, M2AgentVersion)

(* A partition and its device; ParsePhysicalPath reads the physical volumes of lvdisplay,
   and for a user who may not run it lsblk's, which lists the devices as well. *)
WithDevices(volumes) == volumes \cup {dsMachine.whole[p] : p \in volumes \cap DOMAIN dsMachine.whole}
SidadmUser == dsCall.user = "sidadm"
PhysicalPath(volumes) == IF dsCall.user = "root" THEN volumes ELSE WithDevices(volumes)

(* The source of the data directory, which df and findmnt must agree on. *)
LogicalPath == IF dsMachine.df = dsMachine.findmnt THEN dsMachine.df ELSE "mismatch"

(* Mutant: of the devices only one is compared. *)
DiskMatchesOne(disk) == ReadMapping(disk) = CHOOSE device \in PhysicalPath(dsMachine.dataPVs) : TRUE
DiskMatches(disk) == ReadMapping(disk) \in PhysicalPath(dsMachine.dataPVs)
Matching == Kept(dsMachine.attached, {disk \in Range(dsMachine.attached) : DiskMatches(disk)})

(* validateDisksBelongToCG: every disk has a group, and the same. *)
BelongToCG(names, cg) ==
    \A i \in DOMAIN names : Exists(names[i]) /\ dsMachine.disks[names[i]].cg = cg /\ cg # ""
(* Mutant: the group of the last disk stands for all. *)
SameGroupAsLast(names, next) ==
    /\ names # <<>> => Exists(Last(names))
    /\ dsStep' = next
    /\ dsCg' = IF names = <<>> THEN dsCg ELSE dsMachine.disks[Last(names)].cg

SameGroup(names, next) ==
    \/ \E cg \in {dsMachine.disks[n].cg : n \in DOMAIN dsMachine.disks} :
         names # <<>> /\ BelongToCG(names, cg) /\ dsCg' = cg /\ dsStep' = next
    \/ names = <<>> /\ dsStep' = next /\ UNCHANGED dsCg
    \/ /\ names # <<>> /\ \A cg \in {dsMachine.disks[n].cg : n \in DOMAIN dsMachine.disks} : ~BelongToCG(names, cg)
       /\ dsStep' = "failed"
       /\ UNCHANGED dsCg

------------------------------------------------------------------------------
(* hanadiskbackup *)

(* hanachangedisktype has flags of its own, and passes neither a user nor a key on. *)
ChangeParameters == dsCall.sid /\ dsCall.disk # "" /\ dsCall.newName \notin {"", "long"}
BackupParameters ==
    \/ dsCall.skip
    \/ /\ dsCall.sid
       /\ dsCall.credentials \in {"key", "user"}
       /\ dsCall.type \in {"STANDARD", "ARCHIVE"}
       /\ dsCall.groupName # "malformed"
ValidateBackup ==
    /\ dsStep = "backup"
    /\ dsStep' = IF BackupParameters /\ (dsCall.kind = "change" => ChangeParameters) THEN "dataDir" ELSE "usage"
    /\ dsDisk' = dsCall.disk
    /\ UNCHANGED <<dsDisks, dsGroup, dsCg, dsItems, dsNames, dsKeys>>

(* The path in global.ini must lie on a logical volume. *)
CheckDataDir ==
    /\ dsStep = "dataDir"
    /\ Check(LogicalPath = "lvm", "topology")
    /\ UNCHANGED dsFound

CheckTopology ==
    /\ dsStep = "topology"
    /\ dsStep' = IF dsMachine.instances = 0 THEN "failed" ELSE IF dsMachine.instances = 1 THEN "scaleup" ELSE "scaleout"
    /\ UNCHANGED dsFound

(* The disks of all hosts must be given; s.disks stays empty. *)
ScaleoutDisks ==
    /\ dsStep = "scaleout"
    /\ LET given == dsCall.disks
           attached == given # <<>> /\ \A i \in DOMAIN given : Exists(given[i]) /\ dsMachine.disks[given[i]].used
       IN IF attached THEN SameGroup(given, "groupName") ELSE dsStep' = "failed" /\ UNCHANGED dsCg
    /\ dsGroup' = (dsStep' # "failed")
    /\ UNCHANGED <<dsDisk, dsDisks, dsItems, dsNames, dsKeys>>

(* One disk that was named is taken as it is. *)
SourceDisk ==
    /\ dsStep = "scaleup" /\ dsDisk # ""
    /\ dsStep' = "groupName"
    /\ UNCHANGED dsFound

SourceDisks ==
    /\ dsStep = "scaleup" /\ dsDisk = "" /\ dsCall.disks # <<>>
    /\ IF \A i \in DOMAIN dsCall.disks : AttachedHere(dsCall.disks[i])
         THEN dsDisks' = dsCall.disks /\ dsStep' = "striping"
         ELSE dsStep' = "failed" /\ UNCHANGED dsDisks
    /\ UNCHANGED <<dsDisk, dsGroup, dsCg, dsItems, dsNames, dsKeys>>

(* readDiskMapping *)
DiscoverDisks ==
    /\ dsStep = "scaleup" /\ dsDisk = "" /\ dsCall.disks = <<>>
    /\ IF Matching # <<>>
         THEN dsDisks' = Matching /\ dsDisk' = Last(Matching) /\ dsStep' = "striping"
         ELSE dsStep' = "failed" /\ UNCHANGED <<dsDisk, dsDisks>>
    /\ UNCHANGED <<dsGroup, dsCg, dsItems, dsNames, dsKeys>>

(* Several disks make a group; <sid>adm cannot look at the stripes. *)
VerifyStriping ==
    /\ dsStep = "striping"
    /\ LET several == Len(dsDisks) > 1
       IN /\ IF ~several THEN dsStep' = "groupName" /\ UNCHANGED dsCg
             ELSE IF ~SidadmUser /\ ~dsMachine.striped THEN dsStep' = "failed" /\ UNCHANGED dsCg
             ELSE SameGroup(dsDisks, "groupName")
          /\ dsGroup' = (several /\ dsStep' # "failed")
    /\ UNCHANGED <<dsDisk, dsDisks, dsItems, dsNames, dsKeys>>

(* The name of a group snapshot that was given must be new. *)
CheckGroupName ==
    /\ dsStep = "groupName"
    /\ Check(dsCall.groupName = "" \/ \A s \in dsMachine.snapshots : s.group # dsCall.groupName, "named")
    /\ UNCHANGED dsFound

(* A single snapshot needs an attached disk; hanachangedisktype goes on with the
   restore of the snapshot it has just made. *)
TakeSnapshots ==
    /\ dsStep = "named"
    /\ Check(/\ dsGroup \/ AttachedHere(dsDisk)
             /\ dsCall.kind = "change" => \A s \in dsMachine.snapshots : s.name # dsCall.snapshot,
             IF dsCall.kind = "change" THEN "restore" ELSE "backedUp")
    /\ dsMachine' =
         IF dsCall.kind = "change" /\ dsStep' = "restore"
           THEN [dsMachine EXCEPT !.snapshots = @ \cup {[name |-> dsCall.snapshot, group |-> "", disk |-> dsDisk, key |-> ""]}]
           ELSE dsMachine
    /\ UNCHANGED <<dsCall, dsFound, dsMoves>>

------------------------------------------------------------------------------
(* hanadiskrestore *)

OfGroup == dsCall.sid /\ dsCall.group # ""
OfSnapshot == dsCall.sid /\ dsCall.snapshot # "" /\ dsCall.newName # ""
Targeted == dsCall.targetKey # "" /\ dsCall.keyring

RestoreParameters ==
    \/ dsCall.skip
    \/ /\ OfGroup # OfSnapshot
       /\ dsCall.newName # "long"
       /\ ~(OfGroup /\ dsCall.csek) /\ ~(dsCall.csek /\ dsCall.targetKey # "")
       /\ (dsCall.targetKey # "") = dsCall.keyring
ValidateRestore ==
    /\ dsStep = "restore"
    /\ dsStep' = IF RestoreParameters THEN "keys" ELSE "usage"
    /\ dsGroup' = (OfGroup /\ ~dsCall.skip)
    /\ dsDisk' = dsCall.disk
    /\ dsNames' = dsCall.newNames
    /\ UNCHANGED <<dsDisks, dsCg, dsItems, dsKeys>>

(* The roles on the keys that the new disks will be encrypted with are verified: of the
   key that was given, or of the snapshots, which may not be listed.  Whatever is found
   is a warning. *)
EncryptionKeys ==
    IF Targeted THEN {dsCall.targetKey}
    ELSE {s.key : s \in {t \in dsMachine.snapshots :
                           IF dsCall.snapshot # "" THEN t.name = dsCall.snapshot
                                                   ELSE dsCall.group # "" /\ t.group = dsCall.group}} \ {""}
ValidateEncryptionKeys ==
    /\ dsStep = "keys"
    /\ dsStep' = "dirs"
    /\ dsKeys' \in {EncryptionKeys, {}}
    /\ UNCHANGED <<dsDisk, dsDisks, dsGroup, dsCg, dsItems, dsNames>>

(* Mutant: they may share one. *)
CheckDirsOnly ==
    /\ dsStep = "dirs"
    /\ Check(LogicalPath = "lvm" /\ dsMachine.logPVs # {},
             IF dsGroup \/ dsDisk = "" \/ ~dsCall.zone THEN "mapping" ELSE "attached")
    /\ UNCHANGED dsFound

(* Data and log may not share a physical volume. *)
CheckDirs ==
    /\ dsStep = "dirs"
    /\ Check(/\ LogicalPath = "lvm" /\ dsMachine.logPVs # {}
             /\ PhysicalPath(dsMachine.dataPVs) \cap PhysicalPath(dsMachine.logPVs) = {},
             IF dsGroup \/ dsDisk = "" \/ ~dsCall.zone THEN "mapping" ELSE "attached")
    /\ UNCHANGED dsFound

(* Of a single disk the first that matches, or the one that was named, whose zone stays
   empty when it does not match. *)
MapDataDisks ==
    /\ dsStep = "mapping"
    /\ LET single == Kept(Matching, {disk \in Range(Matching) : dsDisk \in {"", disk}})
       IN IF dsGroup
            THEN dsDisks' = Matching /\ dsStep' = "attached" /\ UNCHANGED dsDisk
            ELSE /\ Check(single # <<>>, "attached")
                 /\ dsDisk' = IF single # <<>> THEN Head(single) ELSE dsDisk
                 /\ UNCHANGED dsDisks
    /\ UNCHANGED <<dsGroup, dsCg, dsItems, dsNames, dsKeys>>

(* The disks of -source-disks: those of this host must be all that back /hana/data,
   those of others must be attached somewhere.  One that is named twice is taken twice. *)
OfOthers ==
    LET given == dsCall.disks
        again(i) == given[i] \in Range(dsDisks) => \E j \in 1..(i - 1) : given[j] = given[i]
        indices == Kept([i \in DOMAIN given |-> i], {i \in DOMAIN given : again(i)})
    IN [i \in DOMAIN indices |-> given[indices[i]]]
(* Mutant: disks of this host may be missing. *)
ScaleoutAttachedSome ==
    dsCall.disks # <<>> /\ \A d \in Range(dsCall.disks) : Exists(d) /\ dsMachine.disks[d].used

ScaleupAttached == \A d \in Range(dsCall.disks) : AttachedHere(d)
ScaleoutAttached ==
    /\ dsCall.disks # <<>>
    /\ Range(dsDisks) \subseteq Range(dsCall.disks) /\ \A d \in Range(dsDisks) : AttachedHere(d)
    /\ \A d \in Range(OfOthers) : Exists(d) /\ dsMachine.disks[d].used
DisksAttached ==
    /\ dsStep = "attached"
    /\ LET given == dsCall.disks
       IN CASE ~dsGroup -> Check(AttachedHere(dsDisk), "kms") /\ UNCHANGED dsDisks
            [] dsGroup /\ dsMachine.instances = 0 -> dsStep' = "failed" /\ UNCHANGED dsDisks
            [] dsGroup /\ dsMachine.instances = 1 /\ given = <<>> -> dsStep' = "kms" /\ UNCHANGED dsDisks
            [] dsGroup /\ dsMachine.instances = 1 /\ given # <<>> ->
                 Check(ScaleupAttached, "kms") /\ dsDisks' = given
            [] dsGroup /\ dsMachine.instances > 1 ->
                 Check(ScaleoutAttached, "kms") /\ dsDisks' = dsDisks \o OfOthers
    /\ UNCHANGED <<dsDisk, dsGroup, dsCg, dsItems, dsNames, dsKeys>>

(* A key of another region cannot encrypt the new disks. *)
ValidKMSLocation(location) == location = DiskRegion \/ location \in AnyRegion
CheckTargetKey ==
    /\ dsStep = "kms"
    /\ Check(Targeted => ValidKMSLocation(dsCall.targetKey), "snapshots")
    /\ UNCHANGED dsFound

CMEKLocationFits(s) == Targeted \/ s.key = "" \/ ValidKMSLocation(s.key)

(* Mutant: the snapshots are not counted. *)
VerifySnapshotsOfAny ==
    /\ dsStep = "snapshots"
    /\ \E items \in SetToSeqs({s \in dsMachine.snapshots : IF dsGroup THEN s.group = dsCall.group ELSE s.name = dsCall.snapshot}) :
         dsItems' = items /\ Check(items # <<>> /\ \A i \in DOMAIN items : CMEKLocationFits(items[i]), "cg")
    /\ UNCHANGED <<dsDisk, dsDisks, dsGroup, dsCg, dsNames, dsKeys>>

(* One snapshot by its name; those of a snapshot group, whose first is looked at; or
   those with the label of the group, all of which are looked at. *)
VerifySnapshots ==
    /\ dsStep = "snapshots"
    /\ LET single == {s \in dsMachine.snapshots : s.name = dsCall.snapshot}
           listed == {s \in dsMachine.snapshots : s.group = dsCall.group}
       IN IF ~dsGroup
            THEN \/ single = {} /\ dsStep' = "failed" /\ UNCHANGED dsItems
                 \/ \E s \in single : dsItems' = <<s>> /\ Check(CMEKLocationFits(s), "cg")
            ELSE \E items \in SetToSeqs(listed) :
                   /\ dsItems' = items
                   /\ Check(/\ Len(items) = Len(dsDisks)
                            /\ IF UseSnapshotGroupWorkflow THEN items # <<>> /\ CMEKLocationFits(items[1])
                                                         ELSE \A i \in DOMAIN items : CMEKLocationFits(items[i]), "cg")
    /\ UNCHANGED <<dsDisk, dsDisks, dsGroup, dsCg, dsNames, dsKeys>>

(* The type of the new disks is that of the old ones, and the old ones are in one group. *)
CheckGroup ==
    /\ dsStep = "cg"
    /\ IF dsGroup /\ dsDisks = <<>> /\ ~dsCall.newType THEN dsStep' = "failed" /\ UNCHANGED dsCg ELSE SameGroup(dsDisks, "names")
    /\ UNCHANGED <<dsDisk, dsDisks, dsGroup, dsItems, dsNames, dsKeys>>

IsDiskUnique(name) == ~Exists(name)
(* Names that are given or built must be as many as the disks, and new. *)
CheckNames ==
    /\ dsStep = "names"
    /\ LET built == dsNames = <<>> /\ dsCall.suffix
           names == IF built THEN [i \in DOMAIN dsDisks |-> Suffixed[dsDisks[i]]] ELSE dsNames
       IN /\ dsNames' = names
          /\ Check(names # <<>> => /\ Len(names) = Len(dsDisks) /\ "" \notin Range(names)
                                   /\ \A n \in Range(names) : IsDiskUnique(n), "ready")
    /\ UNCHANGED <<dsDisk, dsDisks, dsGroup, dsCg, dsItems, dsKeys>>

------------------------------------------------------------------------------
Ends == {"usage", "failed", "backedUp", "ready"}

(* A call of the steps after the parameters fails. *)
CallFails ==
    /\ dsStep \notin Ends \cup {"backup", "restore"}
    /\ dsStep' = "failed"
    /\ UNCHANGED dsFound

(* Others: a disk of no volume comes or goes, a snapshot is deleted. *)
OfVolume(disk) == dsMachine.disks[disk].device \in WithDevices(dsMachine.dataPVs \cup dsMachine.logPVs)
OthersMove ==
    /\ dsMoves < MaxSelectionMoves /\ dsStep \notin Ends
    /\ dsMoves' = dsMoves + 1
    /\ \/ \E i \in DOMAIN dsMachine.attached :
            /\ ~OfVolume(dsMachine.attached[i])
            /\ dsMachine' = [dsMachine EXCEPT !.attached = RemoveAt(@, i), !.disks[dsMachine.attached[i]].used = FALSE]
       \/ \E d \in DOMAIN dsMachine.disks :
            /\ ~dsMachine.disks[d].used /\ ~OfVolume(d)
            /\ dsMachine' = [dsMachine EXCEPT !.attached = Append(@, d), !.disks[d].used = TRUE]
       \/ \E s \in dsMachine.snapshots : dsMachine' = [dsMachine EXCEPT !.snapshots = @ \ {s}]
    /\ UNCHANGED <<dsCall, dsStep, dsFound>>

SelectionStep ==
    \/ ValidateBackup \/ CheckDataDir \/ CheckTopology \/ ScaleoutDisks \/ SourceDisk \/ SourceDisks \/ DiscoverDisks
    \/ VerifyStriping \/ CheckGroupName
    \/ ValidateRestore \/ ValidateEncryptionKeys \/ CheckDirs \/ MapDataDisks \/ DisksAttached \/ CheckTargetKey \/ VerifySnapshots
    \/ CheckGroup \/ CheckNames \/ CallFails
SelectionNext ==
    \/ SelectionStep /\ UNCHANGED <<dsMachine, dsCall, dsMoves>>
    \/ TakeSnapshots
    \/ OthersMove

SelectionSpec == SelectionInit /\ [][SelectionNext]_dsVars

------------------------------------------------------------------------------
AllLinked == \A i \in DOMAIN dsMachine.attached : dsMachine.disks[dsMachine.attached[i]].linked
DataDisks == {d \in Range(dsMachine.attached) : dsMachine.disks[d].device \in WithDevices(dsMachine.dataPVs)}
LogDisks == {d \in Range(dsMachine.attached) : dsMachine.disks[d].device \in WithDevices(dsMachine.logPVs)}

(* A backup that finds its disks itself takes all disks of the data volume and no other,
   whatever is attached meanwhile, and several disks only of one consistency group
   (readDiskMapping, validateDisksBelongToCG of hanadiskbackup). *)
BackupTakesTheVolume ==
    (dsStep = "backedUp" /\ dsCall.disk = "") =>
        /\ dsCall.disks = <<>> /\ AllLinked => Range(dsDisks) = DataDisks
        /\ dsGroup => BelongToCG(IF dsDisks = <<>> THEN dsCall.disks ELSE dsDisks, dsCg)

(* A restore that finds its disks itself replaces disks of the data volume and never one
   of the log: of a group all on this host, which those given of a scale-out system must
   name too (checkPreConditions, multiDisksAttachedToInstance). *)
RestoreReplacesTheVolume ==
    (dsStep = "ready" /\ AllLinked) =>
        /\ dsGroup /\ dsCall.disks = <<>> => Range(dsDisks) = DataDisks
        /\ dsGroup /\ dsMachine.instances > 1 => DataDisks \subseteq Range(dsDisks) /\ Range(dsDisks) = Range(dsCall.disks)
        /\ ~dsGroup /\ ~(dsCall.disk # "" /\ dsCall.zone) => dsDisk \in DataDisks
        /\ dsCall.disks = <<>> /\ dsCall.disk = "" => (Range(dsDisks) \cup {dsDisk}) \cap LogDisks = {}

(* A restore begins only with a snapshot and, if names were asked for, a name for every
   disk, and no disk is to be encrypted by a key of another region, as far as the
   snapshots were looked at (verifySnapshotPresence, validateSnapshotCMEKLocation). *)
SnapshotsServeTheDisks ==
    dsStep = "ready" =>
        /\ dsGroup => Len(dsItems) = Len(dsDisks) /\ (dsNames # <<>> => Len(dsNames) = Len(dsDisks))
        /\ \A i \in DOMAIN dsItems : ~dsGroup \/ ~UseSnapshotGroupWorkflow \/ i = 1 => CMEKLocationFits(dsItems[i])

(* The keys that were verified are those that the disks will be encrypted with, unless
   both a snapshot and a group were named (validateEncryptionKeys). *)
KeysAreThoseInUse ==
    (dsStep = "ready" /\ dsMoves = 0 /\ dsKeys # {} /\ (dsGroup => dsCall.snapshot = "")) =>
        dsKeys = IF Targeted THEN {dsCall.targetKey} ELSE {dsItems[i].key : i \in DOMAIN dsItems} \ {""}

(* hanachangedisktype replaces the disk whose snapshot it has taken
   (changeDiskTypeHandler). *)
ChangeRestoresItsDisk ==
    (dsStep = "ready" /\ dsCall.kind = "change") => dsItems[1].disk = dsDisk /\ dsDisk = dsCall.disk

(* What passes the checks is right. *)
SelectionIsSound ==
    /\ BackupTakesTheVolume /\ RestoreReplacesTheVolume
    /\ SnapshotsServeTheDisks /\ KeysAreThoseInUse /\ ChangeRestoresItsDisk
==============================================================================

SPECIFICATION MCSpec
CONSTANTS
    Systems <- MCSystems
    MaxRounds = 2
    Hosts = {"h", "g"}
    Owner <- MCOwner
    Resolved <- MCResolved
    Kind <- MCKind
    Related <- MCRelated
    Backends <- MCBackends
    HostLists <- MCHostLists
    MaxDiscoveries = 2
    MaxFailures = 1
    MaxChanges = 1
    HasCredentials = TRUE
    SkippedGroups = {"log"}
    MaxAttempts = 2
    MaxHANAGenerations = 2
    MaxTakeovers = 1
    MaxResets = 1
    CollectorKinds = {"netweaverMS", "infra", "cluster", "network", "volume", "pacemaker", "services", "instance", "control", "memory", "maintenance"}
    MaySkip = {"ms/rcode", "ms/rtime", "proc/busy", "migration", "type", "iops/reads", "rtt", "nodes", "volumes", "meminfo"}
    MayBeAbsent = {"rtt", "bytes_acked", "free", "commit_percent", "locks", "volumes", "is_failed", "failcounts", "cpu"}
    MaxCollectionAttempts = 2
    Labels = {"a", "b"}
    MaxUsageAttempts = 2
    MaxBytes = 1
    MaxIncarnations = 2
    RuleFiles <- MCRuleFiles
    Rule <- MCRule
    MaxRows = 2
    HMDevices <- MCDevices
    HMDisks = {"d1", "d2"}
    Provisioned = {"d1"}
    Adapters = {"eth0"}
    MaxHMGenerations = 2
    MaxHMCollections = 3
    MaxIO = 2
    MaxSwaps = 1
    MaxHMFaults = 1
    NoDisk = NoDisk
    VMs = {"vm1", "vm11"}
    Here = "vm1"
    NameLength <- MCNameLength
    CIBs <- MCCIBs
    Configured <- MCConfigured
    CommandLabels = {"command"}
    MaxPmCollections = 1
    MaxPmMoves = 1
    MaxPmFaults = 1
    Zone = "z"
    Landscapes <- MCLandscapes
    Volumes <- MCVolumes
    BlockDevices <- MCBlockDevices
    Overrides <- MCOverrides
    Tenants = {"t1", "t2"}
    Threads = {"a", "b"}
    BackupTypes = {"FULL", "SNAPSHOT"}
    FirstLog <- MCFirstLog
    MaxBackupLines = 5
    MaxLandscapes = 1
    MaxSectionFaults = 1
    Disks = {d1, d2, d3}
    NoCur = nodisk
    MaxFaults = 3
INVARIANTS RetryEndsWithItsRound DiscoveryIsComplete CollectorsKeepToTheirBounds CollectionsKeepWhatTheyCount InsightsAreGrounded
    HostMetricsAreSound ValidationIsSound SuccessServesRestored MountedKeepsDisks FailureOutcome
CHECK_DEADLOCK FALSE

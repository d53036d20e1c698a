SPECIFICATION FairSpec
CONSTANTS
    Kinds = {"on", "nocloud"}
    PMMode = "latest"
    SlowGens = {}
    MaxTime = 2
    MaxVersions = 2
    MaxFaults = 1
    MaxGen = 3
INVARIANTS LiveIsOwned
PROPERTIES EditsReachServices SignalEndsProcess RestartMeansChange
CHECK_DEADLOCK FALSE

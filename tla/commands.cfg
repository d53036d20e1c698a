SPECIFICATION MCSpec
CONSTANTS
    None = None
    Runs = {"m", "c", "n", "r"}
    Messages = {"m", "n", "r"}
    Commands = {"c"}
    ValidMessages = {"m", "n"}
    MaxDeliveries = 2
    Limit = 1
    Old <- MCOld
    Name <- MCName
    Options <- MCOptions
    MachineSeries = {"x4", "x5"}
    Distributions = {"SLES", "RHEL", "other"}
    MaxRuns = 2
    Reports = {"x", "y"}
    Requests <- MCRequests
    MaxRetries = 2
    MaxPages = 2
    SIDs = {"A", "B"}
    Updates = {"u1", "u2", "u3"}
    UpdateOf <- MCUpdateOf
    Machines <- MCMachines
    Invocations <- MCInvocations
    DiskRegion = "here"
    AnyRegion <- MCAnyRegion
    Suffixed <- MCSuffixed
    MaxSelectionMoves = 1
    AgentVersion <- MCAgentVersion
    Keys = {"a", ""}
    Versions <- MCVersions
    Base = 3
    MaxSize = 2
INVARIANTS LoadFollowsTheRules BundlesAreBounded EventHasItsBundle SuccessIsCompliant ReportIsWhole CallsReachTheirResource SelectionIsSound
PROPERTY ModeIsKept
CHECK_DEADLOCK FALSE

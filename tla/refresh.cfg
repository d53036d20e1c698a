SPECIFICATION FairSpec
CONSTANTS
    AgentVersion <- MCAgentVersion
    AgentDefinitions <- MCAgentDefinitions
    LocalDefinitions <- MCLocalDefinitions
    FetchLatest = "yes"
    MaxVersion = 2
    MaxPanics = 1
INVARIANTS UsedIsValid
PROPERTIES NeverBack RefreshReachesCollector
CHECK_DEADLOCK FALSE

SPECIFICATION MCSpec
CONSTANTS
    HANAInstances <- MCInstances
    Queries = {"q1", "q2"}
    QueriesToRun <- MCQueriesToRun
    RunAll = {}
    Key <- MCKey
    Userstore = {"b", "c"}
    Prepared = {"a", "b", "c"}
    Pinged = TRUE
    Threads = 1
    None = None
    SAPInstances = {"db", "other"}
    Databases = {"db"}
    NetWeaver = {}
    Kinds = {"compute"}
    Enabled = TRUE
    MaxChanges = 3
    Hosts = {h1, h2}
    Method = "gcloud"
    Workers = 1
    MaxCollections = 2
INVARIANTS OneTaskPerQuery
PROPERTIES KeepsQuerying StaleCollectorsStop CollectsWhatIsThere EachHostOnce
CHECK_DEADLOCK FALSE

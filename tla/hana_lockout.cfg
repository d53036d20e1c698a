SPECIFICATION HANASpec
CONSTANTS
    HasCredentials = TRUE
    SkippedGroups = {"log"}
    MaxAttempts = 2
    MaxHANAGenerations = 2
    MaxTakeovers = 0
    MaxResets = 0
INVARIANT NeverLocksOut
CHECK_DEADLOCK FALSE

SPECIFICATION MonitoredSpec
CONSTANTS
    Services = {s1, s2, s3}
    Threshold = 2
INVARIANTS
    CountsRounds
PROPERTIES
    SilentIsReported
CHECK_DEADLOCK FALSE

SPECIFICATION DaemonSpec
CONSTANTS
    Services = {s1, s2}
    Threshold = 2
PROPERTY SilentIsReported
CHECK_DEADLOCK FALSE

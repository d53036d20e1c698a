SPECIFICATION FairSpec
CONSTANTS
    Procs = {p1, p2}
    Prior = prior
    None = none
    Scenarios <- LiveScenarios
CHECK_DEADLOCK FALSE
PROPERTIES
    ThawedEventually

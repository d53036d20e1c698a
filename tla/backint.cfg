SPECIFICATION Spec
CONSTANTS
    None = None
    Streams = 2
    Threads = 2
    MaxLines = 2
    Inputs <- MCInputs
INVARIANTS SavedIsRestorable
PROPERTY AnswersOnce
CHECK_DEADLOCK FALSE

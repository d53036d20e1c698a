SPECIFICATION Spec
CONSTANTS
    Procs = {p1, p2}
    Prior = prior
    None = none
    Scenarios <- SafetyScenarios
CHECK_DEADLOCK FALSE
SYMMETRY Interchangeable
INVARIANTS
    TypeOK
    CatalogNamesImage
    SuccessIsRestorable
    FreezeHasOwner
    OnlyTheseExitsLeave

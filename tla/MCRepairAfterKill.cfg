SPECIFICATION Spec
CONSTANTS
    Fields       <- MCFields
    Values       <- MCValues
    Paths        = {"a", "b", "out", "loop"}
    None         = None
    Escaping     = {"out", "loop"}
    Unresolvable = {"loop"}
    Reports      <- MCReports
    InitialDisks <- MCDisks
    Edits        <- MCEdits
    Allowed      <- MCAllowed
    FillMissing  = FALSE
    MaxRuns      = 2
    MaxMishaps   = 1
INVARIANT
    CompleteMeansValid
CHECK_DEADLOCK FALSE

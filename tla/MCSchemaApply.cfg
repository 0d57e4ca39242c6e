SPECIFICATION Spec
CONSTANTS
    Fields      = {"f"}
    Texts       = {"", "x", "y", "z"}
    Selectors   = {"h1"}
    Patterns    = {"m"}
    LinkTypes   = {"ref", "other"}
    None        = None
    Garbage     = Garbage
    Dirs        <- MCDirs
    Populated   <- MCPopulated
    Hierarchies <- MCHierarchies
    Requests    <- MCRequests
    Edits       <- MCEdits
    Samples     <- MCSamples
    MaxRuns     = 2
    MaxMishaps  = 1
INVARIANTS
    TypeOK
    CompleteMeansHealthy
    OnlyWhatItReports
    FirstProposalStands
    PreviewAgrees
    NarrowingKeepsGuarantees
CHECK_DEADLOCK FALSE

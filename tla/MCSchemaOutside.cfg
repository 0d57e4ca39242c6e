SPECIFICATION Spec
CONSTANTS
    Fields      = {"f"}
    Texts       = {"", "x", "y", "z"}
    Selectors   = {"h1"}
    Patterns    = {"m"}
    LinkTypes   = {"ref", "other"}
    None        = None
    Garbage     = Garbage
    Dirs        <- MCDirs
    Populated   <- MCPopulated
    Hierarchies <- MCOutsideTrees
    Requests    <- MCOutsideRequests
    Edits       <- MCEdits
    Samples     <- MCSamples
    MaxRuns     = 1
    MaxMishaps  = 0
INVARIANT WholeHierarchyJudged
CHECK_DEADLOCK FALSE

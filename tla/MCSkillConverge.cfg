\* Two commands one after the other and nothing else: they must succeed.
\* Destinations may link forward (agents to claude, ADR 0008), not backward.
SPECIFICATION FairSpec
CONSTANTS
    None = none
    Runs = {r1, r2}
    Trees <- MCTrees
    Elsewhere <- MCElsewhere
    InitialDest <- MCForwardDest
    UserEntries <- MCUserEntries
    Ops = {"install", "uninstall", "restore"}
    MaxEdits = 0
    MaxFaults = 0
    MaxCrashes = 0
    MaxActive = 1
    EditsWhileActive = FALSE
PROPERTIES InstallConverges RestoreConverges
CHECK_DEADLOCK FALSE

\* One install and two edits by the user while it executes.
SPECIFICATION Spec
CONSTANTS
    None = none
    Runs = {r1}
    Trees <- MCTrees
    Elsewhere <- MCElsewhere
    InitialDest <- MCInitialDest
    UserEntries <- MCUserEntries
    Ops = {"install"}
    MaxEdits = 2
    MaxFaults = 0
    MaxCrashes = 0
    MaxActive = 1
    EditsWhileActive = TRUE
PROPERTY NoTreeLost
CHECK_DEADLOCK FALSE

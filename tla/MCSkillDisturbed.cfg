\* Two overlapping commands of any kind with one I/O error or one crash
\* anywhere, or three commands one after the other with one edit by the user at
\* any moment, also between two file-system calls of a command.
SPECIFICATION Spec
CONSTANTS
    None = none
    Runs = {r1, r2, r3}
    Trees <- MCTrees
    Elsewhere <- MCElsewhere
    InitialDest <- MCNearDest
    UserEntries <- MCUserEntries
    Ops = {"install", "uninstall", "restore"}
    MaxEdits = 1
    MaxFaults = 1
    MaxCrashes = 1
    MaxActive = 2
    EditsWhileActive = TRUE
CONSTRAINT MCDisturbance
SYMMETRY MCSymmetry
INVARIANTS TypeOK StagedIsBackedUp CompleteInstallUndoable NoDriftMeansUninstallable RestoredExactly
PROPERTY NoTreeLost
CHECK_DEADLOCK FALSE

\* Two callers of different modes, or of one mode with a reader.
SPECIFICATION Spec
CONSTANTS
    Writers  = {w1, w2}
    Readers  = {r1}
    Contents = {old, new}
    CallerModes = {given, source}
    Inodes   = {i1, i2, i3}
    MaxOrphans = 1
    None     = None
CONSTRAINT MCModesOrReads
SYMMETRY MCSymmetry
INVARIANTS
    TypeOK
    ReadsAreWhole
    NothingStagedAfterReturn
PROPERTIES
    IsAtomicFile
    ModeIsKept
CHECK_DEADLOCK FALSE

CONSTANTS
    r = r
    a = a
    b = b
    c = c
    d = d
    Docs <- MCDocs
    ScanOrder <- MCScanOrder
    Dir <- MCDir
    Index <- MCIndex
    Below <- MCBelow
    Fields <- MCFields
    Absent = "none"
    Blank = ""
    Near <- MCNear
    Base <- MCBase
    Canonical <- MCCanonical
    Quoted <- MCQuoted
    Spelled <- MCSpelled
    Rollup <- MCRollup
    Broken = Broken
    None = None
    Trees <- MCTrees
    Named <- MCNamed
    Edits <- MCEdits
    MaxFaults = 1
SPECIFICATION Spec
INVARIANTS
    RepairsByPriority
    RowsTellTheDisk
PROPERTIES
    NothingInvented
    Settles

SPECIFICATION Spec
CONSTANTS
    Root <- p
    Walk <- MCWalk
    Dirs <- MCDirs
    Outer <- MCOuter
    Known <- MCKnown
    Git <- MCGit
    Trees <- MCFieldTrees
    Sessions <- Fielded
    Lexical <- MCLexical
    Workers = {w1, w2}
    None = None
    Nothing = Nothing
    Readme = "README.md"
    Md <- MCMd
    Rollup <- MCRollup
    MaxMishaps = 1
INVARIANTS
    SameVerdict
CONSTRAINT MCMishaps

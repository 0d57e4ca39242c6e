--------------------------- MODULE MCAtomicWrite ---------------------------
(***************************************************************************)
(* Constant values for checking AtomicWrite with TLC.                      *)
(***************************************************************************)
EXTENDS AtomicWrite, TLC

\* Callers pass different modes, or a program reads the target meanwhile.
ModesPassed ==
    CallerModes \cap ({inode[i].mode : i \in Inodes} \cup {writer[w].perm : w \in Writers})

MCModesOrReads ==
    \/ Cardinality(ModesPassed) <= 1
    \/ \A r \in Readers : reader[r].open = None /\ reader[r].got = <<>>

\* The files of the directory are interchangeable, and so are the callers, the
\* contents and the modes they pass.
MCSymmetry == Permutations(Inodes) \cup Permutations(Writers)
                \cup Permutations(Contents) \cup Permutations(CallerModes)
=============================================================================

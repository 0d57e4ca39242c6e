---------------------------- MODULE MCSkillDist ----------------------------
(***************************************************************************)
(* Constant values for checking SkillDist with TLC.                        *)
(***************************************************************************)
EXTENDS SkillDist, TLC

\* One tree shipped by the source and one the user keeps.
MCTrees     == {"skill", "mine"}
MCElsewhere == {"checkout"}

\* A destination starts empty, as a user's directory, or as a link to the
\* other destination, to a checkout or to the source.
MCInitialDest ==
    {Absent, Dir("mine"), Link("agents"), Link("claude"), Link("checkout"), Link(Src)}

\* ... without a link from claude to agents.
MCForwardDest == MCInitialDest \ {Link("agents")}

\* ... without a link that leads out of both: one to the source is what an
\* install or the user makes.
MCNearDest == MCInitialDest \ {Link("checkout"), Link(Src)}

\* What the user may create while commands exist.
MCUserEntries == {Absent, File, Dir("mine"), Link(Src)}

\* What a run explores of three commands, an edit, an I/O error and a crash:
\* two commands that overlap and meet the error or the crash, or three that
\* follow each other, from plan to end, with the edit anywhere among their
\* calls.
MCDisturbance ==
    \/ edits = 0 /\ faults + crashes <= 1 /\ Cardinality({r \in Runs : pc[r] # "idle"}) <= 2
    \/ /\ Cardinality(Active \cup {r \in Runs : pc[r] = "approved"}) <= 1
       /\ faults = 0 /\ crashes = 0

\* Run identities are interchangeable.
MCSymmetry == Permutations(Runs)
=============================================================================

------------------------------ MODULE Preflight ------------------------------
(***************************************************************************)
(* boundaryPreflight (cmd/rootline/preflight.go): before a governed        *)
(* command runs, does the tree say where its governance begins?  With      *)
(* WalkUp and DownwardScan (internal/rules/discovery.go), and the root     *)
(* marker that is offered on a terminal.                                   *)
(***************************************************************************)
EXTENDS RecordScan

CONSTANTS
    Git     \* the directories that hold a .git

\* hidden: the directories whose .stem a .stemignore excludes; quoted: those
\* whose .stem has the words "root: true" somewhere without declaring it.
BoundaryTypes(t) == t.hidden \subseteq Places /\ t.quoted \subseteq Places

VARIABLES
    cmd,    \* the command in progress
    report  \* what the commands that ended have reported, None before

(***************************************************************************)
(* The two walks.                                                          *)
(***************************************************************************)
Topmost(E) == CHOOSE e \in E : \A x \in E : Len(e) <= Len(x)

\* DownwardScan: the .stem files at or below d that no declared boundary at or
\* below d covers.
Below(s, d) ==
    LET here    == {e \in Dirs \ tree.hidden : IsPrefix(d, e) /\ s[e] # "none"}
        covered == {e \in here : \E r \in here : s[r] = "root" /\ IsPrefix(r, e)}
    IN  here \ covered

\* Mutation: only the walk up.
BoundaryAbove(s, d) ==
    LET up == Chain(s, d)
    IN  IF Resolve(s, d) = "broken" THEN "broken above"
        ELSE IF up = {} THEN "none"
        ELSE IF s[Topmost(up)] = "root" THEN "declared" ELSE "undeclared"

\* What the preflight finds out about d: a .stem that cannot be read, no .stem
\* at all, or whether the topmost one declares the boundary.
Boundary(s, d) ==
    LET up == Chain(s, d)
        down == Below(s, d)
    IN  IF Resolve(s, d) = "broken" THEN "broken above"
        ELSE IF up # {} THEN IF s[Topmost(up)] = "root" THEN "declared" ELSE "undeclared"
        ELSE IF \E e \in down : s[e] = "broken" THEN "broken below"
        ELSE IF down # {} THEN "undeclared" ELSE "none"

\* undeclaredBoundaryNotice: a walk that fails tells nothing.
Notice(s, d) == IF Boundary(s, d) = "undeclared" THEN {"boundary"} ELSE {}

(***************************************************************************)
(* ProposeRootDirectory, ApplyRootMarker.                                  *)
(***************************************************************************)
\* The order of the entries: from the top of the chain, or as they are walked.
Nth(e) == IF e \in Outer THEN Len(e)
          ELSE Len(Root) + (CHOOSE i \in DOMAIN Walk : Walk[i] = e)
First(E) == CHOOSE e \in E : \A x \in E : Nth(e) <= Nth(x)
Final(E) == CHOOSE e \in E : \A x \in E : Nth(x) <= Nth(e)

\* The .git nearest above bounds the project; without one, the last entry.
Proposed(s, d) ==
    LET entries == IF Chain(s, d) # {} THEN Chain(s, d) ELSE Below(s, d)
        hints   == {g \in Git : IsPrefix(g, d)}
        inside  == {e \in entries : hints # {} /\ IsPrefix(Final(hints), e)}
    IN  IF inside # {} THEN First(inside) ELSE Final(entries)

\* The marker goes in unless its words are found somewhere in the file.
Marked(s, p) == IF p \in tree.quoted THEN s ELSE [s EXCEPT ![p] = "root"]

(***************************************************************************)
(* The command.                                                            *)
(***************************************************************************)
Command(name) ==
    [name |-> name, phase |-> "preflight", offered |-> FALSE, records |-> <<>>, at |-> 1,
     links |-> [f \in Files |-> {}], issues |-> {}, edges |-> {}, opted |-> {},
     derived |-> [f \in Files |-> None], rows |-> <<>>, visited |-> {}, structural |-> {}, drift |-> {}, notices |-> {}, health |-> FALSE]

\* validate reports a broken hierarchy and an undeclared boundary itself.
SelfReporting == cmd.name \in {"all", "file"}

To(phase)     == cmd' = [cmd EXCEPT !.phase = phase]
End(outcome)  == cmd' = [cmd EXCEPT !.phase = "done"] /\ report' = [report EXCEPT ![cmd.name] = outcome]
Fails(why)    == End([kind |-> "error", why |-> why])

Admitted(s, d) ==
    \/ Boundary(s, d) \in {"declared", "none"}
    \/ Boundary(s, d) \in {"undeclared", "broken above"} /\ SelfReporting

\* No terminal, or the user declined.
Admit(d, phase) ==
    /\ cmd.phase = "preflight"
    /\ IF Admitted(stems, d) THEN To(phase) /\ UNCHANGED report ELSE Fails("preflight")
    /\ UNCHANGED scanVars

\* The user accepted; the rewrite may fail, which fails all but validate.
Declare(d, phase) ==
    /\ cmd.phase = "preflight" /\ Boundary(stems, d) = "undeclared"
    /\ \/ /\ stems' = Marked(stems, Proposed(stems, d))
          /\ cmd' = [cmd EXCEPT !.phase = phase, !.offered = TRUE] /\ UNCHANGED report
       \/ /\ UNCHANGED stems
          /\ IF SelfReporting THEN To(phase) /\ UNCHANGED report ELSE Fails("preflight")
    /\ UNCHANGED <<tree, gone, cancelled, scan, hold, seen, mishaps>>
=============================================================================

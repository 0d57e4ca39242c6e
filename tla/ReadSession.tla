----------------------------- MODULE ReadSession -----------------------------
(***************************************************************************)
(* The commands that read a tree, one after the other: graph --check,      *)
(* validate --all and validate of every file, each with its preflight,     *)
(* and what they must agree on.                                            *)
(***************************************************************************)
EXTENDS ValidateCommand

CONSTANTS
    Sessions    \* [tree, todo]: a tree and the commands run on it

VARIABLES
    todo

vars == <<scanVars, graphVars, cmd, report, todo>>

Commands == {"graph", "all", "file"}

ASSUME SessionAssumption ==
    /\ Known = Range(Lexical) /\ Plain # Nothing
    /\ \A x \in Sessions : /\ x.tree \in Trees /\ x.todo \in Seq(Commands)
                           /\ BoundaryTypes(x.tree) /\ LinkTypes(x.tree) /\ DocumentTypes(x.tree)

Init ==
    /\ \E x \in Sessions : ScanInit(x.tree) /\ todo = x.todo
    /\ cmd = [Command(None) EXCEPT !.phase = "done"]
    /\ report = [c \in Commands |-> [kind |-> "none"]]
    /\ adj = <<>> /\ dfs = Idle /\ scc = Idle

Begin ==
    /\ cmd.phase = "done" /\ todo # <<>>
    /\ cmd' = Command(Head(todo)) /\ todo' = Tail(todo)
    /\ UNCHANGED <<scanVars, graphVars, report>>

\* boundaryPreflightTarget: the directory, or that of the first file.
Target == IF cmd.name = "file" /\ ThereNow # <<>> THEN Dir(Head(ThereNow)) ELSE Root
After  == CASE cmd.name = "graph" -> "start" [] cmd.name = "all" -> "health" [] OTHER -> "files"

Preflight == (Admit(Target, After) \/ Declare(Target, After)) /\ UNCHANGED <<graphVars, todo>>

Scanning == ScanNext /\ UNCHANGED <<graphVars, cmd, report, todo>>
Working == (GraphNext \/ ValidateNext) /\ UNCHANGED todo
Mishap   == (cmd.phase # "done" /\ Environment) /\ UNCHANGED <<graphVars, cmd, report, todo>>

Over == cmd.phase = "done" /\ todo = <<>> /\ UNCHANGED vars

Next == Begin \/ Preflight \/ Scanning \/ Working \/ Mishap \/ Over

Spec == Init /\ [][Next]_vars

(***************************************************************************)
(* What the commands promise together.                                     *)
(***************************************************************************)
\* Nothing has changed since the session began, and every document is governed
\* from Root.
Unchanged == mishaps = 0 /\ stems = tree.stems
FromRoot(f) == Resolve(stems, Dir(f)) = "governed" /\ Topmost(Chain(stems, Dir(f))) = Root

\* The links f has in a set of pairs of f and a link, or that break a rule.
LinksOf(f, pairs)  == {l \in tree.links[f] : <<f, l>> \in pairs}
Breaking(row, rule) == {i[2] : i \in {x \in row : x[1] = rule}}
LinkRules == {"link_anchor", "link_encoding"}

\* graph and validate answer alike of a document's links unless its schema has
\* a fallback, typed rules or the check switched off: the same ones broken, the
\* same anchors and encodings wrong, whatever else the tree holds.  A fallback
\* leaves to graph what validate cannot tell, never more.
BrokenAgrees ==
    (Unchanged /\ report.graph.kind = "graph" /\ report.all.kind = "envelope") =>
        \A f \in DOMAIN report.all.rows :
            LET row == report.all.rows[f]
                schema == Schema(stems, f)
                broken == LinksOf(f, report.graph.broken)
            IN  Unresolved(f) # row /\ schema.rules = {} /\ schema.resolve =>
                    /\ IF schema.fallback THEN broken \subseteq Breaking(row, "link_unverifiable")
                       ELSE broken = Breaking(row, "link_resolve")
                    /\ {i \in row : i[1] \in LinkRules} = {x[2] : x \in {i \in report.graph.issues : i[1] = f}}

\* Both modes have judged a tree that is governed from where it is scanned.
BothModes ==
    /\ Unchanged /\ \A f \in Known : FromRoot(f)
    /\ report.all.kind = "envelope" /\ report.all.notices \cap {"unresolved", "scan failed"} = {}
    /\ report.file.kind = "envelope"

\* The schema of f computes the field; and a rule asks that it exists.
Computes(f) == Declares(stems, f, tree.derives \cup tree.aggregates)
Demands(f)  == Declares(stems, f, tree.demands)

\* The gate and the hook enforce the same but for what only the gate computes: a
\* file that is named has the row it has under --all, where no field of it is
\* computed the very row; and one that --all leaves out is reported as excluded.
\* What is found by name only is a field that is missing until it is derived,
\* what is found by --all only an index file's stored aggregate; so no file
\* fails by name in a tree that passes, where no rule asks for a computed field.
ModesAgree ==
    LET all == report.all
        file == report.file
    IN
    BothModes =>
        /\ \A f \in (Known \cap tree.where) \ gone :
              IF f \in DOMAIN all.rows
              THEN /\ ~Computes(f) => file.rows[f] = all.rows[f]
                   /\ \A i \in file.rows[f] \ all.rows[f] : i[1] = "exists"
                   /\ \A i \in all.rows[f] \ file.rows[f] : i[1] = "aggregate"
              ELSE file.rows[f] = {<<"excluded", f>>}
        /\ (/\ all.ok /\ ~file.strict /\ tree.where = Files
            /\ \A f \in Known : ~(Computes(f) /\ Demands(f))) => file.ok

\* docs/validate.md: "A file target and `--all` reach the same verdict on the same
\* tree".  It fails where a field is computed: a named file is judged without.
SameVerdict ==
    BothModes => \A f \in DOMAIN report.all.rows :
        Valid(report.file.rows[f]) = Valid(report.all.rows[f])

\* No document is judged by rules that may come from outside the project: when
\* a command succeeds without having offered the marker, the chain of each of
\* its documents ends in a declared boundary, unless a .stemignore hides it.
GovernedMeansDeclared ==
    LET done == cmd.phase = "done" /\ cmd.name # None /\ mishaps = 0 /\ ~cmd.offered
        ok   == report[cmd.name].kind = "graph" \/ (report[cmd.name].kind = "envelope" /\ report[cmd.name].ok)
    IN
    (done /\ ok) =>
        \A f \in Records : LET up == Chain(stems, Dir(f)) IN
            (f \in DOMAIN cmd.rows => cmd.rows[f] # {<<"excluded", f>>}) /\ up # {} =>
                stems[Topmost(up)] = "root" \/ Topmost(up) \in tree.hidden
=============================================================================

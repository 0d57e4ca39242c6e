---------------------------- MODULE GraphCommand ----------------------------
(***************************************************************************)
(* rootline graph --check (cmd/rootline/graph.go): scan, filter, check and *)
(* prepare the links, build the graph, look for cycles and broken links.   *)
(*                                                                         *)
(* Every phase resolves the .stem files of the records anew, so one that   *)
(* is edited meanwhile reaches some phases and not others.                 *)
(***************************************************************************)
EXTENDS Preflight, LinkResolve, LinkGraph

\* The rest of a tree: schema[d], the links: block of d's .stem or Nothing;
\* links, where, headings, ambiguous: of the documents (ambiguous: a field to
\* be read from the body is there twice).
LinkTypes(t) ==
    /\ DOMAIN t.schema = Places /\ DOMAIN t.links = Files
    /\ t.where \subseteq Files /\ t.ambiguous \subseteq Files

Plain == [styles |-> {}, rules |-> {}, fallback |-> FALSE, resolve |-> TRUE,
          anchors |-> FALSE, encoding |-> FALSE, cycles |-> FALSE]

\* ResolveForRecord: the lowest links: block of the chain, Nothing without a
\* chain.  Blocks are inherited whole; StemRules has the merge.
Schema(s, f) ==
    LET up == Chain(s, Dir(f))
        with == {d \in up : tree.schema[d] # Nothing}
    IN  IF up = {} THEN Nothing ELSE IF with = {} THEN Plain
        ELSE tree.schema[CHOOSE d \in with : \A x \in with : Len(x) <= Len(d)]

Disk == [files |-> Files \ gone, dirs |-> Places, headings |-> tree.headings]

Records   == Range(cmd.records)
Linked    == {f \in Records : cmd.links[f] # {}}
Broken(S) == \E f \in S : Resolve(stems, Dir(f)) = "broken"

\* A phase of the command: it fails when a chain it resolves is broken.
Phase(now, next, resolves, outcome) ==
    /\ cmd.phase = now
    /\ IF Broken(resolves) THEN Fails(now)
       ELSE cmd' = [outcome EXCEPT !.phase = next] /\ UNCHANGED report
    /\ UNCHANGED <<scanVars, graphVars>>

\* Those that look at the context between two records.
Stopped == cancelled /\ Records # {}

GraphStart ==
    /\ cmd.name = "graph" /\ cmd.phase = "start"
    /\ To("scan") /\ BeginScan(FALSE, FALSE)
    /\ UNCHANGED <<graphVars, report>>

\* scanGoverned's second scan.
GraphRescan == cmd.name = "graph" /\ cmd.phase = "scan" /\ Retry /\ UNCHANGED <<graphVars, cmd, report>>

GraphScanned ==
    /\ cmd.name = "graph" /\ cmd.phase = "scan"
    /\ scan.phase = "done" /\ scan.out.kind # "noschema"
    /\ IF scan.out.kind = "error" THEN Fails("scan")
       ELSE cmd' = [cmd EXCEPT !.phase = "ensure", !.records = scan.out.records,
                               !.links = tree.links] /\ UNCHANGED report
    /\ UNCHANGED <<scanVars, graphVars>>

Ensure == ~Stopped /\ Phase("ensure", "styles", Records, cmd)

\* Mutation: links of every style stay.
AnyStyle(f) == cmd.links[f]

InStyle(f) == OfStyle(cmd.links[f], Schema(stems, f))

FilterStyles ==
    Phase("styles", "enrich", Linked,
          [cmd EXCEPT !.links = [f \in Files |-> IF f \in Linked THEN InStyle(f) ELSE @[f]]])

\* EnrichBuiltinsSimple: all records or none.
Enrich ==
    /\ ~Stopped /\ tree.ambiguous \cap Records = {}
    /\ Phase("enrich", "where", Records, cmd)

Stop ==
    /\ cmd.name = "graph"
    /\ \/ cmd.phase \in {"ensure", "enrich"} /\ Stopped
       \/ cmd.phase = "enrich" /\ tree.ambiguous \cap Records # {}
    /\ Fails(cmd.phase)
    /\ UNCHANGED <<scanVars, graphVars>>

FilterWhere ==
    Phase("where", "issues", {},
          [cmd EXCEPT !.records = Kept(@, tree.where)])

\* collectLinkCheckIssues: what validate says of the links, but for those that
\* do not resolve, which are reported as broken.
Issues(f) ==
    IF Schema(stems, f) = Nothing THEN {}
    ELSE {i \in CheckLinks(Disk, Nothing, Root, Dir(f), Schema(stems, f), cmd.links[f]) :
             i[1] \notin {"link_resolve", "link_unverifiable"}}

CollectIssues ==
    Phase("issues", "prepare", Records,
          [cmd EXCEPT !.issues = UNION {{f} \X Issues(f) : f \in Records}])

Edges(f) ==
    {LET to == Prepared(Disk, Root, Dir(f), Schema(stems, f), Records, l)
     IN  [from |-> f, link |-> to.link, resolved |-> to.resolved, key |-> to.key] : l \in cmd.links[f]}

Prepare ==
    Phase("prepare", "types", Records, [cmd EXCEPT !.edges = UNION {Edges(f) : f \in Records}])

FilterTypes ==
    Phase("types", "scope", Linked,
          [cmd EXCEPT !.edges = {e \in @ : OfType({e.link}, Schema(stems, e.from)) # {}}])

OptIn ==
    Phase("scope", "build", Records,
          [cmd EXCEPT !.opted = {f \in Records : CycleFailureScope(Schema(stems, f))}])

BuildGraph ==
    /\ cmd.phase = "build" /\ To("cycles")
    /\ adj' = Adjacency(Records, cmd.edges)
    /\ dfs' = DfsStart /\ scc' = Idle
    /\ UNCHANGED <<scanVars, report>>

\* BrokenLinks asks the resolver's answer, not the nodes.
BrokenLinks == {<<e.from, e.link>> : e \in {x \in cmd.edges : ~x.resolved}}

Report(fails, flag) ==
    End([kind |-> "graph", cycles |-> dfs.cycles, opted |-> cmd.opted, fails |-> fails, flag |-> flag, broken |-> BrokenLinks, issues |-> cmd.issues,
         ok |-> ~(fails /\ dfs.cycles # {}) /\ BrokenLinks = {} /\ cmd.issues = {}])

\* --fail-cycles given, TRUE or FALSE.
DecideByFlag ==
    /\ cmd.phase = "cycles" /\ dfs.phase = "done"
    /\ \E flag \in BOOLEAN : Report(flag, TRUE)
    /\ UNCHANGED <<scanVars, graphVars>>

\* Not given: membership is worked out only when some record opted in.
Decide ==
    /\ cmd.phase = "cycles" /\ dfs.phase = "done"
    /\ IF dfs.cycles = {} \/ cmd.opted = {}
       THEN Report(FALSE, FALSE) /\ UNCHANGED scc
       ELSE To("members") /\ scc' = SccStart /\ UNCHANGED report
    /\ UNCHANGED <<scanVars, adj, dfs>>

DecideByMembers ==
    /\ cmd.phase = "members" /\ scc.phase = "done"
    /\ Report(cmd.opted \cap scc.members # {}, FALSE)
    /\ UNCHANGED <<scanVars, graphVars>>

GraphNext ==
    \/ /\ cmd.name = "graph"
       /\ \/ GraphStart \/ GraphRescan \/ GraphScanned \/ Ensure \/ FilterStyles \/ Enrich \/ Stop \/ FilterWhere
          \/ CollectIssues \/ Prepare \/ FilterTypes \/ OptIn \/ BuildGraph \/ DecideByFlag \/ Decide \/ DecideByMembers
    \/ GraphStep /\ UNCHANGED <<scanVars, cmd, report>>

\* Without --fail-cycles, the check fails for cycles exactly when a document
\* whose schema asks for it lies on one, also on one that no reported cycle
\* passes through, whatever order the members are visited in.
OptedInCycleFails ==
    LET r == report.graph IN
    (cmd.name = "graph" /\ cmd.phase = "done" /\ r.kind = "graph" /\ ~r.flag) =>
        (r.fails <=> \E n \in r.opted : OnCycle(n))
=============================================================================

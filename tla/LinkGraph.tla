------------------------------ MODULE LinkGraph ------------------------------
(***************************************************************************)
(* The directed graph of the documents' links (internal/graph/graph.go):   *)
(* DetectCycles, a depth-first search that reports the cycle of every back *)
(* edge, and CycleMembers, Tarjan's strongly connected components.         *)
(*                                                                         *)
(* Both recurse; here a frame of the recursion is a record on a sequence,  *)
(* and one step looks at one edge or leaves one node.  DetectCycles takes  *)
(* roots and edges in lexical order, CycleMembers takes its roots in the   *)
(* order of a Go map, that is in any order.                                *)
(***************************************************************************)
EXTENDS Naturals, Sequences, FiniteSets, SequencesExt, FiniteSetsExt

CONSTANTS
    Lexical     \* every document, in the order of its key

ASSUME LexicalAssumption == Lexical \in Seq(Range(Lexical)) /\ IsInjective(Lexical)

VARIABLES
    adj,        \* sortedAdjacency: the nodes each node links to
    dfs,        \* DetectCycles
    scc         \* CycleMembers

graphVars == <<adj, dfs, scc>>

Rank(n)    == CHOOSE i \in DOMAIN Lexical : Lexical[i] = n
Earliest(S) == CHOOSE n \in S : \A m \in S : Rank(n) <= Rank(m)
Nodes      == DOMAIN adj

(***************************************************************************)
(* The graph of a set of edges [from, key], the key of an edge being       *)
(* whatever its link was prepared to.                                      *)
(***************************************************************************)
Adjacency(nodes, edges) == [n \in nodes |-> {e.key : e \in {x \in edges : x.from = n}} \cap nodes]

\* Mutation: closed where the search found it.
AsFound(cycle) == Append(cycle, cycle[1])

\* canonicalCycle: rotated to its smallest member, which is then repeated.
Canonical(cycle) ==
    LET k == CHOOSE i \in DOMAIN cycle : cycle[i] = Earliest(Range(cycle))
    IN  SubSeq(cycle, k, Len(cycle)) \o SubSeq(cycle, 1, k)

(***************************************************************************)
(* DetectCycles.                                                           *)
(***************************************************************************)
Idle == [phase |-> "idle"]
Frame(n) == [node |-> n, todo |-> adj[n]]

DfsStart == [phase |-> "run", stack |-> <<>>, black |-> {}, cycles |-> {}]
Gray == {dfs.stack[i].node : i \in DOMAIN dfs.stack}

\* A node not seen before becomes the root of a tree.
DfsRoot ==
    /\ dfs.phase = "run" /\ dfs.stack = <<>>
    /\ LET white == Nodes \ dfs.black IN
       dfs' = IF white = {} THEN [dfs EXCEPT !.phase = "done"]
              ELSE [dfs EXCEPT !.stack = <<Frame(Earliest(white))>>]
    /\ UNCHANGED <<adj, scc>>

\* The path on the stack from t to the top, which the edge to t closes.
BackEdge(t) ==
    LET k == CHOOSE i \in DOMAIN dfs.stack : dfs.stack[i].node = t
    IN  [i \in 1..(Len(dfs.stack) - k + 1) |-> dfs.stack[k + i - 1].node]

DfsEdge ==
    /\ dfs.phase = "run" /\ dfs.stack # <<>> /\ Last(dfs.stack).todo # {}
    /\ LET t    == Earliest(Last(dfs.stack).todo)
           seen == [dfs EXCEPT !.stack[Len(dfs.stack)].todo = @ \ {t}]
       IN  dfs' = IF t \in dfs.black THEN seen
                  ELSE IF t \in Gray THEN [seen EXCEPT !.cycles = @ \cup {Canonical(BackEdge(t))}]
                  ELSE [seen EXCEPT !.stack = Append(@, Frame(t))]
    /\ UNCHANGED <<adj, scc>>

DfsLeave ==
    /\ dfs.phase = "run" /\ dfs.stack # <<>> /\ Last(dfs.stack).todo = {}
    /\ dfs' = [dfs EXCEPT !.black = @ \cup {Last(dfs.stack).node}, !.stack = Front(@)]
    /\ UNCHANGED <<adj, scc>>

(***************************************************************************)
(* CycleMembers.                                                           *)
(***************************************************************************)
SccStart == [phase |-> "run", next |-> 1, index |-> [n \in Nodes |-> 0], low |-> [n \in Nodes |-> 0],
             stack |-> <<>>, frames |-> <<>>, members |-> {}]

\* visit(v), to its loop over the edges.
Visit(s, v) ==
    [s EXCEPT !.index[v] = s.next, !.low[v] = s.next, !.next = @ + 1,
              !.stack = Append(@, v), !.frames = Append(@, Frame(v))]

SccRoot ==
    /\ scc.phase = "run" /\ scc.frames = <<>>
    /\ IF \A n \in Nodes : scc.index[n] # 0 THEN scc' = [scc EXCEPT !.phase = "done"]
       ELSE \E v \in {n \in Nodes : scc.index[n] = 0} : scc' = Visit(scc, v)
    /\ UNCHANGED <<adj, dfs>>

SccEdge ==
    /\ scc.phase = "run" /\ scc.frames # <<>> /\ Last(scc.frames).todo # {}
    /\ LET v    == Last(scc.frames).node
           w    == Earliest(Last(scc.frames).todo)
           seen == [scc EXCEPT !.frames[Len(scc.frames)].todo = @ \ {w}]
       IN  scc' = IF scc.index[w] = 0 THEN Visit(seen, w)
                  ELSE IF w \in Range(scc.stack)
                  THEN [seen EXCEPT !.low[v] = IF scc.index[w] < @ THEN scc.index[w] ELSE @]
                  ELSE seen
    /\ UNCHANGED <<adj, dfs>>

\* The component of v: what is on the stack from v up.
Component(v) ==
    LET k == CHOOSE i \in DOMAIN scc.stack : scc.stack[i] = v
    IN  SubSeq(scc.stack, k, Len(scc.stack))

\* Mutation: the caller of v keeps its own low.
NotReturned(v) == scc.low

\* The caller of v takes v's low for its own when that is smaller.
Returned(v) ==
    IF Len(scc.frames) = 1 THEN scc.low
    ELSE LET u == scc.frames[Len(scc.frames) - 1].node
         IN  [scc.low EXCEPT ![u] = IF scc.low[v] < @ THEN scc.low[v] ELSE @]

SccLeave ==
    /\ scc.phase = "run" /\ scc.frames # <<>> /\ Last(scc.frames).todo = {}
    /\ LET v    == Last(scc.frames).node
           up   == [scc EXCEPT !.frames = Front(@), !.low = Returned(v)]
           comp == Component(v)
       IN  scc' = IF scc.low[v] # scc.index[v] THEN up
                  ELSE [up EXCEPT !.stack = SubSeq(@, 1, Len(@) - Len(comp)),
                                  !.members = IF Len(comp) > 1 \/ v \in adj[v]
                                              THEN @ \cup Range(comp) ELSE @]
    /\ UNCHANGED <<adj, dfs>>

GraphStep == DfsRoot \/ DfsEdge \/ DfsLeave \/ SccRoot \/ SccEdge \/ SccLeave

(***************************************************************************)
(* What the two are measured against.                                      *)
(***************************************************************************)
\* b is in every set that holds a's successors and is closed under succession.
Reaches(a, b) ==
    \A S \in SUBSET Nodes : adj[a] \subseteq S /\ (\A x \in S : adj[x] \subseteq S) => b \in S

OnCycle(n) == Reaches(n, n)

\* Every reported cycle is one: it follows the links from its smallest member
\* through distinct nodes back to it; and no group of documents that reach one
\* another goes without a reported cycle of its own, so none is reported only
\* of a graph without cycles.
CyclesReal ==
    dfs.phase = "done" =>
        /\ \A c \in dfs.cycles :
              /\ Len(c) > 1 /\ c[1] = c[Len(c)] /\ c[1] = Earliest(Range(c))
              /\ Cardinality(Range(c)) = Len(c) - 1
              /\ \A i \in 1..(Len(c) - 1) : c[i+1] \in adj[c[i]]
        /\ \A n \in Nodes : OnCycle(n) =>
              \E c \in dfs.cycles : \A m \in Range(c) : Reaches(n, m) /\ Reaches(m, n)
=============================================================================

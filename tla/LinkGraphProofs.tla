----------------------------- MODULE LinkGraphProofs -----------------------------
(***************************************************************************)
(* What the two searches of internal/graph/graph.go compute, whatever the  *)
(* graph: DetectCycles reports cycles only, and one within every group of  *)
(* documents that reach one another; CycleMembers, at its end, holds exactly*)
(* the documents on a cycle, in whatever order it took its roots.          *)
(*                                                                         *)
(* Each search has an inductive invariant, DfsSound and SccSound, and a lemma*)
(* per step.  A step is proved on rigid copies of the state before and after*)
(* (s and z), so that what is defined of it reads the same on both.        *)
(***************************************************************************)
EXTENDS LinkGraph, FiniteSetTheorems, Induction

(***************************************************************************)
(* Reachability.                                                           *)
(***************************************************************************)
\* Every node is a document, and links to nodes.
Ranked == Nodes \subseteq Range(Lexical) /\ adj \in [Nodes -> SUBSET Nodes]
\* The nodes that n is on a cycle with.
Group(n) == {m \in Nodes : Reaches(n, m) /\ Reaches(m, n)}

\* A set of documents has an earliest one.
LEMMA EarliestIn ==
    ASSUME NEW S \in SUBSET Range(Lexical), S # {}
    PROVE  Earliest(S) \in S
<1> DEFINE T == {Rank(n) : n \in S}
<1>1. \A n \in S : Rank(n) \in Nat
  BY LexicalAssumption DEF Rank, Range
<1>2. PICK x \in T : \A y \in T : x <= y
  <2>1. T \in SUBSET Nat /\ T # {}
    BY <1>1
  <2> HIDE DEF T
  <2>2. QED
    BY <2>1, LeastNatural
<1>3. PICK n \in S : \A m \in S : Rank(n) <= Rank(m)
  BY <1>2
<1>4. QED
  BY <1>3 DEF Earliest

\* A link leads to where it points.
LEMMA ReachStep ==
    ASSUME Ranked, NEW a \in Nodes, NEW b \in adj[a]
    PROVE  Reaches(a, b)
BY DEF Reaches

\* Two paths make one.
LEMMA ReachTrans ==
    ASSUME Ranked, NEW a \in Nodes, NEW b \in Nodes, NEW c \in Nodes, Reaches(a, b), Reaches(b, c)
    PROVE  Reaches(a, c)
BY DEF Reaches

\* A path and a link make a path.
LEMMA ReachOnward ==
    ASSUME Ranked, NEW a \in Nodes, NEW b \in Nodes, NEW c \in adj[b], Reaches(a, b)
    PROVE  Reaches(a, c)
BY DEF Reaches

\* A node on a cycle is linked to by one of those it is on a cycle with.
LEMMA Predecessor ==
    ASSUME Ranked, NEW n \in Nodes, OnCycle(n)
    PROVE  \E p \in Group(n) : n \in adj[p]
<1> SUFFICES ASSUME \A p \in Group(n) : n \notin adj[p] PROVE FALSE
  OBVIOUS
<1> DEFINE S == {x \in Nodes : Reaches(n, x)} \ {n}
<1>1. n \in Group(n)
  BY DEF Group, OnCycle
<1>2. adj[n] \subseteq S
  BY <1>1, ReachStep DEF Ranked
<1>3. ASSUME NEW x \in S PROVE adj[x] \subseteq S
  <2>1. x \in Nodes /\ Reaches(n, x)
    OBVIOUS
  <2>2. \A y \in adj[x] : y \in Nodes /\ Reaches(n, y)
    BY <2>1, ReachOnward DEF Ranked
  <2>3. n \notin adj[x]
    BY <2>1, ReachStep DEF Group
  <2>4. QED
    BY <2>2, <2>3
<1>4. S \in SUBSET Nodes
  OBVIOUS
<1>5. n \in S
  <2> HIDE DEF S
  <2>1. QED
    BY <1>2, <1>3, <1>4 DEF OnCycle, Reaches
<1>6. QED
  BY <1>5

(***************************************************************************)
(* Cycles as CyclesReal has them.                                          *)
(***************************************************************************)
Follows(c) == \A i \in 1..(Len(c) - 1) : c[i+1] \in adj[c[i]]

\* The first clause of CyclesReal.
Cycle(c) ==
    /\ Len(c) > 1 /\ c[1] = c[Len(c)] /\ c[1] = Earliest(Range(c))
    /\ Cardinality(Range(c)) = Len(c) - 1
    /\ Follows(c)

\* What follows the links from within a closed set stays in it.
LEMMA FollowsOn ==
    ASSUME Ranked, NEW c \in Seq(Nodes), Follows(c), NEW S \in SUBSET Nodes,
           \A x \in S : adj[x] \subseteq S, NEW k \in DOMAIN c, c[k] \in S
    PROVE  \A i \in k..Len(c) : c[i] \in S
<1> DEFINE T == {i \in k..Len(c) : c[i] \in S}
<1>1. k \in Nat /\ Len(c) \in Nat /\ k \in T
  OBVIOUS
<1>2. \A i \in k..Len(c) : i < Len(c) /\ i \in T => i + 1 \in T
  BY DEF Follows
<1> HIDE DEF T
<1>3. \A i \in k..Len(c) : i \in T
  BY <1>1, <1>2, IntervalInduction
<1>4. QED
  BY <1>3 DEF T

\* The nodes of a cycle reach one another.
LEMMA CycleReaches ==
    ASSUME Ranked, NEW c \in Seq(Nodes), Follows(c), Len(c) > 1, c[1] = c[Len(c)],
           NEW n \in Range(c), NEW m \in Range(c)
    PROVE  Reaches(n, m)
<1> SUFFICES ASSUME NEW S \in SUBSET Nodes, adj[n] \subseteq S, \A x \in S : adj[x] \subseteq S
             PROVE  m \in S
  BY DEF Reaches
<1>1. PICK i \in DOMAIN c : c[i] = n /\ i < Len(c)
  <2>1. PICK i \in DOMAIN c : c[i] = n
    BY DEF Range
  <2>2. CASE i = Len(c)
    BY <2>1, <2>2
  <2>3. CASE i < Len(c)
    BY <2>1, <2>3
  <2>4. QED
    BY <2>2, <2>3
<1>2. i + 1 \in DOMAIN c /\ c[i+1] \in S /\ Len(c) \in (i+1)..Len(c)
  BY <1>1 DEF Follows
<1>3. c[Len(c)] \in S
  BY <1>2, FollowsOn
<1>4. 1 \in DOMAIN c /\ c[1] \in S
  BY <1>3
<1>5. \A j \in 1..Len(c) : c[j] \in S
  BY <1>4, FollowsOn
<1>6. QED
  BY <1>5 DEF Range

\* The entries of two sequences put together.
LEMMA Joined ==
    ASSUME NEW W, NEW a \in Seq(W), NEW b \in Seq(W)
    PROVE  /\ \A i \in 1..Len(a) : (a \o b)[i] = a[i]
           /\ \A i \in (Len(a) + 1)..(Len(a) + Len(b)) : (a \o b)[i] = b[i - Len(a)]
OBVIOUS

\* A path whose end links to its beginning, rotated.
LEMMA CanonicalCycle ==
    ASSUME Ranked, NEW q \in Seq(Nodes), q # <<>>, IsInjective(q), Follows(q), q[1] \in adj[q[Len(q)]]
    PROVE  Canonical(q) \in Seq(Nodes) /\ Cycle(Canonical(q)) /\ Range(Canonical(q)) = Range(q)
<1> DEFINE k == CHOOSE i \in DOMAIN q : q[i] = Earliest(Range(q))
           m == Len(q)
           c == Canonical(q)
<1>1. Range(q) \in SUBSET Range(Lexical) /\ Range(q) # {}
  BY DEF Ranked, Range
<1>2. k \in 1..m /\ q[k] = Earliest(Range(q)) /\ m \in Nat \ {0}
  <2>1. Earliest(Range(q)) \in Range(q)
    BY <1>1, EarliestIn
  <2>2. \E i \in DOMAIN q : q[i] = Earliest(Range(q))
    BY <2>1 DEF Range
  <2>3. k \in DOMAIN q /\ q[k] = Earliest(Range(q))
    BY <2>2
  <2>4. QED
    BY <2>3
<1> HIDE DEF k
<1>3. c = SubSeq(q, k, m) \o SubSeq(q, 1, k)
  BY DEF Canonical, k
<1>4. /\ SubSeq(q, k, m) \in Seq(Nodes) /\ Len(SubSeq(q, k, m)) = m - k + 1
      /\ SubSeq(q, 1, k) \in Seq(Nodes) /\ Len(SubSeq(q, 1, k)) = k
      /\ \A i \in 1..(m - k + 1) : SubSeq(q, k, m)[i] = q[k + i - 1]
      /\ \A i \in 1..k : SubSeq(q, 1, k)[i] = q[i]
  BY <1>2
<1>5. c \in Seq(Nodes) /\ Len(c) = m + 1
  BY <1>2, <1>3, <1>4
<1>6. /\ \A i \in 1..(m - k + 1) : c[i] = q[k + i - 1]
      /\ \A i \in (m - k + 2)..(m + 1) : c[i] = q[i - (m - k + 1)]
  <2> DEFINE front == SubSeq(q, k, m)
             back  == SubSeq(q, 1, k)
  <2>1. /\ front \in Seq(Nodes) /\ back \in Seq(Nodes) /\ c = front \o back
        /\ Len(front) = m - k + 1 /\ Len(back) = k
        /\ \A i \in 1..(m - k + 1) : front[i] = q[k + i - 1]
        /\ \A i \in 1..k : back[i] = q[i]
    BY <1>3, <1>4
  <2> HIDE DEF front, back, c, m
  <2>2. \A i \in 1..(m - k + 1) : c[i] = q[k + i - 1]
    BY <1>2, <2>1, Joined
  <2>3. ASSUME NEW i \in (m - k + 2)..(m + 1) PROVE c[i] = q[i - (m - k + 1)]
    <3>1. i - (m - k + 1) \in 1..k /\ i \in (Len(front) + 1)..(Len(front) + Len(back))
      <4>1. Len(front) = m - k + 1 /\ Len(back) = k
        BY <2>1
      <4>2. m \in Int /\ k \in Int
        BY <1>2
      <4> QED
        BY <4>1, <4>2
    <3>2. c[i] = back[i - Len(front)]
      BY <2>1, <3>1, Joined, SMTT(30)
    <3> QED
      BY <2>1, <3>1, <3>2
  <2> QED
    BY <2>2, <2>3
<1> HIDE DEF c, m
<1>7. c[1] = q[k] /\ c[m + 1] = q[k]
  BY <1>2, <1>6
<1>8. Range(c) = Range(q)
  <2>1. ASSUME NEW x \in Range(c) PROVE x \in Range(q)
    <3>1. PICK i \in 1..(m + 1) : x = c[i]
      BY <1>2, <1>5, <2>1 DEF Range
    <3>2. CASE i \in 1..(m - k + 1)
      <4>1. k + i - 1 \in 1..m
        BY <1>2, <3>2
      <4>2. QED
        BY <1>6, <3>1, <3>2, <4>1 DEF Range, m
    <3>3. CASE i \in (m - k + 2)..(m + 1)
      <4>1. i - (m - k + 1) \in 1..m
        BY <1>2, <3>3
      <4>2. QED
        BY <1>6, <3>1, <3>3, <4>1 DEF Range, m
    <3>4. QED
      BY <1>2, <3>1, <3>2, <3>3
  <2>2. ASSUME NEW x \in Range(q) PROVE x \in Range(c)
    <3>1. PICK i \in 1..m : x = q[i]
      BY <2>2 DEF Range, m
    <3>2. CASE i >= k
      <4>1. i - k + 1 \in 1..(m - k + 1) /\ k + (i - k + 1) - 1 = i
        BY <1>2, <3>1, <3>2
      <4>2. c[i - k + 1] = x
        BY <1>6, <3>1, <4>1
      <4>3. i - k + 1 \in DOMAIN c
        BY <1>2, <1>5, <4>1
      <4>4. QED
        BY <4>2, <4>3 DEF Range
    <3>3. CASE i < k
      <4>1. i + (m - k + 1) \in (m - k + 2)..(m + 1) /\ (i + (m - k + 1)) - (m - k + 1) = i
        BY <1>2, <3>1, <3>3
      <4>2. c[i + (m - k + 1)] = x
        BY <1>6, <3>1, <4>1
      <4>3. i + (m - k + 1) \in DOMAIN c
        BY <1>2, <1>5, <4>1
      <4>4. QED
        BY <4>2, <4>3 DEF Range
    <3>4. QED
      BY <1>2, <3>1, <3>2, <3>3
  <2>3. QED
    BY <2>1, <2>2
<1>9. Cardinality(Range(q)) = m
  <2>1. q \in Bijection(1..m, Range(q))
    BY DEF Bijection, Injection, Surjection, IsInjective, Range, m
  <2>2. IsFiniteSet(1..m) /\ Cardinality(1..m) = m
    BY <1>2, FS_Interval
  <2>3. QED
    BY <2>1, <2>2, FS_Bijection DEF ExistsBijection
<1>10. Follows(c)
  <2>1. SUFFICES ASSUME NEW i \in 1..m PROVE c[i+1] \in adj[c[i]]
    BY <1>2, <1>5 DEF Follows
  <2>2. CASE i < m - k + 1
    <3>1. i \in 1..(m - k + 1) /\ i + 1 \in 1..(m - k + 1) /\ k + i - 1 \in 1..(m - 1)
      BY <1>2, <2>2
    <3>2. c[i] = q[k + i - 1] /\ c[i+1] = q[(k + i - 1) + 1]
      <4>1. k + (i + 1) - 1 = (k + i - 1) + 1
        BY <1>2
      <4>2. QED
        BY <1>6, <3>1, <4>1
    <3>3. QED
      BY <3>1, <3>2 DEF Follows, m
  <2>3. CASE i = m - k + 1
    <3>1. i \in 1..(m - k + 1) /\ i + 1 \in (m - k + 2)..(m + 1) /\ k + i - 1 = m /\ (i + 1) - (m - k + 1) = 1
      BY <1>2, <2>3
    <3>2. QED
      BY <1>6, <3>1 DEF m
  <2>4. CASE i > m - k + 1
    <3>1. /\ i \in (m - k + 2)..(m + 1) /\ i + 1 \in (m - k + 2)..(m + 1)
          /\ i - (m - k + 1) \in 1..(m - 1) /\ (i + 1) - (m - k + 1) = (i - (m - k + 1)) + 1
      BY <1>2, <2>4
    <3>2. c[i] = q[i - (m - k + 1)] /\ c[i+1] = q[(i - (m - k + 1)) + 1]
      BY <1>6, <3>1
    <3>3. QED
      BY <3>1, <3>2 DEF Follows, m
  <2>5. QED
    BY <1>2, <2>2, <2>3, <2>4
<1>11. QED
  BY <1>2, <1>5, <1>7, <1>8, <1>9, <1>10 DEF Cycle, c, m

(***************************************************************************)
(* DetectCycles.  The stack is a path; a link from a finished node, or one *)
(* already looked at, leads to a finished node or closes a reported cycle. *)
(***************************************************************************)
\* A reported cycle passes through both.
Closed(p, q) == \E c \in dfs.cycles : p \in Range(c) /\ q \in Range(c)
At(i) == dfs.stack[i].node
Frames == [node : Nodes, todo : SUBSET Nodes]

DfsTypes ==
    dfs \in [phase : {"run", "done"}, stack : Seq(Frames), black : SUBSET Nodes, cycles : SUBSET Seq(Nodes)]
DfsPath ==
    /\ \A i \in DOMAIN dfs.stack : At(i) \notin dfs.black /\ dfs.stack[i].todo \subseteq adj[At(i)]
    /\ \A i, j \in DOMAIN dfs.stack : At(i) = At(j) => i = j
    /\ \A i \in DOMAIN dfs.stack : i < Len(dfs.stack) => At(i+1) \in adj[At(i)]
DfsEdges ==
    /\ \A p \in dfs.black : \A q \in adj[p] : q \in dfs.black \/ (q \in Gray /\ Closed(p, q))
    /\ \A i \in DOMAIN dfs.stack : \A q \in adj[At(i)] \ dfs.stack[i].todo :
          \/ q \in dfs.black
          \/ i < Len(dfs.stack) /\ q = At(i+1)
          \/ q \in Gray /\ Closed(At(i), q)
DfsReported ==
    \A n \in dfs.black : OnCycle(n) /\ Group(n) \subseteq dfs.black =>
        \E c \in dfs.cycles : Range(c) \subseteq Group(n)
\* The inductive invariant of DetectCycles.
DfsSound ==
    /\ DfsTypes
    /\ \A c \in dfs.cycles : Cycle(c)
    /\ DfsPath /\ DfsEdges /\ DfsReported
    /\ dfs.phase = "done" => dfs.black = Nodes

\* Whatever is said of the links alone stays true while they do.
LEMMA SameGraph ==
    ASSUME adj' = adj
    PROVE  /\ Nodes' = Nodes /\ Ranked' = Ranked /\ Frames' = Frames
           /\ \A x, y : Reaches(x, y)' = Reaches(x, y)
           /\ \A x : OnCycle(x)' = OnCycle(x) /\ Group(x)' = Group(x) /\ Cycle(x)' = Cycle(x)
<1>1. Nodes' = Nodes
  BY DEF Nodes
<1>2. Ranked' = Ranked
  BY <1>1 DEF Ranked
<1>3. Frames' = Frames
  BY <1>1 DEF Frames
<1>4. \A x, y : Reaches(x, y)' = Reaches(x, y)
  BY <1>1 DEF Reaches
<1>5. \A x : OnCycle(x)' = OnCycle(x)
  BY <1>4 DEF OnCycle
<1>6. \A x : Group(x)' = Group(x)
  BY <1>1, <1>4 DEF Group
<1>7. \A x : Cycle(x)' = Cycle(x)
  BY DEF Cycle, Follows
<1>8. QED
  BY <1>1, <1>2, <1>3, <1>4, <1>5, <1>6, <1>7

\* DetectCycles begins with nothing found and nothing missed.
LEMMA DfsStarts == dfs = DfsStart => DfsSound
BY DEF DfsSound, DfsStart, DfsTypes, DfsPath, DfsEdges, DfsReported

\* Steps that are not its own leave it as it was.
LEMMA DfsStays ==
    ASSUME DfsSound, UNCHANGED <<adj, dfs>>
    PROVE  DfsSound'
<1>1. /\ Nodes' = Nodes /\ Ranked' = Ranked /\ Frames' = Frames
      /\ \A x : OnCycle(x)' = OnCycle(x) /\ Group(x)' = Group(x) /\ Cycle(x)' = Cycle(x)
  BY SameGraph
<1>2. \A x, y : Closed(x, y)' = Closed(x, y)
  BY DEF Closed
<1>3. Gray' = Gray /\ \A i : At(i)' = At(i)
  BY DEF Gray, At
<1>4. DfsTypes'
  BY <1>1 DEF DfsSound, DfsTypes
<1>5. DfsPath'
  BY <1>3 DEF DfsSound, DfsPath
<1>6. DfsEdges'
  BY <1>2, <1>3 DEF DfsSound, DfsEdges
<1>7. DfsReported'
  BY <1>1 DEF DfsSound, DfsReported
<1>8. QED
  BY <1>1, <1>4, <1>5, <1>6, <1>7 DEF DfsSound

\* A new root, or the end.
LEMMA DfsRootSound ==
    ASSUME Ranked, DfsSound, DfsRoot
    PROVE  DfsSound'
<1> DEFINE white == Nodes \ dfs.black
<1>1. /\ Nodes' = Nodes /\ Frames' = Frames /\ adj' = adj
      /\ \A x : OnCycle(x)' = OnCycle(x) /\ Group(x)' = Group(x) /\ Cycle(x)' = Cycle(x)
  BY SameGraph DEF DfsRoot
<1>2. DfsTypes /\ dfs.stack = <<>> /\ dfs.phase = "run"
  BY DEF DfsSound, DfsRoot
<1>3. \A p \in dfs.black : adj[p] \subseteq dfs.black
  BY <1>2 DEF DfsSound, DfsEdges, Gray
<1>4. CASE white = {}
  <2>1. dfs' = [dfs EXCEPT !.phase = "done"]
    BY <1>4 DEF DfsRoot
  <2>2. /\ dfs'.phase = "done" /\ dfs'.stack = <<>> /\ dfs'.black = dfs.black /\ dfs'.cycles = dfs.cycles
        /\ dfs' \in [phase : {"run", "done"}, stack : Seq(Frames), black : SUBSET Nodes, cycles : SUBSET Seq(Nodes)]
    BY <1>2, <2>1 DEF DfsTypes
  <2>3. dfs.black = Nodes
    BY <1>2, <1>4 DEF DfsTypes
  <2>4. DfsTypes'
    BY <1>1, <2>2 DEF DfsTypes
  <2>5. DfsPath' /\ DfsEdges'
    BY <1>1, <1>3, <2>2 DEF DfsPath, DfsEdges
  <2>6. DfsReported'
    BY <1>1, <2>2 DEF DfsSound, DfsReported
  <2>7. QED
    BY <1>1, <2>2, <2>3, <2>4, <2>5, <2>6 DEF DfsSound
<1>5. CASE white # {}
  <2> DEFINE e == Earliest(white)
  <2>1. e \in white
    BY <1>5, EarliestIn DEF Ranked
  <2>2. dfs' = [dfs EXCEPT !.stack = <<Frame(e)>>]
    BY <1>5 DEF DfsRoot
  <2> HIDE DEF e
  <2>3. Frame(e) \in Frames /\ Frame(e).node = e /\ Frame(e).todo = adj[e]
    BY <2>1 DEF Frame, Frames, Ranked
  <2>4. /\ dfs'.phase = "run" /\ dfs'.stack = <<Frame(e)>> /\ dfs'.black = dfs.black /\ dfs'.cycles = dfs.cycles
        /\ dfs' \in [phase : {"run", "done"}, stack : Seq(Frames), black : SUBSET Nodes, cycles : SUBSET Seq(Nodes)]
    <3>1. <<Frame(e)>> \in Seq(Frames)
      BY <2>3
    <3>2. QED
      BY <1>2, <2>2, <3>1, Zenon DEF DfsTypes
  <2>5. DfsTypes'
    BY <1>1, <2>4 DEF DfsTypes
  <2>6. Len(dfs'.stack) = 1 /\ DOMAIN dfs'.stack = {1} /\ At(1)' = e
    BY <2>3, <2>4 DEF At
  <2>7. DfsPath'
    BY <1>1, <2>1, <2>3, <2>4, <2>6 DEF DfsPath
  <2>8. DfsEdges'
    BY <1>1, <1>3, <2>3, <2>4, <2>6 DEF DfsEdges
  <2>9. DfsReported'
    BY <1>1, <2>4 DEF DfsSound, DfsReported
  <2>10. QED
    BY <1>1, <2>4, <2>5, <2>7, <2>8, <2>9 DEF DfsSound
<1>6. QED
  BY <1>4, <1>5

\* The end of a node: a group that is complete with it has its cycle.
LEMMA DfsLeaveSound ==
    ASSUME Ranked, DfsSound, DfsLeave
    PROVE  DfsSound'
<1> DEFINE L == Len(dfs.stack)
           n == At(L)
<1>1. /\ Nodes' = Nodes /\ Frames' = Frames /\ adj' = adj
      /\ \A x : OnCycle(x)' = OnCycle(x) /\ Group(x)' = Group(x) /\ Cycle(x)' = Cycle(x)
  BY SameGraph DEF DfsLeave
<1>2. DfsTypes /\ dfs.phase = "run" /\ L \in Nat \ {0} /\ n \in Nodes
  <2>1. DfsTypes /\ dfs.phase = "run" /\ dfs.stack # <<>>
    BY DEF DfsSound, DfsLeave
  <2>2. dfs.stack \in Seq(Frames)
    BY <2>1 DEF DfsTypes
  <2>3. L \in Nat \ {0} /\ dfs.stack[L] \in Frames
    BY <2>1, <2>2
  <2>4. QED
    BY <2>1, <2>3 DEF At, Frames
<1>3. /\ dfs'.phase = "run" /\ dfs'.black = dfs.black \cup {n} /\ dfs'.cycles = dfs.cycles
      /\ dfs'.stack = SubSeq(dfs.stack, 1, L - 1)
      /\ dfs' \in [phase : {"run", "done"}, stack : Seq(Frames), black : SUBSET Nodes, cycles : SUBSET Seq(Nodes)]
  <2>1. dfs' = [dfs EXCEPT !.black = @ \cup {n}, !.stack = SubSeq(dfs.stack, 1, L - 1)]
    BY DEF DfsLeave, Last, Front, At
  <2>2. dfs.stack \in Seq(Frames)
    BY <1>2 DEF DfsTypes
  <2>3. SubSeq(dfs.stack, 1, L - 1) \in Seq(Frames)
    BY <1>2, <2>2
  <2> HIDE DEF n, L
  <2>4. QED
    BY <1>2, <2>1, <2>3 DEF DfsTypes
<1>4. /\ Len(dfs'.stack) = L - 1 /\ DOMAIN dfs'.stack = 1..(L - 1)
      /\ \A i \in 1..(L - 1) : dfs'.stack[i] = dfs.stack[i] /\ At(i)' = At(i)
  <2>1. dfs.stack \in Seq(Frames) /\ dfs'.stack = SubSeq(dfs.stack, 1, L - 1)
    BY <1>2, <1>3 DEF DfsTypes
  <2>2. /\ Len(dfs'.stack) = L - 1 /\ DOMAIN dfs'.stack = 1..(L - 1)
        /\ \A i \in 1..(L - 1) : dfs'.stack[i] = dfs.stack[i]
    BY <1>2, <2>1
  <2>3. QED
    BY <2>2 DEF At
<1>5. DOMAIN dfs.stack = 1..L /\ dfs.stack[L].todo = {}
  BY <1>2 DEF DfsTypes, DfsLeave, Last
<1>6. Gray \subseteq Gray' \cup {n}
  BY <1>2, <1>3, <1>4, <1>5 DEF Gray, At
<1>7. \A x, y : Closed(x, y)' = Closed(x, y)
  BY <1>3 DEF Closed
<1> HIDE DEF n, L
<1>8. \A q \in adj[n] : q \in dfs.black \/ (q \in Gray /\ Closed(n, q))
  BY <1>2, <1>5 DEF DfsSound, DfsEdges, n
<1>9. DfsTypes'
  BY <1>1, <1>3 DEF DfsTypes
<1>10. DfsPath'
  <2>1. /\ \A i \in 1..L : At(i) \notin dfs.black /\ dfs.stack[i].todo \subseteq adj[At(i)]
        /\ \A i, j \in 1..L : At(i) = At(j) => i = j
        /\ \A i \in 1..L : i < L => At(i+1) \in adj[At(i)]
    BY <1>5 DEF DfsSound, DfsPath, L
  <2>2. \A i \in 1..(L-1) : At(i) # n
    BY <1>2, <2>1 DEF n
  <2>3. \A i \in 1..(L-1) : At(i)' \notin dfs'.black /\ dfs'.stack[i].todo \subseteq adj[At(i)']
    BY <1>2, <1>3, <1>4, <2>1, <2>2
  <2>4. \A i, j \in 1..(L-1) : At(i)' = At(j)' => i = j
    BY <1>2, <1>4, <2>1
  <2>5. \A i \in 1..(L-1) : i < L - 1 => At(i+1)' \in adj[At(i)']
    BY <1>2, <1>4, <2>1
  <2>6. QED
    BY <1>1, <1>4, <2>3, <2>4, <2>5 DEF DfsPath
<1>11. DfsEdges'
  <2>1. ASSUME NEW x \in dfs'.black, NEW y \in adj[x] PROVE y \in dfs'.black \/ (y \in Gray' /\ Closed(x, y)')
    <3>1. CASE x \in dfs.black
      BY <1>3, <1>6, <1>7, <3>1 DEF DfsSound, DfsEdges
    <3>2. CASE x = n
      BY <1>3, <1>6, <1>7, <1>8, <3>2
    <3>3. QED
      BY <1>3, <3>1, <3>2
  <2>2. ASSUME NEW i \in 1..(L-1), NEW y \in adj[At(i)'] \ dfs'.stack[i].todo
        PROVE  \/ y \in dfs'.black
               \/ i < L - 1 /\ y = At(i+1)'
               \/ y \in Gray' /\ Closed(At(i), y)'
    <3>1. At(i)' = At(i) /\ dfs'.stack[i] = dfs.stack[i] /\ i \in 1..L
      BY <1>2, <1>4
    <3>2. y \in dfs.black \/ (i < L /\ y = At(i+1)) \/ (y \in Gray /\ Closed(At(i), y))
      BY <1>5, <3>1 DEF DfsSound, DfsEdges, L
    <3>3. CASE y = At(i+1)
      <4>1. CASE i = L - 1
        BY <1>2, <1>3, <3>3, <4>1 DEF n
      <4>2. CASE i < L - 1
        BY <1>2, <1>4, <3>3, <4>2
      <4>3. QED
        BY <1>2, <4>1, <4>2
    <3>4. CASE y \in Gray /\ Closed(At(i), y)
      BY <1>3, <1>6, <1>7, <3>1, <3>4
    <3>5. QED
      BY <1>3, <3>2, <3>3, <3>4
  <2>3. QED
    BY <1>1, <1>4, <2>1, <2>2 DEF DfsEdges
<1>12. DfsReported'
  <2>1. SUFFICES ASSUME NEW x \in dfs'.black, OnCycle(x), Group(x) \subseteq dfs'.black
                 PROVE  \E c \in dfs.cycles : Range(c) \subseteq Group(x)
    BY <1>1, <1>3 DEF DfsReported
  <2>2. x \in Nodes /\ x \in Group(x)
    BY <1>1, <1>3, <2>1 DEF Group, OnCycle
  <2>3. CASE n \notin Group(x)
    <3>1. x \in dfs.black /\ Group(x) \subseteq dfs.black
      BY <1>3, <2>1, <2>2, <2>3
    <3>2. QED
      BY <2>1, <3>1 DEF DfsSound, DfsReported
  <2>4. CASE n \in Group(x)
    <3>1. Reaches(x, n) /\ Reaches(n, x) /\ n \in Nodes
      BY <2>4 DEF Group
    <3>2. OnCycle(n)
      BY <2>2, <3>1, ReachTrans DEF OnCycle
    <3>3. PICK p \in Group(n) : n \in adj[p]
      BY <3>1, <3>2, Predecessor
    <3>4. p \in Nodes /\ Reaches(n, p) /\ Reaches(p, n)
      BY <3>3 DEF Group
    <3>5. p \in Group(x)
      BY <2>2, <3>1, <3>4, ReachTrans DEF Group
    <3>6. n \notin dfs.black
      BY <1>2, <1>5 DEF DfsSound, DfsPath, n
    <3>7. Closed(p, n)
      <4>1. CASE p \in dfs.black
        BY <3>3, <3>6, <4>1 DEF DfsSound, DfsEdges
      <4>2. CASE p = n
        BY <1>8, <3>3, <3>6, <4>2
      <4>3. QED
        BY <1>3, <2>1, <3>5, <4>1, <4>2
    <3>8. PICK c \in dfs.cycles : n \in Range(c)
      BY <3>7 DEF Closed
    <3>9. c \in Seq(Nodes) /\ Cycle(c)
      BY <1>2 DEF DfsSound, DfsTypes
    <3>10. \A m \in Range(c) : m \in Nodes /\ Reaches(n, m) /\ Reaches(m, n)
      <4>1. \A m \in Range(c) : m \in Nodes
        BY <3>9 DEF Range
      <4>2. \A m \in Range(c) : Reaches(n, m) /\ Reaches(m, n)
        BY <3>8, <3>9, CycleReaches DEF Cycle
      <4>3. QED
        BY <4>1, <4>2
    <3>11. \A m \in Range(c) : Reaches(x, m) /\ Reaches(m, x)
      BY <2>2, <3>1, <3>10, ReachTrans
    <3>12. Range(c) \subseteq Group(x)
      BY <3>10, <3>11 DEF Group
    <3>13. QED
      BY <3>12
  <2>5. QED
    BY <2>3, <2>4
<1>13. QED
  BY <1>1, <1>3, <1>9, <1>10, <1>11, <1>12 DEF DfsSound

\* The path that the edge to t closes.
LEMMA BackEdgePath ==
    ASSUME Ranked, DfsTypes, DfsPath, dfs.stack # <<>>, NEW t \in Gray, t \in adj[At(Len(dfs.stack))]
    PROVE  LET q == BackEdge(t) IN
           /\ q \in Seq(Nodes) /\ q # <<>> /\ IsInjective(q) /\ Follows(q) /\ q[1] \in adj[q[Len(q)]]
           /\ t \in Range(q) /\ At(Len(dfs.stack)) \in Range(q)
<1> DEFINE L == Len(dfs.stack)
           k == CHOOSE i \in DOMAIN dfs.stack : dfs.stack[i].node = t
           q == BackEdge(t)
<1>1. dfs.stack \in Seq(Frames) /\ L \in Nat \ {0} /\ DOMAIN dfs.stack = 1..L
  BY DEF DfsTypes
<1>2. k \in 1..L /\ At(k) = t
  <2>1. \E i \in DOMAIN dfs.stack : dfs.stack[i].node = t
    BY DEF Gray
  <2>2. QED
    BY <1>1, <2>1 DEF At
<1>3. q = [i \in 1..(L - k + 1) |-> At(k + i - 1)]
  BY DEF BackEdge, At
<1>4. \A i \in 1..L : At(i) \in Nodes
  <2>1. \A i \in 1..L : dfs.stack[i] \in Frames
    BY <1>1
  <2>2. QED
    BY <2>1 DEF At, Frames
<1>5. /\ \A i, j \in 1..L : At(i) = At(j) => i = j
      /\ \A i \in 1..L : i < L => At(i+1) \in adj[At(i)]
  BY <1>1 DEF DfsPath
<1>6. t \in adj[At(L)]
  OBVIOUS
<1> HIDE DEF q, k, L
<1>7. q \in Seq(Nodes) /\ Len(q) = L - k + 1
  BY <1>1, <1>2, <1>3, <1>4
<1>8. \A i \in 1..(L - k + 1) : k + i - 1 \in 1..L /\ q[i] = At(k + i - 1)
  BY <1>1, <1>2, <1>3
<1>9. q[1] = t /\ q[L - k + 1] = At(L) /\ 1 \in DOMAIN q /\ L - k + 1 \in DOMAIN q /\ q # <<>>
  <2>1. 1 \in 1..(L - k + 1) /\ L - k + 1 \in 1..(L - k + 1) /\ k + 1 - 1 = k /\ k + (L - k + 1) - 1 = L
    BY <1>1, <1>2
  <2>2. QED
    BY <1>2, <1>7, <1>8, <2>1
<1>10. IsInjective(q)
  BY <1>1, <1>2, <1>5, <1>7, <1>8 DEF IsInjective
<1>11. Follows(q)
  <2>1. SUFFICES ASSUME NEW i \in 1..(L - k) PROVE q[i+1] \in adj[q[i]]
    BY <1>1, <1>2, <1>7 DEF Follows
  <2>2. i \in 1..(L-k+1) /\ i + 1 \in 1..(L-k+1) /\ k + (i + 1) - 1 = (k + i - 1) + 1 /\ k + i - 1 < L /\ k + i - 1 \in 1..L
    BY <1>1, <1>2
  <2>3. QED
    BY <1>5, <1>8, <2>2
<1>12. t \in Range(q) /\ At(L) \in Range(q)
  BY <1>9 DEF Range
<1>13. QED
  BY <1>6, <1>7, <1>9, <1>10, <1>11, <1>12 DEF q, L

\* A link is looked at: to a finished node, back onto the path, or onward.
LEMMA DfsEdgeSound ==
    ASSUME Ranked, DfsSound, DfsEdge
    PROVE  DfsSound'
<1>a. PICK L : L = Len(dfs.stack)
  OBVIOUS
<1>b. PICK f : f = At(L)
  OBVIOUS
<1>c. PICK todo : todo = dfs.stack[L].todo
  OBVIOUS
<1>d. PICK t : t = Earliest(todo)
  OBVIOUS
<1>e. PICK st : st = [dfs.stack EXCEPT ![L].todo = @ \ {t}]
  OBVIOUS
<1> DEFINE seen == [dfs EXCEPT !.stack = st]
<1>1. /\ Nodes' = Nodes /\ Frames' = Frames /\ adj' = adj
      /\ \A x : OnCycle(x)' = OnCycle(x) /\ Group(x)' = Group(x) /\ Cycle(x)' = Cycle(x)
  BY SameGraph DEF DfsEdge
<1>2. /\ DfsTypes /\ DfsPath /\ DfsEdges /\ DfsReported /\ \A c \in dfs.cycles : Cycle(c)
      /\ dfs.phase = "run" /\ dfs.stack # <<>> /\ todo # {}
  BY <1>a, <1>c DEF DfsSound, DfsEdge, Last
<1>3. /\ dfs.stack \in Seq(Frames) /\ L \in Nat \ {0} /\ DOMAIN dfs.stack = 1..L
      /\ dfs.black \subseteq Nodes /\ dfs.cycles \subseteq Seq(Nodes)
  BY <1>2, <1>a DEF DfsTypes
<1>4. f \in Nodes /\ todo \subseteq adj[f] /\ adj[f] \subseteq Nodes
  <2>1. dfs.stack[L] \in Frames
    BY <1>3
  <2>2. f \in Nodes
    BY <1>b, <2>1 DEF Frames, At
  <2>3. QED
    BY <1>2, <1>3, <1>b, <1>c, <2>2 DEF DfsPath, Ranked
<1>5. t \in todo /\ t \in adj[f] /\ t \in Nodes
  <2>1. todo \in SUBSET Range(Lexical)
    BY <1>4 DEF Ranked
  <2>2. t \in todo
    BY <1>2, <2>1, <1>d, EarliestIn
  <2>3. QED
    BY <1>4, <2>2
<1>6. dfs' = IF t \in dfs.black THEN seen
             ELSE IF t \in Gray THEN [seen EXCEPT !.cycles = @ \cup {Canonical(BackEdge(t))}]
             ELSE [seen EXCEPT !.stack = Append(@, Frame(t))]
  <2>1. seen = [dfs EXCEPT !.stack[Len(dfs.stack)].todo = @ \ {t}]
    BY <1>2, <1>a, <1>e DEF DfsTypes
  <2>2. Last(dfs.stack).todo = todo
    BY <1>a, <1>c DEF Last
  <2> HIDE DEF seen
  <2>3. QED
    BY <2>1, <2>2, <1>d DEF DfsEdge
<1>7. /\ st \in Seq(Frames) /\ Len(st) = L
      /\ \A i \in 1..L : st[i].node = At(i)
      /\ \A i \in 1..(L-1) : st[i].todo = dfs.stack[i].todo
      /\ st[L].todo = todo \ {t}
  <2>1. dfs.stack[L] \in Frames
    BY <1>3
  <2>2. [dfs.stack[L] EXCEPT !.todo = @ \ {t}] \in Frames
    BY <2>1 DEF Frames
  <2>3. st = [dfs.stack EXCEPT ![L] = [dfs.stack[L] EXCEPT !.todo = @ \ {t}]]
    BY <1>e
  <2>4. st \in Seq(Frames) /\ Len(st) = L
    BY <1>3, <1>a, <2>2, <2>3
  <2>5. \A i \in 1..L : i # L => st[i] = dfs.stack[i]
    BY <1>3, <2>3
  <2>6. st[L] = [dfs.stack[L] EXCEPT !.todo = @ \ {t}]
    BY <1>3, <2>3
  <2>7. st[L].node = dfs.stack[L].node /\ st[L].todo = todo \ {t}
    BY <2>1, <2>6, <1>c DEF Frames
  <2>8. QED
    BY <1>3, <2>4, <2>5, <2>7 DEF At
<1>8. /\ \A i \in 1..L : At(i) \notin dfs.black /\ dfs.stack[i].todo \subseteq adj[At(i)]
      /\ \A i, j \in 1..L : At(i) = At(j) => i = j
      /\ \A i \in 1..L : i < L => At(i+1) \in adj[At(i)]
  BY <1>2, <1>3, <1>a DEF DfsPath
<1>9. \A i \in 1..L : \A q \in adj[At(i)] \ dfs.stack[i].todo :
          \/ q \in dfs.black
          \/ i < L /\ q = At(i+1)
          \/ q \in Gray /\ Closed(At(i), q)
  BY <1>2, <1>3, <1>a DEF DfsEdges
<1>10. Gray = {At(i) : i \in 1..L}
  BY <1>3 DEF Gray, At
\* The first two cases: the stack holds the same nodes, the edge is looked at.
<1>11. ASSUME dfs' \in [phase : {"run", "done"}, stack : Seq(Frames), black : SUBSET Nodes, cycles : SUBSET Seq(Nodes)],
              dfs'.phase = "run", dfs'.stack = st, dfs'.black = dfs.black, dfs.cycles \subseteq dfs'.cycles,
              \A c \in dfs'.cycles : Cycle(c),
              t \in dfs.black \/ (t \in Gray /\ Closed(f, t)')
       PROVE  DfsSound'
  <2>1. DfsTypes'
    BY <1>1, <1>11 DEF DfsTypes
  <2>2. Len(dfs'.stack) = L /\ DOMAIN dfs'.stack = 1..L /\ \A i \in 1..L : At(i)' = At(i)
    BY <1>7, <1>11 DEF At
  <2>3. Gray' = Gray
    BY <1>10, <2>2 DEF Gray, At
  <2>4. \A x, y : Closed(x, y) => Closed(x, y)'
    BY <1>11 DEF Closed
  <2>5. \A i \in 1..L : dfs'.stack[i].todo \subseteq dfs.stack[i].todo
    BY <1>3, <1>7, <1>11, <1>c
  <2>6. DfsPath'
    BY <1>1, <1>8, <1>11, <2>2, <2>5 DEF DfsPath
  <2>7. ASSUME NEW i \in 1..L, NEW x, x = At(i), NEW q \in adj[x] \ dfs'.stack[i].todo
        PROVE  \/ q \in dfs.black
               \/ i < L /\ q = At(i+1)
               \/ q \in Gray /\ Closed(x, q)'
    <3>1. CASE q \notin dfs.stack[i].todo
      BY <1>9, <2>4, <2>7, <3>1
    <3>2. CASE q \in dfs.stack[i].todo
      <4>1. i = L /\ q = t
        BY <1>3, <1>7, <1>11, <3>2, <1>c
      <4>2. x = f
        BY <2>7, <4>1, <1>b
      <4>3. QED
        BY <1>11, <4>1, <4>2
    <3>3. QED
      BY <3>1, <3>2
  <2>8. \A i \in 1..L : i < L => i + 1 \in 1..L
    BY <1>3
  <2>9. \A p \in dfs'.black : \A q \in adj[p] : q \in dfs'.black \/ (q \in Gray' /\ Closed(p, q)')
    BY <1>2, <1>11, <2>3, <2>4 DEF DfsEdges
  <2>10. \A i \in 1..L : \A x : x = At(i)' => \A q \in adj[x] \ dfs'.stack[i].todo :
            \/ q \in dfs'.black
            \/ i < L /\ q = At(i+1)'
            \/ q \in Gray' /\ Closed(x, q)'
    BY <1>11, <2>2, <2>3, <2>7, <2>8
  <2>11. DfsEdges'
    BY <1>1, <2>2, <2>9, <2>10 DEF DfsEdges
  <2>12. DfsReported'
    BY <1>1, <1>2, <1>11 DEF DfsReported
  <2>13. QED
    BY <1>1, <1>11, <2>1, <2>6, <2>11, <2>12 DEF DfsSound
<1>12. CASE t \in dfs.black
  <2>1. dfs' = seen
    BY <1>6, <1>12
  <2>2. /\ dfs' \in [phase : {"run", "done"}, stack : Seq(Frames), black : SUBSET Nodes, cycles : SUBSET Seq(Nodes)]
        /\ dfs'.phase = "run" /\ dfs'.stack = st /\ dfs'.black = dfs.black /\ dfs'.cycles = dfs.cycles
    BY <1>2, <1>7, <2>1 DEF DfsTypes
  <2>3. QED
    BY <1>2, <1>11, <1>12, <2>2
<1>13. CASE t \notin dfs.black /\ t \in Gray
  <2> DEFINE c == Canonical(BackEdge(t))
  <2>1. /\ c \in Seq(Nodes) /\ Cycle(c) /\ t \in Range(c) /\ f \in Range(c)
    <3>1. t \in adj[At(Len(dfs.stack))]
      BY <1>5, <1>a, <1>b
    <3> DEFINE q == BackEdge(t)
    <3>2. /\ q \in Seq(Nodes) /\ q # <<>> /\ IsInjective(q) /\ Follows(q) /\ q[1] \in adj[q[Len(q)]]
          /\ t \in Range(q) /\ f \in Range(q)
      BY <1>2, <1>13, <3>1, BackEdgePath, <1>a, <1>b
    <3> HIDE DEF q
    <3>3. Canonical(q) \in Seq(Nodes) /\ Cycle(Canonical(q)) /\ Range(Canonical(q)) = Range(q)
      BY <3>2, CanonicalCycle
    <3>4. QED
      BY <3>2, <3>3 DEF q
  <2>2. dfs' = [seen EXCEPT !.cycles = @ \cup {c}]
    BY <1>6, <1>13
  <2> HIDE DEF c
  <2>3. /\ dfs' \in [phase : {"run", "done"}, stack : Seq(Frames), black : SUBSET Nodes, cycles : SUBSET Seq(Nodes)]
        /\ dfs'.phase = "run" /\ dfs'.stack = st /\ dfs'.black = dfs.black /\ dfs'.cycles = dfs.cycles \cup {c}
    BY <1>2, <1>7, <2>1, <2>2 DEF DfsTypes
  <2>4. Closed(f, t)'
    <3>1. \E d \in dfs'.cycles : f \in Range(d) /\ t \in Range(d)
      BY <2>1, <2>3
    <3>2. QED
      BY <3>1 DEF Closed
  <2>5. \A d \in dfs'.cycles : Cycle(d)
    BY <1>2, <2>1, <2>3
  <2>6. QED
    BY <1>11, <1>13, <2>3, <2>4, <2>5
<1>14. CASE t \notin dfs.black /\ t \notin Gray
  <2>1. dfs' = [seen EXCEPT !.stack = Append(st, Frame(t))]
    BY <1>2, <1>6, <1>14 DEF DfsTypes
  <2>2. Frame(t) \in Frames /\ Frame(t).node = t /\ Frame(t).todo = adj[t]
    BY <1>5 DEF Frame, Frames, Ranked
  <2>3. Append(st, Frame(t)) \in Seq(Frames)
    BY <1>7, <2>2
  <2>4. /\ dfs' \in [phase : {"run", "done"}, stack : Seq(Frames), black : SUBSET Nodes, cycles : SUBSET Seq(Nodes)]
        /\ dfs'.phase = "run" /\ dfs'.stack = Append(st, Frame(t)) /\ dfs'.black = dfs.black /\ dfs'.cycles = dfs.cycles
    BY <1>2, <2>1, <2>3 DEF DfsTypes
  <2>5. DfsTypes'
    BY <1>1, <2>4 DEF DfsTypes
  <2>6. /\ Len(dfs'.stack) = L + 1 /\ DOMAIN dfs'.stack = 1..(L+1)
        /\ \A i \in 1..L : dfs'.stack[i] = st[i]
        /\ dfs'.stack[L+1] = Frame(t)
    BY <1>3, <1>7, <2>2, <2>4
  <2>7. /\ \A i \in 1..L : At(i)' = At(i)
        /\ At(L+1)' = t
    BY <1>7, <2>2, <2>6 DEF At
  <2>8. Gray \subseteq Gray'
    BY <1>3, <1>10, <2>6, <2>7 DEF Gray, At
  <2>9. \A x, y : Closed(x, y)' = Closed(x, y)
    BY <2>4 DEF Closed
  <2>10. \A i \in 1..L : dfs'.stack[i].todo \subseteq dfs.stack[i].todo
    BY <1>3, <1>7, <2>6, <1>c
  <2>11. \A i \in 1..(L+1) : i \in 1..L \/ i = L + 1
    BY <1>3
  <2>12. \A i \in 1..L : At(i) # t
    BY <1>10, <1>14
  <2>13. DfsPath'
    <3>1. \A i \in 1..(L+1) : At(i)' \notin dfs'.black /\ dfs'.stack[i].todo \subseteq adj[At(i)']
      <4>1. \A i \in 1..L : At(i)' \notin dfs'.black /\ dfs'.stack[i].todo \subseteq adj[At(i)']
        <5>1. SUFFICES ASSUME NEW i \in 1..L
                       PROVE  At(i)' \notin dfs'.black /\ dfs'.stack[i].todo \subseteq adj[At(i)']
          OBVIOUS
        <5>2. At(i)' = At(i) /\ dfs'.black = dfs.black /\ dfs'.stack[i].todo \subseteq dfs.stack[i].todo
          BY <2>4, <2>7, <2>10
        <5>3. QED
          BY <1>8, <5>2
      <4>2. At(L+1)' \notin dfs'.black /\ dfs'.stack[L+1].todo \subseteq adj[At(L+1)']
        BY <1>14, <2>2, <2>4, <2>6, <2>7
      <4>3. QED
        BY <2>11, <4>1, <4>2
    <3>2. \A i, j \in 1..(L+1) : At(i)' = At(j)' => i = j
      BY <1>8, <2>7, <2>11, <2>12
    <3>3. \A i \in 1..(L+1) : i < L + 1 => At(i+1)' \in adj[At(i)']
      <4>1. SUFFICES ASSUME NEW i \in 1..L PROVE At(i+1)' \in adj[At(i)']
        BY <1>3, <2>11
      <4>2. CASE i = L
        BY <1>3, <1>5, <2>7, <4>2, <1>a, <1>b
      <4>3. CASE i < L
        <5>1. i + 1 \in 1..L
          BY <1>3, <4>3
        <5>2. QED
          BY <1>8, <2>7, <4>3, <5>1
      <4>4. QED
        BY <1>3, <4>2, <4>3
    <3>4. QED
      BY <1>1, <2>6, <3>1, <3>2, <3>3 DEF DfsPath
  <2>14. DfsEdges'
    <3>1. \A p \in dfs'.black : \A q \in adj[p] : q \in dfs'.black \/ (q \in Gray' /\ Closed(p, q)')
      BY <1>2, <2>4, <2>8, <2>9 DEF DfsEdges
    <3>2. ASSUME NEW i \in 1..(L+1), NEW q \in adj[At(i)'] \ dfs'.stack[i].todo
          PROVE  \/ q \in dfs'.black
                 \/ i < L + 1 /\ q = At(i+1)'
                 \/ q \in Gray' /\ Closed(At(i), q)'
      <4>1. i \in 1..L
        BY <2>2, <2>6, <2>7, <2>11, <3>2
      <4>2. At(i)' = At(i) /\ q \in adj[At(i)]
        BY <2>7, <3>2, <4>1
      <4>3. CASE q \notin dfs.stack[i].todo
        <5>1. q \in dfs.black \/ (i < L /\ q = At(i+1)) \/ (q \in Gray /\ Closed(At(i), q))
          BY <1>9, <4>1, <4>2, <4>3
        <5>2. ASSUME i < L, q = At(i+1) PROVE i < L + 1 /\ q = At(i+1)'
          BY <1>3, <2>7, <5>2
        <5>3. QED
          BY <2>4, <2>8, <2>9, <4>2, <5>1, <5>2
      <4>4. CASE q \in dfs.stack[i].todo
        <5>1. i = L /\ q = t
          BY <1>3, <1>7, <2>6, <3>2, <4>1, <4>4, <1>c
        <5>2. QED
          BY <1>3, <2>7, <5>1
      <4>5. QED
        BY <4>3, <4>4
    <3>3. QED
      BY <1>1, <2>6, <3>1, <3>2 DEF DfsEdges
  <2>15. DfsReported'
    BY <1>1, <1>2, <2>4 DEF DfsReported
  <2>16. \A c \in dfs'.cycles : Cycle(c)'
    BY <1>1, <1>2, <2>4
  <2>17. QED
    BY <2>4, <2>5, <2>13, <2>14, <2>15, <2>16 DEF DfsSound
<1>15. QED
  BY <1>12, <1>13, <1>14

\* At its end the search has reported what CyclesReal asks.
LEMMA DfsDone ==
    ASSUME Ranked, DfsSound
    PROVE  CyclesReal
<1>1. SUFFICES ASSUME dfs.phase = "done" PROVE CyclesReal
  BY DEF CyclesReal
<1>2. \A c \in dfs.cycles : Cycle(c)
  BY DEF DfsSound
<1>3. ASSUME NEW n \in Nodes, OnCycle(n)
      PROVE  \E c \in dfs.cycles : \A m \in Range(c) : Reaches(n, m) /\ Reaches(m, n)
  <2>1. n \in dfs.black /\ Group(n) \subseteq dfs.black
    BY <1>1 DEF DfsSound, Group
  <2>2. PICK c \in dfs.cycles : Range(c) \subseteq Group(n)
    BY <1>3, <2>1 DEF DfsSound, DfsReported
  <2>3. QED
    BY <2>2 DEF Group
<1>4. QED
  BY <1>2, <1>3 DEF CyclesReal, Cycle, Follows

(***************************************************************************)
(* CycleMembers: Tarjan's invariant.  The stack holds the nodes whose component*)
(* is open, in the order they were met; a frame's node leads to all above it on*)
(* the stack, each of those leads back to a frame's node at or below it, and the*)
(* low of a frame's node is met by one it leads to and not undercut by any link*)
(* looked at above it; what was popped is closed under links, and the members*)
(* are the popped nodes on a cycle.                                        *)
(***************************************************************************)
Sccs == [phase : {"run", "done"}, next : Nat \ {0}, index : [Nodes -> Nat], low : [Nodes -> Nat],
         stack : Seq(Nodes), frames : Seq(Frames), members : SUBSET Nodes]

Under(s, i) == s.frames[i].node
On(s)       == Range(s.stack)
\* Those whose component is complete.
Popped(s)   == {n \in Nodes : s.index[n] # 0 /\ n \notin On(s)}
Leads(x, y) == x = y \/ Reaches(x, y)
\* The link from n to q has been looked at.
Looked(s, n, q) ==
    q \in adj[n] /\ \A i \in DOMAIN s.frames : Under(s, i) = n => q \notin s.frames[i].todo
\* x is on the stack, not below the node of frame i.
NotBelow(s, x, i) == x \in On(s) /\ s.index[Under(s, i)] <= s.index[x]

SccOrder(s) ==
    /\ \A n \in Nodes : s.index[n] < s.next
    /\ \A n, m \in Nodes : s.index[n] = s.index[m] /\ s.index[n] # 0 => n = m
    /\ \A n \in On(s) : s.index[n] # 0
    /\ \A i, j \in DOMAIN s.stack : i < j => s.index[s.stack[i]] < s.index[s.stack[j]]
    /\ \A i \in DOMAIN s.frames : Under(s, i) \in On(s) /\ s.frames[i].todo \subseteq adj[Under(s, i)]
    /\ \A i, j \in DOMAIN s.frames : i < j => s.index[Under(s, i)] < s.index[Under(s, j)]
SccDown(s) == \A i \in DOMAIN s.frames : \A x \in On(s) : NotBelow(s, x, i) => Leads(Under(s, i), x)
SccUp(s)   == \A x \in On(s) : \E i \in DOMAIN s.frames : NotBelow(s, x, i) /\ Leads(x, Under(s, i))
\* l will do as the low of the node of frame i, of what is above it and below
\* the next frame's node.
Lowest(s, i, l) ==
    /\ l <= s.index[Under(s, i)]
    /\ \E y \in On(s) : s.index[y] = l /\ Leads(Under(s, i), y)
    /\ \A x \in On(s) : NotBelow(s, x, i) /\ (i < Len(s.frames) => s.index[x] < s.index[Under(s, i+1)])
          => \A q \in On(s) : Looked(s, x, q) => l <= s.index[q]
SccLow(s)  == \A i \in DOMAIN s.frames : Lowest(s, i, s.low[Under(s, i)])
SccDone(s) == \A n \in Popped(s) : adj[n] \subseteq Popped(s)
SccMembers(s) == s.members = {n \in Popped(s) : OnCycle(n)}
SccLooked(s) == \A n \in Nodes : s.index[n] # 0 => \A q \in Nodes : Looked(s, n, q) => s.index[q] # 0

\* Without what the last edge led to.
SccSoundBut(s) ==
    /\ s \in Sccs /\ SccOrder(s) /\ SccDown(s) /\ SccUp(s) /\ SccLow(s) /\ SccDone(s) /\ SccMembers(s)
\* The inductive invariant of CycleMembers.
SccSound(s) ==
    /\ SccSoundBut(s) /\ SccLooked(s)
    /\ s.phase = "done" => s.frames = <<>> /\ \A n \in Nodes : s.index[n] # 0

\* The parts of Tarjan's state.
LEMMA SccShape ==
    ASSUME Ranked, NEW s \in Sccs
    PROVE  /\ s.next \in Nat \ {0} /\ s.index \in [Nodes -> Nat] /\ s.low \in [Nodes -> Nat]
           /\ s.stack \in Seq(Nodes) /\ s.frames \in Seq(Frames) /\ s.members \subseteq Nodes
           /\ On(s) \subseteq Nodes
           /\ Len(s.frames) \in Nat /\ DOMAIN s.frames = 1..Len(s.frames)
           /\ \A i \in DOMAIN s.frames : Under(s, i) \in Nodes /\ s.frames[i].todo \subseteq Nodes
           /\ \A n \in Nodes : adj[n] \subseteq Nodes
<1>1. /\ s.next \in Nat \ {0} /\ s.index \in [Nodes -> Nat] /\ s.low \in [Nodes -> Nat]
      /\ s.stack \in Seq(Nodes) /\ s.frames \in Seq(Frames) /\ s.members \subseteq Nodes
  BY DEF Sccs
<1>2. On(s) \subseteq Nodes
  BY <1>1 DEF On, Range
<1>3. Len(s.frames) \in Nat /\ DOMAIN s.frames = 1..Len(s.frames)
  BY <1>1
<1>4. \A i \in DOMAIN s.frames : s.frames[i] \in Frames
  BY <1>1
<1>5. \A i \in DOMAIN s.frames : Under(s, i) \in Nodes /\ s.frames[i].todo \subseteq Nodes
  BY <1>4 DEF Under, Frames
<1>6. QED
  BY <1>1, <1>2, <1>3, <1>5 DEF Ranked

\* What a sequence holds after one more element.
LEMMA RangeAppend ==
    ASSUME NEW W, NEW t \in Seq(W), NEW v
    PROVE  Range(Append(t, v)) = Range(t) \cup {v}
<1>1. /\ Len(t) \in Nat /\ DOMAIN t = 1..Len(t) /\ DOMAIN Append(t, v) = 1..(Len(t) + 1)
      /\ \A i \in 1..Len(t) : Append(t, v)[i] = t[i]
      /\ Append(t, v)[Len(t) + 1] = v
  OBVIOUS
<1>2. \A i \in 1..(Len(t) + 1) : i \in 1..Len(t) \/ i = Len(t) + 1
  BY <1>1
<1>3. \A i \in 1..Len(t) : i \in 1..(Len(t) + 1)
  BY <1>1
<1>4. Len(t) + 1 \in 1..(Len(t) + 1)
  BY <1>1
<1>5. QED
  BY <1>1, <1>2, <1>3, <1>4 DEF Range

\* Leads is transitive.
LEMMA LeadsTrans ==
    ASSUME Ranked, NEW a \in Nodes, NEW b \in Nodes, NEW c \in Nodes, Leads(a, b), Leads(b, c)
    PROVE  Leads(a, c)
BY ReachTrans DEF Leads

\* CycleMembers begins sound.
LEMMA SccStarts ==
    ASSUME Ranked
    PROVE  SccSound(SccStart)
<1> DEFINE s == SccStart
<1>1. s \in Sccs /\ s.phase = "run" /\ s.stack = <<>> /\ s.frames = <<>> /\ s.members = {} /\ s.next = 1 /\ s.index = [n \in Nodes |-> 0]
  BY DEF SccStart, Sccs
<1> HIDE DEF s
<1>2. On(s) = {} /\ DOMAIN s.frames = {} /\ DOMAIN s.stack = {} /\ \A n \in Nodes : s.index[n] = 0
  BY <1>1 DEF On, Range
<1>3. Popped(s) = {}
  BY <1>2 DEF Popped
<1>4. SccOrder(s) /\ SccDown(s) /\ SccUp(s) /\ SccLow(s) /\ SccDone(s) /\ SccLooked(s)
  BY <1>1, <1>2, <1>3 DEF SccOrder, SccDown, SccUp, SccLow, SccDone, SccLooked
<1>5. SccMembers(s)
  BY <1>1, <1>3 DEF SccMembers
<1>6. SccSound(s)
  BY <1>1, <1>4, <1>5 DEF SccSound, SccSoundBut
<1>7. QED
  BY <1>6 DEF s

\* visit(v): the hypothesis on v is what its caller, if any, knows.
LEMMA VisitSound ==
    ASSUME Ranked, NEW s, SccSoundBut(s), s.phase = "run", NEW v \in Nodes, s.index[v] = 0,
           s.frames # <<>> => v \in adj[Under(s, Len(s.frames))],
           \A n \in Nodes : s.index[n] # 0 => \A q \in Nodes : Looked(s, n, q) => s.index[q] # 0 \/ q = v
    PROVE  SccSound(Visit(s, v))
<1>a. PICK L : L = Len(s.frames)
  OBVIOUS
<1>b. PICK z : z = Visit(s, v)
  OBVIOUS
<1>1. s \in Sccs /\ SccOrder(s) /\ SccDown(s) /\ SccUp(s) /\ SccLow(s) /\ SccDone(s) /\ SccMembers(s)
  BY DEF SccSoundBut
<1>2. /\ s.next \in Nat \ {0} /\ s.index \in [Nodes -> Nat] /\ s.low \in [Nodes -> Nat]
      /\ s.stack \in Seq(Nodes) /\ s.frames \in Seq(Frames) /\ s.members \subseteq Nodes
      /\ On(s) \subseteq Nodes
      /\ L \in Nat /\ DOMAIN s.frames = 1..L
      /\ \A i \in DOMAIN s.frames : Under(s, i) \in Nodes /\ s.frames[i].todo \subseteq Nodes
      /\ \A n \in Nodes : adj[n] \subseteq Nodes
  BY <1>1, <1>a, SccShape
<1>3. Frame(v) \in Frames /\ Frame(v).node = v /\ Frame(v).todo = adj[v]
  BY <1>2 DEF Frame, Frames
<1>4. /\ Append(s.stack, v) \in Seq(Nodes) /\ Append(s.frames, Frame(v)) \in Seq(Frames)
      /\ [s.index EXCEPT ![v] = s.next] \in [Nodes -> Nat] /\ [s.low EXCEPT ![v] = s.next] \in [Nodes -> Nat]
  BY <1>2, <1>3
<1>5. z = [s EXCEPT !.index = [s.index EXCEPT ![v] = s.next], !.low = [s.low EXCEPT ![v] = s.next],
                    !.next = s.next + 1, !.stack = Append(s.stack, v), !.frames = Append(s.frames, Frame(v))]
  BY <1>1, <1>b DEF Visit, Sccs
<1>6. /\ z \in Sccs /\ z.phase = "run" /\ z.next = s.next + 1
      /\ z.index = [s.index EXCEPT ![v] = s.next] /\ z.low = [s.low EXCEPT ![v] = s.next]
      /\ z.stack = Append(s.stack, v) /\ z.frames = Append(s.frames, Frame(v)) /\ z.members = s.members
  <2>1. PICK nx, ind, lo, st, fr : /\ nx = s.next + 1 /\ ind = [s.index EXCEPT ![v] = s.next] /\ lo = [s.low EXCEPT ![v] = s.next]
                                   /\ st = Append(s.stack, v) /\ fr = Append(s.frames, Frame(v))
    OBVIOUS
  <2>2. nx \in Nat \ {0} /\ ind \in [Nodes -> Nat] /\ lo \in [Nodes -> Nat] /\ st \in Seq(Nodes) /\ fr \in Seq(Frames)
    BY <1>2, <1>4, <2>1
  <2>3. z = [s EXCEPT !.index = ind, !.low = lo, !.next = nx, !.stack = st, !.frames = fr]
    BY <1>5, <2>1
  <2>4. /\ z \in Sccs /\ z.phase = s.phase /\ z.next = nx /\ z.index = ind /\ z.low = lo
        /\ z.stack = st /\ z.frames = fr /\ z.members = s.members
    BY <1>1, <2>2, <2>3 DEF Sccs
  <2>5. QED
    BY <2>1, <2>4
<1>7. /\ \A n \in Nodes : z.index[n] = IF n = v THEN s.next ELSE s.index[n]
      /\ \A n \in Nodes : z.low[n] = IF n = v THEN s.next ELSE s.low[n]
  BY <1>2, <1>6
<1>8. On(z) = On(s) \cup {v}
  BY <1>2, <1>6, RangeAppend DEF On
<1>9. v \notin On(s)
  BY <1>1 DEF SccOrder
<1>10. /\ Len(z.frames) = L + 1 /\ DOMAIN z.frames = 1..(L+1)
       /\ \A i \in 1..L : z.frames[i] = s.frames[i] /\ Under(z, i) = Under(s, i) /\ Under(s, i) \in On(s) /\ Under(s, i) # v
       /\ z.frames[L+1] = Frame(v) /\ Under(z, L+1) = v
  <2>1. /\ Len(z.frames) = L + 1 /\ DOMAIN z.frames = 1..(L+1)
        /\ \A i \in 1..L : z.frames[i] = s.frames[i]
        /\ z.frames[L+1] = Frame(v)
    BY <1>2, <1>3, <1>6, <1>a
  <2>2. \A i \in 1..L : Under(s, i) \in On(s)
    BY <1>1, <1>2 DEF SccOrder
  <2>3. QED
    BY <1>3, <1>9, <2>1, <2>2 DEF Under
<1>11. \A i \in 1..(L+1) : i \in 1..L \/ i = L + 1
  BY <1>2
<1>12. \A n \in Nodes : s.index[n] < s.next
  BY <1>1 DEF SccOrder
<1>13. \A x \in On(s) : x \in Nodes /\ x # v /\ z.index[x] = s.index[x] /\ s.index[x] # 0 /\ s.index[x] \in Nat
  BY <1>1, <1>2, <1>7, <1>9 DEF SccOrder
<1>14. z.index[v] = s.next /\ z.low[v] = s.next /\ s.next \in Nat /\ s.next # 0
  BY <1>2, <1>7
<1>15. \A x \in On(s), i \in 1..L : NotBelow(z, x, i) <=> NotBelow(s, x, i)
  BY <1>8, <1>10, <1>13 DEF NotBelow
<1>16. \A x \in On(z) : NotBelow(z, x, L+1) => x = v
  BY <1>2, <1>8, <1>10, <1>12, <1>13, <1>14 DEF NotBelow
<1>17. \A n, q : n # v /\ Looked(z, n, q) => Looked(s, n, q)
  <2>1. \A i \in 1..L : i \in 1..(L+1)
    BY <1>2
  <2>2. QED
    BY <1>2, <1>10, <2>1 DEF Looked
<1>18. \A q : ~Looked(z, v, q)
  <2>1. L + 1 \in DOMAIN z.frames
    BY <1>2, <1>10
  <2>2. QED
    BY <1>3, <1>10, <2>1 DEF Looked
<1>19. SccOrder(z)
  <2>1. \A n \in Nodes : z.index[n] < z.next
    BY <1>2, <1>6, <1>7, <1>12
  <2>2. \A n, m \in Nodes : z.index[n] = z.index[m] /\ z.index[n] # 0 => n = m
    <3>1. \A n, m \in Nodes : s.index[n] = s.index[m] /\ s.index[n] # 0 => n = m
      BY <1>1 DEF SccOrder
    <3>2. \A n \in Nodes : s.index[n] \in Nat /\ s.index[n] < s.next
      BY <1>2, <1>12
    <3>3. \A n \in Nodes : z.index[n] = s.next => n = v
      BY <1>2, <1>7, <3>2
    <3>4. QED
      BY <1>7, <1>14, <3>1, <3>3
  <2>3. \A n \in On(z) : z.index[n] # 0
    BY <1>8, <1>13, <1>14
  <2>4. \A i, j \in DOMAIN z.stack : i < j => z.index[z.stack[i]] < z.index[z.stack[j]]
    <3> DEFINE M == Len(s.stack)
    <3>1. /\ M \in Nat /\ DOMAIN s.stack = 1..M /\ DOMAIN z.stack = 1..(M+1)
          /\ \A i \in 1..M : z.stack[i] = s.stack[i] /\ s.stack[i] \in On(s)
          /\ z.stack[M+1] = v
      <4>1. M \in Nat /\ DOMAIN s.stack = 1..M
        BY <1>2
      <4>2. DOMAIN z.stack = 1..(M+1) /\ z.stack[M+1] = v /\ \A i \in 1..M : z.stack[i] = s.stack[i]
        BY <1>2, <1>6
      <4>3. \A i \in 1..M : s.stack[i] \in On(s)
        BY <4>1 DEF On, Range
      <4>4. QED
        BY <4>1, <4>2, <4>3
    <3> HIDE DEF M
    <3>2. \A i, j \in 1..M : i < j => s.index[s.stack[i]] < s.index[s.stack[j]]
      BY <1>1, <3>1 DEF SccOrder
    <3>3. SUFFICES ASSUME NEW i \in 1..(M+1), NEW j \in 1..(M+1), i < j
                   PROVE  z.index[z.stack[i]] < z.index[z.stack[j]]
      BY <3>1
    <3>4. i \in 1..M
      BY <3>1, <3>3
    <3>5. CASE j \in 1..M
      <4>1. s.stack[i] \in On(s) /\ s.stack[j] \in On(s) /\ z.stack[i] = s.stack[i] /\ z.stack[j] = s.stack[j]
        BY <3>1, <3>4, <3>5
      <4>2. s.index[s.stack[i]] < s.index[s.stack[j]]
        BY <3>2, <3>3, <3>4, <3>5
      <4>3. QED
        BY <1>13, <4>1, <4>2
    <3>6. CASE j = M + 1
      BY <1>12, <1>13, <1>14, <3>1, <3>4, <3>6
    <3>7. QED
      BY <3>1, <3>5, <3>6
  <2>5. \A i \in DOMAIN z.frames : Under(z, i) \in On(z) /\ z.frames[i].todo \subseteq adj[Under(z, i)]
    <3>1. \A i \in 1..L : s.frames[i].todo \subseteq adj[Under(s, i)]
      BY <1>1, <1>2 DEF SccOrder
    <3>2. QED
      BY <1>3, <1>8, <1>10, <1>11, <3>1
  <2>6. \A i, j \in DOMAIN z.frames : i < j => z.index[Under(z, i)] < z.index[Under(z, j)]
    <3>1. \A i, j \in 1..L : i < j => s.index[Under(s, i)] < s.index[Under(s, j)]
      BY <1>1, <1>2 DEF SccOrder
    <3>2. SUFFICES ASSUME NEW i \in 1..(L+1), NEW j \in 1..(L+1), i < j
                   PROVE  z.index[Under(z, i)] < z.index[Under(z, j)]
      BY <1>10
    <3>3. i \in 1..L
      BY <1>2, <3>2
    <3>4. CASE j \in 1..L
      BY <1>10, <1>13, <3>1, <3>2, <3>3, <3>4
    <3>5. CASE j = L + 1
      BY <1>10, <1>12, <1>13, <1>14, <3>3, <3>5
    <3>6. QED
      BY <1>11, <3>4, <3>5
  <2>7. QED
    BY <2>1, <2>2, <2>3, <2>4, <2>5, <2>6 DEF SccOrder
<1>20. SccDown(z)
  <2>1. SUFFICES ASSUME NEW i \in 1..(L+1), NEW x \in On(z), NotBelow(z, x, i)
                 PROVE  Leads(Under(z, i), x)
    BY <1>10 DEF SccDown
  <2>2. CASE i = L + 1
    BY <1>10, <1>16, <2>1, <2>2 DEF Leads
  <2>3. CASE i \in 1..L /\ x \in On(s)
    <3>1. NotBelow(s, x, i)
      BY <1>15, <2>1, <2>3
    <3>2. QED
      BY <1>1, <1>2, <1>10, <2>3, <3>1 DEF SccDown
  <2>4. CASE i \in 1..L /\ x = v
    <3>1. L \in 1..L /\ L \in DOMAIN s.frames /\ i \in DOMAIN s.frames /\ s.frames # <<>>
      BY <1>2, <1>a, <2>4
    <3>2. s.index[Under(s, i)] <= s.index[Under(s, L)]
      <4>1. i = L \/ i < L
        BY <1>2, <2>4
      <4>2. s.index[Under(s, i)] \in Nat /\ s.index[Under(s, L)] \in Nat
        BY <1>2, <3>1
      <4>3. i < L => s.index[Under(s, i)] < s.index[Under(s, L)]
        BY <1>1, <3>1 DEF SccOrder
      <4>4. QED
        BY <4>1, <4>2, <4>3
    <3>3. NotBelow(s, Under(s, L), i)
      BY <1>10, <3>1, <3>2 DEF NotBelow
    <3>4. Leads(Under(s, i), Under(s, L))
      BY <1>1, <1>10, <3>1, <3>3 DEF SccDown
    <3>5. Leads(Under(s, L), v)
      BY <1>2, <1>a, <3>1, ReachStep DEF Leads
    <3>6. QED
      BY <1>2, <1>10, <2>4, <3>1, <3>4, <3>5, LeadsTrans
  <2>5. QED
    BY <1>8, <1>11, <2>2, <2>3, <2>4
<1>21. SccUp(z)
  <2>1. ASSUME NEW x \in On(s) PROVE \E i \in DOMAIN z.frames : NotBelow(z, x, i) /\ Leads(x, Under(z, i))
    <3>1. PICK i \in 1..L : NotBelow(s, x, i) /\ Leads(x, Under(s, i))
      BY <1>1, <1>2 DEF SccUp
    <3>2. i \in DOMAIN z.frames
      BY <1>2, <1>10
    <3>3. QED
      BY <1>10, <1>15, <3>1, <3>2
  <2>2. \E i \in DOMAIN z.frames : NotBelow(z, v, i) /\ Leads(v, Under(z, i))
    <3>1. L + 1 \in DOMAIN z.frames /\ NotBelow(z, v, L+1) /\ Leads(v, Under(z, L+1))
      BY <1>2, <1>8, <1>10, <1>14 DEF NotBelow, Leads
    <3>2. QED
      BY <3>1
  <2>3. QED
    BY <1>8, <2>1, <2>2 DEF SccUp
<1>22. SccLow(z)
  <2>1. ASSUME NEW i \in 1..L PROVE Lowest(z, i, z.low[Under(z, i)])
    <3>a. PICK l : l = s.low[Under(s, i)]
      OBVIOUS
    <3>1. Lowest(s, i, l)
      BY <1>1, <1>2, <3>a DEF SccLow
    <3>2. z.low[Under(z, i)] = l /\ l \in Nat /\ z.index[Under(z, i)] = s.index[Under(s, i)] /\ s.index[Under(s, i)] \in Nat
      BY <1>2, <1>7, <1>10, <1>13, <3>a
    <3>3. l <= s.index[Under(s, i)]
      BY <3>1 DEF Lowest
    <3>4. PICK y \in On(s) : s.index[y] = l /\ Leads(Under(s, i), y)
      BY <3>1 DEF Lowest
    <3>5. y \in On(z) /\ z.index[y] = l /\ Leads(Under(z, i), y)
      BY <1>8, <1>10, <1>13, <3>4
    <3>6. ASSUME NEW x \in On(z), NotBelow(z, x, i), i < Len(z.frames) => z.index[x] < z.index[Under(z, i+1)],
                 NEW q \in On(z), Looked(z, x, q)
          PROVE  l <= z.index[q]
      <4>1. x \in On(s) /\ (i < L => s.index[x] < s.index[Under(s, i+1)])
        <5>1. CASE i = L
          BY <1>2, <1>8, <1>10, <1>14, <3>6, <5>1
        <5>2. CASE i < L
          <6>1. i + 1 \in 1..L
            BY <1>2, <5>2
          <6>2. z.index[x] < s.index[Under(s, i+1)]
            BY <1>2, <1>10, <1>13, <3>6, <5>2, <6>1
          <6>3. s.index[Under(s, i+1)] < s.next
            BY <1>10, <1>12, <1>13, <6>1
          <6>4. x # v
            BY <1>10, <1>13, <1>14, <6>1, <6>2, <6>3
          <6>5. QED
            BY <1>8, <1>13, <6>2, <6>4
        <5>3. QED
          BY <1>2, <5>1, <5>2
      <4>2. Looked(s, x, q)
        BY <1>13, <1>17, <3>6, <4>1
      <4>3. CASE q \in On(s)
        BY <1>13, <1>15, <1>a, <3>1, <3>6, <4>1, <4>2, <4>3 DEF Lowest
      <4>4. CASE q = v
        <5>1. s.index[Under(s, i)] < s.next
          BY <1>10, <1>12, <1>13
        <5>2. QED
          BY <1>14, <3>2, <3>3, <4>4, <5>1
      <4>5. QED
        BY <1>8, <4>3, <4>4
    <3>7. QED
      BY <3>2, <3>3, <3>5, <3>6 DEF Lowest
  <2>2. Lowest(z, L+1, z.low[Under(z, L+1)])
    <3>1. z.low[Under(z, L+1)] = s.next /\ z.index[Under(z, L+1)] = s.next
      BY <1>10, <1>14
    <3>2. v \in On(z) /\ z.index[v] = s.next /\ Leads(Under(z, L+1), v)
      BY <1>8, <1>10, <1>14 DEF Leads
    <3>3. \A x \in On(z) : NotBelow(z, x, L+1) => \A q : ~Looked(z, x, q)
      BY <1>16, <1>18
    <3>4. QED
      BY <1>14, <3>1, <3>2, <3>3 DEF Lowest
  <2>3. QED
    BY <1>10, <1>11, <2>1, <2>2 DEF SccLow
<1>23. Popped(z) = Popped(s)
  BY <1>7, <1>8, <1>14 DEF Popped
<1>24. SccDone(z)
  BY <1>1, <1>23 DEF SccDone
<1>25. SccMembers(z)
  BY <1>1, <1>6, <1>23 DEF SccMembers
<1>26. SccLooked(z)
  <2>1. SUFFICES ASSUME NEW n \in Nodes, z.index[n] # 0, NEW q \in Nodes, Looked(z, n, q) PROVE z.index[q] # 0
    BY DEF SccLooked
  <2>2. n # v
    BY <1>18, <2>1
  <2>3. s.index[q] # 0 \/ q = v
    BY <1>7, <1>17, <2>1, <2>2
  <2>4. QED
    BY <1>7, <1>14, <2>3
<1>27. QED
  BY <1>6, <1>19, <1>20, <1>21, <1>22, <1>24, <1>25, <1>26, <1>b DEF SccSound, SccSoundBut

\* z is s with the edge from v, the top frame's, to w looked at.
SccSoundFor(z, s, v, w) ==
    /\ SccSoundBut(z) /\ z.phase = "run" /\ z.index = s.index /\ z.frames # <<>>
    /\ Under(z, Len(z.frames)) = v
    /\ \A n \in Nodes : z.index[n] # 0 =>
          \A q \in Nodes : Looked(z, n, q) => z.index[q] # 0 \/ q = w

\* One more edge of the top frame is looked at, and its low lowered to l.
LEMMA LookSound ==
    ASSUME Ranked, NEW s, SccSound(s), s.phase = "run", NEW L, L = Len(s.frames), s.frames # <<>>,
           NEW v, v = Under(s, L), NEW w \in s.frames[L].todo,
           NEW l \in Nat, l <= s.low[v], w \in On(s) => l <= s.index[w],
           \E y \in On(s) : s.index[y] = l /\ Leads(v, y),
           NEW z, z = [s EXCEPT !.frames = [s.frames EXCEPT ![L].todo = @ \ {w}], !.low = [s.low EXCEPT ![v] = l]]
    PROVE  SccSoundFor(z, s, v, w)
<1>1. s \in Sccs /\ SccOrder(s) /\ SccDown(s) /\ SccUp(s) /\ SccLow(s) /\ SccDone(s) /\ SccMembers(s) /\ SccLooked(s)
  BY DEF SccSound, SccSoundBut
<1>2. /\ s.index \in [Nodes -> Nat] /\ s.low \in [Nodes -> Nat]
      /\ s.stack \in Seq(Nodes) /\ s.frames \in Seq(Frames)
      /\ On(s) \subseteq Nodes
      /\ L \in Nat \ {0} /\ DOMAIN s.frames = 1..L /\ L \in 1..L
      /\ \A i \in DOMAIN s.frames : Under(s, i) \in Nodes /\ s.frames[i].todo \subseteq Nodes
      /\ \A n \in Nodes : adj[n] \subseteq Nodes
  BY <1>1, SccShape
<1>3. v \in Nodes /\ v \in On(s)
  BY <1>1, <1>2 DEF SccOrder
<1>a. PICK fr : fr = [s.frames EXCEPT ![L].todo = @ \ {w}]
  OBVIOUS
<1>b. PICK lo : lo = [s.low EXCEPT ![v] = l]
  OBVIOUS
<1>4. /\ fr \in Seq(Frames) /\ Len(fr) = L /\ DOMAIN fr = 1..L
      /\ \A i \in 1..L : fr[i].node = Under(s, i) /\ (i # L => fr[i].todo = s.frames[i].todo)
      /\ fr[L].todo = s.frames[L].todo \ {w}
  <2>1. s.frames[L] \in Frames
    BY <1>2
  <2>2. PICK top : top = [s.frames[L] EXCEPT !.todo = @ \ {w}]
    OBVIOUS
  <2>3. top \in Frames /\ top.node = s.frames[L].node /\ top.todo = s.frames[L].todo \ {w}
    BY <2>1, <2>2 DEF Frames
  <2>4. fr = [s.frames EXCEPT ![L] = top]
    BY <1>a, <2>2
  <2>5. fr \in Seq(Frames) /\ Len(fr) = L /\ DOMAIN fr = 1..L /\ fr[L] = top /\ \A i \in 1..L : i # L => fr[i] = s.frames[i]
    BY <1>2, <2>3, <2>4
  <2>6. QED
    BY <2>3, <2>5 DEF Under
<1>5. lo \in [Nodes -> Nat] /\ \A n \in Nodes : lo[n] = IF n = v THEN l ELSE s.low[n]
  BY <1>2, <1>3, <1>b
<1>6. z = [s EXCEPT !.frames = fr, !.low = lo]
  BY <1>a, <1>b
<1>7. /\ z \in Sccs /\ z.phase = "run" /\ z.next = s.next /\ z.index = s.index /\ z.low = lo
      /\ z.stack = s.stack /\ z.frames = fr /\ z.members = s.members
  BY <1>1, <1>4, <1>5, <1>6 DEF Sccs
<1>8. On(z) = On(s) /\ \A i \in 1..L : Under(z, i) = Under(s, i)
  BY <1>4, <1>7 DEF On, Under
<1>9. Popped(z) = Popped(s)
  BY <1>7, <1>8 DEF Popped
<1>10. \A i \in 1..L : fr[i].todo \subseteq s.frames[i].todo
  BY <1>4
<1>11. \A n, q : Looked(z, n, q) => Looked(s, n, q) \/ (n = v /\ q = w)
  <2>1. SUFFICES ASSUME NEW n, NEW q, Looked(z, n, q), ~(n = v /\ q = w) PROVE Looked(s, n, q)
    OBVIOUS
  <2>2. q \in adj[n] /\ \A i \in 1..L : Under(s, i) = n => q \notin fr[i].todo
    BY <1>4, <1>7, <1>8, <2>1 DEF Looked
  <2>3. \A i \in 1..L : Under(s, i) = n => q \notin s.frames[i].todo
    BY <1>4, <2>1, <2>2
  <2>4. QED
    BY <1>2, <2>2, <2>3 DEF Looked
<1>12. SccOrder(z)
  <2>1. \A i \in 1..L : z.frames[i].todo \subseteq adj[Under(z, i)]
    BY <1>1, <1>2, <1>7, <1>8, <1>10 DEF SccOrder
  <2>2. \A i \in 1..L : Under(z, i) \in On(z)
    BY <1>1, <1>2, <1>8 DEF SccOrder
  <2>3. \A i, j \in 1..L : i < j => z.index[Under(z, i)] < z.index[Under(z, j)]
    BY <1>1, <1>2, <1>7, <1>8 DEF SccOrder
  <2>4. DOMAIN z.frames = 1..L
    BY <1>4, <1>7
  <2>5. QED
    BY <1>1, <1>7, <1>8, <2>1, <2>2, <2>3, <2>4, SMTT(20) DEF SccOrder
<1>13. \A x, i : i \in 1..L => (NotBelow(z, x, i) <=> NotBelow(s, x, i))
  BY <1>7, <1>8 DEF NotBelow
<1>14. SccDown(z)
  BY <1>1, <1>2, <1>4, <1>7, <1>8, <1>13 DEF SccDown
<1>15. SccUp(z)
  BY <1>1, <1>2, <1>4, <1>7, <1>8, <1>13 DEF SccUp
<1>16. SccLow(z)
  <2>1. SUFFICES ASSUME NEW i \in 1..L PROVE Lowest(z, i, lo[Under(s, i)])
    BY <1>4, <1>7, <1>8 DEF SccLow
  <2>2. Lowest(s, i, s.low[Under(s, i)])
    BY <1>1, <1>2 DEF SccLow
  <2>3. i < L => i + 1 \in 1..L
    BY <1>2
  <2>4. Len(z.frames) = L
    BY <1>4, <1>7
  <2>5. Under(s, i) \in Nodes /\ s.low[Under(s, i)] \in Nat /\ s.index[Under(s, i)] \in Nat
    BY <1>2
  <2>6. CASE i = L
    <3>1. lo[Under(s, i)] = l /\ Under(z, i) = v /\ Under(s, i) = v
      BY <1>2, <1>3, <1>5, <1>8, <2>6
    <3>2. l <= s.index[v]
      BY <2>2, <2>5, <3>1 DEF Lowest
    <3>3. ASSUME NEW x \in On(s), NotBelow(s, x, L), NEW q \in On(s), Looked(z, x, q)
          PROVE  l <= s.index[q]
      <4>1. CASE Looked(s, x, q)
        <5>1. s.low[v] <= s.index[q]
          <6>1. L = Len(s.frames) /\ NotBelow(s, x, i)
            BY <2>6, <3>3
          <6>2. s.low[Under(s, i)] <= s.index[q]
            BY <1>2, <2>2, <2>6, <3>3, <4>1, <6>1, SMTT(30) DEF Lowest
          <6>3. QED
            BY <3>1, <6>2
        <5>2. s.low[v] \in Nat /\ s.index[q] \in Nat
          BY <1>2, <1>3
        <5>3. QED
          BY <5>1, <5>2
      <4>2. CASE q = w
        BY <3>3, <4>2
      <4>3. QED
        BY <1>11, <3>3, <4>1, <4>2
    <3>4. QED
      BY <1>2, <1>7, <1>8, <1>13, <2>6, <3>1, <3>2, <3>3, ZenonT(40) DEF Lowest
  <2>7. CASE i # L
    <3>1. i < L /\ Under(s, i) # v /\ i + 1 \in 1..L
      <4>1. i < L /\ L \in DOMAIN s.frames /\ i \in DOMAIN s.frames
        BY <1>2, <2>7
      <4>2. s.index[Under(s, i)] < s.index[v]
        BY <1>1, <4>1 DEF SccOrder
      <4>3. QED
        BY <2>3, <2>5, <4>1, <4>2
    <3>2. lo[Under(s, i)] = s.low[Under(s, i)]
      BY <1>5, <2>5, <3>1
    <3>3. ASSUME NEW x \in On(s), NotBelow(s, x, i), s.index[x] < s.index[Under(s, i+1)], NEW q \in On(s), Looked(z, x, q)
          PROVE  s.low[Under(s, i)] <= s.index[q]
      <4>1. x # v
        <5>1. s.index[Under(s, i+1)] <= s.index[v]
          <6>1. i + 1 = L \/ i + 1 < L
            BY <1>2, <3>1
          <6>2. i + 1 < L => s.index[Under(s, i+1)] < s.index[Under(s, L)]
            BY <1>1, <1>2, <3>1 DEF SccOrder
          <6>3. s.index[v] \in Nat /\ s.index[Under(s, i+1)] \in Nat
            BY <1>2, <1>3, <3>1
          <6>4. QED
            BY <6>1, <6>2, <6>3
        <5>2. s.index[x] \in Nat /\ s.index[v] \in Nat /\ s.index[Under(s, i+1)] \in Nat
          BY <1>2, <1>3, <3>1
        <5>3. QED
          BY <3>3, <5>1, <5>2
      <4>2. Looked(s, x, q)
        BY <1>11, <3>3, <4>1
      <4>3. QED
        BY <2>2, <3>3, <4>2 DEF Lowest
    <3>4. QED
      BY <1>7, <1>8, <1>13, <2>2, <2>4, <3>1, <3>2, <3>3 DEF Lowest
  <2>8. QED
    BY <2>6, <2>7
<1>17. SccDone(z) /\ SccMembers(z)
  BY <1>1, <1>7, <1>9 DEF SccDone, SccMembers
<1>18. \A n \in Nodes : z.index[n] # 0 => \A q \in Nodes : Looked(z, n, q) => z.index[q] # 0 \/ q = w
  BY <1>1, <1>7, <1>11 DEF SccLooked
<1>19. z.frames # <<>> /\ Under(z, Len(z.frames)) = v
  BY <1>2, <1>4, <1>7, <1>8
<1>20. QED
  BY <1>7, <1>12, <1>14, <1>15, <1>16, <1>17, <1>18, <1>19 DEF SccSoundBut, SccSoundFor

\* A part of a sequence.
LEMMA Piece ==
    ASSUME NEW W, NEW t \in Seq(W), NEW a \in Nat \ {0}, NEW b \in Nat, a <= b + 1, b <= Len(t)
    PROVE  /\ SubSeq(t, a, b) \in Seq(W) /\ Len(SubSeq(t, a, b)) = b - a + 1
           /\ DOMAIN SubSeq(t, a, b) = 1..(b - a + 1)
           /\ \A i \in 1..(b - a + 1) : SubSeq(t, a, b)[i] = t[a + i - 1]
<1>1. \A i \in 1..Len(t) : t[i] \in W
  OBVIOUS
<1>2. SubSeq(t, a, b) \in Seq(W)
  OBVIOUS
<1>3. Len(SubSeq(t, a, b)) = b - a + 1
  OBVIOUS
<1>4. \A i \in 1..(b - a + 1) : SubSeq(t, a, b)[i] = t[a + i - 1]
  OBVIOUS
<1>5. QED
  BY <1>2, <1>3, <1>4

\* t is cut before its k-th element into r and c.
Cut(t, m, k, c, r) ==
    /\ k \in 1..Len(t) /\ m = Len(t)
    /\ Len(c) = m - k + 1 /\ DOMAIN c = 1..(m - k + 1) /\ \A i \in 1..(m - k + 1) : c[i] = t[k + i - 1]
    /\ DOMAIN r = 1..(k - 1) /\ \A i \in 1..(k - 1) : r[i] = t[i]
Rising(t, f) == \A i, j \in DOMAIN t : i < j => f[t[i]] < f[t[j]]

\* The two parts that a cut leaves.
LEMMA Halves ==
    ASSUME NEW W, NEW t \in Seq(W), NEW k \in 1..Len(t), NEW m, m = Len(t),
           NEW c, c = SubSeq(t, k, m), NEW r, r = SubSeq(t, 1, m - Len(c))
    PROVE  c \in Seq(W) /\ r \in Seq(W) /\ Cut(t, m, k, c, r)
<1>1. m \in Nat /\ k \in Nat \ {0} /\ k <= m + 1 /\ m <= Len(t) /\ k - 1 \in Nat /\ 1 <= (k - 1) + 1 /\ k - 1 <= Len(t)
  OBVIOUS
<1>2. /\ c \in Seq(W) /\ Len(c) = m - k + 1 /\ DOMAIN c = 1..(m - k + 1)
      /\ \A i \in 1..(m - k + 1) : c[i] = t[k + i - 1]
  <2>1. /\ SubSeq(t, k, m) \in Seq(W) /\ Len(SubSeq(t, k, m)) = m - k + 1
        /\ DOMAIN SubSeq(t, k, m) = 1..(m - k + 1)
        /\ \A i \in 1..(m - k + 1) : SubSeq(t, k, m)[i] = t[k + i - 1]
    BY <1>1, Piece, SMTT(30)
  <2>2. QED
    BY <2>1
<1>3. m - Len(c) = k - 1
  BY <1>1, <1>2
<1>4. /\ SubSeq(t, 1, k - 1) \in Seq(W) /\ DOMAIN SubSeq(t, 1, k - 1) = 1..((k - 1) - 1 + 1)
      /\ \A i \in 1..((k - 1) - 1 + 1) : SubSeq(t, 1, k - 1)[i] = t[1 + i - 1]
  BY <1>1, Piece
<1>5. (k - 1) - 1 + 1 = k - 1 /\ \A i \in 1..(k - 1) : 1 + i - 1 = i
  BY <1>1
<1>6. /\ SubSeq(t, 1, k - 1) \in Seq(W) /\ DOMAIN SubSeq(t, 1, k - 1) = 1..(k - 1)
      /\ \A i \in 1..(k - 1) : SubSeq(t, 1, k - 1)[i] = t[i]
  BY <1>4, <1>5
<1>7. QED
  BY <1>2, <1>3, <1>6 DEF Cut

\* The elements from v on, by their index, and those before it.
Parts(t, f, v, c, r) ==
    /\ Range(c) = {x \in Range(t) : f[v] <= f[x]}
    /\ Range(r) = {x \in Range(t) : f[x] < f[v]}
    /\ Rising(r, f)
    /\ Len(c) > 1 <=> \E x \in Range(c) : x # v

\* A sequence cut before one of its elements.
LEMMA StackCut ==
    ASSUME NEW W, NEW t \in Seq(W), NEW f \in [W -> Nat], NEW v,
           Rising(t, f), NEW m, NEW k, t[k] = v, NEW c, NEW r, Cut(t, m, k, c, r)
    PROVE  Parts(t, f, v, c, r)
<1>1. m \in Nat /\ DOMAIN t = 1..m /\ \A i \in 1..m : t[i] \in W /\ f[t[i]] \in Nat
  BY DEF Cut
<1>b. \A i, j \in 1..m : i < j => f[t[i]] < f[t[j]]
  BY <1>1 DEF Rising
<1>2. k \in 1..m /\ t[k] = v
  BY DEF Cut
<1>3. /\ Len(c) = m - k + 1 /\ DOMAIN c = 1..(m - k + 1)
      /\ \A i \in 1..(m - k + 1) : c[i] = t[k + i - 1]
  BY DEF Cut
<1>5. DOMAIN r = 1..(k - 1) /\ \A i \in 1..(k - 1) : r[i] = t[i]
  BY DEF Cut
<1>6. \A i \in 1..m : i >= k <=> f[v] <= f[t[i]]
  <2>1. SUFFICES ASSUME NEW i \in 1..m PROVE i >= k <=> f[v] <= f[t[i]]
    OBVIOUS
  <2>2. PICK x, y : x = f[v] /\ y = f[t[i]]
    OBVIOUS
  <2>3. x \in Nat /\ y \in Nat
    BY <1>1, <1>2, <2>2
  <2>4. i < k => y < x
    BY <1>2, <1>b, <2>2
  <2>5. i > k => x < y
    BY <1>2, <1>b, <2>2
  <2>6. i = k => x = y
    BY <1>2, <2>2
  <2>7. i >= k <=> x <= y
    BY <1>1, <1>2, <2>3, <2>4, <2>5, <2>6
  <2>8. QED
    BY <2>2, <2>7
<1>7. Range(c) = {x \in Range(t) : f[v] <= f[x]}
  <2>1. ASSUME NEW x \in Range(c) PROVE x \in Range(t) /\ f[v] <= f[x]
    <3>1. PICK i \in 1..(m - k + 1) : x = t[k + i - 1]
      <4>1. \E i \in DOMAIN c : x = c[i]
        BY DEF Range
      <4>2. QED
        BY <1>3, <4>1
    <3>2. k + i - 1 \in 1..m /\ k + i - 1 >= k
      BY <1>1, <1>2
    <3>3. QED
      BY <1>1, <1>6, <3>1, <3>2 DEF Range
  <2>2. ASSUME NEW x \in Range(t), f[v] <= f[x] PROVE x \in Range(c)
    <3>1. PICK i \in 1..m : x = t[i]
      BY <1>1 DEF Range
    <3>2. i >= k
      BY <1>6, <2>2, <3>1
    <3>3. i - k + 1 \in 1..(m - k + 1) /\ k + (i - k + 1) - 1 = i
      BY <1>1, <1>2, <3>2
    <3>4. c[i - k + 1] = x
      BY <1>3, <3>1, <3>3
    <3>5. QED
      BY <1>3, <3>3, <3>4 DEF Range
  <2>3. QED
    BY <2>1, <2>2
<1>8. Range(r) = {x \in Range(t) : f[x] < f[v]}
  <2>1. ASSUME NEW x \in Range(r) PROVE x \in Range(t) /\ f[x] < f[v]
    <3>1. PICK i \in 1..(k - 1) : x = t[i]
      BY <1>5 DEF Range
    <3>2. i \in 1..m /\ i < k
      BY <1>1, <1>2
    <3>3. f[t[i]] < f[t[k]]
      BY <1>2, <1>b, <3>2
    <3>4. i \in DOMAIN t
      BY <1>1, <3>2
    <3>5. QED
      BY <1>2, <3>1, <3>3, <3>4 DEF Range
  <2>2. ASSUME NEW x \in Range(t), f[x] < f[v] PROVE x \in Range(r)
    <3>1. PICK i \in 1..m : x = t[i]
      BY <1>1 DEF Range
    <3>2. f[v] \in Nat /\ f[x] \in Nat
      BY <1>1, <1>2, <3>1
    <3>3. ~(i >= k)
      <4>1. ~(f[v] <= f[x])
        BY <2>2, <3>2
      <4>2. QED
        BY <1>6, <3>1, <4>1
    <3>4. i \in 1..(k - 1)
      BY <1>1, <1>2, <3>3
    <3>5. QED
      BY <1>5, <3>1, <3>4 DEF Range
  <2>3. QED
    BY <2>1, <2>2
<1>9. Rising(r, f)
  <2>1. \A i \in 1..(k - 1) : i \in 1..m
    BY <1>1, <1>2
  <2>2. QED
    <3>1. SUFFICES ASSUME NEW i \in 1..(k-1), NEW j \in 1..(k-1), i < j PROVE f[r[i]] < f[r[j]]
      BY <1>5 DEF Rising
    <3>2. r[i] = t[i] /\ r[j] = t[j]
      BY <1>5
    <3>3. f[t[i]] < f[t[j]]
      BY <1>b, <2>1, <3>1
    <3>4. QED
      BY <3>2, <3>3
<1>10. Len(c) > 1 <=> \E x \in Range(c) : x # v
  <2>1. ASSUME Len(c) > 1 PROVE \E x \in Range(c) : x # v
    <3>1. 2 \in DOMAIN c /\ c[2] = t[k + 1] /\ k + 1 \in 1..m /\ k \in 1..m
      <4>1. 2 \in 1..(m - k + 1) /\ k + 2 - 1 = k + 1 /\ k + 1 \in 1..m
        BY <1>1, <1>2, <1>3, <2>1
      <4>2. QED
        BY <1>2, <1>3, <4>1
    <3>2. f[t[k]] < f[t[k+1]]
      BY <1>1, <1>b, <3>1
    <3>3. t[k+1] # v
      BY <1>1, <1>2, <3>1, <3>2
    <3>4. QED
      BY <3>1, <3>3 DEF Range
  <2>2. ASSUME NEW x \in Range(c), x # v PROVE Len(c) > 1
    <3>1. PICK i \in 1..(m - k + 1) : x = t[k + i - 1]
      <4>1. \E i \in DOMAIN c : x = c[i]
        BY DEF Range
      <4>2. QED
        BY <1>3, <4>1
    <3>2. i # 1
      BY <1>2, <2>2, <3>1
    <3>3. QED
      BY <1>1, <1>2, <1>3, <3>1, <3>2
  <2>3. QED
    BY <2>1, <2>2
<1>11. QED
  BY <1>7, <1>8, <1>9, <1>10 DEF Parts

\* What is left of the frames when the top one, v's, ends; u is its caller's.
LEMMA LeaveSound ==
    ASSUME Ranked, NEW s, s = scc, SccSound(s), SccLeave, NEW z, z = scc'
    PROVE  SccSound(z)
<1>a. PICK L : L = Len(s.frames)
  OBVIOUS
<1>b. PICK v : v = Under(s, L)
  OBVIOUS
<1>1. s \in Sccs /\ SccOrder(s) /\ SccDown(s) /\ SccUp(s) /\ SccLow(s) /\ SccDone(s) /\ SccMembers(s) /\ SccLooked(s)
  BY DEF SccSound, SccSoundBut
<1>2. s.phase = "run" /\ s.frames # <<>> /\ s.frames[L].todo = {}
  BY <1>a DEF SccLeave, Last
<1>3. /\ s.index \in [Nodes -> Nat] /\ s.low \in [Nodes -> Nat]
      /\ s.stack \in Seq(Nodes) /\ s.frames \in Seq(Frames) /\ s.members \subseteq Nodes
      /\ On(s) \subseteq Nodes
      /\ L \in Nat \ {0} /\ DOMAIN s.frames = 1..L /\ L \in 1..L
      /\ \A i \in DOMAIN s.frames : Under(s, i) \in Nodes /\ s.frames[i].todo \subseteq Nodes
      /\ \A n \in Nodes : adj[n] \subseteq Nodes
  BY <1>1, <1>2, <1>a, SccShape
<1>4. /\ \A i \in 1..L : Under(s, i) \in On(s) /\ s.frames[i].todo \subseteq adj[Under(s, i)]
      /\ \A i, j \in 1..L : i < j => s.index[Under(s, i)] < s.index[Under(s, j)]
      /\ \A n, m \in Nodes : s.index[n] = s.index[m] /\ s.index[n] # 0 => n = m
      /\ \A n \in On(s) : s.index[n] # 0
  BY <1>1, <1>3 DEF SccOrder
<1>5. v \in Nodes /\ v \in On(s) /\ s.index[v] \in Nat /\ s.low[v] \in Nat
  BY <1>3, <1>4, <1>b
<1>6. \A i \in 1..(L-1) : i \in 1..L /\ Under(s, i) \in Nodes /\ Under(s, i) # v /\ s.index[Under(s, i)] < s.index[v] /\ s.index[Under(s, i)] \in Nat
  <2>1. \A i \in 1..(L-1) : i \in 1..L /\ i < L
    BY <1>3
  <2>2. \A i \in 1..(L-1) : Under(s, i) \in Nodes /\ s.index[Under(s, i)] < s.index[v]
    BY <1>3, <1>4, <1>b, <2>1
  <2>3. \A i \in 1..(L-1) : s.index[Under(s, i)] \in Nat
    BY <1>3, <2>2
  <2>4. QED
    BY <1>5, <2>1, <2>2, <2>3
<1>c. PICK fr : fr = SubSeq(s.frames, 1, L - 1)
  OBVIOUS
<1>d. PICK lo : lo = Returned(v)
  OBVIOUS
<1>7. fr \in Seq(Frames) /\ Len(fr) = L - 1 /\ DOMAIN fr = 1..(L-1) /\ \A i \in 1..(L-1) : fr[i] = s.frames[i]
  <2>1. L - 1 \in Nat /\ 1 <= (L - 1) + 1 /\ L - 1 <= Len(s.frames)
    BY <1>3, <1>a
  <2>2. /\ SubSeq(s.frames, 1, L - 1) \in Seq(Frames) /\ Len(SubSeq(s.frames, 1, L - 1)) = (L - 1) - 1 + 1
        /\ \A i \in 1..((L - 1) - 1 + 1) : SubSeq(s.frames, 1, L - 1)[i] = s.frames[1 + i - 1]
    BY <1>3, <2>1, Piece
  <2>3. (L - 1) - 1 + 1 = L - 1 /\ \A i \in 1..(L-1) : 1 + i - 1 = i
    BY <1>3
  <2>4. fr \in Seq(Frames) /\ Len(fr) = L - 1 /\ \A i \in 1..(L-1) : fr[i] = s.frames[i]
    BY <1>c, <2>2, <2>3
  <2>5. QED
    BY <2>4
<1>8. Lowest(s, L, s.low[v])
  BY <1>1, <1>3, <1>b DEF SccLow
<1>9. s.low[v] <= s.index[v]
  BY <1>8, <1>b DEF Lowest
<1>10. \A n, q : q \in adj[n] /\ (\A i \in 1..(L-1) : Under(s, i) = n => q \notin s.frames[i].todo) => Looked(s, n, q)
  <2>1. \A i \in 1..L : i \in 1..(L-1) \/ i = L
    BY <1>3
  <2>2. QED
    BY <1>2, <1>3, <2>1 DEF Looked
\* The low of u, when there is one: at most its own and v's.
<1>11. /\ lo \in [Nodes -> Nat]
       /\ L = 1 => lo = s.low
       /\ L > 1 => LET u == Under(s, L - 1) IN
             /\ \A n \in Nodes : n # u => lo[n] = s.low[n]
             /\ lo[u] = IF s.low[v] < s.low[u] THEN s.low[v] ELSE s.low[u]
  <2>1. CASE L = 1
    <3>1. lo = s.low
      BY <1>a, <1>d, <2>1 DEF Returned
    <3>2. QED
      BY <1>3, <2>1, <3>1
  <2>2. CASE L > 1
    <3>a. PICK u : u = Under(s, L - 1)
      OBVIOUS
    <3>b. PICK l : l = IF s.low[v] < s.low[u] THEN s.low[v] ELSE s.low[u]
      OBVIOUS
    <3>1. L - 1 \in 1..(L-1) /\ u \in Nodes
      <4>1. L - 1 \in 1..(L-1)
        BY <1>3, <2>2
      <4>2. QED
        BY <1>6, <3>a, <4>1
    <3>2. lo = [s.low EXCEPT ![u] = IF s.low[v] < @ THEN s.low[v] ELSE @]
      <4>1. Len(scc.frames) = L /\ L # 1
        <5>1. Len(scc.frames) = L
          BY <1>a
        <5>2. L # 1
          BY <1>3, <2>2
        <5>3. QED
          BY <5>1, <5>2
      <4>2. scc.frames[L - 1].node = u
        BY <3>a DEF Under
      <4>3. QED
        BY <1>d, <4>1, <4>2 DEF Returned
    <3>3. lo = [s.low EXCEPT ![u] = l]
      BY <1>3, <3>1, <3>2, <3>b
    <3>4. l \in Nat
      BY <1>3, <1>5, <3>1, <3>b
    <3>5. lo \in [Nodes -> Nat] /\ lo[u] = l /\ \A n \in Nodes : n # u => lo[n] = s.low[n]
      BY <1>3, <3>1, <3>3, <3>4
    <3>6. QED
      BY <2>2, <3>5, <3>a, <3>b
  <2>3. QED
    BY <1>3, <2>1, <2>2
\* Both kinds of end, of a frame whose component is open (K = {}) or complete.
<1> DEFINE Ends(K, st, mem) ==
              /\ z = [s EXCEPT !.frames = fr, !.low = lo, !.stack = st, !.members = mem]
              /\ st \in Seq(Nodes) /\ mem \subseteq Nodes
              /\ Range(st) = On(s) \ K
              /\ Rising(st, s.index)
              /\ K \subseteq On(s) /\ \A x \in K : s.index[v] <= s.index[x]
              /\ \A x \in On(s) \ K : \E i \in 1..(L-1) : NotBelow(s, x, i) /\ Leads(x, Under(s, i))
              /\ K = {} \/ \A x \in On(s) \ K : s.index[x] < s.index[v]
              /\ \A i \in 1..(L-1) :
                    \/ lo[Under(s, i)] = s.low[Under(s, i)]
                    \/ i = L - 1 /\ lo[Under(s, i)] = s.low[v] /\ s.low[v] < s.index[v] /\ s.low[v] <= s.low[Under(s, i)]
              /\ K = {} => \A i \in 1..(L-1) : i = L - 1 => lo[Under(s, i)] <= s.low[v]
              /\ \A n \in K : adj[n] \subseteq Popped(s) \cup K
              /\ mem = {n \in Popped(s) \cup K : OnCycle(n)}
<1>12. ASSUME NEW K, NEW st, NEW mem, Ends(K, st, mem)
       PROVE  SccSound(z)
  <2>0. /\ z = [s EXCEPT !.frames = fr, !.low = lo, !.stack = st, !.members = mem]
        /\ st \in Seq(Nodes) /\ mem \subseteq Nodes
        /\ Range(st) = On(s) \ K
        /\ \A i, j \in DOMAIN st : i < j => s.index[st[i]] < s.index[st[j]]
        /\ K \subseteq On(s) /\ \A x \in K : s.index[v] <= s.index[x]
        /\ \A x \in On(s) \ K : \E i \in 1..(L-1) : NotBelow(s, x, i) /\ Leads(x, Under(s, i))
        /\ K = {} \/ \A x \in On(s) \ K : s.index[x] < s.index[v]
        /\ \A i \in 1..(L-1) :
              \/ lo[Under(s, i)] = s.low[Under(s, i)]
              \/ i = L - 1 /\ lo[Under(s, i)] = s.low[v] /\ s.low[v] < s.index[v] /\ s.low[v] <= s.low[Under(s, i)]
        /\ K = {} => \A i \in 1..(L-1) : i = L - 1 => lo[Under(s, i)] <= s.low[v]
        /\ \A n \in K : adj[n] \subseteq Popped(s) \cup K
        /\ mem = {n \in Popped(s) \cup K : OnCycle(n)}
    BY <1>12 DEF Ends, Rising
  <2> HIDE DEF Ends
  <2>1. /\ z \in Sccs /\ z.phase = "run" /\ z.next = s.next /\ z.index = s.index /\ z.low = lo
        /\ z.stack = st /\ z.frames = fr /\ z.members = mem
    BY <1>1, <1>2, <1>7, <1>11, <2>0, ZenonT(40) DEF Sccs
  <2>2. On(z) = On(s) \ K /\ On(z) \subseteq Nodes
    BY <1>3, <2>0, <2>1 DEF On
  <2>3. /\ \A i \in 1..(L-1) : z.frames[i] = s.frames[i] /\ Under(z, i) = Under(s, i) /\ Under(s, i) \in On(z)
        /\ DOMAIN z.frames = 1..(L-1) /\ Len(z.frames) = L - 1
    <3>1. \A i \in 1..(L-1) : z.frames[i] = s.frames[i] /\ Under(z, i) = Under(s, i)
      BY <1>7, <2>1 DEF Under
    <3>2. \A i \in 1..(L-1) : Under(s, i) \notin K
      BY <1>5, <1>6, <2>0
    <3>3. QED
      BY <1>4, <1>6, <1>7, <2>1, <2>2, <3>1, <3>2
  <2>4. \A x, i : i \in 1..(L-1) /\ x \in On(z) => (NotBelow(z, x, i) <=> NotBelow(s, x, i))
    BY <2>1, <2>2, <2>3 DEF NotBelow
  <2>5. \A n, q : Looked(z, n, q) => Looked(s, n, q)
    <3>1. SUFFICES ASSUME NEW n, NEW q, Looked(z, n, q) PROVE Looked(s, n, q)
      OBVIOUS
    <3>2. q \in adj[n] /\ \A i \in 1..(L-1) : Under(s, i) = n => q \notin s.frames[i].todo
      BY <2>3, <3>1 DEF Looked
    <3>3. QED
      BY <1>10, <3>2
  <2>6. Popped(z) = Popped(s) \cup K
    <3>1. \A n \in K : n \in Nodes /\ n \in On(s) /\ s.index[n] # 0
      BY <1>3, <1>4, <2>0
    <3>2. \A n \in Nodes : n \notin On(z) <=> (n \notin On(s) \/ n \in K)
      BY <2>2
    <3>3. QED
      BY <2>1, <3>1, <3>2 DEF Popped
  <2>7. SccOrder(z)
    <3>1. \A i \in 1..(L-1) : z.frames[i].todo \subseteq adj[Under(z, i)]
      BY <1>4, <1>6, <2>3
    <3>2. \A i, j \in 1..(L-1) : i < j => z.index[Under(z, i)] < z.index[Under(z, j)]
      BY <1>4, <1>6, <2>1, <2>3
    <3>3. \A n \in Nodes : z.index[n] < z.next
      BY <1>1, <2>1 DEF SccOrder
    <3>4. \A i, j \in DOMAIN z.stack : i < j => z.index[z.stack[i]] < z.index[z.stack[j]]
      BY <2>0, <2>1
    <3>5. QED
      BY <1>4, <2>1, <2>2, <2>3, <3>1, <3>2, <3>3, <3>4 DEF SccOrder
  <2>8. SccDown(z)
    <3>1. SUFFICES ASSUME NEW i \in 1..(L-1), NEW x \in On(z), NotBelow(z, x, i) PROVE Leads(Under(z, i), x)
      BY <2>3 DEF SccDown
    <3>2. NotBelow(s, x, i) /\ x \in On(s) /\ i \in DOMAIN s.frames
      BY <1>3, <1>6, <2>2, <2>4, <3>1
    <3>3. Leads(Under(s, i), x)
      BY <1>1, <3>2 DEF SccDown
    <3>4. QED
      BY <2>3, <3>3
  <2>9. SccUp(z)
    <3>1. SUFFICES ASSUME NEW x \in On(z) PROVE \E i \in 1..(L-1) : NotBelow(z, x, i) /\ Leads(x, Under(z, i))
      BY <2>3 DEF SccUp
    <3>2. PICK i \in 1..(L-1) : NotBelow(s, x, i) /\ Leads(x, Under(s, i))
      BY <2>0, <2>2
    <3>3. QED
      BY <2>3, <2>4, <3>2
  <2>10. SccLow(z)
    <3>1. SUFFICES ASSUME NEW i \in 1..(L-1) PROVE Lowest(z, i, lo[Under(s, i)])
      BY <2>1, <2>3 DEF SccLow
    <3>a. PICK w : w = Under(s, i)
      OBVIOUS
    <3>b. PICK l : l = lo[w]
      OBVIOUS
    <3>2. w \in Nodes /\ w \in On(z) /\ s.index[w] < s.index[v] /\ s.index[w] \in Nat /\ s.low[w] \in Nat /\ l \in Nat /\ Under(z, i) = w /\ i \in 1..L /\ i < L
      <4>1. w \in Nodes /\ s.index[w] < s.index[v] /\ s.index[w] \in Nat /\ i \in 1..L
        BY <1>6, <3>a
      <4>2. s.low[w] \in Nat /\ l \in Nat
        BY <1>3, <1>11, <3>b, <4>1
      <4>3. QED
        BY <1>3, <2>3, <3>a, <4>1, <4>2
    <3>3. Lowest(s, i, s.low[w])
      BY <1>1, <1>3, <3>2, <3>a DEF SccLow
    <3>4. s.low[w] <= s.index[w] /\ l <= s.low[w]
      <4>1. s.low[w] <= s.index[w]
        BY <3>3, <3>a DEF Lowest
      <4>2. l = s.low[w] \/ (l = s.low[v] /\ s.low[v] <= s.low[w])
        BY <2>0, <3>a, <3>b
      <4>3. QED
        BY <3>2, <4>1, <4>2
    <3>5. \E y \in On(z) : s.index[y] = l /\ Leads(w, y)
      <4>1. \A y \in On(s) : s.index[y] < s.index[v] => y \in On(z)
        <5>1. \A y \in On(s) : s.index[y] \in Nat
          BY <1>3
        <5>2. \A y \in On(s) : s.index[y] < s.index[v] => y \notin K
          BY <1>5, <2>0, <5>1
        <5>3. QED
          BY <2>2, <5>2
      <4>2. CASE l = s.low[w]
        <5>1. PICK y \in On(s) : s.index[y] = s.low[w] /\ Leads(w, y)
          BY <3>3, <3>a DEF Lowest
        <5>2. s.index[y] < s.index[v]
          BY <1>5, <3>2, <3>4, <5>1
        <5>3. QED
          BY <4>1, <4>2, <5>1, <5>2
      <4>3. CASE l # s.low[w]
        <5>1. l = s.low[v] /\ s.low[v] < s.index[v]
          BY <2>0, <3>a, <3>b, <4>3
        <5>2. PICK y \in On(s) : s.index[y] = s.low[v] /\ Leads(v, y)
          BY <1>8, <1>b DEF Lowest
        <5>3. y \in On(z) /\ y \in Nodes
          BY <1>3, <4>1, <5>1, <5>2
        <5>4. NotBelow(s, v, i)
          BY <1>5, <3>2, <3>a DEF NotBelow
        <5>5. Leads(w, v)
          BY <1>1, <1>3, <1>5, <3>2, <3>a, <5>4 DEF SccDown
        <5>6. Leads(w, y)
          BY <1>5, <3>2, <5>2, <5>3, <5>5, LeadsTrans
        <5>7. QED
          BY <5>1, <5>2, <5>3, <5>6
      <4>4. QED
        BY <4>2, <4>3
    <3>6. ASSUME NEW x \in On(z), NotBelow(z, x, i), i < L - 1 => s.index[x] < s.index[Under(s, i+1)],
                 NEW q \in On(z), Looked(z, x, q)
          PROVE  l <= s.index[q]
      <4>1. x \in On(s) /\ q \in On(s) /\ NotBelow(s, x, i) /\ Looked(s, x, q) /\ s.index[q] \in Nat /\ s.index[x] \in Nat
        BY <1>3, <2>2, <2>4, <2>5, <3>6
      <4>2. CASE s.index[x] < s.index[Under(s, i+1)]
        <5>1. s.low[w] <= s.index[q]
          BY <3>3, <4>1, <4>2 DEF Lowest
        <5>2. QED
          BY <3>2, <3>4, <4>1, <5>1
      <4>3. CASE ~(s.index[x] < s.index[Under(s, i+1)])
        <5>1. i = L - 1 /\ Under(s, i+1) = v
          BY <1>3, <1>b, <3>2, <3>6, <4>3
        <5>2. s.index[v] <= s.index[x]
          BY <1>5, <4>1, <4>3, <5>1
        <5>3. K = {}
            <6>1. x \in On(s) \ K /\ ~(s.index[x] < s.index[v])
            BY <1>5, <2>2, <4>1, <5>2
          <6>2. QED
            BY <2>0, <6>1
        <5>4. l <= s.low[v]
          BY <2>0, <3>a, <3>b, <5>1, <5>3
        <5>5. NotBelow(s, x, L)
          BY <1>b, <4>1, <5>2 DEF NotBelow
        <5>6. s.low[v] <= s.index[q]
          <6>1. Lowest(s, L, s.low[v]) /\ ~(L < Len(s.frames))
            BY <1>3, <1>8, <1>a
          <6> QED
            BY <4>1, <5>5, <6>1 DEF Lowest
        <5>7. QED
          BY <1>5, <3>2, <4>1, <5>4, <5>6
      <4>4. QED
        BY <4>2, <4>3
    <3>7. l <= s.index[w]
      BY <3>2, <3>4
    <3>8. Lowest(z, i, l)
      <4>1. \A x \in On(z) : NotBelow(z, x, i) /\ (i < Len(z.frames) => z.index[x] < z.index[Under(z, i+1)])
               => \A q \in On(z) : Looked(z, x, q) => l <= z.index[q]
        <5>1. i < L - 1 => Under(z, i+1) = Under(s, i+1)
          BY <1>3, <2>3, <3>2
        <5>2. QED
          BY <2>1, <2>3, <3>6, <5>1
      <4>2. QED
        BY <2>1, <3>2, <3>5, <3>7, <4>1 DEF Lowest
    <3>9. QED
      BY <3>8, <3>a, <3>b
  <2>11. SccDone(z)
    BY <1>1, <2>0, <2>6 DEF SccDone
  <2>12. SccMembers(z)
    BY <2>0, <2>1, <2>6 DEF SccMembers
  <2>13. SccLooked(z)
    BY <1>1, <2>1, <2>5 DEF SccLooked
  <2>14. QED
    BY <2>1, <2>7, <2>8, <2>9, <2>10, <2>11, <2>12, <2>13 DEF SccSound, SccSoundBut
<1> HIDE DEF Ends
<1>13. CASE s.low[v] # s.index[v]
  <2>1. z = [s EXCEPT !.frames = fr, !.low = lo]
    BY <1>13, <1>a, <1>b, <1>c, <1>d DEF SccLeave, Last, Front, Under
  <2>2. z = [s EXCEPT !.frames = fr, !.low = lo, !.stack = s.stack, !.members = s.members]
    BY <1>1, <2>1 DEF Sccs
  <2>3. s.low[v] < s.index[v]
    BY <1>5, <1>9, <1>13
  <2>4. PICK y \in On(s) : s.index[y] = s.low[v] /\ Leads(v, y)
    BY <1>8, <1>b DEF Lowest
  <2>5. PICK j \in 1..L : NotBelow(s, y, j) /\ Leads(y, Under(s, j))
    BY <1>1, <1>3, <2>4 DEF SccUp
  <2>6. j \in 1..(L-1) /\ L > 1 /\ Under(s, j) \in Nodes /\ s.index[Under(s, j)] \in Nat /\ s.index[Under(s, j)] < s.index[v]
    <3>1. s.index[Under(s, j)] <= s.index[y]
      BY <2>5 DEF NotBelow
    <3>2. j # L
      BY <1>5, <1>b, <2>3, <2>4, <3>1
    <3>3. j \in 1..(L-1) /\ L > 1
      BY <1>3, <3>2
    <3>4. QED
      BY <1>6, <3>3
  <2>7. \A x \in On(s) \ {} : \E i \in 1..(L-1) : NotBelow(s, x, i) /\ Leads(x, Under(s, i))
    <3>1. SUFFICES ASSUME NEW x \in On(s) PROVE \E i \in 1..(L-1) : NotBelow(s, x, i) /\ Leads(x, Under(s, i))
      OBVIOUS
    <3>2. PICK i \in 1..L : NotBelow(s, x, i) /\ Leads(x, Under(s, i))
      BY <1>1, <1>3 DEF SccUp
    <3>3. CASE i = L
      <4>1. Leads(x, v) /\ s.index[v] <= s.index[x] /\ x \in Nodes /\ s.index[x] \in Nat
        BY <1>3, <1>b, <3>2, <3>3 DEF NotBelow
      <4>2. y \in Nodes
        BY <1>3, <2>4
      <4>3. Leads(x, y)
        BY <1>5, <2>4, <4>1, <4>2, LeadsTrans
      <4>4. Leads(x, Under(s, j))
        BY <2>5, <2>6, <4>1, <4>2, <4>3, LeadsTrans
      <4>5. s.index[Under(s, j)] <= s.index[x]
        BY <1>5, <2>6, <4>1
      <4>6. QED
        BY <2>6, <4>4, <4>5 DEF NotBelow
    <3>4. CASE i # L
      BY <1>3, <3>2, <3>4
    <3>5. QED
      BY <3>3, <3>4
  <2>8. /\ \A i \in 1..(L-1) : lo[Under(s, i)] = s.low[Under(s, i)]
                    \/ (i = L - 1 /\ lo[Under(s, i)] = s.low[v] /\ s.low[v] < s.index[v] /\ s.low[v] <= s.low[Under(s, i)])
        /\ \A i \in 1..(L-1) : i = L - 1 => lo[Under(s, i)] <= s.low[v]
    <3>1. SUFFICES ASSUME NEW i \in 1..(L-1)
                   PROVE  /\ \/ lo[Under(s, i)] = s.low[Under(s, i)]
                             \/ (i = L - 1 /\ lo[Under(s, i)] = s.low[v] /\ s.low[v] < s.index[v] /\ s.low[v] <= s.low[Under(s, i)])
                          /\ i = L - 1 => lo[Under(s, i)] <= s.low[v]
      OBVIOUS
    <3>2. Under(s, i) \in Nodes /\ s.low[Under(s, i)] \in Nat
      BY <1>3, <1>6
    <3>3. CASE i = L - 1
      <4>1. lo[Under(s, i)] = IF s.low[v] < s.low[Under(s, i)] THEN s.low[v] ELSE s.low[Under(s, i)]
        BY <1>11, <2>6, <3>3
      <4>2. QED
        BY <1>5, <2>3, <3>2, <3>3, <4>1
    <3>4. CASE i # L - 1
      <4>1. Under(s, i) # Under(s, L - 1)
        <5>1. i < L - 1 /\ i \in 1..L /\ L - 1 \in 1..L
          BY <1>3, <3>4
        <5>2. s.index[Under(s, i)] < s.index[Under(s, L - 1)]
          BY <1>4, <5>1
        <5>3. s.index[Under(s, i)] \in Nat
          BY <1>6
        <5>4. QED
          BY <5>2, <5>3
      <4>2. QED
        BY <1>11, <2>6, <3>2, <3>4, <4>1
    <3>5. QED
      BY <3>3, <3>4
  <2>9. s.members = {n \in Popped(s) \cup {} : OnCycle(n)} /\ s.members \subseteq Nodes /\ s.stack \in Seq(Nodes)
    BY <1>1, <1>3 DEF SccMembers
  <2>10. Range(s.stack) = On(s) \ {}
    BY DEF On
  <2>11. \A i, j_1 \in DOMAIN s.stack : i < j_1 => s.index[s.stack[i]] < s.index[s.stack[j_1]]
    BY <1>1 DEF SccOrder
  <2>a. PICK K : K = {}
    OBVIOUS
  <2>b. PICK st, mem : st = s.stack /\ mem = s.members
    OBVIOUS
  <2>12. z = [s EXCEPT !.frames = fr, !.low = lo, !.stack = st, !.members = mem]
    BY <2>2, <2>b
  <2>13. st \in Seq(Nodes) /\ mem \subseteq Nodes /\ Range(st) = On(s) \ K
    BY <2>9, <2>10, <2>a, <2>b
  <2>14. Rising(st, s.index)
    BY <2>11, <2>b DEF Rising
  <2>15. K \subseteq On(s) /\ \A x \in K : s.index[v] <= s.index[x]
    BY <2>a
  <2>16. \A x \in On(s) \ K : \E i \in 1..(L-1) : NotBelow(s, x, i) /\ Leads(x, Under(s, i))
    BY <2>7, <2>a
  <2>17. K = {} \/ \A x \in On(s) \ K : s.index[x] < s.index[v]
    BY <2>a
  <2>18. \A n \in K : adj[n] \subseteq Popped(s) \cup K
    BY <2>a
  <2>19. mem = {n \in Popped(s) \cup K : OnCycle(n)}
    BY <2>9, <2>a, <2>b
  <2>20. \A i \in 1..(L-1) : lo[Under(s, i)] = s.low[Under(s, i)]
                    \/ (i = L - 1 /\ lo[Under(s, i)] = s.low[v] /\ s.low[v] < s.index[v] /\ s.low[v] <= s.low[Under(s, i)])
    BY <2>8
  <2>21. K = {} => \A i \in 1..(L-1) : i = L - 1 => lo[Under(s, i)] <= s.low[v]
    BY <2>8
  <2>22. QED
    <3>1. Ends(K, st, mem)
      BY <2>12, <2>13, <2>14, <2>15, <2>16, <2>17, <2>18, <2>19, <2>20, <2>21 DEF Ends
    <3>2. QED
      BY <1>12, <3>1
<1>14. CASE s.low[v] = s.index[v]
  <2>a. PICK c : c = Component(v)
    OBVIOUS
  <2>b. PICK st : st = SubSeq(s.stack, 1, Len(s.stack) - Len(c))
    OBVIOUS
  <2>c. PICK mem : mem = IF Len(c) > 1 \/ v \in adj[v] THEN s.members \cup Range(c) ELSE s.members
    OBVIOUS
  <2>d. PICK K : K = {x \in On(s) : s.index[v] <= s.index[x]}
    OBVIOUS
  <2>e. PICK k : k = CHOOSE i \in DOMAIN s.stack : s.stack[i] = v
    OBVIOUS
  <2>f. PICK m : m = Len(s.stack)
    OBVIOUS
  <2>1. z = [s EXCEPT !.frames = fr, !.low = lo, !.stack = st, !.members = mem]
    <3>1. Last(scc.frames).node = v
      BY <1>a, <1>b DEF Last, Under
    <3>2. z = [[scc EXCEPT !.frames = Front(@), !.low = Returned(v)]
                  EXCEPT !.stack = SubSeq(@, 1, Len(@) - Len(Component(v))),
                         !.members = IF Len(Component(v)) > 1 \/ v \in adj[v] THEN @ \cup Range(Component(v)) ELSE @]
      BY <1>14, <3>1 DEF SccLeave
    <3>3. Front(s.frames) = fr
      BY <1>a, <1>c DEF Front
    <3>4. QED
      BY <1>1, <1>d, <2>a, <2>b, <2>c, <3>2, <3>3 DEF Sccs
  <2>2. k \in 1..Len(s.stack) /\ s.stack[k] = v
    <3>1. \E i \in DOMAIN s.stack : s.stack[i] = v
      BY <1>5 DEF On, Range
    <3>2. k \in DOMAIN s.stack /\ s.stack[k] = v
      BY <2>e, <3>1
    <3>3. QED
      BY <1>3, <3>2
  <2>g. PICK t : t = s.stack
    OBVIOUS
  <2>h. PICK f : f = s.index
    OBVIOUS
  <2>3. c = SubSeq(t, k, m) /\ st = SubSeq(t, 1, m - Len(c)) /\ m = Len(t) /\ t \in Seq(Nodes) /\ k \in 1..Len(t)
    BY <1>3, <2>2, <2>a, <2>b, <2>e, <2>f, <2>g DEF Component
  <2>4. c \in Seq(Nodes) /\ st \in Seq(Nodes) /\ Cut(t, m, k, c, st)
    BY <2>3, Halves
  <2>5. f \in [Nodes -> Nat] /\ t[k] = v /\ Rising(t, f) /\ t \in Seq(Nodes)
    BY <1>1, <1>3, <2>2, <2>g, <2>h DEF SccOrder, Rising
  <2>i. Parts(t, f, v, c, st)
    <3>1. t \in Seq(Nodes)
      BY <2>5
    <3>2. f \in [Nodes -> Nat]
      BY <2>5
    <3>3. Rising(t, f)
      BY <2>5
    <3>4. t[k] = v
      BY <2>5
    <3>5. Cut(t, m, k, c, st)
      BY <2>4
    <3>6. QED
      BY ONLY <3>1, <3>2, <3>3, <3>4, <3>5, StackCut
  <2>6. /\ Range(c) = {x \in Range(s.stack) : s.index[v] <= s.index[x]}
        /\ Range(st) = {x \in Range(s.stack) : s.index[x] < s.index[v]}
        /\ Rising(st, s.index)
        /\ Len(c) > 1 <=> \E x \in Range(c) : x # v
    BY <2>i, <2>g, <2>h DEF Parts
  <2>7. Range(c) = K /\ K \subseteq On(s) /\ v \in K /\ \A x \in K : s.index[v] <= s.index[x]
    BY <1>5, <2>6, <2>d DEF On
  <2>8. Range(st) = On(s) \ K /\ \A x \in On(s) \ K : s.index[x] < s.index[v]
    <3>1. \A x \in On(s) : s.index[x] \in Nat
      BY <1>3
    <3>2. \A x \in On(s) : x \notin K <=> s.index[x] < s.index[v]
      BY <1>5, <2>d, <3>1
    <3>3. QED
      BY <2>6, <3>2 DEF On
  <2>9. \A x \in On(s) \ K : \E i \in 1..(L-1) : NotBelow(s, x, i) /\ Leads(x, Under(s, i))
    <3>1. SUFFICES ASSUME NEW x \in On(s) \ K PROVE \E i \in 1..(L-1) : NotBelow(s, x, i) /\ Leads(x, Under(s, i))
      OBVIOUS
    <3>2. PICK i \in 1..L : NotBelow(s, x, i) /\ Leads(x, Under(s, i))
      BY <1>1, <1>3 DEF SccUp
    <3>3. s.index[Under(s, i)] <= s.index[x] /\ s.index[x] < s.index[v] /\ s.index[x] \in Nat /\ s.index[Under(s, i)] \in Nat
      BY <1>3, <2>8, <3>2 DEF NotBelow
    <3>4. i # L
      BY <1>5, <1>b, <3>3
    <3>5. QED
      BY <1>3, <3>2, <3>4
  <2>10. \A i \in 1..(L-1) : lo[Under(s, i)] = s.low[Under(s, i)]
    <3>1. SUFFICES ASSUME NEW i \in 1..(L-1) PROVE lo[Under(s, i)] = s.low[Under(s, i)]
      OBVIOUS
    <3>2. L > 1 /\ L - 1 \in 1..(L-1)
      BY <1>3
    <3>3. s.low[Under(s, L-1)] <= s.index[Under(s, L-1)]
      BY <1>1, <1>3, <1>6, <3>2 DEF SccLow, Lowest
    <3>4. ~(s.low[v] < s.low[Under(s, L-1)])
      BY <1>3, <1>5, <1>6, <1>14, <3>2, <3>3
    <3>5. QED
      BY <1>6, <1>11, <3>2, <3>4
  <2>11. \A n \in K : adj[n] \subseteq Popped(s) \cup K
    <3>1. SUFFICES ASSUME NEW n \in K, NEW q \in adj[n], q \notin Popped(s) PROVE q \in K
      OBVIOUS
    <3>2. n \in On(s) /\ n \in Nodes /\ q \in Nodes /\ s.index[v] <= s.index[n] /\ s.index[n] \in Nat /\ s.index[q] \in Nat /\ s.index[n] # 0
      BY <1>3, <1>4, <2>7, <3>1
    <3>3. \A i \in 1..(L-1) : Under(s, i) # n
      BY <1>5, <1>6, <3>2
    <3>4. Looked(s, n, q)
      BY <1>10, <3>1, <3>3
    <3>5. s.index[q] # 0
      BY <1>1, <3>2, <3>4 DEF SccLooked
    <3>6. q \in On(s)
      BY <3>1, <3>2, <3>5 DEF Popped
    <3>7. NotBelow(s, n, L)
      BY <1>b, <3>2 DEF NotBelow
    <3>8. s.low[v] <= s.index[q]
      BY <1>3, <1>8, <1>a, <3>2, <3>4, <3>6, <3>7, SMTT(30) DEF Lowest
    <3>9. QED
      BY <1>14, <2>d, <3>6, <3>8
  <2>12. ASSUME NEW x \in K PROVE x \in Nodes /\ Leads(v, x) /\ Leads(x, v)
    <3>1. x \in On(s) /\ x \in Nodes /\ s.index[v] <= s.index[x]
      BY <1>3, <2>7
    <3>2. NotBelow(s, x, L)
      BY <1>b, <3>1 DEF NotBelow
    <3>3. Leads(v, x)
      BY <1>1, <1>3, <1>b, <3>1, <3>2 DEF SccDown
    <3>4. PICK i \in 1..L : NotBelow(s, x, i) /\ Leads(x, Under(s, i))
      BY <1>1, <1>3, <3>1 DEF SccUp
    <3>5. s.index[Under(s, i)] <= s.index[v] /\ Under(s, i) \in Nodes
      <4>1. CASE i = L
        BY <1>5, <1>b, <4>1
      <4>2. CASE i # L
        <5>1. i \in 1..(L-1)
          BY <1>3, <4>2
        <5>2. QED
          BY <1>5, <1>6, <5>1
      <4>3. QED
        BY <4>1, <4>2
    <3>6. NotBelow(s, v, i)
      BY <1>5, <3>5 DEF NotBelow
    <3>7. Leads(Under(s, i), v)
      BY <1>1, <1>3, <1>5, <3>6 DEF SccDown
    <3>8. Leads(x, v)
      BY <1>5, <3>1, <3>4, <3>5, <3>7, LeadsTrans
    <3>9. QED
      BY <3>1, <3>3, <3>8
  <2>13. mem = {n \in Popped(s) \cup K : OnCycle(n)}
    <3>1. s.members = {n \in Popped(s) : OnCycle(n)}
      BY <1>1 DEF SccMembers
    <3>2. CASE Len(c) > 1 \/ v \in adj[v]
      <4>1. OnCycle(v)
        <5>1. CASE v \in adj[v]
          BY <1>5, <5>1, ReachStep DEF OnCycle
        <5>2. CASE Len(c) > 1
          <6>1. PICK x \in K : x # v
            BY <2>6, <2>7, <5>2
          <6>2. x \in Nodes /\ Reaches(v, x) /\ Reaches(x, v)
            BY <2>12, <6>1 DEF Leads
          <6>3. QED
            BY <1>5, <6>2, ReachTrans DEF OnCycle
        <5>3. QED
          BY <3>2, <5>1, <5>2
      <4>2. \A x \in K : OnCycle(x)
        <5>1. SUFFICES ASSUME NEW x \in K, x # v PROVE OnCycle(x)
          BY <4>1
        <5>2. x \in Nodes /\ Reaches(v, x) /\ Reaches(x, v)
          BY <2>12, <5>1 DEF Leads
        <5>3. QED
          BY <1>5, <5>2, ReachTrans DEF OnCycle
      <4>3. mem = s.members \cup K
        BY <2>7, <2>c, <3>2
      <4>4. QED
        BY <3>1, <4>2, <4>3
    <3>3. CASE ~(Len(c) > 1) /\ v \notin adj[v]
      <4>1. K = {v}
        BY <2>6, <2>7, <3>3
      <4>2. adj[v] \subseteq Popped(s) /\ v \notin Popped(s)
        BY <1>5, <2>7, <2>11, <3>3, <4>1 DEF Popped
      <4>3. ~OnCycle(v)
        <5>1. Popped(s) \in SUBSET Nodes /\ \A x \in Popped(s) : adj[x] \subseteq Popped(s)
          BY <1>1 DEF SccDone, Popped
        <5>2. QED
          BY <4>2, <5>1 DEF OnCycle, Reaches
      <4>4. mem = s.members
        BY <2>c, <3>3
      <4>5. QED
        BY <3>1, <4>1, <4>3, <4>4
    <3>4. QED
      BY <3>2, <3>3
  <2>14. mem \subseteq Nodes
    BY <2>12, <2>13 DEF Popped
  <2>15. K # {}
    BY <2>7
  <2>16. st \in Seq(Nodes) /\ mem \subseteq Nodes /\ Range(st) = On(s) \ K
    BY <2>4, <2>8, <2>14
  <2>17. Rising(st, s.index)
    BY <2>6
  <2>18. K \subseteq On(s) /\ \A x \in K : s.index[v] <= s.index[x]
    BY <2>7
  <2>19. K = {} \/ \A x \in On(s) \ K : s.index[x] < s.index[v]
    BY <2>8
  <2>20. \A i \in 1..(L-1) : lo[Under(s, i)] = s.low[Under(s, i)]
                    \/ (i = L - 1 /\ lo[Under(s, i)] = s.low[v] /\ s.low[v] < s.index[v] /\ s.low[v] <= s.low[Under(s, i)])
    BY <2>10
  <2>21. K = {} => \A i \in 1..(L-1) : i = L - 1 => lo[Under(s, i)] <= s.low[v]
    BY <2>15
  <2>22. QED
    <3>1. Ends(K, st, mem)
      BY <2>1, <2>9, <2>11, <2>13, <2>16, <2>17, <2>18, <2>19, <2>20, <2>21 DEF Ends
    <3>2. QED
      BY <1>12, <3>1
<1>15. QED
  BY <1>13, <1>14

\* A new root, whichever, or the end.
LEMMA SccRootSound ==
    ASSUME Ranked, NEW s, s = scc, SccSound(s), SccRoot, NEW z, z = scc'
    PROVE  SccSound(z)
<1>1. s \in Sccs /\ s.phase = "run" /\ s.frames = <<>> /\ SccSoundBut(s) /\ SccLooked(s)
  BY DEF SccSound, SccSoundBut, SccRoot
<1>2. CASE \A n \in Nodes : s.index[n] # 0
  <2>1. z = [s EXCEPT !.phase = "done"]
    BY <1>2 DEF SccRoot
  <2>2. /\ z \in Sccs /\ z.phase = "done" /\ z.next = s.next /\ z.index = s.index /\ z.low = s.low
        /\ z.stack = s.stack /\ z.frames = s.frames /\ z.members = s.members
    BY <1>1, <2>1 DEF Sccs
  <2>3. On(z) = On(s) /\ Popped(z) = Popped(s) /\ \A i : Under(z, i) = Under(s, i)
    BY <2>2 DEF On, Popped, Under
  <2>4. (\A n, q : Looked(z, n, q) <=> Looked(s, n, q)) /\ (\A x, i : NotBelow(z, x, i) <=> NotBelow(s, x, i))
    BY <2>2, <2>3 DEF Looked, NotBelow
  <2>5. DOMAIN z.frames = {}
    BY <1>1, <2>2
  <2>6. SccOrder(z) /\ SccDown(z) /\ SccLow(z) /\ SccDone(z) /\ SccMembers(z) /\ SccLooked(z)
    <3>1. SccOrder(z)
      BY <1>1, <2>2, <2>3, <2>5 DEF SccSoundBut, SccOrder
    <3>2. SccDown(z) /\ SccLow(z)
      BY <2>5 DEF SccDown, SccLow
    <3>3. SccDone(z) /\ SccMembers(z)
      BY <1>1, <2>2, <2>3 DEF SccSoundBut, SccDone, SccMembers
    <3>4. SccLooked(z)
      BY <1>1, <2>2, <2>4 DEF SccLooked
    <3>5. QED
      BY <3>1, <3>2, <3>3, <3>4
  <2>7. SccUp(z)
    BY <1>1, <2>2, <2>3, <2>4 DEF SccSoundBut, SccUp
  <2>8. QED
    BY <1>1, <1>2, <2>2, <2>6, <2>7 DEF SccSound, SccSoundBut
<1>3. CASE ~\A n \in Nodes : s.index[n] # 0
  <2>1. PICK v \in Nodes : s.index[v] = 0 /\ z = Visit(s, v)
    BY <1>3 DEF SccRoot
  <2>2. \A n \in Nodes : s.index[n] # 0 => \A q \in Nodes : Looked(s, n, q) => s.index[q] # 0 \/ q = v
    BY <1>1 DEF SccLooked
  <2>3. SccSound(Visit(s, v))
    BY <1>1, <2>1, <2>2, VisitSound
  <2>4. QED
    BY <2>1, <2>3
<1>4. QED
  BY <1>2, <1>3

\* A link is looked at: to a new node, to one on the stack, or to one whose component is complete.
LEMMA SccEdgeSound ==
    ASSUME Ranked, NEW s, s = scc, SccSound(s), SccEdge, NEW z, z = scc'
    PROVE  SccSound(z)
<1>a. PICK L : L = Len(s.frames)
  OBVIOUS
<1>b. PICK v : v = Under(s, L)
  OBVIOUS
<1>c. PICK w : w = Earliest(s.frames[L].todo)
  OBVIOUS
<1>d. PICK fr : fr = [s.frames EXCEPT ![L].todo = @ \ {w}]
  OBVIOUS
<1>1. s \in Sccs /\ SccOrder(s) /\ SccLow(s) /\ SccLooked(s)
  BY DEF SccSound, SccSoundBut
<1>2. s.phase = "run" /\ s.frames # <<>> /\ s.frames[L].todo # {}
  BY <1>a DEF SccEdge, Last
<1>3. /\ s.index \in [Nodes -> Nat] /\ s.low \in [Nodes -> Nat]
      /\ s.frames \in Seq(Frames) /\ On(s) \subseteq Nodes
      /\ L \in Nat \ {0} /\ DOMAIN s.frames = 1..L /\ L \in 1..L
      /\ \A i \in DOMAIN s.frames : Under(s, i) \in Nodes /\ s.frames[i].todo \subseteq Nodes
      /\ \A n \in Nodes : adj[n] \subseteq Nodes
  BY <1>1, <1>2, <1>a, SccShape
<1>4. v \in Nodes /\ v \in On(s) /\ s.frames[L].todo \subseteq adj[v]
  BY <1>1, <1>3, <1>b DEF SccOrder
<1>5. w \in s.frames[L].todo /\ w \in Nodes /\ w \in adj[v]
  <2>1. s.frames[L].todo \in SUBSET Range(Lexical) /\ s.frames[L].todo # {}
    BY <1>2, <1>3 DEF Ranked
  <2>2. w \in s.frames[L].todo
    BY <1>c, <2>1, EarliestIn
  <2>3. QED
    BY <1>3, <1>4, <2>2
<1>6. Lowest(s, L, s.low[v])
  BY <1>1, <1>3, <1>b DEF SccLow
<1>7. s.low[v] \in Nat /\ s.index[w] \in Nat
  BY <1>3, <1>4, <1>5
<1>8. PICK y \in On(s) : s.index[y] = s.low[v] /\ Leads(v, y)
  BY <1>6, <1>b DEF Lowest
<1>e. PICK seen : seen = [scc EXCEPT !.frames[Len(scc.frames)].todo = @ \ {Earliest(Last(scc.frames).todo)}]
  OBVIOUS
<1>9. seen = [s EXCEPT !.frames = fr]
  BY <1>1, <1>a, <1>c, <1>d, <1>e DEF Last, Sccs
<1>10. z = IF s.index[w] = 0 THEN Visit(seen, w)
           ELSE IF w \in On(s) THEN [seen EXCEPT !.low[v] = IF s.index[w] < @ THEN s.index[w] ELSE @]
           ELSE seen
  <2>1. Last(scc.frames).node = v /\ Earliest(Last(scc.frames).todo) = w
    BY <1>a, <1>b, <1>c DEF Last, Under
  <2>2. QED
    BY <2>1, <1>e DEF SccEdge, On
\* What LookSound says, with l for the low of v.
<1> DEFINE Lowered(l) == [s EXCEPT !.frames = fr, !.low = [s.low EXCEPT ![v] = l]]
           Looks(x) == SccSoundFor(x, s, v, w)
<1>11. ASSUME NEW l \in Nat, l <= s.low[v], w \in On(s) => l <= s.index[w],
              \E u \in On(s) : s.index[u] = l /\ Leads(v, u), NEW x, x = Lowered(l)
       PROVE  Looks(x)
  <2>1. x = [s EXCEPT !.frames = [s.frames EXCEPT ![L].todo = @ \ {w}], !.low = [s.low EXCEPT ![v] = l]]
    BY <1>11, <1>d
  <2>2. w \in s.frames[L].todo
    BY <1>5
  <2>3. l \in Nat /\ l <= s.low[v]
    BY <1>11
  <2>4. w \in On(s) => l <= s.index[w]
    BY <1>11
  <2>5. \E u \in On(s) : s.index[u] = l /\ Leads(v, u)
    BY <1>11
  <2>6. s.phase = "run" /\ s.frames # <<>> /\ L = Len(s.frames) /\ v = Under(s, L)
    BY <1>2, <1>a, <1>b
  <2>7. QED
    BY ONLY Ranked, SccSound(s), <2>1, <2>2, <2>3, <2>4, <2>5, <2>6, LookSound
<1>12. seen = Lowered(s.low[v])
  <2>1. [s.low EXCEPT ![v] = s.low[v]] = s.low
    BY <1>3, <1>4
  <2>2. [s EXCEPT !.frames = fr] = [s EXCEPT !.frames = fr, !.low = s.low]
    BY <1>1 DEF Sccs
  <2>3. QED
    BY <1>9, <2>1, <2>2
<1> HIDE DEF Lowered
<1>13. CASE s.index[w] = 0
  <2>1. w \notin On(s)
    BY <1>1, <1>13 DEF SccOrder
  <2>2. Looks(seen)
    BY <1>7, <1>8, <1>11, <1>12, <2>1
  <2>3. z = Visit(seen, w)
    BY <1>10, <1>13
  <2>4. SccSoundBut(seen) /\ seen.phase = "run" /\ seen.index[w] = 0
        /\ w \in adj[Under(seen, Len(seen.frames))]
        /\ \A n \in Nodes : seen.index[n] # 0 => \A q \in Nodes : Looked(seen, n, q) => seen.index[q] # 0 \/ q = w
    BY <1>5, <1>13, <2>2 DEF SccSoundFor
  <2>5. SccSound(Visit(seen, w))
    BY <1>5, <2>4, VisitSound
  <2>6. QED
    BY <2>3, <2>5
<1>14. ASSUME s.index[w] # 0, Looks(z) PROVE SccSound(z)
  <2>1. SccLooked(z)
    BY <1>14 DEF SccLooked, SccSoundFor
  <2>2. QED
    BY <1>14, <2>1 DEF SccSound, SccSoundFor
<1>15. CASE s.index[w] # 0 /\ w \notin On(s)
  <2>1. z = Lowered(s.low[v])
    BY <1>10, <1>12, <1>15
  <2>2. Looks(z)
    BY <1>7, <1>8, <1>11, <1>15, <2>1
  <2>3. QED
    BY <1>14, <1>15, <2>2
<1>16. CASE s.index[w] # 0 /\ w \in On(s)
  <2>a. PICK l : l = IF s.index[w] < s.low[v] THEN s.index[w] ELSE s.low[v]
    OBVIOUS
  <2>1. l \in Nat /\ l <= s.low[v] /\ l <= s.index[w]
    BY <1>7, <2>a
  <2>2. \E u \in On(s) : s.index[u] = l /\ Leads(v, u)
    <3>1. Leads(v, w)
      BY <1>4, <1>5, ReachStep DEF Leads
    <3>2. QED
      BY <1>8, <1>16, <2>a, <3>1
  <2>3. z = Lowered(l)
    <3>1. z = [seen EXCEPT !.low[v] = IF s.index[w] < @ THEN s.index[w] ELSE @]
      BY <1>10, <1>16
    <3>2. z = [[s EXCEPT !.frames = fr] EXCEPT !.low = [s.low EXCEPT ![v] = l]]
      BY <1>1, <1>3, <1>4, <1>9, <2>a, <3>1 DEF Sccs
    <3>3. QED
      BY <1>1, <3>2 DEF Sccs, Lowered
  <2>4. Looks(z)
    BY <1>11, <2>1, <2>2, <2>3
  <2>5. QED
    BY <1>14, <1>16, <2>4
<1>17. QED
  BY <1>13, <1>15, <1>16

\* At the end the members are the nodes on a cycle.
LEMMA SccEnd ==
    ASSUME Ranked, NEW s, SccSound(s), s.phase = "done"
    PROVE  s.members = {n \in Nodes : OnCycle(n)}
<1>1. SccUp(s) /\ SccMembers(s) /\ s.frames = <<>> /\ \A n \in Nodes : s.index[n] # 0
  BY DEF SccSound, SccSoundBut
<1>2. On(s) = {}
  BY <1>1 DEF SccUp
<1>3. Popped(s) = Nodes
  BY <1>1, <1>2 DEF Popped
<1>4. QED
  BY <1>1, <1>3 DEF SccMembers
=============================================================================

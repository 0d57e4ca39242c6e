--------------------------- MODULE ReadSessionProofs ---------------------------
(***************************************************************************)
(* What graph --check says of cycles is true of the graph it built, and a  *)
(* command that succeeds has judged no document by rules from outside the  *)
(* project, whatever the tree, the commands before it and the mishaps      *)
(* meanwhile; scans are exact, and graph, validate --all and validate of a *)
(* file say the same of one tree.                                          *)
(*                                                                         *)
(* The graph's nodes are the records of a scan, each a document of a known *)
(* kind (ScanSound); from there on either search is idle or keeps the invariant*)
(* LinkGraphProofs has for it (SearchSound), and a report, once made, keeps to*)
(* a graph that no later step but BuildGraph changes.                      *)
(*                                                                         *)
(* What the preflight found out about Root covers every directory below it *)
(* (BoundaryCovers), and each command carries it, or a notice of what is   *)
(* missing, through its phases to its report (Governed).                   *)
(*                                                                         *)
(* A scan returns what the tree owes: what it has kept is at every moment  *)
(* what the part walked so far owes (Exact), and the pool keeps its order. *)
(*                                                                         *)
(* While nobody touches the tree, what a command has gathered is what the  *)
(* tree says of its documents (Agreed), so the modes answer alike.         *)
(***************************************************************************)
EXTENDS ReadSession, LinkGraphProofs

(***************************************************************************)
(* The scan: what it returns are documents an extractor is registered for. *)
(***************************************************************************)
\* r is a record of these fields.
Shaped(r, fields) == DOMAIN r = fields /\ r = [x \in fields |-> r[x]]
ScanFields == DOMAIN Start(FALSE, FALSE)
CmdFields  == DOMAIN Command(None)

\* What a worker leaves in a slot.
Results == {r \in [failed : BOOLEAN, file : Files \cup {"cancelled"}] : r.failed \/ r.file \in Known}

\* Every slot up to taken is filled or being worked on, and someone works as
\* long as something is left to take.
Pool ==
    LET n == Len(scan.files) IN
    /\ n > 0
    /\ scan.results = [i \in 1..n |-> scan.results[i]]
    /\ scan.sent \in 0..n /\ scan.taken \in 0..scan.sent
    /\ hold \in [Workers -> {None} \cup 0..scan.taken]
    /\ \A i \in 1..scan.taken : (\E w \in Workers : hold[w] = i) \/ scan.results[i] \in Results
    /\ (\A w \in Workers : hold[w] = None) => scan.taken = n

ScanSound ==
    /\ Shaped(scan, ScanFields)
    /\ scan.files \in Seq(Known)
    /\ scan.out.records \in Seq(Known)
    /\ scan.phase = "walk" => scan.sent = 0 /\ scan.taken = 0
    /\ scan.phase = "extract" => Pool

\* Documents to extract find a worker (the pool of internal/index).
LEMMA SomeSpawned ==
    ASSUME scan.files \in Seq(Known), Len(scan.files) > 0
    PROVE  Spawned \in SUBSET Workers /\ Spawned # {}
<1>a. PICK k : k = IF Len(scan.files) < Cardinality(Workers) THEN Len(scan.files) ELSE Cardinality(Workers)
  OBVIOUS
<1>1. Cardinality(Workers) \in Nat /\ Cardinality(Workers) # 0 /\ ExistsBijection(1..Cardinality(Workers), Workers)
  BY ScanAssumption, FS_CardinalityType, FS_EmptySet
<1>2. k \in Nat /\ k > 0 /\ k <= Cardinality(Workers)
  BY <1>1, <1>a
<1>3. PICK f \in Bijection(1..Cardinality(Workers), Workers) : TRUE
  BY <1>1 DEF ExistsBijection
<1>4. f \in [1..Cardinality(Workers) -> Workers] /\ \A i, j \in 1..Cardinality(Workers) : f[i] = f[j] => i = j
  BY <1>3 DEF Bijection, Injection, Surjection, IsInjective
<1> DEFINE S == {f[i] : i \in 1..k}
<1>5. S \in SUBSET Workers
  BY <1>1, <1>2, <1>4
<1>6. Cardinality(S) = k
  <2>1. ExistsBijection(1..k, S)
    <3>1. [i \in 1..k |-> f[i]] \in Bijection(1..k, S)
      BY <1>1, <1>2, <1>4 DEF Bijection, Injection, Surjection, IsInjective
    <3>2. QED
      BY <3>1 DEF ExistsBijection
  <2> HIDE DEF S
  <2>2. QED
    BY <1>2, <2>1, FS_CountingElements
<1>7. \E some \in SUBSET Workers : Cardinality(some) = k
  BY <1>5, <1>6
<1>8. Spawned \in SUBSET Workers /\ Cardinality(Spawned) = k
  BY <1>7, <1>a DEF Spawned
<1>9. Cardinality({}) = 0
  BY FS_EmptySet
<1>10. Spawned # {}
  <2>1. SUFFICES ASSUME Spawned = {} PROVE FALSE
    OBVIOUS
  <2>2. Cardinality(Spawned) = Cardinality({})
    BY <2>1, Zenon
  <2>3. QED
    BY <1>2, <1>8, <1>9, <2>2
<1>11. QED
  BY <1>8, <1>10

\* Kept keeps members of its list that are in S.
LEMMA KeptWithin ==
    ASSUME NEW W, NEW list \in Seq(W), NEW S
    PROVE  Kept(list, S) \in Seq(W \cap S)
<1> DEFINE n == Len(list)
           Step(g, m) == \A i \in 0..m : g[i] = IF i = 0 THEN <<>> ELSE IF list[i] \in S THEN Append(g[i-1], list[i]) ELSE g[i-1]
           kept == CHOOSE g : g = [i \in 0..n |-> IF i = 0 THEN <<>> ELSE IF list[i] \in S THEN Append(g[i-1], list[i]) ELSE g[i-1]]
           T == {m \in 0..n : \E g \in [0..m -> Seq(W \cap S)] : Step(g, m)}
<1>1. n \in Nat /\ \A i \in 1..n : list[i] \in W
  OBVIOUS
<1>2. n \in T
  <2>1. 0 \in T
    <3> DEFINE g == [i \in 0..0 |-> <<>>]
    <3>1. <<>> \in Seq(W \cap S) /\ \A i \in 0..0 : i = 0
      OBVIOUS
    <3>2. g \in [0..0 -> Seq(W \cap S)]
      BY <3>1
    <3>3. Step(g, 0)
      BY <3>1
    <3> HIDE DEF g
    <3>4. 0 \in 0..n
      BY <1>1
    <3>5. QED
      BY <3>2, <3>3, <3>4
  <2>2. ASSUME NEW m \in 0..n, m < n, m \in T PROVE m + 1 \in T
    <3>1. PICK g \in [0..m -> Seq(W \cap S)] : Step(g, m)
      BY <2>2
    <3> DEFINE h == [i \in 0..(m+1) |-> IF i <= m THEN g[i] ELSE IF list[i] \in S THEN Append(g[i-1], list[i]) ELSE g[i-1]]
    <3>2. m \in Nat /\ m + 1 \in 1..n /\ list[m+1] \in W /\ g[m] \in Seq(W \cap S)
      BY <1>1, <2>2
    <3>3. \A i \in 0..(m+1) : (i \in 0..m /\ i <= m) \/ (i = m + 1 /\ ~(i <= m) /\ i - 1 = m)
      BY <3>2
    <3>4. list[m+1] \in S => Append(g[m], list[m+1]) \in Seq(W \cap S)
      BY <3>2
    <3>5. h \in [0..(m+1) -> Seq(W \cap S)]
      BY <3>2, <3>3, <3>4
    <3>6. Step(h, m + 1)
      <4>1. SUFFICES ASSUME NEW i \in 0..(m+1)
                     PROVE  h[i] = IF i = 0 THEN <<>> ELSE IF list[i] \in S THEN Append(h[i-1], list[i]) ELSE h[i-1]
        OBVIOUS
      <4>2. i # 0 => i - 1 \in 0..(m+1) /\ i - 1 <= m /\ h[i-1] = g[i-1]
        BY <3>2
      <4>3. CASE i <= m
        <5>1. i \in 0..m /\ h[i] = g[i]
          BY <3>2, <4>3
        <5>2. g[i] = IF i = 0 THEN <<>> ELSE IF list[i] \in S THEN Append(g[i-1], list[i]) ELSE g[i-1]
          BY <3>1, <5>1
        <5> HIDE DEF h
        <5>3. QED
          BY <4>2, <5>1, <5>2
      <4>4. CASE i = m + 1
        BY <3>2, <4>2, <4>4
      <4>5. QED
        BY <3>2, <4>3, <4>4
    <3> HIDE DEF h
    <3>7. m + 1 \in 0..n
      BY <3>2
    <3>8. QED
      BY <3>5, <3>6, <3>7
  <2> HIDE DEF T
  <2>3. \A m \in 0..n : m \in T
    BY <1>1, <2>1, <2>2, IntervalInduction
  <2>4. QED
    BY <1>1, <2>3
<1>3. PICK g \in [0..n -> Seq(W \cap S)] : Step(g, n)
  BY <1>2
<1>4. g = [i \in 0..n |-> IF i = 0 THEN <<>> ELSE IF list[i] \in S THEN Append(g[i-1], list[i]) ELSE g[i-1]]
  BY <1>3, SMTT(30)
<1>5. kept = [i \in 0..n |-> IF i = 0 THEN <<>> ELSE IF list[i] \in S THEN Append(kept[i-1], list[i]) ELSE kept[i-1]]
  BY <1>4, Zenon
<1>6. Kept(list, S) = kept[n]
  BY DEF Kept
<1> HIDE DEF kept
<1>7. DOMAIN kept = 0..n /\ Step(kept, n)
  BY <1>5
<1> DEFINE U == {i \in 0..n : kept[i] \in Seq(W \cap S)}
<1>8. n \in U
  <2>1. 0 \in U
    <3>1. 0 \in 0..n /\ kept[0] = <<>>
      BY <1>1, <1>7
    <3>2. <<>> \in Seq(W \cap S)
      OBVIOUS
    <3>3. QED
      BY <3>1, <3>2
  <2>2. ASSUME NEW m \in 0..n, m < n, m \in U PROVE m + 1 \in U
    <3>1. m + 1 \in 1..n /\ m + 1 \in 0..n /\ m + 1 # 0 /\ (m + 1) - 1 = m /\ list[m+1] \in W
      BY <1>1, <2>2
    <3>2. kept[m+1] = IF list[m+1] \in S THEN Append(kept[m], list[m+1]) ELSE kept[m]
      BY <1>7, <3>1
    <3>3. kept[m] \in Seq(W \cap S)
      BY <2>2
    <3>4. kept[m+1] \in Seq(W \cap S)
      BY <3>1, <3>2, <3>3
    <3>5. QED
      BY <3>1, <3>4
  <2> HIDE DEF U
  <2>3. \A m \in 0..n : m \in U
    BY <1>1, <2>1, <2>2, IntervalInduction
  <2>4. QED
    BY <1>1, <2>3
<1>9. QED
  BY <1>6, <1>8

\* A scan begins.
LEMMA ScanBegins ==
    ASSUME NEW r, NEW u, BeginScan(r, u)
    PROVE  ScanSound'
<1>1. scan' = Start(r, u)
  BY DEF BeginScan
<1>2. Shaped(scan', ScanFields) /\ scan'.files = <<>> /\ scan'.out = Running /\ scan'.phase = "walk"
      /\ scan'.sent = 0 /\ scan'.taken = 0
  BY <1>1 DEF Start, Shaped, ScanFields
<1>3. scan'.files \in Seq(Known) /\ scan'.out.records \in Seq(Known)
  BY <1>2 DEF Running
<1>4. QED
  BY <1>2, <1>3 DEF ScanSound

\* A scan that ends without records.
LEMMA ScanFinishes ==
    ASSUME ScanSound, NEW kind, NEW why, Finish(kind, why)
    PROVE  ScanSound'
<1>1. scan' = [scan EXCEPT !.phase = "done", !.out = [kind |-> kind, records |-> <<>>, why |-> why]]
  BY DEF Finish
<1>2. Shaped(scan', ScanFields) /\ scan'.files = scan.files /\ scan'.out.records = <<>> /\ scan'.phase = "done"
  BY <1>1 DEF ScanSound, Shaped, ScanFields, Start
<1>3. QED
  BY <1>2 DEF ScanSound

\* Steps that are not the scan's.
LEMMA ScanStays ==
    ASSUME ScanSound, UNCHANGED <<scan, hold>>
    PROVE  ScanSound'
<1>1. Pool => Pool'
  BY DEF Pool
<1>2. QED
  BY <1>1 DEF ScanSound

\* The scan's own steps: every slot is filled when the workers have left.
LEMMA ScanStepSound ==
    ASSUME ScanSound, ScanNext
    PROVE  ScanSound'
<1>a. PICK n : n = Len(scan.files)
  OBVIOUS
<1>1. n \in Nat /\ scan.files \in Seq(Known) /\ scan.out.records \in Seq(Known) /\ DOMAIN scan.files = 1..n
  BY <1>a DEF ScanSound
<1>2. ASSUME scan.phase = "extract"
      PROVE  /\ n > 0 /\ scan.results = [i \in 1..n |-> scan.results[i]]
             /\ scan.sent \in 0..n /\ scan.taken \in 0..scan.sent
             /\ hold \in [Workers -> {None} \cup 0..scan.taken]
             /\ \A i \in 1..scan.taken : (\E w \in Workers : hold[w] = i) \/ scan.results[i] \in Results
             /\ (\A w \in Workers : hold[w] = None) => scan.taken = n
  BY <1>2, <1>a DEF ScanSound, Pool
<1>3. CASE WalkDir
  <2>1. CASE \E kind, why : Finish(kind, why)
    BY <2>1, ScanFinishes
  <2>2. CASE ~\E kind, why : Finish(kind, why)
    <3>1. scan.phase = "walk" /\ \E l, o : scan' = [Onward EXCEPT !.listed = @ \cup l, !.cache[Entry] = o]
      BY <1>3, <2>2 DEF WalkDir, Walking
    <3>2. /\ Shaped(scan', ScanFields) /\ scan'.files = scan.files /\ scan'.out = scan.out /\ scan'.phase = "walk"
          /\ scan'.sent = 0 /\ scan'.taken = 0
      BY <3>1 DEF ScanSound, Shaped, ScanFields, Start, Onward
    <3>3. QED
      BY <1>1, <3>2 DEF ScanSound
  <2>3. QED
    BY <2>1, <2>2
<1>4. CASE WalkFile
  <2>1. CASE \E kind, why : Finish(kind, why)
    BY <2>1, ScanFinishes
  <2>2. CASE ~\E kind, why : Finish(kind, why)
    <3>1. /\ scan.phase = "walk"
          /\ \/ scan' = Onward
             \/ \E o, h : \/ scan' = [Onward EXCEPT !.cache[Dir(Entry)] = o, !.hit = h, !.files = @]
                          \/ /\ Entry \in Known
                             /\ scan' = [Onward EXCEPT !.cache[Dir(Entry)] = o, !.hit = h, !.files = Append(@, Entry)]
      BY <1>4, <2>2 DEF WalkFile, Walking, Taken
    <3>2. /\ Shaped(scan', ScanFields) /\ scan'.out = scan.out /\ scan'.phase = "walk"
          /\ scan'.files = scan.files \/ (Entry \in Known /\ scan'.files = Append(scan.files, Entry))
          /\ scan'.sent = 0 /\ scan'.taken = 0
      BY <3>1 DEF ScanSound, Shaped, ScanFields, Start, Onward
    <3>3. scan'.files \in Seq(Known)
      <4>1. \A q \in Seq(Known), e \in Known : Append(q, e) \in Seq(Known)
        OBVIOUS
      <4>2. QED
        BY <1>1, <3>2, <4>1
    <3>4. QED
      BY <1>1, <3>2, <3>3 DEF ScanSound
  <2>3. QED
    BY <2>1, <2>2
<1>5. CASE EndWalk
  <2>1. CASE scan.files = <<>>
    <3>1. \E kind, why : Finish(kind, why)
      BY <1>5, <2>1 DEF EndWalk
    <3>2. QED
      BY <3>1, ScanFinishes
  <2>2. CASE scan.files # <<>>
    <3>1. /\ scan.phase = "walk"
          /\ scan' = [scan EXCEPT !.phase = "extract", !.results = [i \in DOMAIN scan.files |-> None]]
          /\ hold' = [w \in Workers |-> IF w \in Spawned THEN 0 ELSE None]
      BY <1>5, <2>2 DEF EndWalk
    <3>2. /\ Shaped(scan', ScanFields) /\ scan'.out = scan.out /\ scan'.files = scan.files
          /\ scan'.results = [i \in 1..n |-> None] /\ scan'.sent = scan.sent /\ scan'.taken = scan.taken
          /\ scan'.phase = "extract"
      BY <1>1, <3>1 DEF ScanSound, Shaped, ScanFields, Start
    <3>3. scan.sent = 0 /\ scan.taken = 0
      BY <3>1 DEF ScanSound
    <3>4. n > 0
      BY <1>1, <1>a, <2>2
    <3>5. hold' \in [Workers -> {None} \cup 0..0] /\ \E w \in Workers : hold'[w] # None
      <4>1. 0 # None /\ 0 \in 0..0
        BY ScanAssumption
      <4>2. Spawned \in SUBSET Workers /\ Spawned # {}
        BY <1>1, <1>a, <3>4, SomeSpawned
      <4>3. QED
        BY <3>1, <4>1, <4>2
    <3>6. scan'.results = [i \in 1..n |-> scan'.results[i]]
      BY <3>2
    <3>7. Pool'
      BY <1>1, <1>a, <3>2, <3>3, <3>4, <3>5, <3>6 DEF Pool
    <3>8. QED
      BY <1>1, <3>2, <3>7 DEF ScanSound
  <2>3. QED
    BY <2>1, <2>2
<1>6. CASE Send
  <2>1. /\ scan.phase = "extract" /\ scan.sent < n /\ hold' = hold
        /\ scan' = [scan EXCEPT !.sent = @ + 1]
    BY <1>6, <1>a DEF Send
  <2>2. /\ Shaped(scan', ScanFields) /\ scan'.out = scan.out /\ scan'.files = scan.files
        /\ scan'.results = scan.results /\ scan'.sent = scan.sent + 1 /\ scan'.taken = scan.taken
        /\ scan'.phase = "extract"
    BY <2>1 DEF ScanSound, Shaped, ScanFields, Start
  <2>3. Pool'
    BY <1>1, <1>2, <1>a, <2>1, <2>2 DEF Pool
  <2>4. QED
    BY <1>1, <2>2, <2>3 DEF ScanSound
<1>7. ASSUME NEW w \in Workers, Take(w) PROVE ScanSound'
  <2>1. /\ scan.phase = "extract" /\ hold[w] = 0 /\ scan.taken < scan.sent
        /\ scan' = [scan EXCEPT !.taken = @ + 1] /\ hold' = [hold EXCEPT ![w] = scan.taken + 1]
    BY <1>7 DEF Take
  <2>2. /\ Shaped(scan', ScanFields) /\ scan'.out = scan.out /\ scan'.files = scan.files
        /\ scan'.results = scan.results /\ scan'.sent = scan.sent /\ scan'.taken = scan.taken + 1
        /\ scan'.phase = "extract"
    BY <2>1 DEF ScanSound, Shaped, ScanFields, Start
  <2>3. /\ scan.sent \in 0..n /\ scan.taken \in Nat /\ scan.taken + 1 \in 0..scan.sent
        /\ hold \in [Workers -> {None} \cup 0..scan.taken]
    BY <1>1, <1>2, <2>1
  <2>4. /\ hold' \in [Workers -> {None} \cup 0..(scan.taken + 1)]
        /\ hold'[w] = scan.taken + 1 /\ hold'[w] # None /\ \A v \in Workers : v # w => hold'[v] = hold[v]
    <3>1. scan.taken + 1 \in 0..(scan.taken + 1) /\ \A i \in 0..scan.taken : i \in 0..(scan.taken + 1)
      BY <2>3
    <3>2. scan.taken + 1 # None
      BY <2>3, ScanAssumption
    <3>3. QED
      BY <2>1, <2>3, <3>1, <3>2
  <2>5. \A i \in 1..(scan.taken + 1) : (\E v \in Workers : hold'[v] = i) \/ scan'.results[i] \in Results
    <3>1. SUFFICES ASSUME NEW i \in 1..(scan.taken + 1)
                   PROVE  (\E v \in Workers : hold'[v] = i) \/ scan'.results[i] \in Results
      OBVIOUS
    <3>2. CASE i = scan.taken + 1
      BY <2>4, <3>2
    <3>3. CASE i # scan.taken + 1
      <4>1. i \in 1..scan.taken /\ i # 0
        BY <2>3, <3>3
      <4>2. CASE \E v \in Workers : hold[v] = i
        BY <2>1, <2>4, <4>1, <4>2
      <4>3. CASE scan.results[i] \in Results
        BY <2>2, <4>3
      <4>4. QED
        BY <1>2, <2>1, <4>1, <4>2, <4>3
    <3>4. QED
      BY <3>2, <3>3
  <2>6. Pool'
    <3>1. ~\A v \in Workers : hold'[v] = None
      BY <2>4
    <3>2. QED
      BY <1>2, <1>a, <2>1, <2>2, <2>3, <2>4, <2>5, <3>1 DEF Pool
  <2>7. QED
    BY <1>1, <2>2, <2>6 DEF ScanSound
<1>8. ASSUME NEW w \in Workers, Extract(w) PROVE ScanSound'
  <2>a. PICK h : h = hold[w]
    OBVIOUS
  <2>b. PICK r : /\ scan' = [scan EXCEPT !.results[h] = r]
                 /\ r = IF cancelled THEN [failed |-> TRUE, file |-> "cancelled"]
                        ELSE [failed |-> scan.files[h] \in gone \cup tree.bad, file |-> scan.files[h]]
    BY <1>8, <2>a DEF Extract, Slot
  <2>1. scan.phase = "extract" /\ h \notin {0, None} /\ hold' = [hold EXCEPT ![w] = 0]
    BY <1>8, <2>a DEF Extract
  <2>2. /\ scan.sent \in 0..n /\ scan.taken \in Nat /\ scan.taken \in 0..scan.sent
        /\ hold \in [Workers -> {None} \cup 0..scan.taken] /\ h \in 1..scan.taken /\ h \in 1..n
    <3>1. /\ scan.sent \in 0..n /\ scan.taken \in Nat /\ scan.taken \in 0..scan.sent
          /\ hold \in [Workers -> {None} \cup 0..scan.taken]
      BY <1>1, <1>2, <2>1
    <3>2. h \in 0..scan.taken /\ h # 0
      BY <2>1, <2>a, <3>1
    <3>3. QED
      BY <1>1, <3>1, <3>2
  <2>3. r \in Results
    <3>1. scan.files[h] \in Known /\ scan.files[h] \in Files
      BY <1>1, <2>2, ScanAssumption
    <3>2. QED
      BY <2>b, <3>1 DEF Results
  <2>4. /\ Shaped(scan', ScanFields) /\ scan'.out = scan.out /\ scan'.files = scan.files
        /\ scan'.results = [scan.results EXCEPT ![h] = r] /\ scan'.sent = scan.sent /\ scan'.taken = scan.taken
        /\ scan'.phase = scan.phase
    BY <2>b DEF ScanSound, Shaped, ScanFields, Start
  <2>5. /\ scan'.results = [i \in 1..n |-> scan'.results[i]]
        /\ scan'.results[h] = r /\ \A i \in 1..n : i # h => scan'.results[i] = scan.results[i]
    <3>a. PICK res : res = scan.results
      OBVIOUS
    <3>b. PICK new : new = scan'.results
      OBVIOUS
    <3>1. res = [i \in 1..n |-> res[i]] /\ new = [res EXCEPT ![h] = r]
      BY <1>2, <2>1, <2>4, <3>a, <3>b
    <3>2. new = [i \in 1..n |-> new[i]] /\ new[h] = r /\ \A i \in 1..n : i # h => new[i] = res[i]
      BY <2>2, <3>1
    <3>3. QED
      BY <3>2, <3>a, <3>b
  <2>6. /\ hold' \in [Workers -> {None} \cup 0..scan.taken]
        /\ hold'[w] = 0 /\ hold'[w] # None /\ \A v \in Workers : v # w => hold'[v] = hold[v]
    <3>1. 0 \in 0..scan.taken /\ 0 # None
      BY <2>2, ScanAssumption
    <3>2. QED
      BY <2>1, <2>2, <3>1
  <2>7. \A i \in 1..scan.taken : (\E v \in Workers : hold'[v] = i) \/ scan'.results[i] \in Results
    <3>1. SUFFICES ASSUME NEW i \in 1..scan.taken, i # h
                   PROVE  (\E v \in Workers : hold'[v] = i) \/ scan'.results[i] \in Results
      BY <2>3, <2>5
    <3>2. i \in 1..n
      BY <1>1, <2>2
    <3>3. CASE \E v \in Workers : hold[v] = i
      BY <2>6, <2>a, <3>1, <3>3
    <3>4. CASE scan.results[i] \in Results
      BY <2>5, <3>1, <3>2, <3>4
    <3>5. QED
      BY <1>2, <2>1, <3>3, <3>4
  <2>8. Pool'
    <3>1. ~\A v \in Workers : hold'[v] = None
      BY <2>6
    <3>2. QED
      BY <1>2, <1>a, <2>1, <2>2, <2>4, <2>5, <2>6, <2>7, <3>1 DEF Pool
  <2>9. QED
    BY <1>1, <2>4, <2>8 DEF ScanSound
<1>9. ASSUME NEW w \in Workers, Leave(w) PROVE ScanSound'
  <2>1. /\ scan.phase = "extract" /\ hold[w] = 0 /\ scan.sent = n /\ scan.taken = scan.sent
        /\ hold' = [hold EXCEPT ![w] = None] /\ scan' = scan
    BY <1>9, <1>a DEF Leave
  <2>2. hold \in [Workers -> {None} \cup 0..scan.taken]
    BY <1>2, <2>1
  <2>3. hold' \in [Workers -> {None} \cup 0..scan.taken] /\ \A v \in Workers : hold[v] # 0 => hold'[v] = hold[v]
    BY <2>1, <2>2
  <2>4. \A i \in 1..scan.taken : (\E v \in Workers : hold'[v] = i) \/ scan'.results[i] \in Results
    <3>1. SUFFICES ASSUME NEW i \in 1..scan.taken
                   PROVE  (\E v \in Workers : hold'[v] = i) \/ scan'.results[i] \in Results
      OBVIOUS
    <3>2. i # 0
      OBVIOUS
    <3>3. CASE \E v \in Workers : hold[v] = i
      BY <2>3, <3>2, <3>3
    <3>4. CASE scan.results[i] \in Results
      BY <2>1, <3>4
    <3>5. QED
      BY <1>2, <2>1, <3>3, <3>4
  <2>5. Pool'
    BY <1>2, <1>a, <2>1, <2>3, <2>4 DEF Pool
  <2>6. QED
    BY <1>1, <2>1, <2>5 DEF ScanSound
<1>10. CASE Collect
  <2>a. PICK failed : failed = {i \in DOMAIN scan.results : scan.results[i].failed}
    OBVIOUS
  <2>1. scan.phase = "extract" /\ \A w \in Workers : hold[w] = None
    BY <1>10 DEF Collect
  <2>2. CASE failed # {}
    <3>1. \E why : Finish("error", why)
      BY <1>10, <2>2, <2>a DEF Collect
    <3>2. QED
      BY <3>1, ScanFinishes
  <2>3. CASE failed = {}
    <3>1. scan' = [scan EXCEPT !.phase = "done",
                        !.out = [kind |-> "records", why |-> None,
                                 records |-> [i \in DOMAIN scan.results |-> scan.results[i].file]]]
      BY <1>10, <2>3, <2>a DEF Collect
    <3>2. scan.taken = n /\ DOMAIN scan.results = 1..n
      BY <1>2, <2>1
    <3>3. \A i \in 1..n : scan.results[i] \in Results /\ ~scan.results[i].failed
      <4>1. SUFFICES ASSUME NEW i \in 1..n PROVE scan.results[i] \in Results /\ ~scan.results[i].failed
        OBVIOUS
      <4>2. \A w \in Workers : hold[w] # i
        BY <1>1, <2>1, ScanAssumption
      <4>3. scan.results[i] \in Results
        BY <1>2, <2>1, <3>2, <4>2
      <4>4. QED
        BY <2>3, <2>a, <3>2, <4>3
    <3>4. [i \in DOMAIN scan.results |-> scan.results[i].file] \in Seq(Known)
      <4>1. \A i \in 1..n : scan.results[i].file \in Known
        BY <3>3 DEF Results
      <4>2. [i \in 1..n |-> scan.results[i].file] \in Seq(Known)
        BY <1>1, <4>1
      <4>3. QED
        BY <3>2, <4>2
    <3>5. /\ Shaped(scan', ScanFields) /\ scan'.files = scan.files /\ scan'.phase = "done"
          /\ scan'.out.records = [i \in DOMAIN scan.results |-> scan.results[i].file]
      BY <3>1 DEF ScanSound, Shaped, ScanFields, Start
    <3>6. QED
      BY <1>1, <3>4, <3>5 DEF ScanSound
  <2>4. QED
    BY <2>2, <2>3
<1>11. QED
  BY <1>3, <1>4, <1>5, <1>6, <1>7, <1>8, <1>9, <1>10 DEF ScanNext

(***************************************************************************)
(* The session.                                                            *)
(***************************************************************************)
\* What holds of the command, the graph and the reports between two steps.
SessionTypes ==
    /\ ScanSound
    /\ Shaped(cmd, CmdFields) /\ cmd.records \in Seq(Known)
    /\ Shaped(report, Commands)
SearchSound ==
    /\ Ranked
    /\ dfs = Idle \/ DfsSound
    /\ scc = Idle \/ SccSound(scc)
    /\ cmd.phase = "build" => cmd.opted \subseteq Records
    /\ cmd.phase \in {"cycles", "members"} => DfsSound /\ cmd.opted \subseteq Nodes
    /\ cmd.phase = "members" => SccSound(scc)

\* A step that neither searches the graph nor reports of it.
Quietly ==
    /\ UNCHANGED graphVars
    /\ Shaped(cmd', CmdFields) /\ cmd'.records \in Seq(Known)
    /\ Shaped(report', Commands)
    /\ cmd'.phase \notin {"build", "cycles", "members"}
    /\ cmd'.phase # "done" \/ cmd'.name # "graph" \/ report'["graph"].kind = "error"

\* A command that fails.
LEMMA FailsQuietly ==
    ASSUME SessionTypes, UNCHANGED graphVars, NEW why, Fails(why)
    PROVE  Quietly
<1>1. cmd' = [cmd EXCEPT !.phase = "done"] /\ report' = [report EXCEPT ![cmd.name] = [kind |-> "error", why |-> why]]
  BY DEF Fails, End
<1>2. Shaped(cmd', CmdFields) /\ cmd'.records = cmd.records /\ cmd'.phase = "done" /\ cmd'.name = cmd.name
  BY <1>1 DEF SessionTypes, Shaped, CmdFields, Command
<1>3. Shaped(report', Commands) /\ (cmd.name = "graph" => report'["graph"].kind = "error")
  BY <1>1 DEF SessionTypes, Shaped, Commands
<1>4. QED
  BY <1>2, <1>3 DEF SessionTypes, Quietly

\* A step that moves the command on, whatever else it notes down.
LEMMA MovesQuietly ==
    ASSUME SessionTypes, UNCHANGED graphVars, UNCHANGED report,
           Shaped(cmd', CmdFields), cmd'.records \in Seq(Known),
           cmd'.phase \notin {"build", "cycles", "members", "done"}
    PROVE  Quietly
BY DEF SessionTypes, Quietly

\* A validate that ends.
LEMMA EnvelopeQuietly ==
    ASSUME SessionTypes, UNCHANGED graphVars, NEW c, Envelope(c), Shaped(c, CmdFields),
           c.records \in Seq(Known), c.name # "graph"
    PROVE  Quietly
<1>1. PICK outcome : cmd' = [c EXCEPT !.phase = "done"] /\ report' = [report EXCEPT ![c.name] = outcome]
  BY DEF Envelope
<1>2. Shaped(cmd', CmdFields) /\ cmd'.records = c.records /\ cmd'.phase = "done" /\ cmd'.name = c.name
  BY <1>1 DEF Shaped, CmdFields, Command
<1>3. Shaped(report', Commands)
  BY <1>1 DEF SessionTypes, Shaped
<1>4. QED
  BY <1>2, <1>3 DEF Quietly

\* The parts of a command's state.
LEMMA CommandFields ==
    ASSUME SessionTypes
    PROVE  Shaped(cmd, CmdFields) /\ cmd.records \in Seq(Known)
           /\ CmdFields = {"name", "phase", "offered", "records", "at", "links", "issues", "edges", "opted",
                           "derived", "rows", "visited", "structural", "drift", "notices", "health"}
BY DEF SessionTypes, CmdFields, Command

\* The next command.
LEMMA BeginQuietly ==
    ASSUME SessionTypes, Begin
    PROVE  Quietly
<1>1. cmd' = Command(Head(todo))
  BY DEF Begin
<1>2. Shaped(cmd', CmdFields) /\ cmd'.records = <<>> /\ cmd'.phase = "preflight"
  BY <1>1 DEF Command, CmdFields, Shaped
<1>3. cmd'.records \in Seq(Known)
  BY <1>2
<1>4. QED
  BY <1>2, <1>3, MovesQuietly DEF Begin

\* The boundary preflight.
LEMMA PreflightQuietly ==
    ASSUME SessionTypes, Preflight
    PROVE  Quietly
<1>1. \/ \E why : Fails(why)
      \/ /\ UNCHANGED report
         /\ \E o : cmd' = [cmd EXCEPT !.phase = After, !.offered = o]
  <2>1. [cmd EXCEPT !.phase = After] = [cmd EXCEPT !.phase = After, !.offered = cmd.offered]
    BY CommandFields DEF Shaped
  <2>2. QED
    BY <2>1 DEF Preflight, Admit, Declare, To
<1>2. CASE \E why : Fails(why)
  BY <1>2, FailsQuietly DEF Preflight
<1>3. CASE UNCHANGED report /\ \E o : cmd' = [cmd EXCEPT !.phase = After, !.offered = o]
  <2>1. After \in {"start", "health", "files"}
    BY DEF After
  <2>2. Shaped(cmd', CmdFields) /\ cmd'.records = cmd.records /\ cmd'.phase = After
    BY <1>3, CommandFields DEF Shaped
  <2>3. QED
    BY <1>3, <2>1, <2>2, CommandFields, MovesQuietly DEF Preflight
<1>4. QED
  BY <1>1, <1>2, <1>3

\* The commands' own steps up to the graph.
LEMMA GraphQuietly ==
    ASSUME SessionTypes,
           \/ GraphStart \/ GraphScanned \/ Ensure \/ FilterStyles \/ Enrich \/ Stop \/ FilterWhere
           \/ CollectIssues \/ Prepare \/ FilterTypes
    PROVE  Quietly
<1>1. UNCHANGED graphVars
  BY DEF GraphStart, GraphScanned, Ensure, FilterStyles, Enrich, Stop, FilterWhere,
         CollectIssues, Prepare, FilterTypes, Phase
<1>2. CASE \E why : Fails(why)
  BY <1>1, <1>2, FailsQuietly
<1>3. ASSUME ~\E why : Fails(why)
      PROVE  /\ UNCHANGED report /\ Shaped(cmd', CmdFields) /\ cmd'.records \in Seq(Known)
             /\ cmd'.phase \notin {"build", "cycles", "members", "done"}
  <2>1. CASE GraphStart
    BY <2>1, CommandFields DEF GraphStart, To, Shaped
  <2>2. CASE GraphScanned
    <3>1. UNCHANGED report /\ cmd' = [cmd EXCEPT !.phase = "ensure", !.records = scan.out.records, !.links = tree.links]
      BY <1>3, <2>2 DEF GraphScanned
    <3>2. scan.out.records \in Seq(Known)
      BY DEF SessionTypes, ScanSound
    <3>3. QED
      BY <3>1, <3>2, CommandFields DEF Shaped
  <2>3. CASE Ensure \/ Enrich
    <3>1. UNCHANGED report /\ \E p \in {"styles", "where"} : cmd' = [cmd EXCEPT !.phase = p]
      BY <1>3, <2>3 DEF Ensure, Enrich, Phase
    <3>2. QED
      BY <3>1, CommandFields DEF Shaped
  <2>4. CASE FilterStyles
    <3>1. UNCHANGED report /\ \E l : cmd' = [[cmd EXCEPT !.links = l] EXCEPT !.phase = "enrich"]
      BY <1>3, <2>4 DEF FilterStyles, Phase
    <3>2. QED
      BY <3>1, CommandFields DEF Shaped
  <2>5. CASE Stop
    BY <1>3, <2>5 DEF Stop
  <2>6. CASE FilterWhere
    <3>1. UNCHANGED report /\ cmd' = [[cmd EXCEPT !.records = Kept(@, tree.where)] EXCEPT !.phase = "issues"]
      BY <1>3, <2>6 DEF FilterWhere, Phase
    <3>2. cmd' = [[cmd EXCEPT !.records = Kept(cmd.records, tree.where)] EXCEPT !.phase = "issues"]
      BY <3>1, CommandFields DEF Shaped
    <3>3. Kept(cmd.records, tree.where) \in Seq(Known \cap tree.where)
      BY CommandFields, KeptWithin
    <3>4. Kept(cmd.records, tree.where) \in Seq(Known)
      BY <3>3
    <3>5. QED
      BY <3>1, <3>2, <3>4, CommandFields DEF Shaped
  <2>7. CASE CollectIssues
    <3>1. UNCHANGED report /\ \E l : cmd' = [[cmd EXCEPT !.issues = l] EXCEPT !.phase = "prepare"]
      BY <1>3, <2>7 DEF CollectIssues, Phase
    <3>2. QED
      BY <3>1, CommandFields DEF Shaped
  <2>8. CASE Prepare
    <3>1. UNCHANGED report /\ \E l : cmd' = [[cmd EXCEPT !.edges = l] EXCEPT !.phase = "types"]
      BY <1>3, <2>8 DEF Prepare, Phase
    <3>2. QED
      BY <3>1, CommandFields DEF Shaped
  <2>9. CASE FilterTypes
    <3>1. UNCHANGED report /\ \E l : cmd' = [[cmd EXCEPT !.edges = l] EXCEPT !.phase = "scope"]
      BY <1>3, <2>9, ZenonT(40) DEF FilterTypes, Phase
    <3>2. QED
      BY <3>1, CommandFields DEF Shaped
  <2>10. QED
    BY <2>1, <2>2, <2>3, <2>4, <2>5, <2>6, <2>7, <2>8, <2>9
<1>4. QED
  BY <1>1, <1>2, <1>3, MovesQuietly

\* One file of those named (validateFileResult): its row, and what there is to
\* note of the rules it is judged by.
LEMMA FileRow ==
    ASSUME SessionTypes, ValidateFile, ~\E why : Fails(why), NEW f, f = cmd.records[cmd.at]
    PROVE  /\ UNCHANGED report /\ cmd.phase = "each"
           /\ Shaped(cmd', CmdFields) /\ cmd'.name = cmd.name /\ cmd'.phase = cmd.phase /\ cmd'.offered = cmd.offered
           /\ cmd'.records = cmd.records /\ cmd'.at = cmd.at + 1 /\ cmd.notices \subseteq cmd'.notices
           /\ \E row : /\ cmd'.rows = RowsWith(cmd.rows, f, row)
                       /\ \/ row = {<<"excluded", f>>} \/ "unresolved" \in cmd'.notices
                          \/ Resolve(stems, Dir(f)) = "governed" /\ Notice(stems, Dir(f)) \subseteq cmd'.notices
<1>a. /\ Shaped(cmd, CmdFields)
      /\ CmdFields = {"name", "phase", "offered", "records", "at", "links", "issues", "edges", "opted",
                      "derived", "rows", "visited", "structural", "drift", "notices", "health"}
  BY CommandFields
<1>1. cmd.phase = "each" /\ UNCHANGED report
  BY DEF ValidateFile, Now
<1>2. \A row : LET c == Row(f, row) IN
          /\ Shaped(c, CmdFields) /\ c.name = cmd.name /\ c.phase = cmd.phase /\ c.offered = cmd.offered
          /\ c.records = cmd.records /\ c.notices = cmd.notices /\ c.at = cmd.at + 1
          /\ c.rows = RowsWith(cmd.rows, f, row)
  <2>1. SUFFICES ASSUME NEW row
                 PROVE  LET c == Row(f, row) IN
                        /\ Shaped(c, CmdFields) /\ c.name = cmd.name /\ c.phase = cmd.phase /\ c.offered = cmd.offered
                        /\ c.records = cmd.records /\ c.notices = cmd.notices /\ c.at = cmd.at + 1
                        /\ c.rows = RowsWith(cmd.rows, f, row)
    OBVIOUS
  <2>2. Row(f, row) = [cmd EXCEPT !.rows = RowsWith(cmd.rows, f, row), !.at = cmd.at + 1]
    BY <1>a DEF Row, Shaped
  <2>3. QED
    BY <1>a, <2>2 DEF Shaped
<1>3. \/ cmd' = Row(f, {<<"excluded", f>>})
      \/ \E row : cmd' = [[Row(f, row) EXCEPT !.notices = @ \cup Notice(stems, Dir(f))]
                                       EXCEPT !.notices = @ \cup {"unresolved"}]
      \/ /\ Resolve(stems, Dir(f)) = "governed"
         /\ \E row : cmd' = [Row(f, row) EXCEPT !.notices = @ \cup Notice(stems, Dir(f))]
  BY DEF ValidateFile
<1>4. CASE cmd' = Row(f, {<<"excluded", f>>})
  BY <1>1, <1>2, <1>4
<1>5. CASE \E row : cmd' = [[Row(f, row) EXCEPT !.notices = @ \cup Notice(stems, Dir(f))]
                                         EXCEPT !.notices = @ \cup {"unresolved"}]
  <2>1. PICK row, c : c = Row(f, row) /\ cmd' = [[c EXCEPT !.notices = @ \cup Notice(stems, Dir(f))]
                                                    EXCEPT !.notices = @ \cup {"unresolved"}]
    BY <1>5
  <2>2. /\ Shaped(c, CmdFields) /\ c.name = cmd.name /\ c.phase = cmd.phase /\ c.offered = cmd.offered
        /\ c.records = cmd.records /\ c.notices = cmd.notices /\ c.at = cmd.at + 1
        /\ c.rows = RowsWith(cmd.rows, f, row)
    BY <1>2, <2>1, SMTT(30)
  <2>3. /\ Shaped(cmd', CmdFields) /\ cmd'.name = cmd.name /\ cmd'.phase = cmd.phase /\ cmd'.offered = cmd.offered
        /\ cmd'.records = cmd.records /\ cmd'.at = cmd.at + 1 /\ cmd.notices \subseteq cmd'.notices
        /\ cmd'.rows = RowsWith(cmd.rows, f, row) /\ "unresolved" \in cmd'.notices
    BY <1>a, <2>1, <2>2, Zenon DEF Shaped
  <2>4. QED
    BY <1>1, <2>3
<1>6. CASE /\ Resolve(stems, Dir(f)) = "governed"
           /\ \E row : cmd' = [Row(f, row) EXCEPT !.notices = @ \cup Notice(stems, Dir(f))]
  <2>1. PICK row, c : c = Row(f, row) /\ cmd' = [c EXCEPT !.notices = @ \cup Notice(stems, Dir(f))]
    BY <1>6
  <2>2. /\ Shaped(c, CmdFields) /\ c.name = cmd.name /\ c.phase = cmd.phase /\ c.offered = cmd.offered
        /\ c.records = cmd.records /\ c.notices = cmd.notices /\ c.at = cmd.at + 1
        /\ c.rows = RowsWith(cmd.rows, f, row)
    BY <1>2, <2>1
  <2>3. /\ Shaped(cmd', CmdFields) /\ cmd'.name = cmd.name /\ cmd'.phase = cmd.phase /\ cmd'.offered = cmd.offered
        /\ cmd'.records = cmd.records /\ cmd'.at = cmd.at + 1 /\ cmd.notices \subseteq cmd'.notices
        /\ cmd'.rows = RowsWith(cmd.rows, f, row) /\ Notice(stems, Dir(f)) \subseteq cmd'.notices
    BY <1>a, <2>1, <2>2 DEF Shaped
  <2>4. QED
    BY <1>1, <1>6, <2>3
<1>7. QED
  BY <1>3, <1>4, <1>5, <1>6, Zenon

\* The steps of validate.
LEMMA ValidateQuietly ==
    ASSUME SessionTypes, ValidateNext
    PROVE  Quietly
<1>1. UNCHANGED graphVars /\ cmd.name # "graph"
  BY DEF ValidateNext, Health, AllScanned, CheckBoundary, FilterAll, ValidateRecord,
         ValidateDirectories, DetectDrift, NameFiles, ValidateFile, FilesDone, Derive, Now, Quiet
<1>2. CASE \E why : Fails(why)
  BY <1>1, <1>2, FailsQuietly
<1>3. CASE \E c : Envelope(c) /\ Shaped(c, CmdFields) /\ c.records = cmd.records /\ c.name = cmd.name
  BY <1>1, <1>3, CommandFields, EnvelopeQuietly
<1>4. ASSUME ~\E why : Fails(why), ~\E c : Envelope(c) /\ Shaped(c, CmdFields) /\ c.records = cmd.records /\ c.name = cmd.name
      PROVE  /\ UNCHANGED report /\ Shaped(cmd', CmdFields) /\ cmd'.records \in Seq(Known)
             /\ cmd'.phase \notin {"build", "cycles", "members", "done"}
  <2>1. CASE Health
    <3>1. UNCHANGED report /\ \E h : cmd' = [cmd EXCEPT !.phase = "scan", !.health = h]
      BY <2>1 DEF Health
    <3>2. QED
      BY <3>1, CommandFields DEF Shaped
  <2>2. CASE AllScanned
    <3>1. CASE scan.out.kind # "records"
      <4>1. Envelope([cmd EXCEPT !.notices = {"scan failed"}])
        BY <2>2, <3>1 DEF AllScanned
      <4>2. Shaped([cmd EXCEPT !.notices = {"scan failed"}], CmdFields)
            /\ [cmd EXCEPT !.notices = {"scan failed"}].records = cmd.records
            /\ [cmd EXCEPT !.notices = {"scan failed"}].name = cmd.name
        BY CommandFields DEF Shaped
      <4>3. QED
        BY <1>4, <4>1, <4>2
    <3>2. CASE scan.out.kind = "records"
      <4>1. UNCHANGED report /\ cmd' = [cmd EXCEPT !.phase = "boundary", !.records = scan.out.records]
        BY <2>2, <3>2 DEF AllScanned
      <4>2. scan.out.records \in Seq(Known)
        BY DEF SessionTypes, ScanSound
      <4>3. QED
        BY <4>1, <4>2, CommandFields DEF Shaped
    <3>3. QED
      BY <3>1, <3>2
  <2>3. CASE CheckBoundary
    <3>1. UNCHANGED report /\ \E n : cmd' = [cmd EXCEPT !.phase = "derive", !.notices = n]
      <4>1. cmd' = [cmd EXCEPT !.phase = "derive",
                   !.notices = cmd.notices \cup Notice(stems, Root) \cup {n \in {"no records"} : cmd.records = <<>>}]
        BY <2>3, CommandFields DEF CheckBoundary, Shaped
      <4>2. QED
        BY <2>3, <4>1 DEF CheckBoundary
    <3>2. QED
      BY <3>1, CommandFields DEF Shaped
  <2>4. CASE FilterAll
    <3>1. UNCHANGED report /\ cmd' = [cmd EXCEPT !.phase = "corpus", !.records = Kept(cmd.records, tree.where)]
      BY <2>4, CommandFields DEF FilterAll, Shaped
    <3>2. Kept(cmd.records, tree.where) \in Seq(Known \cap tree.where)
      BY CommandFields, KeptWithin
    <3>3. Kept(cmd.records, tree.where) \in Seq(Known)
      BY <3>2
    <3>4. QED
      BY <3>1, <3>3, CommandFields DEF Shaped
  <2>5. CASE ValidateRecord
    <3>1. UNCHANGED report /\ \E r, a, n, v : cmd' = [cmd EXCEPT !.rows = r, !.at = a, !.notices = n, !.visited = v]
      <4>a. PICK f : f = cmd.records[cmd.at]
        OBVIOUS
      <4>1. \A row : \E r, a : Row(f, row) = [cmd EXCEPT !.rows = r, !.at = a]
        BY CommandFields DEF Row, Shaped
      <4>2. \E row, x : \/ cmd' = [Row(f, row) EXCEPT !.visited = @ \cup x]
                        \/ cmd' = [Row(f, row) EXCEPT !.notices = @ \cup x]
        BY <2>5, <4>a DEF ValidateRecord
      <4>3. PICK row, x : \/ cmd' = [Row(f, row) EXCEPT !.visited = @ \cup x]
                          \/ cmd' = [Row(f, row) EXCEPT !.notices = @ \cup x]
        BY <4>2
      <4>4. PICK r, a : Row(f, row) = [cmd EXCEPT !.rows = r, !.at = a]
        BY <4>1
      <4>5. \/ cmd' = [cmd EXCEPT !.rows = r, !.at = a, !.notices = cmd.notices, !.visited = cmd.visited \cup x]
            \/ cmd' = [cmd EXCEPT !.rows = r, !.at = a, !.notices = cmd.notices \cup x, !.visited = cmd.visited]
        BY <4>3, <4>4, CommandFields, ZenonT(40) DEF Shaped
      <4>6. UNCHANGED report
        BY <2>5 DEF ValidateRecord
      <4>7. PICK n, v : cmd' = [cmd EXCEPT !.rows = r, !.at = a, !.notices = n, !.visited = v]
        BY <4>5
      <4>8. QED
        BY <4>6, <4>7
    <3>2. QED
      BY <2>5, <3>1, CommandFields, Zenon DEF Shaped, ValidateRecord, Now
  <2>6. CASE ValidateDirectories
    <3>1. UNCHANGED report /\ \E s, n : cmd' = [cmd EXCEPT !.phase = "drift", !.structural = s, !.notices = n]
      BY <2>6, CommandFields DEF ValidateDirectories, Shaped
    <3>2. QED
      BY <3>1, CommandFields DEF Shaped
  <2>7. CASE DetectDrift
    <3>1. \E d, n : Envelope([cmd EXCEPT !.drift = d, !.notices = n])
      BY <2>7, CommandFields DEF DetectDrift, Shaped
    <3>2. \A d, n : LET c == [cmd EXCEPT !.drift = d, !.notices = n]
                    IN  Shaped(c, CmdFields) /\ c.records = cmd.records /\ c.name = cmd.name
      BY CommandFields DEF Shaped
    <3>3. PICK d, n : Envelope([cmd EXCEPT !.drift = d, !.notices = n])
      BY <3>1
    <3>4. PICK c : c = [cmd EXCEPT !.drift = d, !.notices = n]
      OBVIOUS
    <3>5. Envelope(c) /\ Shaped(c, CmdFields) /\ c.records = cmd.records /\ c.name = cmd.name
      BY <3>2, <3>3, <3>4
    <3>6. QED
      BY <1>4, <3>5
  <2>8. CASE NameFiles
    <3>1. UNCHANGED report /\ cmd' = [cmd EXCEPT !.phase = "each", !.records = ThereNow]
      BY <2>8 DEF NameFiles
    <3>2. ThereNow \in Seq(Entries \cap (Known \ gone))
      BY ScanAssumption, KeptWithin DEF ThereNow
    <3>3. ThereNow \in Seq(Known)
      BY <3>2
    <3>4. QED
      BY <3>1, <3>3, CommandFields DEF Shaped
  <2>9. CASE ValidateFile
    BY <1>4, <2>9, FileRow, CommandFields
  <2>10. CASE FilesDone
    <3>1. Envelope(cmd)
      BY <2>10 DEF FilesDone
    <3>2. QED
      BY <1>4, <3>1, CommandFields
  <2>11. ASSUME NEW i \in 1..3, Derive(i)
         PROVE  /\ UNCHANGED report /\ Shaped(cmd', CmdFields) /\ cmd'.records \in Seq(Known)
                /\ cmd'.phase \notin {"build", "cycles", "members", "done"}
    <3>1. \/ \E n, r : Envelope([cmd EXCEPT !.notices = n, !.rows = r])
          \/ UNCHANGED report /\ \E d : cmd' = [cmd EXCEPT !.phase = Derivations[i + 1], !.derived = d]
      BY <2>11, CommandFields DEF Derive, To, Shaped
    <3>2. \A n, r : LET c == [cmd EXCEPT !.notices = n, !.rows = r]
                    IN  Shaped(c, CmdFields) /\ c.records = cmd.records /\ c.name = cmd.name
      BY CommandFields DEF Shaped
    <3>3. Derivations[i + 1] \in {"builtins", "aggregate", "where"}
      BY DEF Derivations
    <3>4. ~\E n, r : Envelope([cmd EXCEPT !.notices = n, !.rows = r])
      <4>1. SUFFICES ASSUME NEW n, NEW r, Envelope([cmd EXCEPT !.notices = n, !.rows = r]) PROVE FALSE
        OBVIOUS
      <4>2. PICK c : c = [cmd EXCEPT !.notices = n, !.rows = r]
        OBVIOUS
      <4>3. Envelope(c) /\ Shaped(c, CmdFields) /\ c.records = cmd.records /\ c.name = cmd.name
        BY <3>2, <4>1, <4>2
      <4>4. QED
        BY <1>4, <4>3
    <3>5. UNCHANGED report /\ \E d : cmd' = [cmd EXCEPT !.phase = Derivations[i + 1], !.derived = d]
      BY <3>1, <3>4
    <3>6. QED
      BY <3>3, <3>5, CommandFields DEF Shaped
  <2>12. QED
    BY <2>1, <2>2, <2>3, <2>4, <2>5, <2>6, <2>7, <2>8, <2>9, <2>10, <2>11 DEF ValidateNext
<1>5. QED
  BY <1>1, <1>2, <1>3, <1>4, MovesQuietly, SMTT(30)

\* Steps that leave the links alone.
LEMMA SccStays ==
    ASSUME adj' = adj, NEW z, SccSound(z)
    PROVE  SccSound(z)'
<1>1. Nodes' = Nodes /\ Frames' = Frames /\ \A n : OnCycle(n)' = OnCycle(n)
  BY SameGraph
<1>2. \A x, y : Reaches(x, y)' = Reaches(x, y)
  BY SameGraph
<1>3. Sccs' = Sccs /\ On(z)' = On(z) /\ \A i : Under(z, i)' = Under(z, i)
  BY <1>1 DEF Sccs, On, Under
<1>4. /\ Popped(z)' = Popped(z) /\ \A x, y : Leads(x, y)' = Leads(x, y)
      /\ \A n, q : Looked(z, n, q)' = Looked(z, n, q)
      /\ \A x, i : NotBelow(z, x, i)' = NotBelow(z, x, i)
  BY <1>1, <1>2, <1>3 DEF Popped, Leads, Looked, NotBelow
<1>5. SccOrder(z)' = SccOrder(z)
  BY <1>1, <1>3 DEF SccOrder
<1>6. SccDown(z)' = SccDown(z) /\ SccUp(z)' = SccUp(z)
  BY <1>3, <1>4 DEF SccDown, SccUp
<1>7. SccLow(z)' = SccLow(z)
  <2>1. \A i, l : Lowest(z, i, l)' = Lowest(z, i, l)
    BY <1>3, <1>4 DEF Lowest
  <2>2. QED
    BY <1>3, <2>1 DEF SccLow
<1>8. SccDone(z)' = SccDone(z) /\ SccMembers(z)' = SccMembers(z) /\ SccLooked(z)' = SccLooked(z)
  BY <1>1, <1>4 DEF SccDone, SccMembers, SccLooked
<1>9. QED
  BY <1>1, <1>3, <1>5, <1>6, <1>7, <1>8 DEF SccSound, SccSoundBut

\* A step of either search.
LEMMA SearchSteps ==
    ASSUME SearchSound, GraphStep, UNCHANGED cmd
    PROVE  SearchSound'
<1>1. adj' = adj /\ Nodes' = Nodes /\ Ranked'
  BY SameGraph DEF SearchSound, GraphStep, DfsRoot, DfsEdge, DfsLeave, SccRoot, SccEdge, SccLeave
<1>2. CASE DfsRoot \/ DfsEdge \/ DfsLeave
  <2>1. DfsSound /\ Ranked /\ scc' = scc
    BY <1>2 DEF SearchSound, DfsRoot, DfsEdge, DfsLeave, Idle
  <2>2. DfsSound'
    BY <1>2, <2>1, DfsRootSound, DfsEdgeSound, DfsLeaveSound
  <2>3. SccSound(scc) => SccSound(scc)'
    <3>1. PICK z : z = scc
      OBVIOUS
    <3>2. z' = z /\ z = scc'
      BY <2>1, <3>1
    <3>3. SccSound(z) => SccSound(z)'
      BY <1>1, SccStays
    <3>4. QED
      BY <3>1, <3>2, <3>3
  <2>4. QED
    BY <1>1, <2>1, <2>2, <2>3 DEF SearchSound, Records
<1>3. CASE SccRoot \/ SccEdge \/ SccLeave
  <2>1. SccSound(scc) /\ Ranked /\ dfs' = dfs
    BY <1>3 DEF SearchSound, SccRoot, SccEdge, SccLeave, Idle
  <2>2. PICK z : z = scc'
    OBVIOUS
  <2>3. SccSound(z)
    BY <1>3, <2>1, <2>2, SccRootSound, SccEdgeSound, LeaveSound
  <2>4. SccSound(z)'
    BY <1>1, <2>3, SccStays
  <2>5. SccSound(scc)'
    BY <2>2, <2>4
  <2>6. DfsSound => DfsSound'
    BY <1>1, <2>1, DfsStays
  <2>7. QED
    BY <1>1, <2>1, <2>5, <2>6 DEF SearchSound, Records
<1>4. QED
  BY <1>2, <1>3 DEF GraphStep

\* The inductive invariant.
SessionSound == SessionTypes /\ SearchSound /\ OptedInCycleFails

\* A quiet step keeps the invariant.
LEMMA QuietlySound ==
    ASSUME SessionSound, ScanSound', Quietly
    PROVE  SessionSound'
<1>1. SessionTypes'
  BY DEF SessionTypes, Quietly
<1>2. adj' = adj /\ dfs' = dfs /\ scc' = scc
  BY DEF Quietly, graphVars
<1>3. Ranked'
  BY <1>2, SameGraph DEF SessionSound, SearchSound
<1>4. DfsSound => DfsSound'
  BY <1>2, DfsStays
<1>5. SccSound(scc) => SccSound(scc)'
  <2>1. PICK z : z = scc
    OBVIOUS
  <2>2. SccSound(z) => SccSound(z)'
    BY <1>2, SccStays
  <2>3. QED
    BY <1>2, <2>1, <2>2
<1>6. SearchSound'
  BY <1>2, <1>3, <1>4, <1>5 DEF SessionSound, SearchSound, Quietly
<1>7. OptedInCycleFails'
  BY DEF Quietly, OptedInCycleFails
<1>8. QED
  BY <1>1, <1>6, <1>7 DEF SessionSound

\* The command is where it was, and so is the graph.
LEMMA ElsewhereSound ==
    ASSUME SessionSound, ScanSound', UNCHANGED <<graphVars, cmd, report>>
    PROVE  SessionSound'
<1>1. SessionTypes'
  BY DEF SessionSound, SessionTypes
<1>2. adj' = adj /\ dfs' = dfs /\ scc' = scc /\ cmd' = cmd /\ report' = report /\ Nodes' = Nodes
  BY SameGraph DEF graphVars
<1>3. Ranked'
  BY <1>2, SameGraph DEF SessionSound, SearchSound
<1>4. DfsSound => DfsSound'
  BY <1>2, DfsStays
<1>5. SccSound(scc) => SccSound(scc)'
  <2>1. PICK z : z = scc
    OBVIOUS
  <2>2. SccSound(z) => SccSound(z)'
    BY <1>2, SccStays
  <2>3. QED
    BY <1>2, <2>1, <2>2
<1>6. SearchSound'
  BY <1>2, <1>3, <1>4, <1>5 DEF SessionSound, SearchSound, Records
<1>7. OptedInCycleFails'
  <2>1. \A n : OnCycle(n)' = OnCycle(n)
    BY <1>2, SameGraph
  <2>2. QED
    BY <1>2, <2>1 DEF SessionSound, OptedInCycleFails
<1>8. QED
  BY <1>1, <1>6, <1>7 DEF SessionSound

\* The graph of the records (internal/graph, BuildGraph).
LEMMA BuildSound ==
    ASSUME SessionSound, ScanSound', cmd.name = "graph", BuildGraph
    PROVE  SessionSound'
<1>1. /\ cmd' = [cmd EXCEPT !.phase = "cycles"] /\ report' = report
      /\ adj' = Adjacency(Records, cmd.edges) /\ dfs' = DfsStart /\ scc' = Idle
      /\ cmd.phase = "build"
  BY DEF BuildGraph, To
<1>2. /\ Shaped(cmd', CmdFields) /\ cmd'.records = cmd.records /\ cmd'.phase = "cycles" /\ cmd'.opted = cmd.opted
  BY <1>1, CommandFields DEF SessionSound, Shaped
<1>3. SessionTypes'
  BY <1>1, <1>2 DEF SessionSound, SessionTypes
<1>4. Records \subseteq Range(Lexical)
  BY CommandFields, SessionAssumption DEF SessionSound, Records, Range
<1>5. Nodes' = Records /\ adj' \in [Records -> SUBSET Records]
  BY <1>1 DEF Nodes, Adjacency
<1>6. Ranked'
  BY <1>4, <1>5 DEF Ranked
<1>7. DfsSound'
  <2>1. dfs' = DfsStart'
    BY <1>1 DEF DfsStart
  <2>2. (dfs = DfsStart => DfsSound)'
    BY DfsStarts, PTL
  <2>3. QED
    BY <2>1, <2>2
<1>8. cmd.opted \subseteq Records
  BY <1>1 DEF SessionSound, SearchSound
<1>9. SearchSound'
  BY <1>1, <1>2, <1>5, <1>6, <1>7, <1>8 DEF SearchSound, Idle
<1>10. OptedInCycleFails'
  BY <1>2 DEF OptedInCycleFails
<1>11. QED
  BY <1>3, <1>9, <1>10 DEF SessionSound

\* Which documents opt in (CycleFailureScope).
LEMMA OptInSound ==
    ASSUME SessionSound, ScanSound', cmd.name = "graph", OptIn
    PROVE  SessionSound'
<1>1. UNCHANGED graphVars
  BY DEF OptIn, Phase
<1>2. CASE \E why : Fails(why)
  BY <1>1, <1>2, FailsQuietly, QuietlySound DEF SessionSound
<1>3. CASE ~\E why : Fails(why)
  <2>1. /\ report' = report
        /\ \E S \in SUBSET Records : cmd' = [[cmd EXCEPT !.opted = S] EXCEPT !.phase = "build"]
    BY <1>3 DEF OptIn, Phase
  <2>2. /\ Shaped(cmd', CmdFields) /\ cmd'.records = cmd.records /\ cmd'.phase = "build"
        /\ cmd'.opted \subseteq Records
    BY <2>1, CommandFields DEF SessionSound, Shaped
  <2>3. SessionTypes'
    BY <2>1, <2>2 DEF SessionSound, SessionTypes
  <2>4. adj' = adj /\ dfs' = dfs /\ scc' = scc
    BY <1>1 DEF graphVars
  <2>5. Ranked' /\ (DfsSound => DfsSound')
    BY <2>4, SameGraph, DfsStays DEF SessionSound, SearchSound
  <2>6. SccSound(scc) => SccSound(scc)'
    <3>1. PICK z : z = scc
      OBVIOUS
    <3>2. SccSound(z) => SccSound(z)'
      BY <2>4, SccStays
    <3>3. QED
      BY <2>4, <3>1, <3>2
  <2>7. Records' = Records
    BY <2>2 DEF Records
  <2>8. SearchSound'
    BY <2>2, <2>4, <2>5, <2>6, <2>7 DEF SessionSound, SearchSound
  <2>9. OptedInCycleFails'
    BY <2>2 DEF OptedInCycleFails
  <2>10. QED
    BY <2>3, <2>8, <2>9 DEF SessionSound
<1>4. QED
  BY <1>2, <1>3

\* What graph --check reports of the cycles.
LEMMA ReportSound ==
    ASSUME SessionSound, ScanSound', cmd.name = "graph", UNCHANGED <<adj, dfs, scc>>,
           NEW fails, NEW flag, Report(fails, flag),
           ~flag => (fails <=> \E n \in cmd.opted : OnCycle(n))
    PROVE  SessionSound'
<1>a. PICK r : r = [kind |-> "graph", cycles |-> dfs.cycles, opted |-> cmd.opted, fails |-> fails, flag |-> flag,
                    broken |-> BrokenLinks, issues |-> cmd.issues,
                    ok |-> ~(fails /\ dfs.cycles # {}) /\ BrokenLinks = {} /\ cmd.issues = {}]
  OBVIOUS
<1>b. cmd' = [cmd EXCEPT !.phase = "done"] /\ report' = [report EXCEPT !["graph"] = r]
  BY <1>a DEF Report, End
<1>1. /\ r.kind = "graph" /\ r.opted = cmd.opted /\ r.fails = fails /\ r.flag = flag
      /\ cmd' = [cmd EXCEPT !.phase = "done"] /\ report' = [report EXCEPT !["graph"] = r]
  BY <1>a, <1>b
<1>2. Shaped(cmd', CmdFields) /\ cmd'.records = cmd.records /\ cmd'.phase = "done"
  BY <1>1, CommandFields DEF SessionSound, Shaped
<1>3. Shaped(report', Commands) /\ report'["graph"] = r
  BY <1>1 DEF SessionSound, SessionTypes, Shaped, Commands
<1>4. SessionTypes'
  BY <1>2, <1>3 DEF SessionSound, SessionTypes
<1>5. Ranked' /\ (DfsSound => DfsSound')
  BY SameGraph, DfsStays DEF SessionSound, SearchSound
<1>6. SccSound(scc) => SccSound(scc)'
  <2>1. PICK z : z = scc
    OBVIOUS
  <2>2. SccSound(z) => SccSound(z)'
    BY SccStays
  <2>3. QED
    BY <2>1, <2>2
<1>7. SearchSound'
  BY <1>2, <1>5, <1>6 DEF SessionSound, SearchSound
<1>8. \A n : OnCycle(n)' = OnCycle(n)
  BY SameGraph
<1>9. OptedInCycleFails'
  BY <1>1, <1>3, <1>8 DEF OptedInCycleFails
<1>10. QED
  BY <1>4, <1>7, <1>9 DEF SessionSound

\* Whether the cycles fail the check (cmd/rootline/graph.go).
LEMMA DecideSound ==
    ASSUME SessionSound, ScanSound', cmd.name = "graph", DecideByFlag \/ Decide \/ DecideByMembers
    PROVE  SessionSound'
<1>1. cmd.phase \in {"cycles", "members"} /\ DfsSound /\ cmd.opted \subseteq Nodes /\ Ranked
  BY DEF SessionSound, SearchSound, DecideByFlag, Decide, DecideByMembers
<1>2. CASE DecideByFlag
  <2>1. \E flag \in BOOLEAN : Report(flag, TRUE)
    BY <1>2 DEF DecideByFlag
  <2>2. UNCHANGED <<adj, dfs, scc>>
    BY <1>2 DEF DecideByFlag, graphVars
  <2>3. QED
    BY <2>1, <2>2, ReportSound
<1>3. CASE Decide
  <2>1. dfs.phase = "done" /\ UNCHANGED <<adj, dfs>>
    BY <1>3 DEF Decide
  <2>2. CASE dfs.cycles = {} \/ cmd.opted = {}
    <3>1. Report(FALSE, FALSE) /\ UNCHANGED <<adj, dfs, scc>>
      BY <1>3, <2>2 DEF Decide
    <3>2. ~\E n \in cmd.opted : OnCycle(n)
      <4>1. CyclesReal
        BY <1>1, DfsDone
      <4>2. \A n \in Nodes : OnCycle(n) => \E c \in dfs.cycles : TRUE
        BY <2>1, <4>1 DEF CyclesReal
      <4>3. QED
        BY <1>1, <2>2, <4>2
    <3>3. QED
      BY <3>1, <3>2, ReportSound
  <2>3. CASE ~(dfs.cycles = {} \/ cmd.opted = {})
    <3>1. cmd' = [cmd EXCEPT !.phase = "members"] /\ scc' = SccStart /\ report' = report
      BY <1>3, <2>3 DEF Decide, To
    <3>2. Shaped(cmd', CmdFields) /\ cmd'.records = cmd.records /\ cmd'.phase = "members" /\ cmd'.opted = cmd.opted
      BY <3>1, CommandFields DEF SessionSound, Shaped
    <3>3. SessionTypes'
      BY <3>1, <3>2 DEF SessionSound, SessionTypes
    <3>4. Ranked' /\ DfsSound' /\ Nodes' = Nodes
      BY <1>1, <2>1, SameGraph, DfsStays
    <3>5. SccSound(scc)'
      <4>1. PICK z : z = SccStart
        OBVIOUS
      <4>2. SccSound(z)'
        BY <1>1, <2>1, <4>1, SccStarts, SccStays
      <4>3. QED
        BY <3>1, <4>1, <4>2
    <3>6. SearchSound'
      BY <1>1, <3>2, <3>4, <3>5 DEF SearchSound
    <3>7. OptedInCycleFails'
      BY <3>2 DEF OptedInCycleFails
    <3>8. QED
      BY <3>3, <3>6, <3>7 DEF SessionSound
  <2>4. QED
    BY <2>2, <2>3
<1>4. CASE DecideByMembers
  <2>1. /\ cmd.phase = "members" /\ scc.phase = "done" /\ UNCHANGED <<adj, dfs, scc>>
        /\ Report(cmd.opted \cap scc.members # {}, FALSE)
    BY <1>4 DEF DecideByMembers, graphVars
  <2>2. scc.members = {n \in Nodes : OnCycle(n)}
    <3>1. SccSound(scc)
      BY <2>1 DEF SessionSound, SearchSound
    <3>2. QED
      BY <1>1, <2>1, <3>1, SccEnd
  <2>3. cmd.opted \cap scc.members # {} <=> \E n \in cmd.opted : OnCycle(n)
    BY <1>1, <2>2
  <2>4. QED
    BY <2>1, <2>3, ReportSound
<1>5. QED
  BY <1>2, <1>3, <1>4

\* The invariant holds at the start.
LEMMA SessionStarts == Init => SessionSound
<1> SUFFICES ASSUME Init PROVE SessionSound
  OBVIOUS
<1>1. PICK t : ScanInit(t)
  BY DEF Init
<1>2. ScanSound
  <2>1. scan = [Start(FALSE, FALSE) EXCEPT !.phase = "done"]
    BY <1>1 DEF ScanInit
  <2>2. Shaped(scan, ScanFields) /\ scan.files = <<>> /\ scan.out = Running /\ scan.phase = "done"
    BY <2>1 DEF Start, Shaped, ScanFields
  <2>3. scan.files \in Seq(Known) /\ scan.out.records \in Seq(Known)
    BY <2>2 DEF Running
  <2>4. QED
    BY <2>2, <2>3 DEF ScanSound
<1>3. Shaped(cmd, CmdFields) /\ cmd.records = <<>> /\ cmd.phase = "done"
  BY DEF Init, Command, CmdFields, Shaped
<1>4. Shaped(report, Commands) /\ report["graph"].kind = "none"
  BY DEF Init, Shaped, Commands
<1>5. SessionTypes
  <2>1. cmd.records \in Seq(Known)
    BY <1>3
  <2>2. QED
    BY <1>2, <1>3, <1>4, <2>1 DEF SessionTypes
<1>6. Ranked /\ dfs = Idle /\ scc = Idle
  BY DEF Init, Ranked, Nodes
<1>7. SearchSound
  BY <1>3, <1>6 DEF SearchSound
<1>8. OptedInCycleFails
  BY <1>4 DEF OptedInCycleFails
<1>9. QED
  BY <1>5, <1>7, <1>8 DEF SessionSound

\* Every step of a session keeps it.
LEMMA SessionSteps ==
    ASSUME SessionSound, [Next]_vars
    PROVE  SessionSound'
<1>a. SessionTypes /\ ScanSound
  BY DEF SessionSound, SessionTypes
<1>1. CASE UNCHANGED vars
  <2>1. UNCHANGED <<graphVars, cmd, report, scan, hold>>
    BY <1>1 DEF vars, scanVars, graphVars
  <2>2. QED
    BY <1>a, <2>1, ScanStays, ElsewhereSound
<1>2. CASE Begin
  <2>1. ScanSound'
    BY <1>2, <1>a, ScanStays DEF Begin, scanVars
  <2>2. QED
    BY <1>2, <1>a, <2>1, BeginQuietly, QuietlySound
<1>3. CASE Preflight
  <2>1. ScanSound'
    BY <1>3, <1>a, ScanStays DEF Preflight, Admit, Declare, scanVars
  <2>2. QED
    BY <1>3, <1>a, <2>1, PreflightQuietly, QuietlySound
<1>4. CASE Scanning
  <2>1. ScanSound' /\ UNCHANGED <<graphVars, cmd, report>>
    BY <1>4, <1>a, ScanStepSound DEF Scanning
  <2>2. QED
    BY <2>1, ElsewhereSound
<1>5. CASE Mishap
  <2>1. UNCHANGED <<graphVars, cmd, report, scan, hold>>
    BY <1>5 DEF Mishap, Environment, Cancel, Delete, EditStem
  <2>2. QED
    BY <1>a, <2>1, ScanStays, ElsewhereSound
<1>6. CASE ValidateNext
  <2>1. ScanSound'
    <3>1. CASE Health
      BY <3>1, ScanBegins, ZenonT(40) DEF Health
    <3>2. CASE ~Health
      <4>1. UNCHANGED <<scan, hold>>
        BY <1>6, <3>2 DEF ValidateNext, AllScanned, CheckBoundary, FilterAll, ValidateRecord,
           ValidateDirectories, DetectDrift, NameFiles, ValidateFile, FilesDone, Derive, Quiet, scanVars
      <4>2. QED
        BY <1>a, <4>1, ScanStays
    <3>3. QED
      BY <3>1, <3>2
  <2>2. QED
    BY <1>6, <1>a, <2>1, ValidateQuietly, QuietlySound
<1>7. CASE GraphStep /\ UNCHANGED <<scanVars, cmd, report>>
  <2>1. ScanSound'
    BY <1>7, <1>a, ScanStays DEF scanVars
  <2>2. SearchSound'
    BY <1>7, SearchSteps DEF SessionSound
  <2>3. SessionTypes'
    BY <1>7, <1>a, <2>1 DEF SessionTypes
  <2>4. OptedInCycleFails'
    <3>1. adj' = adj
      BY <1>7 DEF GraphStep, DfsRoot, DfsEdge, DfsLeave, SccRoot, SccEdge, SccLeave
    <3>2. \A n : OnCycle(n)' = OnCycle(n)
      BY <3>1, SameGraph
    <3>3. QED
      BY <1>7, <3>2 DEF SessionSound, OptedInCycleFails
  <2>5. QED
    BY <2>2, <2>3, <2>4 DEF SessionSound
<1>8. CASE /\ cmd.name = "graph"
           /\ \/ GraphStart \/ GraphRescan \/ GraphScanned \/ Ensure \/ FilterStyles \/ Enrich \/ Stop \/ FilterWhere
              \/ CollectIssues \/ Prepare \/ FilterTypes \/ OptIn \/ BuildGraph \/ DecideByFlag \/ Decide \/ DecideByMembers
  <2>1. CASE GraphStart
    <3>1. ScanSound'
      BY <2>1, ScanBegins DEF GraphStart
    <3>2. QED
      BY <1>a, <2>1, <3>1, GraphQuietly, QuietlySound
  <2>2. CASE GraphRescan
    <3>1. BeginScan(FALSE, TRUE) /\ UNCHANGED <<graphVars, cmd, report>>
      BY <2>2 DEF GraphRescan, Retry
    <3>2. QED
      BY <3>1, ScanBegins, ElsewhereSound
  <2>3. CASE ~GraphStart /\ ~GraphRescan
    <3>1. UNCHANGED <<scan, hold>>
      BY <1>8, <2>3 DEF GraphScanned, Ensure, FilterStyles, Enrich, Stop, FilterWhere, CollectIssues, Prepare,
         FilterTypes, OptIn, BuildGraph, DecideByFlag, Decide, DecideByMembers, Phase, scanVars
    <3>2. ScanSound'
      BY <1>a, <3>1, ScanStays
    <3>3. QED
      BY <1>8, <1>a, <2>3, <3>2, GraphQuietly, QuietlySound, OptInSound, BuildSound, DecideSound
  <2>4. QED
    BY <2>1, <2>2, <2>3
<1>9. QED
  BY <1>1, <1>2, <1>3, <1>4, <1>5, <1>6, <1>7, <1>8 DEF Next, Over, Working, GraphNext

(***************************************************************************)
(* The walks up and down (internal/rules/discovery.go).                    *)
(***************************************************************************)
\* The names of the entries, and the paths made of them.
Names == UNION {Range(e) : e \in Entries \cup Outer}
Paths == Seq(Names)

LEMMA PlacesArePaths == Places \subseteq Paths /\ Entries \subseteq Paths /\ Root \in Paths
BY ScanAssumption DEF Places, Paths, Names

LEMMA PathLen == \A p \in Paths : Len(p) \in Nat
BY DEF Paths

\* A prefix, name by name.
LEMMA PrefixMeans ==
    ASSUME NEW s \in Paths, NEW t \in Paths
    PROVE  IsPrefix(s, t) <=> Len(s) <= Len(t) /\ \A i \in 1..Len(s) : s[i] = t[i]
<1>1. Len(s) \in Nat /\ Len(t) \in Nat /\ s = [i \in 1..Len(s) |-> s[i]]
  BY DEF Paths
<1>2. CASE Len(s) <= Len(t)
  <2>1. SubSeq(s, 1, Len(s)) = [i \in 1..Len(s) |-> s[i]]
    BY DEF Paths
  <2>2. SubSeq(t, 1, Len(s)) = [i \in 1..Len(s) |-> t[i]]
    BY <1>1, <1>2 DEF Paths
  <2>3. [i \in 1..Len(s) |-> s[i]] = [i \in 1..Len(s) |-> t[i]] <=> \A i \in 1..Len(s) : s[i] = t[i]
    OBVIOUS
  <2>4. QED
    BY <1>2, <2>1, <2>2, <2>3 DEF IsPrefix
<1>3. QED
  BY <1>2 DEF IsPrefix

\* A prefix of a prefix is one.
LEMMA PrefixTrans ==
    ASSUME NEW s \in Paths, NEW t \in Paths, NEW u \in Paths, IsPrefix(s, t), IsPrefix(t, u)
    PROVE  IsPrefix(s, u)
<1>1. Len(s) \in Nat /\ Len(t) \in Nat /\ Len(u) \in Nat
  BY DEF Paths
<1>2. Len(s) <= Len(t) /\ \A i \in 1..Len(s) : s[i] = t[i]
  BY PrefixMeans
<1>3. Len(t) <= Len(u) /\ \A i \in 1..Len(t) : t[i] = u[i]
  BY PrefixMeans
<1>4. Len(s) <= Len(u) /\ \A i \in 1..Len(s) : s[i] = u[i]
  BY <1>1, <1>2, <1>3
<1>5. QED
  BY <1>4, PrefixMeans

\* Of two prefixes of a path, the shorter is a prefix of the longer, and two of
\* one length are one.
LEMMA PrefixesNest ==
    ASSUME NEW s \in Paths, NEW t \in Paths, NEW u \in Paths, IsPrefix(s, u), IsPrefix(t, u), Len(s) <= Len(t)
    PROVE  IsPrefix(s, t) /\ (Len(s) = Len(t) => s = t)
<1>1. Len(s) \in Nat /\ Len(t) \in Nat /\ Len(u) \in Nat
      /\ s = [i \in 1..Len(s) |-> s[i]] /\ t = [i \in 1..Len(t) |-> t[i]]
  BY DEF Paths
<1>2. \A i \in 1..Len(s) : s[i] = u[i]
  BY PrefixMeans
<1>3. \A i \in 1..Len(t) : t[i] = u[i]
  BY PrefixMeans
<1>4. \A i \in 1..Len(s) : s[i] = t[i]
  BY <1>1, <1>2, <1>3
<1>5. IsPrefix(s, t)
  BY <1>4, PrefixMeans, SMTT(30)
<1>6. ASSUME Len(s) = Len(t) PROVE s = t
  <2>1. [i \in 1..Len(s) |-> s[i]] = [i \in 1..Len(t) |-> t[i]]
    BY <1>4, <1>6
  <2>2. QED
    BY <1>1, <2>1
<1>7. QED
  BY <1>5, <1>6

\* The directory of a document is below Root.
LEMMA FileBelowRoot ==
    ASSUME NEW f \in Known
    PROVE  Dir(f) \in Paths /\ IsPrefix(Root, Dir(f))
<1>1. f \in Paths /\ Root \in Paths /\ IsPrefix(Root, f) /\ f # Root
  BY ScanAssumption, PlacesArePaths DEF Files
<1>2. Len(f) \in Nat /\ Len(Root) \in Nat
      /\ f = [i \in 1..Len(f) |-> f[i]] /\ Root = [i \in 1..Len(Root) |-> Root[i]]
  BY <1>1 DEF Paths
<1>3. Len(Root) <= Len(f) /\ \A i \in 1..Len(Root) : Root[i] = f[i]
  BY <1>1, PrefixMeans, SMTT(30)
<1>4. Len(Root) # Len(f)
  <2>1. SUFFICES ASSUME Len(Root) = Len(f) PROVE FALSE
    OBVIOUS
  <2>2. [i \in 1..Len(Root) |-> Root[i]] = [i \in 1..Len(f) |-> f[i]]
    BY <1>3, <2>1
  <2>3. QED
    BY <1>1, <1>2, <2>2
<1>5. Len(f) - 1 \in Nat /\ Len(Root) <= Len(f) - 1
  <2>1. PICK n, m : n = Len(f) /\ m = Len(Root)
    OBVIOUS
  <2>2. n \in Nat /\ m \in Nat /\ m <= n /\ m # n
    BY <1>2, <1>3, <1>4, <2>1
  <2>3. n - 1 \in Nat /\ m <= n - 1
    BY <2>2
  <2>4. QED
    BY <2>1, <2>3
<1>6. Dir(f) \in Paths /\ Len(Dir(f)) = Len(f) - 1 /\ \A i \in 1..(Len(f) - 1) : Dir(f)[i] = f[i]
  BY <1>1, <1>2, <1>5 DEF Dir, Front, Paths
<1>7. \A i \in 1..Len(Root) : Root[i] = Dir(f)[i]
  BY <1>2, <1>3, <1>5, <1>6
<1>8. QED
  BY <1>1, <1>5, <1>6, <1>7, PrefixMeans

\* The shortest of some paths.
LEMMA TopmostIs ==
    ASSUME NEW E \in SUBSET Paths, E # {}
    PROVE  Topmost(E) \in E /\ \A x \in E : Len(Topmost(E)) <= Len(x)
<1> DEFINE L == {Len(x) : x \in E}
<1>1. L \in SUBSET Nat /\ L # {}
  BY PathLen
<1>2. PICK l \in L : \A k \in L : l <= k
  <2> HIDE DEF L
  <2>1. QED
    BY <1>1, LeastNatural
<1>3. PICK e \in E : l = Len(e)
  OBVIOUS
<1>4. \A x \in E : Len(e) <= Len(x)
  BY <1>2, <1>3
<1>5. QED
  BY <1>4 DEF Topmost

\* The .stem files from d upwards, to the file system's root.
Up(s, d) == {e \in Places : IsPrefix(e, d) /\ s[e] # "none"}

LEMMA ChainMeans ==
    \A s, d : Chain(s, d) = {e \in Up(s, d) : \A below \in Up(s, d) : Len(below) > Len(e) => s[below] = "plain"}
BY DEF Chain, Up

\* A chain that no declared boundary ends is all there is, and all ordinary.
LEMMA PlainToTheTop ==
    ASSUME NEW s \in [Places -> StemStates], NEW d \in Paths, Resolve(s, d) # "broken", Chain(s, d) # {},
           s[Topmost(Chain(s, d))] # "root"
    PROVE  /\ Topmost(Chain(s, d)) \in Up(s, d)
           /\ \A e \in Up(s, d) : s[e] = "plain" /\ Len(Topmost(Chain(s, d))) <= Len(e)
<1> DEFINE up == Up(s, d)
<1>1. up \subseteq Places /\ up \subseteq Paths /\ Chain(s, d) \subseteq up
  BY PlacesArePaths, ChainMeans DEF Up
<1>a. PICK t : t = Topmost(Chain(s, d))
  OBVIOUS
<1>2. t \in Chain(s, d) /\ t \in up /\ \A x \in Chain(s, d) : Len(t) <= Len(x)
  BY <1>1, <1>a, TopmostIs
<1>3. s[t] = "plain"
  <2>1. s[t] \in StemStates /\ s[t] # "none" /\ s[t] # "root"
    BY <1>1, <1>2, <1>a DEF Up
  <2>2. s[t] # "broken"
    BY <1>2 DEF Resolve
  <2>3. QED
    BY <2>1, <2>2 DEF StemStates
<1>4. \A e \in up : IsPrefix(e, d) /\ e \in Paths /\ Len(e) \in Nat
  BY <1>1 DEF Up, Paths
<1>5. \A e \in up : Len(e) > Len(t) => s[e] = "plain"
  BY <1>2, ChainMeans
<1>6. \A e \in up : Len(e) = Len(t) => e = t
  BY <1>2, <1>4, PrefixesNest
<1>7. \A e \in up : Len(t) <= Len(e)
  <2> DEFINE above == {e \in up : Len(e) < Len(t)}
  <2>1. SUFFICES ASSUME above # {} PROVE FALSE
    BY <1>2, <1>4
  <2> DEFINE L == {Len(e) : e \in above}
  <2>2. L \in SUBSET (0..Len(t)) /\ L # {} /\ Len(t) \in Nat
    <3>1. Len(t) \in Nat /\ \A e \in above : Len(e) \in Nat /\ Len(e) < Len(t)
      BY <1>2, <1>4
    <3>2. \A n, m \in Nat : n < m => n \in 0..m
      OBVIOUS
    <3>3. \A e \in above : Len(e) \in 0..Len(t)
      BY <3>1, <3>2
    <3> HIDE DEF above
    <3>4. QED
      BY <2>1, <3>1, <3>3
  <2>3. PICK l \in L : \A k \in L : k <= l
    <3> HIDE DEF L
    <3>1. QED
      BY <2>2, GreatestNatural
  <2>4. PICK u \in above : l = Len(u)
    OBVIOUS
  <2>5. u \in up /\ Len(u) < Len(t) /\ \A e \in above : Len(e) <= Len(u)
    BY <2>3, <2>4
  <2>6. \A e \in up : Len(e) > Len(u) => s[e] = "plain"
    <3>1. SUFFICES ASSUME NEW e \in up, Len(e) > Len(u) PROVE s[e] = "plain"
      OBVIOUS
    <3>2. ~(Len(e) < Len(t))
      <4>1. SUFFICES ASSUME Len(e) < Len(t) PROVE FALSE
        OBVIOUS
      <4>2. e \in above
        BY <4>1
      <4>3. Len(e) <= Len(u)
        BY <2>5, <4>2
      <4>4. QED
        BY <1>4, <2>5, <3>1, <4>3
    <3>3. Len(e) = Len(t) \/ Len(e) > Len(t)
      BY <1>2, <1>4, <3>2
    <3>4. QED
      BY <1>3, <1>5, <1>6, <3>3
  <2>7. u \in Chain(s, d)
    BY <2>5, <2>6, ChainMeans
  <2>8. Len(t) <= Len(u)
    BY <1>2, <2>7
  <2>9. QED
    BY <1>2, <1>4, <2>5, <2>8
<1>8. \A e \in up : s[e] = "plain"
  <2>1. SUFFICES ASSUME NEW e \in up PROVE s[e] = "plain"
    OBVIOUS
  <2>2. Len(e) = Len(t) \/ Len(e) > Len(t)
    BY <1>2, <1>4, <1>7
  <2>3. QED
    BY <1>3, <1>5, <1>6, <2>2
<1>9. QED
  BY <1>2, <1>7, <1>8, <1>a

StemsTyped == stems \in [Places -> StemStates]

\* What the preflight lets graph pass: no boundary is needed, or it is declared.
Fenced == Boundary(stems, Root) \notin {"undeclared", "broken below"}

\* What the preflight finds out about Root covers every directory below it: its
\* chain ends in a declared boundary or in a .stem the walk down does not see.
LEMMA BoundaryCovers ==
    ASSUME StemsTyped, NEW d \in Paths, IsPrefix(Root, d),
           Resolve(stems, d) # "broken", Chain(stems, d) # {},
           Fenced
    PROVE  stems[Topmost(Chain(stems, d))] = "root" \/ Topmost(Chain(stems, d)) \in tree.hidden
<1> DEFINE t == Topmost(Chain(stems, d))
<1>1. SUFFICES ASSUME stems[t] # "root", t \notin tree.hidden PROVE FALSE
  OBVIOUS
<1>2. t \in Up(stems, d) /\ \A e \in Up(stems, d) : stems[e] = "plain" /\ Len(t) <= Len(e)
  BY <1>1, PlainToTheTop DEF StemsTyped
<1> HIDE DEF t
<1>3. t \in Places /\ t \in Paths /\ IsPrefix(t, d) /\ stems[t] = "plain" /\ Root \in Paths
  BY <1>2, PlacesArePaths DEF Up
<1>a. PICK n, m : n = Len(t) /\ m = Len(Root)
  OBVIOUS
<1>b. n \in Nat /\ m \in Nat
  BY <1>3, <1>a, PathLen
<1>4. Up(stems, Root) \subseteq Up(stems, d)
  BY PlacesArePaths, PrefixTrans DEF Up
<1>5. Chain(stems, Root) \subseteq Up(stems, Root)
  BY ChainMeans
<1>6. CASE n <= m
  <2>1. IsPrefix(t, Root)
    BY <1>3, <1>6, <1>a, PrefixesNest
  <2>2. t \in Up(stems, Root)
    BY <1>3, <2>1 DEF Up
  <2>3. Chain(stems, Root) = Up(stems, Root)
    BY <1>2, <1>4, ChainMeans
  <2>4. Chain(stems, Root) # {} /\ \A e \in Chain(stems, Root) : stems[e] = "plain"
    BY <1>2, <1>4, <2>2, <2>3
  <2>5. Chain(stems, Root) \subseteq Paths
    BY <2>3, PlacesArePaths DEF Up
  <2>6. Topmost(Chain(stems, Root)) \in Chain(stems, Root)
    BY <2>4, <2>5, TopmostIs
  <2>7. stems[Topmost(Chain(stems, Root))] = "plain"
    BY <2>4, <2>6
  <2>8. Resolve(stems, Root) = "governed"
    BY <2>4 DEF Resolve
  <2>9. Boundary(stems, Root) = "undeclared"
    BY <2>4, <2>7, <2>8 DEF Boundary
  <2>10. QED
    BY <2>9 DEF Fenced
<1>7. CASE m < n
  <2>1. Chain(stems, Root) = {}
    <3>1. SUFFICES ASSUME NEW e \in Up(stems, Root) PROVE FALSE
      BY <1>5
    <3>2. e \in Paths /\ IsPrefix(e, Root) /\ Len(t) <= Len(e)
      BY <1>2, <1>4, PlacesArePaths DEF Up
    <3>3. PICK k : k = Len(e)
      OBVIOUS
    <3>4. k \in Nat /\ n <= k /\ k <= m
      BY <1>a, <3>2, <3>3, PathLen DEF IsPrefix
    <3>5. QED
      BY <1>7, <1>b, <3>4
  <2>2. Resolve(stems, Root) = "none"
    BY <2>1 DEF Resolve
  <2>3. Below(stems, Root) = {}
    BY <2>1, <2>2 DEF Boundary, Fenced
  <2>4. IsPrefix(Root, t)
    <3>1. Len(Root) <= Len(t)
      <4>1. m <= n
        BY <1>7, <1>b
      <4>2. QED
        BY <1>a, <4>1
    <3>2. QED
      BY <1>3, <3>1, PrefixesNest
  <2>5. t \in Dirs
    <3>1. SUFFICES ASSUME t \in Outer PROVE FALSE
      BY <1>3 DEF Places
    <3>2. n <= m
      BY <1>a, <3>1, ScanAssumption DEF IsStrictPrefix, IsPrefix
    <3>3. QED
      BY <1>7, <1>b, <3>2
  <2> DEFINE here == {e \in Dirs \ tree.hidden : IsPrefix(Root, e) /\ stems[e] # "none"}
  <2>6. t \in here
    BY <1>1, <1>3, <2>4, <2>5
  <2>7. PICK r \in here : stems[r] = "root" /\ IsPrefix(r, t)
    BY <2>3, <2>6 DEF Below
  <2>8. r \in Places /\ r \in Paths
    BY PlacesArePaths DEF Places
  <2>9. r \in Up(stems, d)
    BY <1>3, <2>7, <2>8, PrefixTrans DEF Up
  <2>10. QED
    BY <1>2, <2>7, <2>9
<1>8. QED
  BY <1>b, <1>6, <1>7

(***************************************************************************)
(* No rules from outside the project.                                      *)
(***************************************************************************)
\* What a command that succeeded without offering the marker leaves.
Sheltered == Fenced /\ ~Broken(Records)

Succeeded ==
    \/ report[cmd.name].kind = "graph"
    \/ report[cmd.name].kind = "envelope" /\ report[cmd.name].ok

\* graph is admitted past nothing else, and looks at every record's chain.
Admitting == {"preflight", "done"}
Resolved  == {"styles", "enrich", "where", "issues", "prepare", "types", "scope", "build", "cycles", "members"}
GraphGoverned ==
    cmd.name = "graph" =>
        /\ cmd.phase \notin Admitting => Fenced
        /\ cmd.phase \in Resolved => ~Broken(Records)
        /\ cmd.phase = "done" /\ Succeeded => Sheltered

\* validate --all is admitted past an undeclared boundary, and notes it.
Derived == {"builtins", "aggregate", "where", "corpus", "drift"}
AllGoverned ==
    cmd.name = "all" =>
        /\ cmd.phase \notin Admitting => Boundary(stems, Root) # "broken below"
        /\ cmd.phase \in Derived \cup {"derive"} => Notice(stems, Root) \subseteq cmd.notices
        /\ cmd.phase \in Derived => ~Broken(Records)
        /\ cmd.phase = "done" /\ Succeeded => Sheltered

\* What validate says of a file it was named.
Told(f) ==
    \/ cmd.rows[f] = {<<"excluded", f>>} \/ "unresolved" \in cmd.notices
    \/ Resolve(stems, Dir(f)) = "governed" /\ Notice(stems, Dir(f)) \subseteq cmd.notices
ToldSoFar == \A f \in DOMAIN cmd.rows : Told(f)

FileGoverned ==
    cmd.name = "file" =>
        /\ cmd.phase \in {"preflight", "files"} => cmd.at = 1 /\ cmd.rows = <<>>
        /\ cmd.phase = "each" =>
              /\ cmd.at \in Nat \ {0}
              /\ \A i \in DOMAIN cmd.records : i < cmd.at => cmd.records[i] \in DOMAIN cmd.rows
              /\ ToldSoFar
        /\ cmd.phase = "done" /\ Succeeded =>
              ToldSoFar /\ cmd.notices \subseteq {"no records"} /\ Records \subseteq DOMAIN cmd.rows

\* All of it while nothing has happened since the session began and the command
\* has not been allowed to write the marker.
Untouched == mishaps = 0 /\ ~cmd.offered
Governed ==
    /\ mishaps \in Nat /\ StemsTyped /\ cmd.name \in Commands \cup {None}
    /\ Untouched => GraphGoverned /\ AllGoverned /\ FileGoverned

Still == UNCHANGED <<tree, stems, mishaps>>

\* The boundary is what it was.
LEMMA SameBoundary ==
    ASSUME Still
    PROVE  /\ \A d : Boundary(stems, d)' = Boundary(stems, d) /\ Notice(stems, d)' = Notice(stems, d)
           /\ \A d : Resolve(stems, d)' = Resolve(stems, d)
           /\ Fenced' = Fenced /\ StemsTyped' = StemsTyped
<1>1. tree' = tree /\ stems' = stems
  BY DEF Still
<1>2. \A d : Resolve(stems, d)' = Resolve(stems, d) /\ Below(stems, d)' = Below(stems, d)
  BY <1>1 DEF Resolve, Chain, Below
<1>3. \A d : Boundary(stems, d)' = Boundary(stems, d)
  BY <1>1, <1>2 DEF Boundary, Chain
<1>4. \A d : Notice(stems, d)' = Notice(stems, d)
  BY <1>1, <1>3 DEF Notice
<1>5. QED
  BY <1>1, <1>2, <1>3, <1>4 DEF Fenced, StemsTyped

\* No chain of fewer records is broken either.
LEMMA FewerBroken ==
    ASSUME Still, Records' \subseteq Records
    PROVE  Broken(Records)' => Broken(Records)
BY SameBoundary DEF Broken, Dir

\* A command that fails says nothing of its documents.
LEMMA FailsGoverned ==
    ASSUME SessionTypes, NEW why, Fails(why)
    PROVE  cmd.name \in Commands => cmd'.phase = "done" /\ cmd'.name = cmd.name /\ ~Succeeded'
<1>1. SUFFICES ASSUME cmd.name \in Commands
               PROVE  cmd'.phase = "done" /\ cmd'.name = cmd.name /\ ~Succeeded'
  OBVIOUS
<1>2. cmd' = [cmd EXCEPT !.phase = "done"] /\ report' = [report EXCEPT ![cmd.name] = [kind |-> "error", why |-> why]]
  BY DEF Fails, End
<1>3. cmd'.phase = "done" /\ cmd'.name = cmd.name
  BY <1>2, CommandFields DEF Shaped
<1>4. report'[cmd.name].kind = "error"
  BY <1>1, <1>2 DEF SessionTypes, Shaped
<1>5. QED
  BY <1>3, <1>4 DEF Succeeded

\* So it keeps the invariant.
LEMMA FailureGoverned ==
    ASSUME Governed, SessionTypes, Still, NEW why, Fails(why)
    PROVE  Governed'
<1>1. mishaps' \in Nat /\ StemsTyped'
  BY SameBoundary DEF Governed, Still
<1>2. cmd.name \in Commands => cmd'.phase = "done" /\ cmd'.name = cmd.name /\ ~Succeeded'
  BY FailsGoverned
<1>3. cmd'.name = cmd.name
  BY CommandFields DEF Fails, End, Shaped
<1>4. (GraphGoverned /\ AllGoverned /\ FileGoverned)'
  BY <1>2, <1>3 DEF Commands, GraphGoverned, AllGoverned, FileGoverned, Admitting, Resolved, Derived
<1>5. QED
  BY <1>1, <1>3, <1>4 DEF Governed

\* What a filter by --where keeps are records.
LEMMA KeptRange ==
    ASSUME SessionTypes, NEW S, cmd'.records = Kept(cmd.records, S)
    PROVE  Records' \subseteq Records
<1>1. cmd.records \in Seq(Records)
  BY CommandFields DEF Records, Range
<1>2. Kept(cmd.records, S) \in Seq(Records \cap S)
  <2>1. PICK R : R = Records
    OBVIOUS
  <2>2. QED
    BY <1>1, <2>1, KeptWithin
<1>3. Range(Kept(cmd.records, S)) \subseteq Records
  <2>1. PICK q, R : q = Kept(cmd.records, S) /\ R = Records
    OBVIOUS
  <2>2. q \in Seq(R \cap S)
    BY <1>2, <2>1
  <2>3. Range(q) \subseteq R
    BY <2>2 DEF Range
  <2>4. QED
    BY <2>1, <2>3
<1>4. QED
  BY <1>3 DEF Records

\* graph moves on: what a later phase relies on was looked at before.
GraphMoves ==
    /\ Still /\ cmd.name = "graph" /\ cmd'.name = "graph" /\ cmd'.offered = cmd.offered
    /\ cmd.phase \notin Admitting
    /\ cmd'.phase \in Resolved \cup {"done"} =>
          Records' \subseteq Records /\ (cmd.phase \in Resolved \/ ~Broken(Records))

LEMMA GraphMovesGoverned ==
    ASSUME Governed, GraphMoves
    PROVE  Governed'
<1>1. mishaps' \in Nat /\ StemsTyped' /\ Untouched' = Untouched
  BY SameBoundary DEF Governed, Still, GraphMoves, Untouched
<1>2. SUFFICES ASSUME Untouched PROVE (GraphGoverned /\ AllGoverned /\ FileGoverned)'
  BY <1>1 DEF Governed, GraphMoves, Commands
<1>3. Fenced /\ (cmd.phase \in Resolved => ~Broken(Records))
  BY <1>2 DEF Governed, GraphGoverned, GraphMoves
<1>4. Fenced'
  BY <1>3, SameBoundary DEF GraphMoves
<1>5. cmd'.phase \in Resolved \cup {"done"} => ~Broken(Records)'
  BY <1>3, FewerBroken DEF GraphMoves
<1>6. GraphGoverned'
  BY <1>4, <1>5 DEF GraphGoverned, Sheltered
<1>7. QED
  BY <1>6 DEF GraphMoves, AllGoverned, FileGoverned

\* A phase that does not fail.
LEMMA PhaseMoves ==
    ASSUME NEW now, NEW next, NEW S, NEW outcome, Phase(now, next, S, outcome), ~\E why : Fails(why)
    PROVE  /\ cmd.phase = now /\ ~Broken(S)
           /\ cmd' = [outcome EXCEPT !.phase = next]
           /\ UNCHANGED <<report, scanVars>>
<1>1. ~Broken(S)
  BY DEF Phase
<1>2. QED
  BY <1>1 DEF Phase

\* graph's steps from its scan to its graph.
LEMMA GraphGovernedSteps ==
    ASSUME Governed, SessionTypes, cmd.name = "graph",
           \/ GraphStart \/ GraphScanned \/ Ensure \/ FilterStyles \/ Enrich \/ Stop \/ FilterWhere
           \/ CollectIssues \/ Prepare \/ FilterTypes \/ OptIn \/ BuildGraph \/ DecideByFlag \/ Decide \/ DecideByMembers
    PROVE  Governed'
<1>1. Still
  BY DEF GraphStart, GraphScanned, Ensure, FilterStyles, Enrich, Stop, FilterWhere, CollectIssues, Prepare, FilterTypes,
     OptIn, BuildGraph, DecideByFlag, Decide, DecideByMembers, Phase, BeginScan, scanVars, Still
<1>2. CASE \E why : Fails(why)
  BY <1>1, <1>2, FailureGoverned
<1>3. ASSUME ~\E why : Fails(why) PROVE GraphMoves
  <2>a. /\ Shaped(cmd, CmdFields)
        /\ CmdFields = {"name", "phase", "offered", "records", "at", "links", "issues", "edges", "opted",
                        "derived", "rows", "visited", "structural", "drift", "notices", "health"}
    BY CommandFields
  <2>1. CASE GraphStart
    <3>1. cmd.phase = "start" /\ cmd' = [cmd EXCEPT !.phase = "scan"]
      BY <2>1 DEF GraphStart, To
    <3>2. cmd'.name = cmd.name /\ cmd'.offered = cmd.offered /\ cmd'.phase = "scan"
      BY <2>a, <3>1 DEF Shaped
    <3>3. QED
      BY <1>1, <3>1, <3>2 DEF GraphMoves, Admitting, Resolved
  <2>2. CASE GraphScanned
    <3>1. cmd.phase = "scan"
          /\ cmd' = [cmd EXCEPT !.phase = "ensure", !.records = scan.out.records, !.links = tree.links]
      BY <1>3, <2>2 DEF GraphScanned
    <3>2. cmd'.name = cmd.name /\ cmd'.offered = cmd.offered /\ cmd'.phase = "ensure"
      BY <2>a, <3>1 DEF Shaped
    <3>3. QED
      BY <1>1, <3>1, <3>2 DEF GraphMoves, Admitting, Resolved
  <2>3. CASE Ensure \/ Enrich
    <3>1. \/ Phase("ensure", "styles", Records, cmd)
          \/ Phase("enrich", "where", Records, cmd)
      BY <2>3 DEF Ensure, Enrich
    <3>2. /\ cmd.phase \in {"ensure", "enrich"} /\ ~Broken(Records)
          /\ \E p : cmd' = [cmd EXCEPT !.phase = p]
      BY <1>3, <3>1, PhaseMoves
    <3>3. cmd'.name = cmd.name /\ cmd'.offered = cmd.offered /\ cmd'.records = cmd.records
      BY <2>a, <3>2 DEF Shaped
    <3>4. QED
      BY <1>1, <3>2, <3>3 DEF GraphMoves, Admitting, Records
  <2>4. CASE FilterStyles
    <3>1. cmd.phase = "styles" /\ \E l : cmd' = [[cmd EXCEPT !.links = l] EXCEPT !.phase = "enrich"]
      BY <1>3, <2>4, PhaseMoves DEF FilterStyles
    <3>2. cmd'.name = cmd.name /\ cmd'.offered = cmd.offered /\ cmd'.records = cmd.records
      BY <2>a, <3>1 DEF Shaped
    <3>3. QED
      BY <1>1, <3>1, <3>2 DEF GraphMoves, Admitting, Records, Resolved
  <2>5. CASE Stop
    BY <1>3, <2>5 DEF Stop
  <2>6. CASE FilterWhere
    <3>1. cmd.phase = "where" /\ cmd' = [[cmd EXCEPT !.records = Kept(@, tree.where)] EXCEPT !.phase = "issues"]
      BY <1>3, <2>6, PhaseMoves DEF FilterWhere
    <3>2. cmd'.name = cmd.name /\ cmd'.offered = cmd.offered /\ cmd'.records = Kept(cmd.records, tree.where)
      BY <2>a, <3>1 DEF Shaped
    <3>3. Records' \subseteq Records
      BY <3>2, KeptRange
    <3>4. QED
      BY <1>1, <3>1, <3>2, <3>3 DEF GraphMoves, Admitting, Resolved
  <2>7. CASE CollectIssues
    <3>1. cmd.phase = "issues" /\ \E l : cmd' = [[cmd EXCEPT !.issues = l] EXCEPT !.phase = "prepare"]
      BY <1>3, <2>7, PhaseMoves DEF CollectIssues
    <3>2. cmd'.name = cmd.name /\ cmd'.offered = cmd.offered /\ cmd'.records = cmd.records
      BY <2>a, <3>1 DEF Shaped
    <3>3. QED
      BY <1>1, <3>1, <3>2 DEF GraphMoves, Admitting, Records, Resolved
  <2>8. CASE Prepare
    <3>1. cmd.phase = "prepare" /\ \E l : cmd' = [[cmd EXCEPT !.edges = l] EXCEPT !.phase = "types"]
      BY <1>3, <2>8, PhaseMoves DEF Prepare
    <3>2. cmd'.name = cmd.name /\ cmd'.offered = cmd.offered /\ cmd'.records = cmd.records
      BY <2>a, <3>1 DEF Shaped
    <3>3. QED
      BY <1>1, <3>1, <3>2 DEF GraphMoves, Admitting, Records, Resolved
  <2>11. CASE FilterTypes
    <3>1. cmd.phase = "types" /\ \E l : cmd' = [[cmd EXCEPT !.edges = l] EXCEPT !.phase = "scope"]
      BY <1>3, <2>11, PhaseMoves, ZenonT(40) DEF FilterTypes
    <3>2. cmd'.name = cmd.name /\ cmd'.offered = cmd.offered /\ cmd'.records = cmd.records
      BY <2>a, <3>1 DEF Shaped
    <3>3. QED
      BY <1>1, <3>1, <3>2 DEF GraphMoves, Admitting, Records, Resolved
  <2>9. CASE OptIn
    <3>1. cmd.phase = "scope" /\ \E l : cmd' = [[cmd EXCEPT !.opted = l] EXCEPT !.phase = "build"]
      BY <1>3, <2>9, PhaseMoves DEF OptIn
    <3>2. cmd'.name = cmd.name /\ cmd'.offered = cmd.offered /\ cmd'.records = cmd.records
      BY <2>a, <3>1 DEF Shaped
    <3>3. QED
      BY <1>1, <3>1, <3>2 DEF GraphMoves, Admitting, Records, Resolved
  <2>10. CASE BuildGraph \/ DecideByFlag \/ Decide \/ DecideByMembers
    <3>1. cmd.phase \in {"build", "cycles", "members"} /\ \E p : cmd' = [cmd EXCEPT !.phase = p]
      BY <2>10 DEF BuildGraph, DecideByFlag, Decide, DecideByMembers, Report, End, To
    <3>2. cmd'.name = cmd.name /\ cmd'.offered = cmd.offered /\ cmd'.records = cmd.records
      BY <2>a, <3>1 DEF Shaped
    <3>3. QED
      BY <1>1, <3>1, <3>2 DEF GraphMoves, Admitting, Records, Resolved
  <2>12. QED
    BY <2>1, <2>2, <2>3, <2>4, <2>5, <2>6, <2>7, <2>8, <2>9, <2>10, <2>11
<1>4. QED
  BY <1>2, <1>3, GraphMovesGoverned

\* validate ends (NewValidationEnvelope): a notice other than "no records" fails it.
LEMMA EnvelopeTells ==
    ASSUME SessionTypes, NEW c, Envelope(c), Shaped(c, CmdFields), c.name \in Commands
    PROVE  /\ Shaped(cmd', CmdFields) /\ cmd'.name = c.name /\ cmd'.phase = "done" /\ cmd'.offered = c.offered
           /\ cmd'.records = c.records /\ cmd'.rows = c.rows /\ cmd'.notices = c.notices
           /\ Succeeded' => c.notices \subseteq {"no records"}
<1>1. PICK strict \in BOOLEAN :
          /\ cmd' = [c EXCEPT !.phase = "done"]
          /\ report' = [report EXCEPT ![c.name] =
                [kind |-> "envelope", rows |-> c.rows, structural |-> c.structural, drift |-> c.drift,
                 notices |-> c.notices, strict |-> strict, ok |-> ~Fail(c, strict)]]
  BY DEF Envelope
<1>2. /\ Shaped(cmd', CmdFields) /\ cmd'.name = c.name /\ cmd'.phase = "done" /\ cmd'.offered = c.offered
      /\ cmd'.records = c.records /\ cmd'.rows = c.rows /\ cmd'.notices = c.notices
  BY <1>1, CommandFields DEF Shaped
<1>3. report'[c.name] = [kind |-> "envelope", rows |-> c.rows, structural |-> c.structural, drift |-> c.drift,
                         notices |-> c.notices, strict |-> strict, ok |-> ~Fail(c, strict)]
  BY <1>1 DEF SessionTypes, Shaped
<1>4. report'[c.name].kind = "envelope" /\ (report'[c.name].ok => ~Fail(c, strict))
  <2>1. PICK b : b = ~Fail(c, strict)
    OBVIOUS
  <2>2. PICK r : r = report'[c.name]
    OBVIOUS
  <2>3. r = [kind |-> "envelope", rows |-> c.rows, structural |-> c.structural, drift |-> c.drift,
             notices |-> c.notices, strict |-> strict, ok |-> b]
    BY <1>3, <2>1, <2>2, Zenon
  <2>4. r.kind = "envelope" /\ r.ok = b
    BY <2>3
  <2>5. r.ok => ~Fail(c, strict)
    BY <2>1, <2>4, Zenon
  <2>6. QED
    BY <2>2, <2>4, <2>5
<1>5. Succeeded' => ~Fail(c, strict)
  BY <1>2, <1>4 DEF Succeeded
<1>6. ~Fail(c, strict) => c.notices \ {"no records"} = {}
  BY DEF Fail
<1>7. QED
  BY <1>2, <1>5, <1>6

\* validate --all moves on.
AllMoves ==
    /\ Still /\ cmd.name = "all" /\ cmd'.name = "all" /\ cmd'.offered = cmd.offered
    /\ cmd.phase \notin Admitting
    /\ cmd'.phase \in Derived \cup {"derive"} =>
          \/ Notice(stems, Root) \subseteq cmd'.notices
          \/ cmd.phase \in Derived \cup {"derive"} /\ cmd.notices \subseteq cmd'.notices
    /\ cmd'.phase \in Derived => Records' \subseteq Records /\ (cmd.phase \in Derived \/ ~Broken(Records))
    /\ cmd'.phase = "done" /\ Succeeded' =>
          /\ cmd.phase \in Derived /\ Records' \subseteq Records
          /\ cmd.notices \subseteq cmd'.notices /\ cmd'.notices \subseteq {"no records"}

LEMMA AllMovesGoverned ==
    ASSUME Governed, AllMoves
    PROVE  Governed'
<1>1. mishaps' \in Nat /\ StemsTyped' /\ Untouched' = Untouched
  BY SameBoundary DEF Governed, Still, AllMoves, Untouched
<1>2. SUFFICES ASSUME Untouched PROVE (GraphGoverned /\ AllGoverned /\ FileGoverned)'
  BY <1>1 DEF Governed, AllMoves, Commands
<1>3. /\ Boundary(stems, Root) # "broken below"
      /\ cmd.phase \in Derived \cup {"derive"} => Notice(stems, Root) \subseteq cmd.notices
      /\ cmd.phase \in Derived => ~Broken(Records)
  BY <1>2 DEF Governed, AllGoverned, AllMoves
<1>4. Boundary(stems, Root)' # "broken below" /\ Notice(stems, Root)' = Notice(stems, Root)
  BY <1>3, SameBoundary DEF AllMoves
<1>5. cmd'.phase \in Derived \cup {"derive"} => Notice(stems, Root)' \subseteq cmd'.notices
  BY <1>3, <1>4 DEF AllMoves
<1>6. cmd'.phase \in Derived => ~Broken(Records)'
  BY <1>3, FewerBroken DEF AllMoves
<1>7. ASSUME cmd'.phase = "done", Succeeded' PROVE Sheltered'
  <2>1. ~Broken(Records)'
    BY <1>3, <1>7, FewerBroken DEF AllMoves
  <2>2. Notice(stems, Root) \subseteq {"no records"}
    BY <1>3, <1>7 DEF AllMoves
  <2>3. Boundary(stems, Root) # "undeclared"
    BY <2>2 DEF Notice
  <2>4. Fenced'
    BY <1>3, <2>3, SameBoundary DEF AllMoves, Fenced
  <2>5. QED
    BY <2>1, <2>4 DEF Sheltered
<1>8. AllGoverned'
  BY <1>4, <1>5, <1>6, <1>7 DEF AllGoverned
<1>9. QED
  BY <1>8 DEF AllMoves, GraphGoverned, FileGoverned

\* The steps of validate --all.
LEMMA AllGovernedSteps ==
    ASSUME Governed, SessionTypes, cmd.name = "all", ValidateNext
    PROVE  Governed'
<1>1. Still
  BY DEF ValidateNext, Health, AllScanned, CheckBoundary, FilterAll, ValidateRecord, ValidateDirectories, DetectDrift,
         NameFiles, ValidateFile, FilesDone, Derive, Quiet, BeginScan, scanVars, Still
<1>a. /\ Shaped(cmd, CmdFields)
      /\ CmdFields = {"name", "phase", "offered", "records", "at", "links", "issues", "edges", "opted",
                      "derived", "rows", "visited", "structural", "drift", "notices", "health"}
  BY CommandFields
<1>2. CASE Health
  <2>1. cmd.phase = "health" /\ \E h : cmd' = [cmd EXCEPT !.phase = "scan", !.health = h]
    BY <1>2 DEF Health, Now
  <2>2. cmd'.name = cmd.name /\ cmd'.offered = cmd.offered /\ cmd'.phase = "scan"
    BY <1>a, <2>1 DEF Shaped
  <2>3. AllMoves
    BY <1>1, <2>1, <2>2 DEF AllMoves, Admitting, Derived
  <2>4. QED
    BY <2>3, AllMovesGoverned
<1>3. CASE AllScanned
  <2>1. cmd.phase = "scan"
    BY <1>3 DEF AllScanned, Now
  <2>2. CASE scan.out.kind # "records"
    <3>a. PICK c : c = [cmd EXCEPT !.notices = {"scan failed"}]
      OBVIOUS
    <3>1. Envelope(c)
      BY <1>3, <2>2, <3>a DEF AllScanned
    <3>2. Shaped(c, CmdFields) /\ c.name = cmd.name /\ c.offered = cmd.offered /\ c.notices = {"scan failed"}
      BY <1>a, <3>a DEF Shaped
    <3>3. cmd'.name = cmd.name /\ cmd'.phase = "done" /\ cmd'.offered = cmd.offered /\ ~Succeeded'
      BY <3>1, <3>2, EnvelopeTells DEF Commands
    <3>4. AllMoves
      BY <1>1, <2>1, <3>3 DEF AllMoves, Admitting, Derived
    <3>5. QED
      BY <3>4, AllMovesGoverned
  <2>3. CASE scan.out.kind = "records"
    <3>1. cmd' = [cmd EXCEPT !.phase = "boundary", !.records = scan.out.records]
      BY <1>3, <2>3 DEF AllScanned
    <3>2. cmd'.name = cmd.name /\ cmd'.offered = cmd.offered /\ cmd'.phase = "boundary"
      BY <1>a, <3>1 DEF Shaped
    <3>3. AllMoves
      BY <1>1, <2>1, <3>2 DEF AllMoves, Admitting, Derived
    <3>4. QED
      BY <3>3, AllMovesGoverned
  <2>4. QED
    BY <2>2, <2>3
<1>4. CASE CheckBoundary
  <2>1. cmd.phase = "boundary" /\ cmd' = [cmd EXCEPT !.phase = "derive",
                  !.notices = @ \cup Notice(stems, Root) \cup {n \in {"no records"} : cmd.records = <<>>}]
    BY <1>4 DEF CheckBoundary, Now
  <2>2. cmd'.name = cmd.name /\ cmd'.offered = cmd.offered /\ cmd'.phase = "derive"
        /\ Notice(stems, Root) \subseteq cmd'.notices
    BY <1>a, <2>1 DEF Shaped
  <2>3. AllMoves
    BY <1>1, <2>1, <2>2 DEF AllMoves, Admitting, Derived
  <2>4. QED
    BY <2>3, AllMovesGoverned
<1>5. ASSUME NEW i \in 1..3, Derive(i) PROVE Governed'
  <2>1. cmd.phase = Derivations[i] /\ cmd.phase \in {"derive", "builtins", "aggregate"}
        /\ Derivations[i + 1] \in {"builtins", "aggregate", "where"}
    BY <1>5 DEF Derive, Now, Derivations
  <2>2. CASE \E rows : Envelope([cmd EXCEPT !.notices = @ \cup {"unresolved"}, !.rows = rows])
    <3>1. PICK rows : Envelope([cmd EXCEPT !.notices = @ \cup {"unresolved"}, !.rows = rows])
      BY <2>2
    <3>2. PICK c : c = [cmd EXCEPT !.notices = @ \cup {"unresolved"}, !.rows = rows]
      OBVIOUS
    <3>3. Envelope(c)
      BY <3>1, <3>2
    <3>4. Shaped(c, CmdFields) /\ c.name = cmd.name /\ c.offered = cmd.offered /\ "unresolved" \in c.notices
      BY <1>a, <3>2 DEF Shaped
    <3>5. cmd'.name = cmd.name /\ cmd'.phase = "done" /\ cmd'.offered = cmd.offered /\ ~Succeeded'
      BY <3>3, <3>4, EnvelopeTells DEF Commands
    <3>6. AllMoves
      BY <1>1, <2>1, <3>5 DEF AllMoves, Admitting, Derived
    <3>7. QED
      BY <3>6, AllMovesGoverned
  <2>3. CASE ~\E rows : Envelope([cmd EXCEPT !.notices = @ \cup {"unresolved"}, !.rows = rows])
    <3>1. ~Broken(Records) /\ \E d : cmd' = [cmd EXCEPT !.phase = Derivations[i + 1], !.derived = d]
      BY <1>5, <2>3 DEF Derive, To
    <3>2. cmd'.name = cmd.name /\ cmd'.offered = cmd.offered /\ cmd'.phase = Derivations[i + 1]
          /\ cmd'.notices = cmd.notices /\ cmd'.records = cmd.records
      BY <1>a, <3>1 DEF Shaped
    <3>3. AllMoves
      BY <1>1, <2>1, <3>1, <3>2 DEF AllMoves, Admitting, Derived, Records
    <3>4. QED
      BY <3>3, AllMovesGoverned
  <2>4. QED
    BY <2>2, <2>3
<1>6. CASE FilterAll
  <2>1. cmd.phase = "where" /\ cmd' = [cmd EXCEPT !.phase = "corpus", !.records = Kept(@, tree.where)]
    BY <1>6 DEF FilterAll, Now
  <2>2. cmd'.name = cmd.name /\ cmd'.offered = cmd.offered /\ cmd'.phase = "corpus"
        /\ cmd'.notices = cmd.notices /\ cmd'.records = Kept(cmd.records, tree.where)
    BY <1>a, <2>1 DEF Shaped
  <2>3. Records' \subseteq Records
    BY <2>2, KeptRange
  <2>4. AllMoves
    BY <1>1, <2>1, <2>2, <2>3 DEF AllMoves, Admitting, Derived
  <2>5. QED
    BY <2>4, AllMovesGoverned
<1>7. CASE ValidateRecord
  <2>a. PICK f : f = cmd.records[cmd.at]
    OBVIOUS
  <2>1. /\ cmd.phase = "corpus"
        /\ \E row, x : \/ cmd' = [Row(f, row) EXCEPT !.visited = @ \cup x]
                       \/ cmd' = [Row(f, row) EXCEPT !.notices = @ \cup x]
    BY <1>7, <2>a DEF ValidateRecord, Now
  <2>2. PICK row, x : \/ cmd' = [Row(f, row) EXCEPT !.visited = @ \cup x]
                      \/ cmd' = [Row(f, row) EXCEPT !.notices = @ \cup x]
    BY <2>1
  <2>3. PICK c : c = Row(f, row)
    OBVIOUS
  <2>4. Shaped(c, CmdFields) /\ c.name = cmd.name /\ c.phase = cmd.phase /\ c.offered = cmd.offered
        /\ c.records = cmd.records /\ c.notices = cmd.notices
    BY <1>a, <2>3 DEF Row, Shaped
  <2>5. cmd'.name = cmd.name /\ cmd'.phase = "corpus" /\ cmd'.offered = cmd.offered
        /\ cmd'.records = cmd.records /\ cmd.notices \subseteq cmd'.notices
    BY <1>a, <2>1, <2>2, <2>3, <2>4 DEF Shaped
  <2>6. AllMoves
    BY <1>1, <2>1, <2>5 DEF AllMoves, Admitting, Derived, Records
  <2>7. QED
    BY <2>6, AllMovesGoverned
<1>8. CASE ValidateDirectories
  <2>1. cmd.phase = "corpus"
        /\ \E s, x : cmd' = [cmd EXCEPT !.phase = "drift", !.structural = s, !.notices = @ \cup x]
    BY <1>8 DEF ValidateDirectories, Now
  <2>2. cmd'.name = cmd.name /\ cmd'.phase = "drift" /\ cmd'.offered = cmd.offered
        /\ cmd'.records = cmd.records /\ cmd.notices \subseteq cmd'.notices
    BY <1>a, <2>1 DEF Shaped
  <2>3. AllMoves
    BY <1>1, <2>1, <2>2 DEF AllMoves, Admitting, Derived, Records
  <2>4. QED
    BY <2>3, AllMovesGoverned
<1>9. CASE DetectDrift
  <2>1. cmd.phase = "drift" /\ \E d, x : Envelope([cmd EXCEPT !.drift = d, !.notices = @ \cup x])
    BY <1>9 DEF DetectDrift, Now
  <2>2. PICK d, x : Envelope([cmd EXCEPT !.drift = d, !.notices = @ \cup x])
    BY <2>1
  <2>3. PICK c : c = [cmd EXCEPT !.drift = d, !.notices = @ \cup x]
    OBVIOUS
  <2>4. Envelope(c)
    BY <2>2, <2>3
  <2>5. Shaped(c, CmdFields) /\ c.name = cmd.name /\ c.offered = cmd.offered
        /\ c.records = cmd.records /\ cmd.notices \subseteq c.notices
    BY <1>a, <2>3 DEF Shaped
  <2>6. /\ cmd'.name = cmd.name /\ cmd'.phase = "done" /\ cmd'.offered = cmd.offered
        /\ cmd'.records = cmd.records /\ cmd.notices \subseteq cmd'.notices
        /\ Succeeded' => cmd'.notices \subseteq {"no records"}
    BY <2>4, <2>5, EnvelopeTells DEF Commands
  <2>7. AllMoves
    BY <1>1, <2>1, <2>6 DEF AllMoves, Admitting, Derived, Records
  <2>8. QED
    BY <2>7, AllMovesGoverned
<1>10. QED
  BY <1>2, <1>3, <1>4, <1>5, <1>6, <1>7, <1>8, <1>9, SMTT(30) DEF ValidateNext, NameFiles, ValidateFile, FilesDone, Now

\* A file has its row.
LEMMA RowTold ==
    ASSUME Still, ToldSoFar, cmd.notices \subseteq cmd'.notices, NEW f,
           DOMAIN cmd'.rows = DOMAIN cmd.rows \cup {f},
           \A g \in DOMAIN cmd.rows : g # f => cmd'.rows[g] = cmd.rows[g],
           Told(f)'
    PROVE  ToldSoFar'
<1>1. SUFFICES ASSUME NEW g \in DOMAIN cmd'.rows PROVE Told(g)'
  BY DEF ToldSoFar
<1>2. CASE g \in DOMAIN cmd.rows /\ cmd'.rows[g] = cmd.rows[g]
  <2>1. Told(g)
    BY <1>2 DEF ToldSoFar
  <2>2. Resolve(stems, Dir(g))' = Resolve(stems, Dir(g)) /\ Notice(stems, Dir(g))' = Notice(stems, Dir(g))
    BY SameBoundary DEF Dir
  <2>3. QED
    BY <1>2, <2>1, <2>2 DEF Told
<1>3. CASE ~(g \in DOMAIN cmd.rows /\ cmd'.rows[g] = cmd.rows[g])
  BY <1>1, <1>3
<1>4. QED
  BY <1>2, <1>3

\* The steps of validate of named files.
LEMMA FileGovernedSteps ==
    ASSUME Governed, SessionTypes, cmd.name = "file", ValidateNext
    PROVE  Governed'
<1>1. Still
  BY DEF ValidateNext, Health, AllScanned, CheckBoundary, FilterAll, ValidateRecord, ValidateDirectories, DetectDrift,
         NameFiles, ValidateFile, FilesDone, Derive, Quiet, BeginScan, scanVars, Still
<1>a. /\ Shaped(cmd, CmdFields)
      /\ CmdFields = {"name", "phase", "offered", "records", "at", "links", "issues", "edges", "opted",
                      "derived", "rows", "visited", "structural", "drift", "notices", "health"}
  BY CommandFields
<1>2. CASE \E why : Fails(why)
  BY <1>1, <1>2, FailureGoverned
<1>3. ASSUME ~\E why : Fails(why)
      PROVE  cmd'.name = "file" /\ cmd'.offered = cmd.offered /\ (FileGoverned => FileGoverned')
  <2>1. CASE NameFiles
    <3>1. cmd.phase = "files" /\ cmd' = [cmd EXCEPT !.phase = "each", !.records = ThereNow]
      BY <2>1 DEF NameFiles, Now
    <3>2. cmd'.name = "file" /\ cmd'.offered = cmd.offered /\ cmd'.phase = "each"
          /\ cmd'.at = cmd.at /\ cmd'.rows = cmd.rows /\ cmd'.records = ThereNow
      BY <1>a, <3>1 DEF Shaped
    <3>3. ASSUME FileGoverned PROVE FileGoverned'
      <4>1. cmd'.at = 1 /\ cmd'.rows = <<>>
        BY <3>1, <3>2, <3>3 DEF FileGoverned
      <4>2. \A i \in DOMAIN cmd'.records : i < cmd'.at => cmd'.records[i] \in DOMAIN cmd'.rows
        <5>1. ThereNow \in Seq(Entries \cap (Known \ gone))
          BY ScanAssumption, KeptWithin DEF ThereNow
        <5>2. PICK q : q = ThereNow
          OBVIOUS
        <5>3. \A i \in DOMAIN q : ~(i < 1)
          BY <5>1, <5>2
        <5>4. QED
          BY <3>2, <4>1, <5>2, <5>3
      <4>3. ToldSoFar'
        BY <4>1 DEF ToldSoFar
      <4>4. QED
        BY <3>2, <4>1, <4>2, <4>3 DEF FileGoverned
    <3>4. QED
      BY <3>2, <3>3
  <2>2. CASE ValidateFile
    <3>a. PICK f : f = cmd.records[cmd.at]
      OBVIOUS
    <3>1. /\ cmd.phase = "each" /\ cmd'.name = cmd.name /\ cmd'.phase = cmd.phase /\ cmd'.offered = cmd.offered
          /\ cmd'.records = cmd.records /\ cmd'.at = cmd.at + 1 /\ cmd.notices \subseteq cmd'.notices
      BY <1>3, <2>2, <3>a, FileRow
    <3>2. PICK row : /\ cmd'.rows = RowsWith(cmd.rows, f, row)
                     /\ \/ row = {<<"excluded", f>>} \/ "unresolved" \in cmd'.notices
                        \/ Resolve(stems, Dir(f)) = "governed" /\ Notice(stems, Dir(f)) \subseteq cmd'.notices
      BY <1>3, <2>2, <3>a, FileRow
    <3>3. /\ DOMAIN cmd'.rows = DOMAIN cmd.rows \cup {f} /\ cmd'.rows[f] = row
          /\ \A g \in DOMAIN cmd.rows : g # f => cmd'.rows[g] = cmd.rows[g]
      BY <3>2 DEF RowsWith
    <3>4. Told(f)'
      <4>1. Resolve(stems, Dir(f))' = Resolve(stems, Dir(f)) /\ Notice(stems, Dir(f))' = Notice(stems, Dir(f))
        BY <1>1, SameBoundary DEF Dir
      <4>2. QED
        BY <3>2, <3>3, <4>1 DEF Told
    <3>5. ASSUME FileGoverned PROVE FileGoverned'
      <4>1. /\ cmd.at \in Nat \ {0} /\ ToldSoFar
            /\ \A i \in DOMAIN cmd.records : i < cmd.at => cmd.records[i] \in DOMAIN cmd.rows
        BY <3>1, <3>5 DEF FileGoverned
      <4>2. ToldSoFar'
        BY <1>1, <3>1, <3>3, <3>4, <4>1, RowTold
      <4>3. cmd'.at \in Nat \ {0}
        <5>1. PICK k : k = cmd.at
          OBVIOUS
        <5>2. k + 1 \in Nat \ {0}
          BY <4>1, <5>1
        <5>3. QED
          BY <3>1, <5>1, <5>2
      <4>4. \A i \in DOMAIN cmd'.records : i < cmd'.at => cmd'.records[i] \in DOMAIN cmd'.rows
        <5>a. PICK k, q, D : k = cmd.at /\ q = cmd.records /\ D = DOMAIN cmd.rows
          OBVIOUS
        <5>1. k \in Nat /\ q \in Seq(Known) /\ \A i \in DOMAIN q : i < k => q[i] \in D
          BY <4>1, <5>a, CommandFields
        <5>2. \A i \in DOMAIN q : i < k + 1 => q[i] \in D \cup {q[k]}
          BY <5>1
        <5>3. DOMAIN cmd'.rows = D \cup {q[k]} /\ cmd'.records = q /\ cmd'.at = k + 1
          BY <3>1, <3>3, <3>a, <5>a
        <5>4. QED
          BY <5>2, <5>3
      <4>5. QED
        BY <3>1, <4>2, <4>3, <4>4 DEF FileGoverned
    <3>6. QED
      BY <3>1, <3>5
  <2>3. CASE FilesDone
    <3>1. cmd.phase = "each" /\ cmd.at > Len(cmd.records) /\ Envelope(cmd)
      BY <2>3 DEF FilesDone, Now
    <3>2. /\ cmd'.name = cmd.name /\ cmd'.phase = "done" /\ cmd'.offered = cmd.offered
          /\ cmd'.records = cmd.records /\ cmd'.rows = cmd.rows /\ cmd'.notices = cmd.notices
          /\ Succeeded' => cmd.notices \subseteq {"no records"}
      BY <1>a, <3>1, EnvelopeTells DEF Commands
    <3>3. ASSUME FileGoverned PROVE FileGoverned'
      <4>1. /\ cmd.at \in Nat \ {0} /\ ToldSoFar
            /\ \A i \in DOMAIN cmd.records : i < cmd.at => cmd.records[i] \in DOMAIN cmd.rows
        BY <3>1, <3>3 DEF FileGoverned
      <4>2. Records \subseteq DOMAIN cmd.rows
        <5>a. PICK k, q, D : k = cmd.at /\ q = cmd.records /\ D = DOMAIN cmd.rows
          OBVIOUS
        <5>1. k \in Nat /\ q \in Seq(Known) /\ k > Len(q) /\ \A i \in DOMAIN q : i < k => q[i] \in D
          BY <3>1, <4>1, <5>a, CommandFields
        <5>2. \A i \in DOMAIN q : q[i] \in D
          BY <5>1
        <5>3. Range(q) \subseteq D
          BY <5>2 DEF Range
        <5>4. QED
          BY <5>3, <5>a DEF Records
      <4>3. ToldSoFar'
        <5>1. \A g : Resolve(stems, Dir(g))' = Resolve(stems, Dir(g)) /\ Notice(stems, Dir(g))' = Notice(stems, Dir(g))
          BY <1>1, SameBoundary DEF Dir
        <5>2. SUFFICES ASSUME NEW g \in DOMAIN cmd'.rows PROVE Told(g)'
          BY DEF ToldSoFar
        <5>3. Told(g) /\ cmd'.rows[g] = cmd.rows[g]
          BY <3>2, <4>1 DEF ToldSoFar
        <5>4. QED
          BY <3>2, <5>1, <5>3 DEF Told
      <4>4. Records' = Records
        BY <3>2 DEF Records
      <4>5. QED
        BY <3>2, <4>2, <4>3, <4>4 DEF FileGoverned
    <3>4. QED
      BY <3>2, <3>3
  <2>4. QED
    BY <2>1, <2>2, <2>3 DEF ValidateNext, Health, AllScanned, CheckBoundary, FilterAll, ValidateRecord,
       ValidateDirectories, DetectDrift, Derive, Now
<1>4. QED
  <2>1. SUFFICES ASSUME ~\E why : Fails(why) PROVE Governed'
    BY <1>2
  <2>2. cmd'.name = "file" /\ cmd'.offered = cmd.offered /\ (FileGoverned => FileGoverned')
    BY <1>3, <2>1
  <2>3. mishaps' \in Nat /\ StemsTyped' /\ Untouched' = Untouched
    BY <1>1, <2>2, SameBoundary DEF Governed, Still, Untouched
  <2>4. Untouched => FileGoverned'
    BY <2>2, SMTT(30) DEF Governed
  <2>5. QED
    BY <2>2, <2>3, <2>4 DEF Governed, GraphGoverned, AllGoverned, Commands

\* The next command begins with nothing said.
Planned == todo \in Seq(Commands)

LEMMA BeginGoverned ==
    ASSUME Governed, Planned, Begin
    PROVE  Governed'
<1>1. Still /\ cmd' = Command(Head(todo)) /\ todo # <<>>
  BY DEF Begin, scanVars, Still
<1>2. cmd'.phase = "preflight" /\ cmd'.at = 1 /\ cmd'.rows = <<>> /\ cmd'.name \in Commands
  <2>1. Head(todo) \in Commands
    BY <1>1 DEF Planned
  <2>2. QED
    BY <1>1, <2>1 DEF Command
<1>3. mishaps' \in Nat /\ StemsTyped'
  BY <1>1, SameBoundary DEF Governed, Still
<1>4. QED
  BY <1>2, <1>3 DEF Governed, GraphGoverned, AllGoverned, FileGoverned, Admitting, Resolved, Derived

\* The preflight lets pass what it may.
LEMMA PreflightGoverned ==
    ASSUME Governed, SessionTypes, Preflight
    PROVE  Governed'
<1>a. /\ Shaped(cmd, CmdFields)
      /\ CmdFields = {"name", "phase", "offered", "records", "at", "links", "issues", "edges", "opted",
                      "derived", "rows", "visited", "structural", "drift", "notices", "health"}
  BY CommandFields
<1>1. CASE /\ stems' = Marked(stems, Proposed(stems, Target)) /\ cmd' = [cmd EXCEPT !.phase = After, !.offered = TRUE]
           /\ UNCHANGED <<tree, mishaps>>
  <2>1. cmd'.offered /\ cmd'.name = cmd.name
    BY <1>1, <1>a DEF Shaped
  <2>2. mishaps' \in Nat
    BY <1>1 DEF Governed
  <2>3. StemsTyped'
    <3>a. PICK s, p : s = stems /\ p = Proposed(stems, Target)
      OBVIOUS
    <3>1. s \in [Places -> StemStates] /\ "root" \in StemStates
      BY <3>a DEF Governed, StemsTyped, StemStates
    <3>2. Marked(s, p) \in [Places -> StemStates]
      BY <3>1 DEF Marked
    <3>3. QED
      BY <1>1, <3>2, <3>a DEF StemsTyped
  <2>4. QED
    BY <2>1, <2>2, <2>3 DEF Governed, Untouched
<1>2. CASE Still /\ \E why : Fails(why)
  BY <1>2, FailureGoverned
<1>3. CASE /\ Still /\ cmd.phase = "preflight" /\ cmd' = [cmd EXCEPT !.phase = After]
           /\ Admitted(stems, Target) \/ (SelfReporting /\ Boundary(stems, Target) = "undeclared")
  <2>1. /\ cmd'.phase = After /\ cmd'.name = cmd.name /\ cmd'.offered = cmd.offered
        /\ cmd'.at = cmd.at /\ cmd'.rows = cmd.rows
    BY <1>3, <1>a DEF Shaped
  <2>2. mishaps' \in Nat /\ StemsTyped' /\ Untouched' = Untouched
    BY <1>3, <2>1, SameBoundary DEF Governed, Still, Untouched
  <2>3. CASE cmd.name = "graph"
    <3>1. After = "start" /\ Target = Root /\ ~SelfReporting
      BY <2>3 DEF After, Target, SelfReporting
    <3>2. Fenced
      BY <1>3, <3>1 DEF Admitted, Fenced
    <3>3. Fenced'
      BY <1>3, <3>2, SameBoundary
    <3>4. QED
      BY <2>1, <2>2, <2>3, <3>1, <3>3 DEF Governed, GraphGoverned, AllGoverned, FileGoverned, Resolved
  <2>4. CASE cmd.name = "all"
    <3>1. After = "health" /\ Target = Root
      BY <2>4 DEF After, Target
    <3>2. Boundary(stems, Root) # "broken below"
      BY <1>3, <3>1 DEF Admitted
    <3>3. Boundary(stems, Root)' # "broken below"
      BY <1>3, <3>2, SameBoundary
    <3>4. QED
      BY <2>1, <2>2, <2>4, <3>1, <3>3 DEF Governed, GraphGoverned, AllGoverned, FileGoverned, Derived
  <2>5. CASE cmd.name \notin {"graph", "all"}
    <3>1. After = "files"
      BY <2>5 DEF After
    <3>2. Untouched => FileGoverned
      BY DEF Governed
    <3>3. Untouched => FileGoverned'
      BY <1>3, <2>1, <3>1, <3>2 DEF FileGoverned
    <3>4. QED
      BY <2>1, <2>2, <2>5, <3>3 DEF Governed, GraphGoverned, AllGoverned
  <2>6. QED
    BY <2>3, <2>4, <2>5
<1>4. QED
  <2>1. CASE Admit(Target, After)
    BY <1>2, <1>3, <2>1 DEF Admit, To, scanVars, Still
  <2>2. CASE Declare(Target, After)
    <3>1. CASE UNCHANGED stems
      <4>1. Still
        BY <2>2, <3>1 DEF Declare, Still
      <4>2. \/ \E why : Fails(why)
            \/ cmd' = [cmd EXCEPT !.phase = After] /\ SelfReporting
            \/ /\ stems' = Marked(stems, Proposed(stems, Target))
               /\ cmd' = [cmd EXCEPT !.phase = After, !.offered = TRUE]
        BY <2>2 DEF Declare, To
      <4>3. cmd.phase = "preflight" /\ Boundary(stems, Target) = "undeclared" /\ UNCHANGED <<tree, mishaps>>
        BY <2>2 DEF Declare
      <4>4. QED
        BY <1>1, <1>2, <1>3, <4>1, <4>2, <4>3
    <3>2. CASE ~UNCHANGED stems
      BY <1>1, <2>2, <3>2 DEF Declare
    <3>3. QED
      BY <3>1, <3>2
  <2>3. QED
    BY <2>1, <2>2 DEF Preflight

\* Steps of the scan, of the graph's searches and of the environment.
LEMMA ElsewhereGoverned ==
    ASSUME Governed, UNCHANGED <<cmd, report>>, Still
    PROVE  Governed'
<1>1. /\ \A d : Resolve(stems, d)' = Resolve(stems, d) /\ Notice(stems, d)' = Notice(stems, d)
      /\ Fenced' = Fenced /\ StemsTyped' = StemsTyped /\ Boundary(stems, Root)' = Boundary(stems, Root)
  BY SameBoundary
<1>2. Broken(Records)' = Broken(Records) /\ Records' = Records /\ Succeeded' = Succeeded
  BY <1>1 DEF Broken, Records, Succeeded, Dir
<1>3. \A f : Told(f)' = Told(f)
  BY <1>1 DEF Told, Dir
<1>4. ToldSoFar' = ToldSoFar /\ Sheltered' = Sheltered
  BY <1>1, <1>2, <1>3 DEF ToldSoFar, Sheltered
<1>5. (GraphGoverned => GraphGoverned') /\ (AllGoverned => AllGoverned') /\ (FileGoverned => FileGoverned')
  BY <1>1, <1>2, <1>4 DEF GraphGoverned, AllGoverned, FileGoverned
<1>6. QED
  BY <1>1, <1>5 DEF Governed, Still, Untouched

LEMMA MishapGoverned ==
    ASSUME Governed, Environment, UNCHANGED cmd
    PROVE  Governed'
<1>1. mishaps' = mishaps + 1 /\ mishaps \in Nat
  BY DEF Environment, Cancel, Delete, EditStem, Disturb, Governed
<1>2. mishaps' \in Nat /\ mishaps' # 0
  BY <1>1
<1>3. StemsTyped'
  <2>1. CASE \E d \in Places : EditStem(d)
    <3>1. PICK s, d, new : s = stems /\ new \in StemStates /\ stems' = [s EXCEPT ![d] = new]
      BY <2>1 DEF EditStem
    <3>2. s \in [Places -> StemStates]
      BY <3>1 DEF Governed, StemsTyped
    <3>3. [s EXCEPT ![d] = new] \in [Places -> StemStates]
      BY <3>1, <3>2
    <3>4. QED
      BY <3>1, <3>3 DEF StemsTyped
  <2>2. CASE ~\E d \in Places : EditStem(d)
    BY <2>2 DEF Environment, Cancel, Delete, Governed, StemsTyped
  <2>3. QED
    BY <2>1, <2>2
<1>4. QED
  BY <1>2, <1>3 DEF Governed, Untouched

\* Whatever the code does, the invariant holds.
LEMMA GovernedSteps ==
    ASSUME SessionSound, Governed, Planned, [Next]_vars
    PROVE  Governed' /\ Planned'
<1>a. SessionTypes
  BY DEF SessionSound
<1>b. Planned'
  <2>1. CASE Begin
    <3>1. todo # <<>> /\ todo' = Tail(todo)
      BY <2>1 DEF Begin
    <3>2. \A q \in Seq(Commands) : q # <<>> => Tail(q) \in Seq(Commands)
      OBVIOUS
    <3>3. QED
      BY <3>1, <3>2 DEF Planned
  <2>2. CASE ~Begin
    BY <2>2 DEF Next, Preflight, Scanning, Working, Mishap, Over, vars, Planned
  <2>3. QED
    BY <2>1, <2>2
<1> SUFFICES Governed'
  BY <1>b
<1>1. CASE UNCHANGED vars
  <2>1. UNCHANGED <<cmd, report>> /\ Still
    BY <1>1 DEF vars, scanVars, Still
  <2>2. QED
    BY <2>1, ElsewhereGoverned
<1>2. CASE Begin
  BY <1>2, BeginGoverned
<1>3. CASE Preflight
  BY <1>3, <1>a, PreflightGoverned
<1>4. CASE Scanning
  <2>1. UNCHANGED <<cmd, report>> /\ Still
    BY <1>4 DEF Scanning, ScanNext, WalkDir, WalkFile, EndWalk, Send, Collect, Take, Extract, Leave, Steady, Still
  <2>2. QED
    BY <2>1, ElsewhereGoverned
<1>5. CASE Mishap
  BY <1>5, MishapGoverned DEF Mishap
<1>6. CASE ValidateNext
  <2>1. cmd.name \in {"all", "file"}
    BY <1>6 DEF ValidateNext, Health, AllScanned, CheckBoundary, FilterAll, ValidateRecord,
       ValidateDirectories, DetectDrift, NameFiles, ValidateFile, FilesDone, Derive, Now
  <2>2. QED
    BY <1>6, <1>a, <2>1, AllGovernedSteps, FileGovernedSteps, SMTT(30)
<1>7. CASE GraphStep /\ UNCHANGED <<scanVars, cmd, report>>
  <2>1. UNCHANGED <<cmd, report>> /\ Still
    BY <1>7 DEF scanVars, Still
  <2>2. QED
    BY <2>1, ElsewhereGoverned
<1>8. CASE GraphRescan
  <2>1. UNCHANGED <<cmd, report>> /\ Still
    BY <1>8 DEF GraphRescan, Retry, BeginScan, Still
  <2>2. QED
    BY <2>1, ElsewhereGoverned
<1>9. CASE /\ cmd.name = "graph"
           /\ \/ GraphStart \/ GraphScanned \/ Ensure \/ FilterStyles \/ Enrich \/ Stop \/ FilterWhere
              \/ CollectIssues \/ Prepare \/ FilterTypes \/ OptIn \/ BuildGraph \/ DecideByFlag \/ Decide \/ DecideByMembers
  BY <1>9, <1>a, GraphGovernedSteps
<1>10. QED
  BY <1>1, <1>2, <1>3, <1>4, <1>5, <1>6, <1>7, <1>8, <1>9 DEF Next, Over, Working, GraphNext

LEMMA GovernedStarts == Init => Governed /\ Planned
<1> SUFFICES ASSUME Init PROVE Governed /\ Planned
  OBVIOUS
<1>1. PICK x \in Sessions : ScanInit(x.tree) /\ todo = x.todo
  BY DEF Init
<1>2. mishaps = 0 /\ stems = x.tree.stems /\ x.tree \in Trees /\ Planned
  BY <1>1, SessionAssumption DEF ScanInit, Planned
<1>3. TreeTypes(x.tree)
  BY <1>2, ScanAssumption
<1>4. StemsTyped
  BY <1>2, <1>3 DEF TreeTypes, StemsTyped
<1>5. cmd.phase = "done" /\ cmd.name = None
  BY DEF Init, Command
<1>6. ASSUME NEW c \in Commands PROVE report[c].kind = "none"
  BY DEF Init
<1>7. cmd.name \in Commands => ~Succeeded
  BY <1>6 DEF Succeeded
<1>8. GraphGoverned /\ AllGoverned /\ FileGoverned
  BY <1>5, <1>7 DEF GraphGoverned, AllGoverned, FileGoverned, Admitting, Resolved, Derived, Commands
<1>9. QED
  BY <1>2, <1>4, <1>5, <1>8 DEF Governed

\* What the invariant says of a command that has succeeded.
LEMMA GovernedEnds ==
    ASSUME SessionSound, Governed
    PROVE  GovernedMeansDeclared
<1>1. SUFFICES ASSUME cmd.phase = "done", cmd.name # None, Untouched, Succeeded,
                      NEW f \in Records, f \in DOMAIN cmd.rows => cmd.rows[f] # {<<"excluded", f>>},
                      Chain(stems, Dir(f)) # {}
               PROVE  \/ stems[Topmost(Chain(stems, Dir(f)))] = "root"
                      \/ Topmost(Chain(stems, Dir(f))) \in tree.hidden
  BY DEF GovernedMeansDeclared, Untouched, Succeeded
<1>2. StemsTyped /\ GraphGoverned /\ AllGoverned /\ FileGoverned
  BY <1>1 DEF Governed
<1>3. f \in Known /\ Dir(f) \in Paths /\ IsPrefix(Root, Dir(f))
  <2>1. cmd.records \in Seq(Known)
    BY CommandFields DEF SessionSound
  <2>2. f \in Known
    BY <2>1 DEF Records, Range
  <2>3. QED
    BY <2>2, FileBelowRoot
<1>4. CASE cmd.name \in {"graph", "all"}
  <2>1. Sheltered
    BY <1>1, <1>2, <1>4 DEF GraphGoverned, AllGoverned
  <2>2. Fenced /\ Resolve(stems, Dir(f)) # "broken"
    BY <2>1 DEF Sheltered, Broken
  <2>3. QED
    BY <1>1, <1>2, <1>3, <2>2, BoundaryCovers
<1>5. CASE cmd.name = "file"
  <2>1. f \in DOMAIN cmd.rows /\ Told(f) /\ cmd.notices \subseteq {"no records"}
    BY <1>1, <1>2, <1>5 DEF FileGoverned, ToldSoFar
  <2>2. Resolve(stems, Dir(f)) = "governed" /\ Notice(stems, Dir(f)) \subseteq {"no records"}
    BY <1>1, <2>1 DEF Told
  <2>3. Boundary(stems, Dir(f)) # "undeclared"
    BY <2>2 DEF Notice
  <2>4. QED
    BY <1>1, <2>2, <2>3 DEF Boundary
<1>6. cmd.name \in Commands
  BY <1>1 DEF Governed
<1>7. QED
  BY <1>4, <1>5, <1>6 DEF Commands

(***************************************************************************)
(* The theorems.                                                           *)
(***************************************************************************)
\* Whatever the tree, its links and what happens meanwhile, once DetectCycles is
\* done its reported cycles are cycles of the graph, closed and canonical, and
\* every group of documents that reach one another has one.
THEOREM CyclesAreReal == Spec => []CyclesReal
<1>1. SessionSound => CyclesReal
  BY DfsDone DEF SessionSound, SearchSound, Idle, CyclesReal
<1>2. QED
  BY <1>1, SessionStarts, SessionSteps, PTL DEF Spec

\* Without --fail-cycles, graph --check fails for cycles exactly when a document
\* that opted in lies on one, in whatever order CycleMembers took its roots.
THEOREM OptedInFails == Spec => []OptedInCycleFails
<1>1. SessionSound => OptedInCycleFails
  BY DEF SessionSound
<1>2. QED
  BY <1>1, SessionStarts, SessionSteps, PTL DEF Spec

\* A command that succeeds without having offered the marker judged none of its
\* documents by rules from outside the project (boundaryPreflight).
THEOREM DeclaredWhenGoverned == Spec => []GovernedMeansDeclared
<1>1. Init => SessionSound /\ Governed /\ Planned
  BY SessionStarts, GovernedStarts
<1>2. SessionSound /\ Governed /\ Planned /\ [Next]_vars => (SessionSound /\ Governed /\ Planned)'
  BY SessionSteps, GovernedSteps
<1>3. SessionSound /\ Governed /\ Planned => GovernedMeansDeclared
  BY GovernedEnds
<1>4. QED
  BY <1>1, <1>2, <1>3, PTL DEF Spec

(***************************************************************************)
(* The scan is exact: at every moment of the walk its files are what the   *)
(* part walked so far owes, each directory judged by the .stem files as    *)
(* they were when the resolver was asked for it (Judging), and what is not *)
(* listed in a directory that was read is gone (Listed).                  *)
(***************************************************************************)
\* q is what list has of S up to m.
KeptSoFar(q, list, S, m) ==
    \E kept \in [0..m -> Seq(Entries)] :
        /\ kept[0] = <<>> /\ kept[m] = q
        /\ \A i \in 1..m : kept[i] = IF list[i] \in S THEN Append(kept[i-1], list[i]) ELSE kept[i-1]

\* The walk has come past e.
Walked(e) == \E i \in 1..(scan.at - 1) : Walk[i] = e

Listed ==
    /\ scan.listed \cap tree.absent = {}
    /\ \A f \in Files : Walked(Dir(f)) => f \in scan.listed \cup gone

Judging(judged) ==
    /\ \A d \in Dirs : scan.cache[d] # None =>
          /\ Walked(d) /\ scan.cache[d] = Resolve(judged[d], d)
          /\ scan.cache[d] = "broken" => scan.resilient
    /\ \A d \in Dirs : Walked(d) /\ scan.cache[d] = None =>
          /\ judged[d][d] = "none"
          /\ \A f \in Files \cap scan.listed : Walked(f) /\ Dir(f) = d => Ignored(f)
    /\ KeptSoFar(scan.files, Walk, Owed(judged) \cap scan.listed, scan.at - 1)

\* What a worker leaves for the i-th file.
Answered(i) ==
    \/ scan.results[i] = [failed |-> TRUE, file |-> "cancelled"] /\ cancelled
    \/ /\ scan.results[i] = [failed |-> scan.results[i].failed, file |-> scan.files[i]]
       /\ scan.results[i].failed => scan.files[i] \in gone \cup tree.bad
       /\ scan.files[i] \in tree.bad => scan.results[i].failed
Answers == \A i \in 1..scan.taken : (\E w \in Workers : hold[w] = i) \/ Answered(i)

Progress ==
    /\ scan.cache = [d \in Dirs |-> scan.cache[d]]
    /\ scan.at \in 1..(Len(Walk) + 1)
    /\ stems \in seen /\ scan.out = Running
    /\ Listed
    /\ \E judged \in [Dirs -> seen] : Judging(judged)

\* What ScanExact says of a scan that has ended.
BrokenFor(judged) == {d \in Dirs : Resolve(judged[d], d) = "broken" /\ ~scan.resilient}
Needed(judged, d) == judged[d][d] # "none" \/ \E f \in Files \ gone : Dir(f) = d /\ ~Ignored(f)
NthIn(order, f)   == CHOOSE i \in DOMAIN order : order[i] = f

RecordsRight(records, judged) ==
    /\ \A d \in BrokenFor(judged) : ~Needed(judged, d)
    /\ \E there \in SUBSET gone :
          records = InWalkOrder(Owed(judged) \cap ((Files \ gone) \cup (there \ tree.absent)))
SchemaRight(judged) == ~scan.ungoverned /\ Owed(judged) \subseteq gone
ErrorRight(why, judged) ==
    \/ why = "cancelled" /\ cancelled
    \/ why \in BrokenFor(judged)
    \/ /\ why \in Owed(judged) \cap (gone \cup tree.bad)
       /\ ~cancelled =>
          \A f \in Owed(judged) \cap (tree.bad \ gone) :
             NthIn(InWalkOrder(Owed(judged)), why) <= NthIn(InWalkOrder(Owed(judged)), f)
Right(out, judged) ==
    \/ out.kind = "records" /\ RecordsRight(out.records, judged)
    \/ out.kind = "noschema" /\ SchemaRight(judged)
    \/ out.kind = "error" /\ ErrorRight(out.why, judged)

Exact ==
    /\ tree \in Trees /\ tree.absent \subseteq gone
    /\ cmd.phase # "scan" => scan.phase = "done"
    /\ scan.phase \in Phases
    /\ scan.phase # "done" => Progress
    /\ scan.phase = "extract" => scan.at = Len(Walk) + 1 /\ Answers
    /\ scan.phase = "done" /\ scan.out # Running => \E judged \in [Dirs -> seen] : Right(scan.out, judged)

(***************************************************************************)
(* What a list has of a set.                                               *)
(***************************************************************************)
LEMMA KeptNothing == \A list, S : KeptSoFar(<<>>, list, S, 0)
<1> SUFFICES ASSUME NEW list, NEW S PROVE KeptSoFar(<<>>, list, S, 0)
  OBVIOUS
<1> DEFINE g == [i \in 0..0 |-> <<>>]
<1>1. <<>> \in Seq(Entries) /\ 0 \in 0..0
  OBVIOUS
<1>2. g \in [0..0 -> Seq(Entries)] /\ g[0] = <<>>
  BY <1>1
<1>3. \A i \in 1..0 : FALSE
  OBVIOUS
<1> HIDE DEF g
<1>4. QED
  BY <1>2, <1>3 DEF KeptSoFar

LEMMA KeptOneMore ==
    ASSUME NEW q, NEW list \in Seq(Entries), NEW S, NEW m \in Nat, m + 1 <= Len(list), KeptSoFar(q, list, S, m)
    PROVE  KeptSoFar(IF list[m+1] \in S THEN Append(q, list[m+1]) ELSE q, list, S, m + 1)
<1>1. PICK kept \in [0..m -> Seq(Entries)] :
             /\ kept[0] = <<>> /\ kept[m] = q
             /\ \A i \in 1..m : kept[i] = IF list[i] \in S THEN Append(kept[i-1], list[i]) ELSE kept[i-1]
  BY DEF KeptSoFar
<1>a. PICK r : r = IF list[m+1] \in S THEN Append(q, list[m+1]) ELSE q
  OBVIOUS
<1>2. r \in Seq(Entries)
  <2>1. list[m+1] \in Entries /\ q \in Seq(Entries)
    BY <1>1
  <2>2. QED
    BY <1>a, <2>1
<1> DEFINE h == [i \in 0..(m+1) |-> IF i = m + 1 THEN r ELSE kept[i]]
<1>3. h \in [0..(m+1) -> Seq(Entries)]
  <2>1. \A i \in 0..(m+1) : i = m + 1 \/ i \in 0..m
    OBVIOUS
  <2>2. QED
    BY <1>1, <1>2, <2>1
<1>4. h[0] = <<>> /\ h[m+1] = r /\ h[m] = q
  BY <1>1
<1>5. ASSUME NEW i \in 1..(m+1)
      PROVE  h[i] = IF list[i] \in S THEN Append(h[i-1], list[i]) ELSE h[i-1]
  <2>1. CASE i = m + 1
    BY <1>4, <1>a, <2>1
  <2>2. CASE i # m + 1
    <3>1. i \in 1..m /\ i - 1 \in 0..(m+1) /\ i - 1 # m + 1
      BY <2>2
    <3>2. h[i] = kept[i] /\ h[i-1] = kept[i-1]
      BY <2>2, <3>1
    <3> HIDE DEF h
    <3>3. QED
      BY <1>1, <3>1, <3>2
  <2>3. QED
    BY <2>1, <2>2
<1> HIDE DEF h
<1>6. KeptSoFar(r, list, S, m + 1)
  BY <1>3, <1>4, <1>5 DEF KeptSoFar
<1>7. QED
  BY <1>6, <1>a

LEMMA KeptAlike ==
    ASSUME NEW q, NEW list, NEW S, NEW T, NEW m, KeptSoFar(q, list, S, m),
           \A i \in 1..m : list[i] \in S <=> list[i] \in T
    PROVE  KeptSoFar(q, list, T, m)
<1>1. PICK kept \in [0..m -> Seq(Entries)] :
             /\ kept[0] = <<>> /\ kept[m] = q
             /\ \A i \in 1..m : kept[i] = IF list[i] \in S THEN Append(kept[i-1], list[i]) ELSE kept[i-1]
  BY DEF KeptSoFar
<1>2. \A i \in 1..m : kept[i] = IF list[i] \in T THEN Append(kept[i-1], list[i]) ELSE kept[i-1]
  BY <1>1
<1>3. QED
  BY <1>1, <1>2 DEF KeptSoFar

\* Kept is what is kept in the end, and there is only one such list.
LEMMA KeptInTheEnd ==
    ASSUME NEW q, NEW list \in Seq(Entries), NEW S, KeptSoFar(q, list, S, Len(list))
    PROVE  q = Kept(list, S)
<1>a. PICK n \in Nat : n = Len(list)
  OBVIOUS
<1> DEFINE kept == CHOOSE g : g = [i \in 0..n |-> IF i = 0 THEN <<>> ELSE IF list[i] \in S THEN Append(g[i-1], list[i]) ELSE g[i-1]]
<1>1. PICK g \in [0..n -> Seq(Entries)] :
             /\ g[0] = <<>> /\ g[n] = q
             /\ \A i \in 1..n : g[i] = IF list[i] \in S THEN Append(g[i-1], list[i]) ELSE g[i-1]
  BY <1>a DEF KeptSoFar
<1>2. g = [i \in 0..n |-> IF i = 0 THEN <<>> ELSE IF list[i] \in S THEN Append(g[i-1], list[i]) ELSE g[i-1]]
  <2>1. \A i \in 0..n : i = 0 \/ i \in 1..n
    OBVIOUS
  <2>2. \A i \in 0..n : g[i] = IF i = 0 THEN <<>> ELSE IF list[i] \in S THEN Append(g[i-1], list[i]) ELSE g[i-1]
    BY <1>1, <2>1
  <2>3. QED
    BY <2>2
<1>3. kept = [i \in 0..n |-> IF i = 0 THEN <<>> ELSE IF list[i] \in S THEN Append(kept[i-1], list[i]) ELSE kept[i-1]]
  BY <1>2, Zenon
<1>4. Kept(list, S) = kept[n]
  BY <1>a DEF Kept
<1> HIDE DEF kept
<1>5. \A i \in 0..n : kept[i] = IF i = 0 THEN <<>> ELSE IF list[i] \in S THEN Append(kept[i-1], list[i]) ELSE kept[i-1]
  BY <1>3
<1> DEFINE U == {i \in 0..n : kept[i] = g[i]}
<1>6. 0 \in U
  <2>1. 0 \in 0..n
    OBVIOUS
  <2>2. kept[0] = <<>>
    BY <1>5, <2>1
  <2>3. QED
    BY <1>1, <2>1, <2>2
<1>7. ASSUME NEW i \in 0..n, i < n, i \in U PROVE i + 1 \in U
  <2>1. i + 1 \in 1..n /\ i + 1 \in 0..n /\ i + 1 # 0 /\ (i + 1) - 1 = i /\ kept[i] = g[i]
    BY <1>7
  <2>2. kept[i+1] = IF list[i+1] \in S THEN Append(kept[i], list[i+1]) ELSE kept[i]
    BY <1>5, <2>1
  <2>3. g[i+1] = IF list[i+1] \in S THEN Append(g[i], list[i+1]) ELSE g[i]
    BY <1>1, <2>1
  <2>4. QED
    BY <2>1, <2>2, <2>3
<1> HIDE DEF U
<1>8. \A i \in 0..n : i \in U
  BY <1>6, <1>7, IntervalInduction
<1> USE DEF U
<1>9. kept[n] = g[n]
  BY <1>8
<1>10. QED
  BY <1>1, <1>4, <1>9

\* And there is one.
LEMMA KeptIsKept ==
    ASSUME NEW list \in Seq(Entries), NEW S
    PROVE  KeptSoFar(Kept(list, S), list, S, Len(list))
<1>a. PICK n \in Nat : n = Len(list)
  OBVIOUS
<1> DEFINE U == {i \in 0..n : \E q : KeptSoFar(q, list, S, i)}
<1>1. 0 \in U
  <2>1. 0 \in 0..n
    OBVIOUS
  <2>2. KeptSoFar(<<>>, list, S, 0)
    BY KeptNothing
  <2>3. QED
    BY <2>1, <2>2
<1>2. ASSUME NEW i \in 0..n, i < n, i \in U PROVE i + 1 \in U
  <2>1. i \in Nat /\ i + 1 <= Len(list) /\ i + 1 \in 0..n
    BY <1>2, <1>a
  <2>2. PICK q : KeptSoFar(q, list, S, i)
    BY <1>2
  <2>3. \E p : KeptSoFar(p, list, S, i + 1)
    BY <2>1, <2>2, KeptOneMore
  <2>4. QED
    BY <2>1, <2>3
<1> HIDE DEF U
<1>3. \A i \in 0..n : i \in U
  BY <1>1, <1>2, IntervalInduction
<1> USE DEF U
<1>4. PICK q : KeptSoFar(q, list, S, n)
  BY <1>3
<1>5. QED
  BY <1>4, <1>a, KeptInTheEnd

\* q's i-th is at place[i] of the list, and all that the list has of S up to m
\* is in q.
Placing(q, list, S, m, n, place) ==
    /\ q \in Seq(Entries) /\ Len(q) = n
    /\ \A i \in 1..n : q[i] = list[place[i]] /\ list[place[i]] \in S
    /\ \A i, j \in 1..n : i < j => place[i] < place[j]
    /\ \A k \in 1..m : list[k] \in S => \E i \in 1..n : place[i] = k

\* What is kept keeps its order.
LEMMA KeptPlaces ==
    ASSUME NEW list \in Seq(Entries), NEW S, NEW m \in 0..Len(list), NEW q, KeptSoFar(q, list, S, m)
    PROVE  \E n \in Nat : \E place \in [1..n -> 1..m] : Placing(q, list, S, m, n, place)
<1>1. PICK kept \in [0..m -> Seq(Entries)] :
             /\ kept[0] = <<>> /\ kept[m] = q
             /\ \A i \in 1..m : kept[i] = IF list[i] \in S THEN Append(kept[i-1], list[i]) ELSE kept[i-1]
  BY DEF KeptSoFar
<1> DEFINE U == {l \in 0..m : \E n \in Nat : \E place \in [1..n -> 1..l] : Placing(kept[l], list, S, l, n, place)}
<1>2. m \in Nat /\ \A l \in 1..m : list[l] \in Entries
  OBVIOUS
<1>3. 0 \in U
  <2> DEFINE place == [i \in 1..0 |-> 0]
  <2>1. place \in [1..0 -> 1..0]
    OBVIOUS
  <2>2. Placing(kept[0], list, S, 0, 0, place)
    BY <1>1 DEF Placing
  <2> HIDE DEF place
  <2>3. 0 \in 0..m
    BY <1>2
  <2>4. QED
    BY <2>1, <2>2, <2>3
<1>4. ASSUME NEW l \in 0..m, l < m, l \in U PROVE l + 1 \in U
  <2>a. l \in Nat /\ l + 1 \in 1..m /\ l + 1 \in 0..m /\ (l + 1) - 1 = l /\ list[l+1] \in Entries
    BY <1>2, <1>4
  <2>1. PICK n \in Nat : \E place \in [1..n -> 1..l] : Placing(kept[l], list, S, l, n, place)
    BY <1>4
  <2>2. PICK place \in [1..n -> 1..l] : Placing(kept[l], list, S, l, n, place)
    BY <2>1
  <2>3. PICK x : x = kept[l]
    OBVIOUS
  <2>4. PICK y : y = kept[l+1]
    OBVIOUS
  <2>5. y = IF list[l+1] \in S THEN Append(x, list[l+1]) ELSE x
    BY <1>1, <2>3, <2>4, <2>a
  <2>6. Placing(x, list, S, l, n, place)
    BY <2>2, <2>3
  <2>7. CASE list[l+1] \notin S
    <3>1. place \in [1..n -> 1..(l+1)]
      BY <2>a
    <3>2. Placing(y, list, S, l + 1, n, place)
      <4>1. \A k \in 1..(l+1) : k \in 1..l \/ k = l + 1
        BY <2>a
      <4>2. QED
        BY <2>5, <2>6, <2>7, <4>1 DEF Placing
    <3>3. QED
      BY <2>4, <2>a, <3>1, <3>2
  <2>8. CASE list[l+1] \in S
    <3> DEFINE more == [i \in 1..(n+1) |-> IF i = n + 1 THEN l + 1 ELSE place[i]]
    <3>1. \A i \in 1..(n+1) : i = n + 1 \/ (i # n + 1 /\ i \in 1..n)
      OBVIOUS
    <3>2. more \in [1..(n+1) -> 1..(l+1)]
      <4>1. l + 1 \in 1..(l+1) /\ \A k \in 1..l : k \in 1..(l+1)
        BY <2>a
      <4>2. QED
        BY <3>1, <4>1
    <3>3. more[n+1] = l + 1 /\ \A i \in 1..n : more[i] = place[i] /\ place[i] \in 1..l
      <4>1. n + 1 \in 1..(n+1) /\ \A i \in 1..n : i \in 1..(n+1) /\ i # n + 1
        OBVIOUS
      <4>2. QED
        BY <4>1
    <3> HIDE DEF more
    <3>4. y \in Seq(Entries) /\ Len(y) = n + 1 /\ y[n+1] = list[l+1] /\ \A i \in 1..n : y[i] = x[i]
      BY <2>5, <2>6, <2>8, <2>a DEF Placing
    <3>5. \A i \in 1..(n+1) : y[i] = list[more[i]] /\ list[more[i]] \in S
      BY <2>6, <2>8, <3>1, <3>3, <3>4 DEF Placing
    <3>6. \A i, j \in 1..(n+1) : i < j => more[i] < more[j]
      <4>1. SUFFICES ASSUME NEW i \in 1..(n+1), NEW j \in 1..(n+1), i < j PROVE more[i] < more[j]
        OBVIOUS
      <4>2. i \in 1..n
        BY <4>1
      <4>3. CASE j = n + 1
        BY <2>a, <3>3, <4>2, <4>3, SMTT(30)
      <4>4. CASE j # n + 1
        BY <2>6, <3>1, <3>3, <4>1, <4>2, <4>4 DEF Placing
      <4>5. QED
        BY <4>3, <4>4
    <3>7. \A k \in 1..(l+1) : list[k] \in S => \E i \in 1..(n+1) : more[i] = k
      <4>1. SUFFICES ASSUME NEW k \in 1..(l+1), list[k] \in S PROVE \E i \in 1..(n+1) : more[i] = k
        OBVIOUS
      <4>2. CASE k = l + 1
        BY <3>3, <4>2
      <4>3. CASE k # l + 1
        <5>1. k \in 1..l
          BY <2>a, <4>3
        <5>2. PICK i \in 1..n : place[i] = k
          BY <2>6, <4>1, <5>1 DEF Placing
        <5>3. i \in 1..(n+1) /\ more[i] = k
          BY <3>3, <5>2
        <5>4. QED
          BY <5>3
      <4>4. QED
        BY <4>2, <4>3
    <3>8. Placing(y, list, S, l + 1, n + 1, more)
      BY <3>4, <3>5, <3>6, <3>7 DEF Placing
    <3>9. n + 1 \in Nat
      OBVIOUS
    <3>10. QED
      BY <2>4, <2>a, <3>2, <3>8, <3>9
  <2>9. QED
    BY <2>7, <2>8
<1> HIDE DEF U
<1>5. \A l \in 0..m : l \in U
  BY <1>2, <1>3, <1>4, IntervalInduction
<1> USE DEF U
<1>6. m \in 0..m
  BY <1>2
<1>7. \E n \in Nat : \E place \in [1..n -> 1..m] : Placing(q, list, S, m, n, place)
  BY <1>1, <1>5, <1>6
<1>8. QED
  BY <1>7

(***************************************************************************)
(* The walk.                                                               *)
(***************************************************************************)
\* Every entry is walked once, and the directory of one, but for Root's, before.
LEMMA WalkIs ==
    /\ Len(Walk) \in Nat /\ Walk \in Seq(Entries)
    /\ \A i \in 1..Len(Walk) : Walk[i] \in Entries
    /\ \A e \in Entries : \E i \in 1..Len(Walk) : Walk[i] = e
    /\ \A i, j \in 1..Len(Walk) : Walk[i] = Walk[j] => i = j
    /\ \A i \in 1..Len(Walk) : Walk[i] # Root =>
          /\ Dir(Walk[i]) \in Dirs /\ \E j \in 1..(i-1) : Walk[j] = Dir(Walk[i])
          /\ \A j \in i..Len(Walk) : Walk[j] # Dir(Walk[i])
<1>1. Walk \in Seq(Entries)
  BY ScanAssumption
<1>2. Len(Walk) \in Nat /\ DOMAIN Walk = 1..Len(Walk) /\ \A i \in 1..Len(Walk) : Walk[i] \in Entries
  BY <1>1
<1>3. \A e \in Entries : \E i \in 1..Len(Walk) : Walk[i] = e
  BY <1>2 DEF Entries, Range
<1>4. \A i, j \in 1..Len(Walk) : Walk[i] = Walk[j] => i = j
  BY <1>2, ScanAssumption
<1>5. ASSUME NEW i \in 1..Len(Walk), Walk[i] # Root
      PROVE  /\ Dir(Walk[i]) \in Dirs /\ \E j \in 1..(i-1) : Walk[j] = Dir(Walk[i])
             /\ \A j \in i..Len(Walk) : Walk[j] # Dir(Walk[i])
  <2>1. PICK k \in 1..(i-1) : Walk[k] = Dir(Walk[i]) /\ Walk[k] \in Dirs
    BY <1>2, <1>5, ScanAssumption DEF Dir
  <2>2. \A j \in i..Len(Walk) : Walk[j] # Walk[k]
    <3>1. \A j \in i..Len(Walk) : j \in 1..Len(Walk) /\ k \in 1..Len(Walk) /\ j # k
      BY <1>2
    <3>2. QED
      BY <1>4, <3>1
  <2>3. QED
    BY <2>1, <2>2
<1>6. QED
  BY <1>1, <1>2, <1>3, <1>4, <1>5

LEMMA FileDir ==
    ASSUME NEW f \in Files
    PROVE  f \in Entries /\ f # Root /\ f \notin Dirs /\ Dir(f) \in Dirs
<1>1. f \in Entries /\ f # Root /\ f \notin Dirs
  BY ScanAssumption DEF Files
<1>2. PICK i \in 1..Len(Walk) : Walk[i] = f
  BY <1>1, WalkIs
<1>3. Dir(Walk[i]) \in Dirs
  BY <1>1, <1>2, WalkIs
<1>4. QED
  BY <1>1, <1>2, <1>3

LEMMA ScanFieldsAre ==
    ASSUME ScanSound
    PROVE  /\ scan = [x \in ScanFields |-> scan[x]] /\ DOMAIN scan = ScanFields
           /\ ScanFields = {"phase", "resilient", "ungoverned", "at", "listed", "files", "hit", "cache",
                            "sent", "taken", "results", "out"}
BY DEF ScanSound, Shaped, ScanFields, Start

LEMMA ResolveIs == \A s, d : Resolve(s, d) \in {"none", "broken", "governed"}
BY DEF Resolve

LEMMA OwedMeans ==
    ASSUME NEW judged, NEW f
    PROVE  f \in Owed(judged) <=>
             /\ f \in Known /\ ~Ignored(f)
             /\ Resolve(judged[Dir(f)], Dir(f)) = "none" => scan.ungoverned
             /\ Resolve(judged[Dir(f)], Dir(f)) = "broken" => scan.resilient
             /\ Resolve(judged[Dir(f)], Dir(f)) = "governed" => f \notin tree.outOfScope
<1>a. PICK r : r = Resolve(judged[Dir(f)], Dir(f))
  OBVIOUS
<1>1. r \in {"none", "broken", "governed"}
  BY <1>a, ResolveIs
<1>2. f \in Owed(judged) <=>
        /\ f \in Known /\ ~Ignored(f)
        /\ CASE r = "none" -> scan.ungoverned [] r = "broken" -> scan.resilient
             [] r = "governed" -> f \notin tree.outOfScope
  BY <1>a DEF Owed
<1>3. CASE r = "none"
  BY <1>2, <1>3, <1>a
<1>4. CASE r = "broken"
  BY <1>2, <1>4, <1>a
<1>5. CASE r = "governed"
  BY <1>2, <1>5, <1>a
<1>6. QED
  BY <1>1, <1>3, <1>4, <1>5

\* What is owed is a matter of the tree and of what was asked for.
LEMMA OwedStays ==
    ASSUME tree' = tree, scan'.ungoverned = scan.ungoverned, scan'.resilient = scan.resilient
    PROVE  /\ \A f : Ignored(f)' = Ignored(f)
           /\ \A judged : Owed(judged)' = Owed(judged) /\ BrokenFor(judged)' = BrokenFor(judged)
BY DEF Owed, Ignored, InScope, Resolve, Chain, Dir, BrokenFor

\* A later place in the walk is a later place among what is kept of it.
LEMMA InOrder ==
    ASSUME NEW S, NEW i \in 1..Len(Walk), NEW k \in 1..Len(Walk), Walk[i] \in S, Walk[k] \in S, i <= k
    PROVE  NthIn(InWalkOrder(S), Walk[i]) <= NthIn(InWalkOrder(S), Walk[k])
<1>a. PICK q : q = InWalkOrder(S)
  OBVIOUS
<1>b. PICK m : m = Len(Walk)
  OBVIOUS
<1>1. KeptSoFar(q, Walk, S, m)
  BY <1>a, <1>b, WalkIs, KeptIsKept DEF InWalkOrder
<1>2. m \in 0..Len(Walk) /\ Walk \in Seq(Entries)
  BY <1>b, WalkIs
<1>3. PICK n \in Nat : \E place \in [1..n -> 1..m] : Placing(q, Walk, S, m, n, place)
  BY <1>1, <1>2, KeptPlaces
<1>4. PICK place \in [1..n -> 1..m] : Placing(q, Walk, S, m, n, place)
  BY <1>3
<1> USE DEF Placing
<1>5. DOMAIN q = 1..n
  BY <1>4
<1>6. PICK x \in 1..n, y \in 1..n : place[x] = i /\ place[y] = k
  BY <1>4, <1>b
<1>7. ASSUME NEW z \in 1..n, NEW w \in 1..n, q[z] = q[w] PROVE z = w
  <2>1. place[z] \in 1..Len(Walk) /\ place[w] \in 1..Len(Walk) /\ Walk[place[z]] = Walk[place[w]]
    BY <1>4, <1>7, <1>b
  <2>2. place[z] = place[w]
    BY <2>1, WalkIs
  <2>3. ~(z < w) /\ ~(w < z)
    <3>1. PICK a, b : a = place[z] /\ b = place[w] /\ a \in 1..m /\ b \in 1..m
      BY <1>4
    <3>2. a = b
      BY <2>2, <3>1
    <3>3. (z < w => a < b) /\ (w < z => b < a)
      BY <1>4, <3>1
    <3>4. QED
      BY <3>1, <3>2, <3>3
  <2>4. QED
    BY <2>3
<1>8. NthIn(q, Walk[i]) = x
  BY <1>4, <1>5, <1>6, <1>7 DEF NthIn
<1>9. NthIn(q, Walk[k]) = y
  BY <1>4, <1>5, <1>6, <1>7 DEF NthIn
<1>10. x <= y
  <2>1. y < x => place[y] < place[x]
    BY <1>4
  <2>2. QED
    BY <1>6, <2>1
<1>11. QED
  BY <1>8, <1>9, <1>10, <1>a

(***************************************************************************)
(* At the end of the walk.                                                 *)
(***************************************************************************)
LEMMA WalkedOut ==
    ASSUME Exact, scan.at = Len(Walk) + 1, NEW judged \in [Dirs -> seen], Judging(judged), Listed
    PROVE  /\ \A f \in Owed(judged) : f \in scan.listed \/ f \in gone
           /\ KeptSoFar(scan.files, Walk, Owed(judged) \cap scan.listed, Len(Walk))
           /\ RecordsRight(scan.files, judged)
<1>1. \A e \in Entries : Walked(e)
  <2>1. scan.at - 1 = Len(Walk)
    BY WalkIs
  <2>2. QED
    BY <2>1, WalkIs DEF Walked
<1>2. \A f \in Files : f \in scan.listed \cup gone
  BY <1>1, FileDir, ScanAssumption DEF Listed
<1>3. \A f \in Owed(judged) : f \in Files /\ ~Ignored(f) /\ f \in Known
  BY OwedMeans, ScanAssumption
<1>4. KeptSoFar(scan.files, Walk, Owed(judged) \cap scan.listed, Len(Walk))
  <2>1. scan.at - 1 = Len(Walk)
    BY WalkIs
  <2>2. QED
    BY <2>1 DEF Judging
<1>5. ASSUME NEW d \in BrokenFor(judged), Needed(judged, d) PROVE FALSE
  <2>1. d \in Dirs /\ Resolve(judged[d], d) = "broken" /\ ~scan.resilient
    BY <1>5 DEF BrokenFor
  <2>2. scan.cache[d] = None
    BY <2>1 DEF Judging
  <2>3. /\ judged[d][d] = "none"
        /\ \A f \in Files \cap scan.listed : Walked(f) /\ Dir(f) = d => Ignored(f)
    BY <1>1, <2>1, <2>2, ScanAssumption DEF Judging
  <2>4. PICK f \in Files \ gone : Dir(f) = d /\ ~Ignored(f)
    BY <1>5, <2>3 DEF Needed
  <2>5. f \in Files \cap scan.listed /\ Walked(f)
    BY <1>1, <1>2, <2>4, FileDir
  <2>6. QED
    BY <2>3, <2>4, <2>5
<1> DEFINE there == scan.listed \cap gone
<1>6. Owed(judged) \cap scan.listed = Owed(judged) \cap ((Files \ gone) \cup (there \ tree.absent))
  <2>1. scan.listed \cap tree.absent = {} /\ tree.absent \subseteq gone
    BY DEF Exact, Listed
  <2>2. QED
    BY <1>2, <1>3, <2>1
<1>7. scan.files = InWalkOrder(Owed(judged) \cap scan.listed)
  BY <1>4, WalkIs, KeptInTheEnd DEF InWalkOrder
<1>8. there \in SUBSET gone /\ scan.files = InWalkOrder(Owed(judged) \cap ((Files \ gone) \cup (there \ tree.absent)))
  BY <1>6, <1>7
<1>9. RecordsRight(scan.files, judged)
  <2> HIDE DEF there
  <2>1. QED
    BY <1>5, <1>8 DEF RecordsRight
<1>10. QED
  BY <1>2, <1>3, <1>4, <1>9

\* The answer of a scan that has just ended.
LEMMA AnswerStays ==
    ASSUME UNCHANGED <<tree, gone, cancelled, seen>>, scan'.ungoverned = scan.ungoverned,
           scan'.resilient = scan.resilient, NEW judged \in [Dirs -> seen]
    PROVE  /\ judged \in [Dirs -> seen']
           /\ \A records : RecordsRight(records, judged)' = RecordsRight(records, judged)
           /\ SchemaRight(judged)' = SchemaRight(judged)
           /\ \A why : ErrorRight(why, judged)' = ErrorRight(why, judged)
<1>1. Owed(judged)' = Owed(judged) /\ BrokenFor(judged)' = BrokenFor(judged) /\ \A f : Ignored(f)' = Ignored(f)
  BY OwedStays
<1>2. \A d : Needed(judged, d)' = Needed(judged, d)
  BY <1>1 DEF Needed, Dir
<1>3. \A records : RecordsRight(records, judged)' = RecordsRight(records, judged)
  BY <1>1, <1>2 DEF RecordsRight, InWalkOrder
<1>4. SchemaRight(judged)' = SchemaRight(judged)
  BY <1>1 DEF SchemaRight
<1>5. \A why : ErrorRight(why, judged)' = ErrorRight(why, judged)
  BY <1>1 DEF ErrorRight, InWalkOrder
<1>6. QED
  BY <1>3, <1>4, <1>5

(***************************************************************************)
(* The steps.                                                              *)
(***************************************************************************)
LEMMA TreeIs ==
    ASSUME Exact
    PROVE  TreeTypes(tree) /\ tree.absent \subseteq Files /\ Root \notin tree.absent
<1>1. TreeTypes(tree)
  BY ScanAssumption DEF Exact
<1>2. tree.absent \subseteq Files
  BY <1>1 DEF TreeTypes
<1>3. QED
  BY <1>1, <1>2, ScanAssumption DEF Files

\* A scan begins: nothing has been walked.
LEMMA BeginExact ==
    ASSUME Exact, NEW r, NEW u, BeginScan(r, u), cmd'.phase = "scan"
    PROVE  Exact'
<1>1. /\ scan' = Start(r, u) /\ seen' = {stems}
      /\ UNCHANGED <<tree, stems, gone, cancelled, mishaps>>
  BY DEF BeginScan
<1>2. /\ scan'.phase = "walk" /\ scan'.at = 1 /\ scan'.listed = {Root} /\ scan'.files = <<>>
      /\ scan'.cache = [d \in Dirs |-> None] /\ scan'.out = Running
  BY <1>1 DEF Start
<1>3. scan'.at - 1 = 0 /\ scan'.at \in 1..(Len(Walk) + 1)
  BY <1>2, WalkIs
<1>4. \A e : ~Walked(e)'
  BY <1>3 DEF Walked
<1>5. Listed'
  BY <1>1, <1>2, <1>4, TreeIs DEF Listed, Dir
<1>a. PICK judged : judged = [d \in Dirs |-> stems]
  OBVIOUS
<1>6. judged \in [Dirs -> seen']
  BY <1>1, <1>a
<1>7. Judging(judged)'
  <2>1. KeptSoFar(scan'.files, Walk, (Owed(judged) \cap scan.listed)', scan'.at - 1)
    BY <1>2, <1>3, KeptNothing
  <2>2. \A d \in Dirs : scan'.cache[d] = None
    BY <1>2
  <2>3. QED
    BY <1>4, <2>1, <2>2 DEF Judging
<1>8. Progress'
  <2>1. scan'.cache = [d \in Dirs |-> scan'.cache[d]]
    BY <1>2
  <2>2. \E j \in [Dirs -> seen'] : Judging(j)'
    BY <1>6, <1>7, Zenon
  <2>3. stems' \in seen'
    BY <1>1
  <2>4. QED
    BY <1>2, <1>3, <1>5, <2>1, <2>2, <2>3 DEF Progress
<1>9. QED
  BY <1>1, <1>2, <1>8 DEF Exact, Phases

\* Meanwhile: documents are deleted, .stem files edited, the context is cancelled.
Later ==
    /\ UNCHANGED <<tree, scan, hold>>
    /\ gone \subseteq gone' /\ gone' \subseteq gone \cup Files
    /\ cancelled => cancelled'
    /\ seen \subseteq seen' /\ (scan.phase # "done" => stems' \in seen')
    /\ cmd'.phase # "scan" => scan.phase = "done"

LEMMA LaterExact ==
    ASSUME Exact, Later
    PROVE  Exact'
<1>1. /\ tree' = tree /\ scan' = scan /\ hold' = hold /\ gone \subseteq gone' /\ gone' \subseteq gone \cup Files
      /\ (cancelled => cancelled') /\ seen \subseteq seen'
  BY DEF Later
<1>2. /\ \A j : Owed(j)' = Owed(j) /\ BrokenFor(j)' = BrokenFor(j)
      /\ \A f : Ignored(f)' = Ignored(f)
  BY <1>1, OwedStays
<1>3. \A e : Walked(e)' = Walked(e)
  BY <1>1 DEF Walked
<1>4. \A j \in [Dirs -> seen] : j \in [Dirs -> seen']
  BY <1>1
<1>5. ASSUME NEW j PROVE Judging(j)' <=> Judging(j)
  BY <1>1, <1>2, <1>3 DEF Judging, Dir
<1>6. Listed => Listed'
  BY <1>1, <1>3 DEF Listed, Dir
<1>7. Progress /\ scan.phase # "done" => Progress'
  BY <1>1, <1>4, <1>5, <1>6 DEF Progress, Later
<1>8. Answers => Answers'
  <2>1. \A i : Answered(i) => Answered(i)'
    BY <1>1 DEF Answered
  <2>2. QED
    BY <1>1, <2>1 DEF Answers
<1>9. ASSUME NEW j \in [Dirs -> seen], Right(scan.out, j) PROVE Right(scan.out, j)'
  <2>1. \A d : Needed(j, d)' => Needed(j, d)
    BY <1>1, <1>2 DEF Needed, Dir
  <2>2. ASSUME NEW records, RecordsRight(records, j) PROVE RecordsRight(records, j)'
    <3>1. PICK there \in SUBSET gone :
             records = InWalkOrder(Owed(j) \cap ((Files \ gone) \cup (there \ tree.absent)))
      BY <2>2 DEF RecordsRight
    <3>2. tree.absent \subseteq gone
      BY DEF Exact
    <3> DEFINE more == there \cup (gone' \ gone)
    <3>3. (Files \ gone) \cup (there \ tree.absent) = (Files \ gone') \cup (more \ tree.absent)
      BY <1>1, <3>2
    <3>4. more \in SUBSET gone'
      BY <1>1
    <3> HIDE DEF more
    <3>5. records = InWalkOrder(Owed(j)' \cap ((Files \ gone') \cup (more \ tree'.absent)))
      BY <1>1, <1>2, <3>1, <3>3
    <3>6. \A d \in BrokenFor(j)' : ~Needed(j, d)'
      BY <1>2, <2>1, <2>2 DEF RecordsRight
    <3>7. QED
      BY <3>4, <3>5, <3>6 DEF RecordsRight, InWalkOrder
  <2>3. SchemaRight(j) => SchemaRight(j)'
    BY <1>1, <1>2 DEF SchemaRight
  <2>4. ASSUME NEW why, ErrorRight(why, j) PROVE ErrorRight(why, j)'
    <3>1. CASE why = "cancelled" /\ cancelled
      BY <1>1, <3>1 DEF ErrorRight
    <3>2. CASE why \in BrokenFor(j)
      BY <1>2, <3>2 DEF ErrorRight
    <3>3. CASE /\ why \in Owed(j) \cap (gone \cup tree.bad)
               /\ ~cancelled =>
                  \A f \in Owed(j) \cap (tree.bad \ gone) :
                     NthIn(InWalkOrder(Owed(j)), why) <= NthIn(InWalkOrder(Owed(j)), f)
      <4>1. why \in Owed(j)' \cap (gone' \cup tree'.bad)
        BY <1>1, <1>2, <3>3
      <4>2. \A f \in Owed(j)' \cap (tree'.bad \ gone') : f \in Owed(j) \cap (tree.bad \ gone)
        BY <1>1, <1>2
      <4>3. ~cancelled' =>
                  \A f \in Owed(j)' \cap (tree'.bad \ gone') :
                     NthIn(InWalkOrder(Owed(j)'), why) <= NthIn(InWalkOrder(Owed(j)'), f)
        BY <1>1, <1>2, <3>3, <4>2
      <4>4. QED
        BY <4>1, <4>3 DEF ErrorRight, InWalkOrder
    <3>4. QED
      BY <2>4, <3>1, <3>2, <3>3 DEF ErrorRight
  <2>5. PICK out : out = scan.out
    OBVIOUS
  <2>6. /\ RecordsRight(out.records, j) => RecordsRight(out.records, j)'
        /\ ErrorRight(out.why, j) => ErrorRight(out.why, j)'
    <3>1. PICK records, why : records = out.records /\ why = out.why
      OBVIOUS
    <3>2. QED
      BY <2>2, <2>4, <3>1
  <2>7. Right(out, j) /\ scan'.out = out
    BY <1>1, <1>9, <2>5
  <2>8. QED
    BY <2>3, <2>6, <2>7 DEF Right
<1>10. tree' \in Trees /\ tree'.absent \subseteq gone'
  BY <1>1 DEF Exact
<1>11. scan'.phase = "done" /\ scan'.out # Running => \E j \in [Dirs -> seen'] : Right(scan.out, j)'
  <2>1. SUFFICES ASSUME scan.phase = "done", scan.out # Running PROVE \E j \in [Dirs -> seen'] : Right(scan.out, j)'
    BY <1>1
  <2>2. PICK j \in [Dirs -> seen] : Right(scan.out, j)
    BY <2>1 DEF Exact
  <2>3. Right(scan.out, j)'
    BY <1>9, <2>2
  <2>4. QED
    BY <1>4, <2>2, <2>3, Zenon
<1>12. scan'.phase # "done" => Progress'
  BY <1>1, <1>7 DEF Exact
<1>13. scan'.phase = "extract" => scan'.at = Len(Walk) + 1 /\ Answers'
  BY <1>1, <1>8 DEF Exact
<1>14. (cmd'.phase # "scan" => scan'.phase = "done") /\ scan'.phase \in Phases
  BY <1>1 DEF Exact, Later
<1>15. QED
  BY <1>10, <1>11, <1>12, <1>13, <1>14 DEF Exact

\* A scan ends.
LEMMA EndsExact ==
    ASSUME Exact, Steady, UNCHANGED cmd, scan'.phase = "done", scan'.ungoverned = scan.ungoverned,
           scan'.resilient = scan.resilient, NEW judged \in [Dirs -> seen], Right(scan'.out, judged)
    PROVE  Exact'
<1>a. PICK out : out = scan'.out
  OBVIOUS
<1>1. UNCHANGED <<tree, gone, cancelled, seen>>
  BY DEF Steady
<1>2. Right(out, judged)
  BY <1>a
<1>3. /\ judged \in [Dirs -> seen']
      /\ RecordsRight(out.records, judged)' <=> RecordsRight(out.records, judged)
      /\ SchemaRight(judged)' <=> SchemaRight(judged)
      /\ ErrorRight(out.why, judged)' <=> ErrorRight(out.why, judged)
  <2>1. PICK records, why : records = out.records /\ why = out.why
    OBVIOUS
  <2>2. QED
    BY <1>1, AnswerStays
<1>4. Right(scan.out, judged)'
  BY <1>2, <1>3, <1>a DEF Right
<1>5. QED
  BY <1>1, <1>3, <1>4 DEF Exact, Phases

\* A scan that fails, or has no documents.
LEMMA FinishMeans ==
    ASSUME ScanSound, NEW kind, NEW why, Finish(kind, why)
    PROVE  /\ scan'.phase = "done" /\ scan'.out = [kind |-> kind, records |-> <<>>, why |-> why]
           /\ scan'.ungoverned = scan.ungoverned /\ scan'.resilient = scan.resilient
BY ScanFieldsAre DEF Finish

LEMMA FailureRight ==
    ASSUME ScanSound, NEW why, Finish("error", why), NEW judged, ErrorRight(why, judged)
    PROVE  Right(scan'.out, judged)
<1>1. PICK out : out = scan'.out
  OBVIOUS
<1>2. out.kind = "error" /\ out.why = why
  <2>1. out = [kind |-> "error", records |-> <<>>, why |-> why]
    BY <1>1, FinishMeans
  <2>2. QED
    BY <2>1
<1>3. QED
  BY <1>1, <1>2 DEF Right

\* One entry further.
LEMMA WalkedOneMore ==
    ASSUME scan.at \in 1..Len(Walk), scan'.at = scan.at + 1
    PROVE  \A e : Walked(e)' <=> Walked(e) \/ e = Walk[scan.at]
<1>a. PICK m : m = scan.at
  OBVIOUS
<1>1. m \in 1..Len(Walk) /\ m \in Nat
  BY <1>a, WalkIs
<1>2. scan'.at - 1 = m
  BY <1>a, <1>1
<1>3. m \in 1..m /\ (\A i \in 1..m : i \in 1..(m-1) \/ i = m) /\ \A i \in 1..(m-1) : i \in 1..m
  BY <1>1
<1>4. QED
  BY <1>2, <1>3, <1>a DEF Walked

\* What is walked is in no directory that is not.
LEMMA NotYetIn ==
    ASSUME NEW m \in 1..Len(Walk), NEW i \in 1..(m-1), Walk[i] # Root
    PROVE  Dir(Walk[i]) # Walk[m]
<1>1. i \in 1..Len(Walk) /\ m \in i..Len(Walk)
  BY WalkIs
<1>2. QED
  BY <1>1, WalkIs

LEMMA OwedElse ==
    ASSUME NEW j, NEW k, NEW f, j[Dir(f)] = k[Dir(f)]
    PROVE  f \in Owed(j) <=> f \in Owed(k)
BY OwedMeans

\* A directory is read.
LEMMA WalkDirExact ==
    ASSUME Exact, ScanSound, WalkDir, UNCHANGED cmd
    PROVE  Exact'
<1>a. PICK m, e, own : m = scan.at /\ e = Walk[m] /\ own = IF stems[e] = "none" THEN None ELSE Resolve(stems, e)
  OBVIOUS
<1>b. PICK L : L = {x \in Entries \ gone : x # Root /\ Dir(x) = e}
  OBVIOUS
<1>1. scan.phase = "walk" /\ m \in 1..Len(Walk) /\ e \in Dirs /\ Progress /\ Listed
  <2>1. scan.phase = "walk" /\ m <= Len(Walk) /\ e \in Dirs
    BY <1>a DEF WalkDir, Walking, Entry
  <2>2. Progress
    BY <2>1 DEF Exact
  <2>3. QED
    BY <1>a, <2>1, <2>2, WalkIs DEF Progress
<1>2. PICK judged \in [Dirs -> seen] : Judging(judged)
  BY <1>1 DEF Progress
<1>3. Steady /\ stems \in seen
  BY <1>1 DEF WalkDir, Progress
<1>4. CASE cancelled
  <2>1. Finish("error", "cancelled")
    BY <1>4 DEF WalkDir
  <2>2. Right(scan'.out, judged)
    BY <1>4, <2>1, FailureRight DEF ErrorRight
  <2>3. QED
    BY <1>2, <1>3, <2>1, <2>2, FinishMeans, EndsExact
<1>5. CASE ~cancelled /\ own = "broken" /\ ~scan.resilient
  <2>1. Finish("error", e)
    BY <1>5, <1>a DEF WalkDir, Entry
  <2>2. PICK j : j = [d \in Dirs |-> stems]
    OBVIOUS
  <2>3. j \in [Dirs -> seen] /\ j[e] = stems
    BY <1>1, <1>3, <2>2
  <2>4. Resolve(stems, e) = "broken"
    BY <1>5, <1>a, ScanAssumption
  <2>5. e \in BrokenFor(j)
    BY <1>1, <1>5, <2>3, <2>4 DEF BrokenFor
  <2>6. Right(scan'.out, j)
    BY <2>1, <2>5, FailureRight DEF ErrorRight
  <2>7. QED
    BY <1>3, <2>1, <2>3, <2>6, FinishMeans, EndsExact
<1>6. CASE ~cancelled /\ ~(own = "broken" /\ ~scan.resilient)
  <2>1. scan' = [Onward EXCEPT !.listed = @ \cup L, !.cache[e] = own]
    BY <1>6, <1>a, <1>b DEF WalkDir, Entry
  <2>2. /\ scan'.phase = "walk" /\ scan'.at = m + 1 /\ scan'.listed = scan.listed \cup L
        /\ scan'.files = scan.files /\ scan'.out = scan.out
        /\ scan'.resilient = scan.resilient /\ scan'.ungoverned = scan.ungoverned
        /\ scan'.cache = [scan.cache EXCEPT ![e] = own]
    BY <1>1, <1>a, <2>1, ScanFieldsAre DEF Onward
  <2>3. /\ scan'.cache = [d \in Dirs |-> scan'.cache[d]] /\ scan'.cache[e] = own
        /\ \A d \in Dirs : d # e => scan'.cache[d] = scan.cache[d]
    <3>1. PICK c, c2 : c = scan.cache /\ c2 = scan'.cache
      OBVIOUS
    <3>2. c = [d \in Dirs |-> c[d]] /\ c2 = [c EXCEPT ![e] = own]
      BY <1>1, <2>2, <3>1 DEF Progress
    <3>3. c2 = [d \in Dirs |-> c2[d]] /\ c2[e] = own /\ \A d \in Dirs : d # e => c2[d] = c[d]
      BY <1>1, <3>2
    <3>4. QED
      BY <3>1, <3>3
  <2>4. UNCHANGED <<tree, stems, gone, cancelled, seen>>
    BY <1>3 DEF Steady
  <2>5. \A x : Walked(x)' <=> Walked(x) \/ x = e
    BY <1>1, <1>a, <2>2, WalkedOneMore
  <2>6. PICK j : j = [judged EXCEPT ![e] = stems]
    OBVIOUS
  <2>7. j \in [Dirs -> seen] /\ j[e] = stems /\ \A d \in Dirs : d # e => j[d] = judged[d]
    BY <1>1, <1>2, <1>3, <2>6
  <2>8. /\ Owed(j)' = Owed(j) /\ \A f : Ignored(f)' = Ignored(f)
    BY <2>2, <2>4, OwedStays
  <2>9. ASSUME NEW f \in Files, Walked(f) PROVE Dir(f) # e
    <3>1. PICK i \in 1..(m-1) : Walk[i] = f
      BY <1>a, <2>9 DEF Walked
    <3>2. QED
      BY <1>1, <1>a, <3>1, FileDir, NotYetIn
  <2>10. Listed'
    <3>1. (scan.listed \cup L) \cap tree.absent = {}
      BY <1>1, <1>b DEF Listed, Exact
    <3>2. ASSUME NEW f \in Files, Walked(Dir(f))' PROVE f \in scan.listed \cup L \cup gone
      <4>1. CASE Walked(Dir(f))
        BY <1>1, <4>1 DEF Listed
      <4>2. CASE Dir(f) = e
        BY <1>b, <4>2, FileDir
      <4>3. QED
        BY <2>5, <3>2, <4>1, <4>2 DEF Dir
    <3>3. QED
      BY <2>2, <2>4, <3>1, <3>2 DEF Listed, Dir
  <2>11. ASSUME NEW d \in Dirs, scan'.cache[d] # None
         PROVE  /\ Walked(d)' /\ scan'.cache[d] = Resolve(j[d], d)
                /\ scan'.cache[d] = "broken" => scan.resilient
    <3>1. CASE d = e
      BY <1>6, <1>a, <2>3, <2>5, <2>7, <2>11, <3>1
    <3>2. CASE d # e
      BY <1>2, <2>3, <2>5, <2>7, <2>11, <3>2 DEF Judging
    <3>3. QED
      BY <3>1, <3>2
  <2>12. ASSUME NEW d \in Dirs, Walked(d)', scan'.cache[d] = None
         PROVE  /\ j[d][d] = "none"
                /\ \A f \in Files \cap (scan.listed \cup L) : Walked(f)' /\ Dir(f) = d => Ignored(f)
    <3>0. ASSUME NEW f \in Files, Walked(f)' PROVE Walked(f)
      BY <1>1, <2>5, <3>0, FileDir
    <3>1. CASE d = e
      <4>1. own = None /\ stems[e] = "none"
        <5>1. own = None
          BY <2>3, <2>12, <3>1
        <5>2. Resolve(stems, e) # None
          BY ResolveIs, ScanAssumption
        <5>3. QED
          BY <1>a, <5>1, <5>2
      <4>2. QED
        BY <2>7, <2>9, <3>0, <3>1, <4>1
    <3>2. CASE d # e
      <4>1. Walked(d) /\ scan.cache[d] = None
        BY <2>3, <2>5, <2>12, <3>2
      <4>2. /\ judged[d][d] = "none"
            /\ \A f \in Files \cap scan.listed : Walked(f) /\ Dir(f) = d => Ignored(f)
        BY <1>2, <4>1 DEF Judging
      <4>3. QED
        BY <1>b, <2>7, <3>0, <3>2, <4>2
    <3>3. QED
      BY <3>1, <3>2
  <2>13. KeptSoFar(scan.files, Walk, Owed(j) \cap (scan.listed \cup L), m)
    <3>1. KeptSoFar(scan.files, Walk, Owed(judged) \cap scan.listed, m - 1)
      BY <1>2, <1>a DEF Judging
    <3>2. ASSUME NEW i \in 1..(m-1)
          PROVE  Walk[i] \in Owed(judged) \cap scan.listed <=> Walk[i] \in Owed(j) \cap (scan.listed \cup L)
      <4>1. CASE Walk[i] \notin Known
        BY <4>1, OwedMeans
      <4>2. CASE Walk[i] \in Known
        <5>1. Walk[i] \in Files /\ Walked(Walk[i])
          BY <1>a, <4>2, ScanAssumption DEF Walked
        <5>2. Dir(Walk[i]) # e /\ Dir(Walk[i]) \in Dirs
          BY <2>9, <5>1, FileDir
        <5>3. Walk[i] \in Owed(judged) <=> Walk[i] \in Owed(j)
          BY <2>7, <5>2, OwedElse
        <5>4. QED
          BY <1>b, <5>2, <5>3
      <4>3. QED
        BY <4>1, <4>2
    <3>3. KeptSoFar(scan.files, Walk, Owed(j) \cap (scan.listed \cup L), m - 1)
      BY <3>1, <3>2, KeptAlike
    <3>4. m - 1 \in Nat /\ (m - 1) + 1 = m /\ m <= Len(Walk)
      BY <1>1, WalkIs
    <3>5. Walk[m] \notin Owed(j)
      BY <1>1, <1>a, OwedMeans, ScanAssumption DEF Files
    <3>6. PICK S, q : S = Owed(j) \cap (scan.listed \cup L) /\ q = scan.files
      OBVIOUS
    <3>7. KeptSoFar(IF Walk[(m-1)+1] \in S THEN Append(q, Walk[(m-1)+1]) ELSE q, Walk, S, (m - 1) + 1)
      BY <3>3, <3>4, <3>6, WalkIs, KeptOneMore, SMTT(30)
    <3>8. QED
      BY <3>4, <3>5, <3>6, <3>7
  <2>14. Judging(j)'
    <3>1. (m + 1) - 1 = m
      BY <1>1
    <3>2. KeptSoFar(scan'.files, Walk, Owed(j)' \cap scan'.listed, scan'.at - 1)
      BY <2>2, <2>8, <2>13, <3>1
    <3>3. \A d \in Dirs : scan'.cache[d] # None =>
             /\ Walked(d)' /\ scan'.cache[d] = Resolve(j[d], d)
             /\ scan'.cache[d] = "broken" => scan'.resilient
      BY <2>2, <2>11
    <3>4. \A d \in Dirs : Walked(d)' /\ scan'.cache[d] = None =>
             /\ j[d][d] = "none"
             /\ \A f \in Files \cap scan'.listed : Walked(f)' /\ Dir(f) = d => Ignored(f)'
      BY <2>2, <2>8, <2>12
    <3>5. QED
      BY <3>2, <3>3, <3>4 DEF Judging, Dir
  <2>15. Progress'
    <3>1. scan'.at \in 1..(Len(Walk) + 1)
      BY <1>1, <2>2, WalkIs
    <3>2. scan'.out = Running /\ stems' \in seen' /\ seen' = seen
      BY <1>1, <2>2, <2>4 DEF Progress
    <3>3. \E k \in [Dirs -> seen'] : Judging(k)'
      BY <2>7, <2>14, <3>2, Zenon
    <3>4. QED
      BY <2>3, <2>10, <3>1, <3>2, <3>3 DEF Progress
  <2>16. cmd'.phase = "scan"
    BY <1>1 DEF Exact
  <2>17. QED
    BY <2>2, <2>4, <2>15, <2>16 DEF Exact, Phases
<1>7. QED
  BY <1>4, <1>5, <1>6

\* What the walk has kept, one entry further.
LEMMA FilesOneMore ==
    ASSUME NEW q, NEW S, NEW m \in 1..Len(Walk), KeptSoFar(q, Walk, S, m - 1)
    PROVE  KeptSoFar(IF Walk[m] \in S THEN Append(q, Walk[m]) ELSE q, Walk, S, m)
<1>1. m - 1 \in Nat /\ (m - 1) + 1 = m /\ m <= Len(Walk)
  BY WalkIs
<1>2. KeptSoFar(IF Walk[(m-1)+1] \in S THEN Append(q, Walk[(m-1)+1]) ELSE q, Walk, S, (m - 1) + 1)
  BY <1>1, WalkIs, KeptOneMore
<1>3. QED
  BY <1>1, <1>2

\* A file is passed over, or judged.
LEMMA WalkFileExact ==
    ASSUME Exact, ScanSound, WalkFile, UNCHANGED cmd
    PROVE  Exact'
<1>a. PICK m, f : m = scan.at /\ f = Walk[m]
  OBVIOUS
<1>b. PICK d : d = Dir(f)
  OBVIOUS
<1>c. PICK o : o = IF scan.cache[d] # None THEN scan.cache[d] ELSE Resolve(stems, d)
  OBVIOUS
<1>1. scan.phase = "walk" /\ m \in 1..Len(Walk) /\ f \in Files /\ Progress /\ Listed
  <2>1. scan.phase = "walk" /\ m <= Len(Walk) /\ f \in Files
    BY <1>a DEF WalkFile, Walking, Entry
  <2>2. Progress
    BY <2>1 DEF Exact
  <2>3. QED
    BY <1>a, <2>1, <2>2, WalkIs DEF Progress
<1>2. PICK judged \in [Dirs -> seen] : Judging(judged)
  BY <1>1 DEF Progress
<1>3. Steady /\ stems \in seen /\ UNCHANGED <<tree, stems, gone, cancelled, seen>>
  BY <1>1 DEF WalkFile, Progress, Steady
<1>4. d \in Dirs /\ f \notin Dirs /\ f # Root /\ Walked(d)
  <2>1. d \in Dirs /\ f \notin Dirs /\ f # Root
    BY <1>1, <1>b, FileDir
  <2>2. \E j \in 1..(m-1) : Walk[j] = d
    BY <1>1, <1>a, <1>b, <2>1, WalkIs
  <2>3. QED
    BY <1>a, <2>1, <2>2 DEF Walked
<1>5. KeptSoFar(scan.files, Walk, Owed(judged) \cap scan.listed, m - 1)
  BY <1>2, <1>a DEF Judging
<1>6. cmd'.phase = "scan"
  BY <1>1 DEF Exact
\* What a step on the way leaves to show.
<1>7. ASSUME NEW j \in [Dirs -> seen], NEW c,
             scan'.phase = "walk", scan'.at = m + 1, scan'.listed = scan.listed, scan'.out = scan.out,
             scan'.resilient = scan.resilient, scan'.ungoverned = scan.ungoverned,
             scan'.cache = c, c = [x \in Dirs |-> c[x]],
             KeptSoFar(scan'.files, Walk, Owed(j) \cap scan.listed, m),
             \A x \in Dirs : c[x] # None =>
                /\ Walked(x) /\ c[x] = Resolve(j[x], x)
                /\ c[x] = "broken" => scan.resilient,
             \A x \in Dirs : Walked(x) /\ c[x] = None =>
                /\ j[x][x] = "none"
                /\ \A g \in Files \cap scan.listed : (Walked(g) \/ g = f) /\ Dir(g) = x => Ignored(g)
      PROVE  Exact'
  <2>1. \A x : Walked(x)' <=> Walked(x) \/ x = f
    BY <1>1, <1>7, <1>a, WalkedOneMore
  <2>2. Owed(j)' = Owed(j) /\ \A g : Ignored(g)' = Ignored(g)
    BY <1>3, <1>7, OwedStays
  <2>3. Listed'
    <3>1. \A g \in Files : Walked(Dir(g))' => Walked(Dir(g))
      BY <1>4, <2>1, FileDir DEF Dir
    <3>2. QED
      BY <1>1, <1>3, <1>7, <3>1 DEF Listed, Dir
  <2>4. Judging(j)'
    <3>1. (m + 1) - 1 = m
      BY <1>1
    <3>2. KeptSoFar(scan'.files, Walk, Owed(j)' \cap scan'.listed, scan'.at - 1)
      BY <1>7, <2>2, <3>1
    <3>3. \A x \in Dirs : scan'.cache[x] # None =>
             /\ Walked(x)' /\ scan'.cache[x] = Resolve(j[x], x)
             /\ scan'.cache[x] = "broken" => scan'.resilient
      BY <1>7, <2>1
    <3>4. \A x \in Dirs : Walked(x)' /\ scan'.cache[x] = None =>
             /\ j[x][x] = "none"
             /\ \A g \in Files \cap scan'.listed : Walked(g)' /\ Dir(g) = x => Ignored(g)'
      <4>1. \A x \in Dirs : Walked(x)' => Walked(x)
        BY <1>4, <2>1
      <4>2. QED
        BY <1>7, <2>1, <2>2, <4>1
    <3>5. QED
      BY <3>2, <3>3, <3>4 DEF Judging, Dir
  <2>5. Progress'
    <3>1. scan'.at \in 1..(Len(Walk) + 1)
      BY <1>1, <1>7, WalkIs
    <3>2. scan'.out = Running /\ stems' \in seen' /\ seen' = seen
      BY <1>1, <1>3, <1>7 DEF Progress
    <3>3. \E k \in [Dirs -> seen'] : Judging(k)'
      BY <1>7, <2>4, <3>2, Zenon
    <3>4. QED
      BY <1>7, <2>3, <3>1, <3>2, <3>3 DEF Progress
  <2>6. QED
    BY <1>3, <1>6, <1>7, <2>5 DEF Exact, Phases
<1>8. CASE f \notin scan.listed \/ Ignored(f)
  <2>1. scan' = Onward
    BY <1>8, <1>a DEF WalkFile, Entry
  <2>2. /\ scan'.phase = "walk" /\ scan'.at = m + 1 /\ scan'.listed = scan.listed /\ scan'.out = scan.out
        /\ scan'.resilient = scan.resilient /\ scan'.ungoverned = scan.ungoverned
        /\ scan'.cache = scan.cache /\ scan'.files = scan.files
    BY <1>1, <1>a, <2>1, ScanFieldsAre DEF Onward
  <2>3. Walk[m] \notin Owed(judged) \cap scan.listed
    BY <1>8, <1>a, OwedMeans
  <2>4. KeptSoFar(scan.files, Walk, Owed(judged) \cap scan.listed, m)
    <3>1. PICK S, q : S = Owed(judged) \cap scan.listed /\ q = scan.files
      OBVIOUS
    <3>2. KeptSoFar(IF Walk[m] \in S THEN Append(q, Walk[m]) ELSE q, Walk, S, m)
      BY <1>1, <1>5, <3>1, FilesOneMore
    <3>3. QED
      BY <2>3, <3>1, <3>2
  <2>5. PICK c : c = scan.cache
    OBVIOUS
  <2>6. c = [x \in Dirs |-> c[x]]
    BY <1>1, <2>5 DEF Progress
  <2>7. \A x \in Dirs : c[x] # None =>
                /\ Walked(x) /\ c[x] = Resolve(judged[x], x)
                /\ c[x] = "broken" => scan.resilient
    BY <1>2, <2>5 DEF Judging
  <2>8. \A x \in Dirs : Walked(x) /\ c[x] = None =>
                /\ judged[x][x] = "none"
                /\ \A g \in Files \cap scan.listed : (Walked(g) \/ g = f) /\ Dir(g) = x => Ignored(g)
    BY <1>2, <1>8, <2>5 DEF Judging
  <2>9. scan'.cache = c /\ KeptSoFar(scan'.files, Walk, Owed(judged) \cap scan.listed, m)
    BY <2>2, <2>4, <2>5
  <2>10. QED
    BY <1>2, <1>7, <2>2, <2>6, <2>7, <2>8, <2>9
<1>9. CASE ~(f \notin scan.listed \/ Ignored(f)) /\ o = "broken" /\ ~scan.resilient
  <2>1. Finish("error", d)
    BY <1>9, <1>a, <1>b, <1>c DEF WalkFile, Entry, Outcome
  <2>2. PICK j : j = [x \in Dirs |-> stems]
    OBVIOUS
  <2>3. j \in [Dirs -> seen] /\ j[d] = stems
    BY <1>3, <1>4, <2>2
  <2>4. Resolve(stems, d) = "broken"
    BY <1>2, <1>4, <1>9, <1>c DEF Judging
  <2>5. d \in BrokenFor(j)
    BY <1>4, <1>9, <2>3, <2>4 DEF BrokenFor
  <2>6. Right(scan'.out, j)
    BY <2>1, <2>5, FailureRight DEF ErrorRight
  <2>7. QED
    BY <1>3, <2>1, <2>3, <2>6, FinishMeans, EndsExact
<1>10. CASE ~(f \notin scan.listed \/ Ignored(f)) /\ ~(o = "broken" /\ ~scan.resilient)
  <2>a. PICK t \in BOOLEAN : t <=> Taken(f, o)
    OBVIOUS
  <2>1. scan' = [Onward EXCEPT !.cache[d] = o, !.hit = @ \/ o = "none", !.files = IF t THEN Append(@, f) ELSE @]
    BY <1>10, <1>a, <1>b, <1>c, <2>a DEF WalkFile, Entry, Outcome
  <2>2. /\ scan'.phase = "walk" /\ scan'.at = m + 1 /\ scan'.listed = scan.listed /\ scan'.out = scan.out
        /\ scan'.resilient = scan.resilient /\ scan'.ungoverned = scan.ungoverned
        /\ scan'.cache = [scan.cache EXCEPT ![d] = o]
        /\ scan'.files = IF t THEN Append(scan.files, f) ELSE scan.files
    BY <1>1, <1>a, <2>1, ScanFieldsAre DEF Onward
  <2>3. PICK old, c : old = scan.cache /\ c = scan'.cache
    OBVIOUS
  <2>4. c = [x \in Dirs |-> c[x]] /\ c[d] = o /\ \A x \in Dirs : x # d => c[x] = old[x]
    <3>1. old = [x \in Dirs |-> old[x]] /\ c = [old EXCEPT ![d] = o]
      BY <1>1, <2>2, <2>3 DEF Progress
    <3>2. QED
      BY <1>4, <3>1
  <2>5. PICK j : j = IF old[d] # None THEN judged ELSE [judged EXCEPT ![d] = stems]
    OBVIOUS
  <2>6. /\ j \in [Dirs -> seen] /\ \A x \in Dirs : x # d => j[x] = judged[x]
        /\ old[d] # None => j = judged
        /\ old[d] = None => j[d] = stems
    BY <1>2, <1>3, <1>4, <2>5
  <2>7. o = Resolve(j[d], d) /\ o \in {"none", "broken", "governed"} /\ o # None
    <3>1. o = Resolve(j[d], d)
      <4>1. old[d] # None => old[d] = Resolve(judged[d], d)
        BY <1>2, <1>4, <2>3 DEF Judging
      <4>2. QED
        BY <1>c, <2>3, <2>6, <4>1
    <3>2. QED
      BY <3>1, ResolveIs, ScanAssumption
  <2>8. \A x \in Dirs : c[x] # None =>
                /\ Walked(x) /\ c[x] = Resolve(j[x], x)
                /\ c[x] = "broken" => scan.resilient
    <3>1. SUFFICES ASSUME NEW x \in Dirs, c[x] # None
                   PROVE  Walked(x) /\ c[x] = Resolve(j[x], x) /\ (c[x] = "broken" => scan.resilient)
      OBVIOUS
    <3>2. CASE x = d
      BY <1>4, <1>10, <2>4, <2>7, <3>2
    <3>3. CASE x # d
      <4>1. old[x] # None /\ c[x] = old[x] /\ j[x] = judged[x]
        BY <2>4, <2>6, <3>1, <3>3
      <4>2. QED
        BY <1>2, <2>3, <4>1 DEF Judging
    <3>4. QED
      BY <3>2, <3>3
  <2>9. \A x \in Dirs : Walked(x) /\ c[x] = None =>
                /\ j[x][x] = "none"
                /\ \A g \in Files \cap scan.listed : (Walked(g) \/ g = f) /\ Dir(g) = x => Ignored(g)
    <3>1. SUFFICES ASSUME NEW x \in Dirs, Walked(x), c[x] = None
                   PROVE  /\ j[x][x] = "none"
                          /\ \A g \in Files \cap scan.listed : (Walked(g) \/ g = f) /\ Dir(g) = x => Ignored(g)
      OBVIOUS
    <3>2. x # d
      BY <2>4, <2>7, <3>1
    <3>3. old[x] = None /\ j[x] = judged[x]
      BY <2>4, <2>6, <3>1, <3>2
    <3>4. /\ judged[x][x] = "none"
          /\ \A g \in Files \cap scan.listed : Walked(g) /\ Dir(g) = x => Ignored(g)
      BY <1>2, <2>3, <3>1, <3>3 DEF Judging
    <3>5. QED
      BY <1>b, <3>2, <3>3, <3>4
  <2>10. KeptSoFar(scan.files, Walk, Owed(j) \cap scan.listed, m - 1)
    <3>1. ASSUME NEW i \in 1..(m-1)
          PROVE  Walk[i] \in Owed(judged) \cap scan.listed <=> Walk[i] \in Owed(j) \cap scan.listed
      <4>1. CASE Walk[i] \notin Known
        BY <4>1, OwedMeans
      <4>2. CASE Walk[i] \in Known /\ Dir(Walk[i]) # d
        <5>1. Dir(Walk[i]) \in Dirs
          BY <4>2, ScanAssumption, FileDir
        <5>2. QED
          BY <2>6, <4>2, <5>1, OwedElse
      <4>3. CASE Walk[i] \in Known /\ Dir(Walk[i]) = d
        <5>1. CASE old[d] # None
          BY <2>6, <5>1
        <5>2. CASE old[d] = None
          <6>1. Walk[i] \in Files /\ Walked(Walk[i])
            BY <1>a, <4>3, ScanAssumption DEF Walked
          <6>2. Walk[i] \in scan.listed => Ignored(Walk[i])
            BY <1>2, <1>4, <2>3, <4>3, <5>2, <6>1 DEF Judging
          <6>3. QED
            BY <6>2, OwedMeans
        <5>3. QED
          BY <5>1, <5>2
      <4>4. QED
        BY <4>1, <4>2, <4>3
    <3>2. QED
      BY <1>5, <3>1, KeptAlike
  <2>11. t <=> f \in Owed(j) \cap scan.listed
    <3>1. f \in Owed(j) <=>
             /\ f \in Known
             /\ o = "none" => scan.ungoverned
             /\ o = "broken" => scan.resilient
             /\ o = "governed" => f \notin tree.outOfScope
      <4>1. ~Ignored(f)
        BY <1>10
      <4>2. QED
        BY <1>b, <2>7, <4>1, OwedMeans
    <3>2. QED
      BY <1>10, <2>a, <3>1 DEF Taken, InScope
  <2>12. KeptSoFar(scan'.files, Walk, Owed(j) \cap scan.listed, m)
    <3>1. PICK S, q : S = Owed(j) \cap scan.listed /\ q = scan.files
      OBVIOUS
    <3>2. KeptSoFar(IF Walk[m] \in S THEN Append(q, Walk[m]) ELSE q, Walk, S, m)
      BY <1>1, <2>10, <3>1, FilesOneMore
    <3>3. scan'.files = IF Walk[m] \in S THEN Append(q, Walk[m]) ELSE q
      BY <1>a, <2>2, <2>11, <3>1
    <3>4. QED
      BY <3>1, <3>2, <3>3
  <2>13. scan'.cache = c
    BY <2>3
  <2>14. QED
    BY <1>7, <2>2, <2>4, <2>6, <2>8, <2>9, <2>12, <2>13
<1>11. QED
  BY <1>8, <1>9, <1>10

\* What the pool does leaves the walk's outcome alone.
LEMMA ProgressStays ==
    ASSUME Progress, Steady,
           scan'.cache = scan.cache, scan'.at = scan.at, scan'.out = scan.out, scan'.listed = scan.listed,
           scan'.files = scan.files, scan'.resilient = scan.resilient, scan'.ungoverned = scan.ungoverned
    PROVE  Progress'
<1>1. UNCHANGED <<tree, stems, gone, seen>>
  BY DEF Steady
<1>2. /\ \A j : Owed(j)' = Owed(j)
      /\ \A f : Ignored(f)' = Ignored(f)
  BY <1>1, OwedStays
<1>3. \A e : Walked(e)' = Walked(e)
  BY DEF Walked
<1>4. ASSUME NEW j PROVE Judging(j)' <=> Judging(j)
  BY <1>2, <1>3 DEF Judging, Dir
<1>5. Listed' <=> Listed
  BY <1>1, <1>3 DEF Listed, Dir
<1>6. PICK j \in [Dirs -> seen] : Judging(j)
  BY DEF Progress
<1>7. \E k \in [Dirs -> seen'] : Judging(k)'
  BY <1>1, <1>4, <1>6
<1>8. QED
  BY <1>1, <1>5, <1>7 DEF Progress

LEMMA EndWalkExact ==
    ASSUME Exact, ScanSound, EndWalk, UNCHANGED cmd
    PROVE  Exact'
<1>1. scan.phase = "walk" /\ Progress /\ Listed /\ scan.at = Len(Walk) + 1 /\ Steady /\ cmd'.phase = "scan"
  <2>1. scan.phase = "walk" /\ scan.at > Len(Walk)
    BY DEF EndWalk
  <2>2. Progress /\ cmd'.phase = "scan"
    BY <2>1 DEF Exact
  <2>3. scan.at \in 1..(Len(Walk) + 1)
    BY <2>2 DEF Progress
  <2>4. scan.at = Len(Walk) + 1
    BY <2>1, <2>3, WalkIs
  <2>5. QED
    BY <2>1, <2>2, <2>4 DEF EndWalk, Progress
<1>2. PICK judged \in [Dirs -> seen] : Judging(judged)
  BY <1>1 DEF Progress
<1>3. /\ \A f \in Owed(judged) : f \in scan.listed \/ f \in gone
      /\ KeptSoFar(scan.files, Walk, Owed(judged) \cap scan.listed, Len(Walk))
      /\ RecordsRight(scan.files, judged)
  BY <1>1, <1>2, WalkedOut
<1>4. CASE scan.files = <<>>
  <2>1. PICK kind : /\ kind = IF scan.hit /\ ~scan.ungoverned THEN "noschema" ELSE "records"
                    /\ Finish(kind, None)
    BY <1>4 DEF EndWalk
  <2>2. PICK out : out = scan'.out
    OBVIOUS
  <2>3. out = [kind |-> kind, records |-> <<>>, why |-> None]
    BY <2>1, <2>2, FinishMeans
  <2>4. out.kind = kind /\ out.records = <<>>
    BY <2>3
  <2>5. CASE scan.hit /\ ~scan.ungoverned
    <3>1. PICK m \in Nat : m = Len(Walk)
      BY WalkIs
    <3>2. PICK S, q : S = Owed(judged) \cap scan.listed /\ q = scan.files
      OBVIOUS
    <3>3. PICK n \in Nat : \E place \in [1..n -> 1..m] : Placing(q, Walk, S, m, n, place)
      <4>1. m \in 0..Len(Walk) /\ KeptSoFar(q, Walk, S, m) /\ Walk \in Seq(Entries)
        BY <1>3, <3>1, <3>2, WalkIs
      <4>2. QED
        BY <4>1, KeptPlaces
    <3>4. PICK place \in [1..n -> 1..m] : Placing(q, Walk, S, m, n, place)
      BY <3>3
    <3>5. n = 0
      <4>1. Len(q) = n /\ q = <<>>
        BY <1>4, <3>2, <3>4 DEF Placing
      <4>2. QED
        BY <4>1
    <3>6. \A k \in 1..m : Walk[k] \notin S
      BY <3>4, <3>5 DEF Placing
    <3>7. ASSUME NEW f \in Owed(judged) PROVE f \in gone
      <4>1. f \in Entries
        BY OwedMeans, ScanAssumption, FileDir
      <4>2. PICK k \in 1..m : Walk[k] = f
        BY <3>1, <4>1, WalkIs
      <4>3. f \notin S
        BY <3>6, <4>2
      <4>4. QED
        BY <1>3, <3>2, <4>3
    <3>8. SchemaRight(judged)
      BY <2>5, <3>7 DEF SchemaRight
    <3>9. Right(out, judged)
      BY <2>1, <2>4, <2>5, <3>8 DEF Right
    <3>10. QED
      BY <1>1, <1>2, <2>1, <2>2, <3>9, FinishMeans, EndsExact
  <2>6. CASE ~(scan.hit /\ ~scan.ungoverned)
    <3>1. Right(out, judged)
      BY <1>3, <1>4, <2>1, <2>4, <2>6 DEF Right
    <3>2. QED
      BY <1>1, <1>2, <2>1, <2>2, <3>1, FinishMeans, EndsExact
  <2>7. QED
    BY <2>5, <2>6
<1>5. CASE scan.files # <<>>
  <2>1. scan' = [scan EXCEPT !.phase = "extract", !.results = [i \in DOMAIN scan.files |-> None]]
    BY <1>5 DEF EndWalk
  <2>2. /\ scan'.phase = "extract" /\ scan'.taken = scan.taken
        /\ scan'.cache = scan.cache /\ scan'.at = scan.at /\ scan'.out = scan.out /\ scan'.listed = scan.listed
        /\ scan'.files = scan.files /\ scan'.resilient = scan.resilient /\ scan'.ungoverned = scan.ungoverned
    BY <2>1, ScanFieldsAre
  <2>3. Progress'
    BY <1>1, <2>2, ProgressStays
  <2>4. scan'.taken = 0
    BY <1>1, <2>2 DEF ScanSound
  <2>5. Answers'
    BY <2>4 DEF Answers
  <2>6. tree' \in Trees /\ tree'.absent \subseteq gone'
    BY <1>1 DEF Steady, Exact
  <2>7. QED
    BY <1>1, <2>2, <2>3, <2>5, <2>6 DEF Exact, Phases
<1>6. QED
  BY <1>4, <1>5

(***************************************************************************)
(* The pool.                                                               *)
(***************************************************************************)
LEMMA PoolStepExact ==
    ASSUME Exact, Steady, UNCHANGED cmd, scan.phase = "extract", scan'.phase = "extract",
           scan'.cache = scan.cache, scan'.at = scan.at, scan'.out = scan.out, scan'.listed = scan.listed,
           scan'.files = scan.files, scan'.resilient = scan.resilient, scan'.ungoverned = scan.ungoverned,
           Answers'
    PROVE  Exact'
<1>1. Progress /\ scan.at = Len(Walk) + 1 /\ cmd.phase = "scan" /\ tree \in Trees /\ tree.absent \subseteq gone
  BY DEF Exact
<1>2. Progress'
  BY <1>1, ProgressStays
<1>3. UNCHANGED <<tree, gone>>
  BY DEF Steady
<1>4. QED
  BY <1>1, <1>2, <1>3 DEF Exact, Phases

\* An answer stays as long as its slot does.
LEMMA AnsweredStays ==
    ASSUME UNCHANGED <<tree, gone, cancelled>>, scan'.files = scan.files, NEW i, scan'.results[i] = scan.results[i],
           Answered(i)
    PROVE  Answered(i)'
BY DEF Answered

LEMMA PoolIs ==
    ASSUME ScanSound, scan.phase = "extract"
    PROVE  \E n \in Nat : /\ n = Len(scan.files) /\ scan.files \in Seq(Known) /\ DOMAIN scan.files = 1..n
                          /\ scan.results = [i \in 1..n |-> scan.results[i]]
                          /\ scan.sent \in 0..n /\ scan.taken \in 0..scan.sent /\ scan.taken \in 0..n
                          /\ hold \in [Workers -> {None} \cup 0..scan.taken]
                          /\ (\A w \in Workers : hold[w] = None) => scan.taken = n
<1>1. scan.files \in Seq(Known) /\ Pool
  BY DEF ScanSound
<1>2. PICK n \in Nat : n = Len(scan.files) /\ DOMAIN scan.files = 1..n
  BY <1>1
<1>3. /\ scan.results = [i \in 1..n |-> scan.results[i]]
      /\ scan.sent \in 0..n /\ scan.taken \in 0..scan.sent
      /\ hold \in [Workers -> {None} \cup 0..scan.taken]
      /\ (\A w \in Workers : hold[w] = None) => scan.taken = n
  BY <1>1, <1>2 DEF Pool
<1>4. scan.taken \in 0..n
  <2>1. PICK s, t : s = scan.sent /\ t = scan.taken
    OBVIOUS
  <2>2. s \in 0..n /\ t \in 0..s
    BY <1>3, <2>1
  <2>3. t \in 0..n
    BY <2>2
  <2>4. QED
    BY <2>1, <2>3
<1>5. QED
  BY <1>1, <1>2, <1>3, <1>4

LEMMA SendExact ==
    ASSUME Exact, ScanSound, Send, UNCHANGED cmd
    PROVE  Exact'
<1>1. scan.phase = "extract" /\ scan' = [scan EXCEPT !.sent = @ + 1] /\ hold' = hold /\ Steady
  BY DEF Send
<1>2. /\ scan'.phase = "extract" /\ scan'.taken = scan.taken /\ scan'.results = scan.results
      /\ scan'.cache = scan.cache /\ scan'.at = scan.at /\ scan'.out = scan.out /\ scan'.listed = scan.listed
      /\ scan'.files = scan.files /\ scan'.resilient = scan.resilient /\ scan'.ungoverned = scan.ungoverned
  BY <1>1, ScanFieldsAre
<1>3. Answers'
  BY <1>1, <1>2, AnsweredStays DEF Exact, Answers, Steady
<1>4. QED
  BY <1>1, <1>2, <1>3, PoolStepExact

LEMMA TakeExact ==
    ASSUME Exact, ScanSound, NEW w \in Workers, Take(w), UNCHANGED cmd
    PROVE  Exact'
<1>a. PICK t : t = scan.taken
  OBVIOUS
<1>1. /\ scan.phase = "extract" /\ hold[w] = 0 /\ Steady
      /\ scan' = [scan EXCEPT !.taken = @ + 1] /\ hold' = [hold EXCEPT ![w] = t + 1]
  BY <1>a DEF Take
<1>2. /\ scan'.phase = "extract" /\ scan'.taken = t + 1 /\ scan'.results = scan.results
      /\ scan'.cache = scan.cache /\ scan'.at = scan.at /\ scan'.out = scan.out /\ scan'.listed = scan.listed
      /\ scan'.files = scan.files /\ scan'.resilient = scan.resilient /\ scan'.ungoverned = scan.ungoverned
  BY <1>1, <1>a, ScanFieldsAre
<1>3. t \in Nat /\ hold \in [Workers -> {None} \cup 0..t]
  <2>1. PICK n \in Nat : scan.taken \in 0..n /\ hold \in [Workers -> {None} \cup 0..scan.taken]
    BY <1>1, PoolIs
  <2>2. t \in 0..n /\ hold \in [Workers -> {None} \cup 0..t]
    BY <1>a, <2>1
  <2>3. QED
    BY <2>2
<1>4. hold'[w] = t + 1 /\ \A v \in Workers : v # w => hold'[v] = hold[v]
  BY <1>1, <1>3
<1>5. Answers'
  <2>1. SUFFICES ASSUME NEW i \in 1..(t + 1) PROVE (\E v \in Workers : hold'[v] = i) \/ Answered(i)'
    BY <1>2 DEF Answers
  <2>2. CASE i = t + 1
    BY <1>4, <2>2
  <2>3. CASE i # t + 1
    <3>1. i \in 1..t /\ i # 0
      BY <1>3, <2>3
    <3>2. (\E v \in Workers : hold[v] = i) \/ Answered(i)
      BY <1>1, <1>a, <3>1 DEF Exact, Answers
    <3>3. CASE \E v \in Workers : hold[v] = i
      BY <1>1, <1>4, <3>1, <3>3
    <3>4. CASE Answered(i)
      BY <1>1, <1>2, <3>4, AnsweredStays DEF Steady
    <3>5. QED
      BY <3>2, <3>3, <3>4
  <2>4. QED
    BY <2>2, <2>3
<1>6. QED
  BY <1>1, <1>2, <1>5, PoolStepExact

LEMMA ExtractExact ==
    ASSUME Exact, ScanSound, NEW w \in Workers, Extract(w), UNCHANGED cmd
    PROVE  Exact'
<1>a. PICK h : h = hold[w]
  OBVIOUS
<1>b. PICK f : f = scan.files[h]
  OBVIOUS
<1>c. PICK r : /\ scan' = [scan EXCEPT !.results[h] = r]
               /\ r = IF cancelled THEN [failed |-> TRUE, file |-> "cancelled"]
                      ELSE [failed |-> f \in gone \cup tree.bad, file |-> f]
  BY <1>a, <1>b DEF Extract, Slot
<1>1. scan.phase = "extract" /\ h \notin {0, None} /\ hold' = [hold EXCEPT ![w] = 0] /\ Steady
  BY <1>a DEF Extract
<1>2. /\ scan'.phase = "extract" /\ scan'.taken = scan.taken /\ scan'.results = [scan.results EXCEPT ![h] = r]
      /\ scan'.cache = scan.cache /\ scan'.at = scan.at /\ scan'.out = scan.out /\ scan'.listed = scan.listed
      /\ scan'.files = scan.files /\ scan'.resilient = scan.resilient /\ scan'.ungoverned = scan.ungoverned
  BY <1>1, <1>c, ScanFieldsAre
<1>3. PICK n \in Nat : /\ scan.results = [i \in 1..n |-> scan.results[i]]
                       /\ scan.taken \in 0..n /\ hold \in [Workers -> {None} \cup 0..scan.taken]
  BY <1>1, PoolIs
<1>4. h \in 1..n /\ h \in 1..scan.taken
  <2>1. PICK t : t = scan.taken
    OBVIOUS
  <2>2. t \in 0..n /\ h \in {None} \cup 0..t
    BY <1>3, <1>a, <2>1
  <2>3. h \in 1..t /\ h \in 1..n
    BY <1>1, <2>2
  <2>4. QED
    BY <2>1, <2>3
<1>5. scan'.results[h] = r /\ \A i \in 1..n : i # h => scan'.results[i] = scan.results[i]
  <2>1. PICK x, y : x = scan.results /\ y = scan'.results
    OBVIOUS
  <2>2. x = [i \in 1..n |-> x[i]] /\ y = [x EXCEPT ![h] = r]
    BY <1>2, <1>3, <2>1
  <2>3. y[h] = r /\ \A i \in 1..n : i # h => y[i] = x[i]
    BY <1>4, <2>2
  <2>4. QED
    BY <2>1, <2>3
<1>6. Answered(h)'
  <2>1. CASE cancelled
    <3>1. r = [failed |-> TRUE, file |-> "cancelled"]
      BY <1>c, <2>1
    <3>2. cancelled'
      BY <1>1, <2>1 DEF Steady
    <3>3. QED
      BY <1>5, <3>1, <3>2 DEF Answered
  <2>2. CASE ~cancelled
    <3>1. PICK b \in BOOLEAN : b <=> f \in gone \cup tree.bad
      OBVIOUS
    <3>2. r = [failed |-> b, file |-> f]
      BY <1>c, <2>2, <3>1
    <3>3. r.failed = b /\ r = [failed |-> r.failed, file |-> f]
      BY <3>2
    <3>4. scan'.files[h] = f /\ UNCHANGED <<tree, gone>>
      BY <1>1, <1>2, <1>b DEF Steady
    <3>5. QED
      BY <1>5, <3>1, <3>3, <3>4 DEF Answered
  <2>3. QED
    BY <2>1, <2>2
<1>7. Answers'
  <2>1. SUFFICES ASSUME NEW i \in 1..scan.taken, i # h PROVE (\E v \in Workers : hold'[v] = i) \/ Answered(i)'
    BY <1>2, <1>6 DEF Answers
  <2>2. i \in 1..n
    <3>1. PICK t : t = scan.taken
      OBVIOUS
    <3>2. t \in 0..n /\ i \in 1..t
      BY <1>3, <3>1
    <3>3. QED
      BY <3>2
  <2>3. (\E v \in Workers : hold[v] = i) \/ Answered(i)
    BY <1>1 DEF Exact, Answers
  <2>4. CASE \E v \in Workers : hold[v] = i
    BY <1>1, <1>3, <1>a, <2>1, <2>4
  <2>5. CASE Answered(i)
    BY <1>1, <1>2, <1>5, <2>1, <2>2, <2>5, AnsweredStays DEF Steady
  <2>6. QED
    BY <2>3, <2>4, <2>5
<1>8. QED
  BY <1>1, <1>2, <1>7, PoolStepExact

LEMMA LeaveExact ==
    ASSUME Exact, ScanSound, NEW w \in Workers, Leave(w), UNCHANGED cmd
    PROVE  Exact'
<1>1. scan.phase = "extract" /\ hold[w] = 0 /\ hold' = [hold EXCEPT ![w] = None] /\ scan' = scan /\ Steady
  BY DEF Leave
<1>2. hold \in [Workers -> {None} \cup 0..scan.taken]
  BY <1>1, PoolIs
<1>3. \A v \in Workers : v # w => hold'[v] = hold[v]
  BY <1>1, <1>2
<1>4. Answers'
  <2>1. SUFFICES ASSUME NEW i \in 1..scan.taken PROVE (\E v \in Workers : hold'[v] = i) \/ Answered(i)'
    BY <1>1 DEF Answers
  <2>2. (\E v \in Workers : hold[v] = i) \/ Answered(i)
    BY <1>1 DEF Exact, Answers
  <2>3. i # 0
    OBVIOUS
  <2>4. CASE \E v \in Workers : hold[v] = i
    BY <1>1, <1>3, <2>3, <2>4
  <2>5. CASE Answered(i)
    BY <1>1, <2>5, AnsweredStays DEF Steady
  <2>6. QED
    BY <2>2, <2>4, <2>5
<1>5. QED
  BY <1>1, <1>4, PoolStepExact

\* Every slot has its answer: the records, or the first failure of the walk.
LEMMA CollectExact ==
    ASSUME Exact, ScanSound, Collect, UNCHANGED cmd
    PROVE  Exact'
<1>a. PICK failed : failed = {i \in DOMAIN scan.results : scan.results[i].failed}
  OBVIOUS
<1>1. scan.phase = "extract" /\ (\A w \in Workers : hold[w] = None) /\ Steady
  BY DEF Collect
<1>2. Progress /\ Listed /\ scan.at = Len(Walk) + 1 /\ Answers
  BY <1>1 DEF Exact, Progress
<1>3. PICK judged \in [Dirs -> seen] : Judging(judged)
  BY <1>2 DEF Progress
<1>4. /\ \A f \in Owed(judged) : f \in scan.listed \/ f \in gone
      /\ KeptSoFar(scan.files, Walk, Owed(judged) \cap scan.listed, Len(Walk))
      /\ RecordsRight(scan.files, judged)
  BY <1>2, <1>3, WalkedOut
<1>5. PICK n \in Nat : /\ n = Len(scan.files) /\ scan.files \in Seq(Known) /\ DOMAIN scan.files = 1..n
                       /\ scan.results = [i \in 1..n |-> scan.results[i]] /\ scan.taken = n
  BY <1>1, PoolIs
<1>6. DOMAIN scan.results = 1..n
  BY <1>5
<1>7. ASSUME NEW i \in 1..n PROVE Answered(i)
  <2>1. \A w \in Workers : hold[w] # i
    BY <1>1, ScanAssumption
  <2>2. QED
    BY <1>2, <1>5, <2>1 DEF Answers
<1>8. CASE failed = {}
  <2>1. scan' = [scan EXCEPT !.phase = "done",
                        !.out = [kind |-> "records", why |-> None,
                                 records |-> [i \in DOMAIN scan.results |-> scan.results[i].file]]]
    BY <1>8, <1>a DEF Collect
  <2>2. \A i \in 1..n : scan.results[i].file = scan.files[i]
    <3>1. SUFFICES ASSUME NEW i \in 1..n PROVE scan.results[i].file = scan.files[i]
      OBVIOUS
    <3>2. ~scan.results[i].failed
      BY <1>6, <1>8, <1>a
    <3>3. PICK r, f : r = scan.results[i] /\ f = scan.files[i]
      OBVIOUS
    <3>4. r = [failed |-> TRUE, file |-> "cancelled"] \/ r = [failed |-> r.failed, file |-> f]
      BY <1>7, <3>3 DEF Answered
    <3>5. r.failed = FALSE \/ r # [failed |-> TRUE, file |-> "cancelled"]
      BY <3>2, <3>3
    <3>6. r # [failed |-> TRUE, file |-> "cancelled"]
      BY <3>2, <3>3
    <3>7. r.file = f
      BY <3>4, <3>6
    <3>8. QED
      BY <3>3, <3>7
  <2>3. PICK records : records = [i \in DOMAIN scan.results |-> scan.results[i].file]
    OBVIOUS
  <2>4. records = scan.files
    <3>1. PICK q : q = scan.files
      OBVIOUS
    <3>2. q = [i \in 1..n |-> q[i]]
      BY <1>5, <3>1
    <3>3. records = [i \in 1..n |-> q[i]]
      BY <1>6, <2>2, <2>3, <3>1
    <3>4. QED
      BY <3>1, <3>2, <3>3
  <2>5. PICK out : out = [kind |-> "records", why |-> None, records |-> records]
    OBVIOUS
  <2>6. /\ scan'.phase = "done" /\ scan'.out = out
        /\ scan'.ungoverned = scan.ungoverned /\ scan'.resilient = scan.resilient
    BY <2>1, <2>3, <2>5, ScanFieldsAre
  <2>7. out.kind = "records" /\ out.records = scan.files
    BY <2>4, <2>5
  <2>8. Right(out, judged)
    BY <1>4, <2>7 DEF Right
  <2>9. QED
    BY <1>1, <1>3, <2>6, <2>8, EndsExact
<1>9. CASE failed # {}
  <2>1. PICK x : x = CHOOSE i \in failed : \A j \in failed : i <= j
    OBVIOUS
  <2>2. x \in failed /\ \A j \in failed : x <= j
    <3>1. failed \in SUBSET Nat
      BY <1>6, <1>a
    <3>2. \E i \in failed : \A j \in failed : i <= j
      BY <1>9, <3>1, LeastNatural
    <3>3. QED
      BY <2>1, <3>2
  <2>3. PICK why : why = scan.results[x].file
    OBVIOUS
  <2>4. Finish("error", why)
    BY <1>9, <1>a, <2>1, <2>3 DEF Collect
  <2>5. x \in 1..n /\ scan.results[x].failed
    BY <1>6, <1>a, <2>2
  <2>6. CASE scan.results[x] = [failed |-> TRUE, file |-> "cancelled"] /\ cancelled
    <3>1. why = "cancelled"
      BY <2>3, <2>6
    <3>2. Right(scan'.out, judged)
      BY <2>4, <2>6, <3>1, FailureRight DEF ErrorRight
    <3>3. QED
      BY <1>1, <1>3, <2>4, <3>2, FinishMeans, EndsExact
  <2>7. CASE ~(scan.results[x] = [failed |-> TRUE, file |-> "cancelled"] /\ cancelled)
    <3>1. why = scan.files[x] /\ why \in gone \cup tree.bad
      <4>1. /\ scan.results[x] = [failed |-> scan.results[x].failed, file |-> scan.files[x]]
            /\ scan.results[x].failed => scan.files[x] \in gone \cup tree.bad
        BY <1>7, <2>5, <2>7 DEF Answered
      <4>2. PICK r, f : r = scan.results[x] /\ f = scan.files[x]
        OBVIOUS
      <4>3. r = [failed |-> r.failed, file |-> f]
        BY <4>1, <4>2
      <4>4. r.file = f
        BY <4>3
      <4>5. QED
        BY <2>3, <2>5, <4>1, <4>2, <4>4
    <3>2. PICK m \in Nat : m = Len(Walk)
      BY WalkIs
    <3>3. PICK S, q : S = Owed(judged) \cap scan.listed /\ q = scan.files
      OBVIOUS
    <3>4. PICK k \in Nat : \E place \in [1..k -> 1..m] : Placing(q, Walk, S, m, k, place)
      <4>1. m \in 0..Len(Walk) /\ KeptSoFar(q, Walk, S, m) /\ Walk \in Seq(Entries)
        BY <1>4, <3>2, <3>3, WalkIs
      <4>2. QED
        BY <4>1, KeptPlaces
    <3>5. PICK place \in [1..k -> 1..m] : Placing(q, Walk, S, m, k, place)
      BY <3>4
    <3>6. k = n
      BY <1>5, <3>3, <3>5 DEF Placing
    <3>7. why = Walk[place[x]] /\ why \in S /\ place[x] \in 1..m
      BY <2>5, <3>1, <3>3, <3>5, <3>6 DEF Placing
    <3>8. why \in Owed(judged)
      BY <3>3, <3>7
    <3>9. ASSUME ~cancelled, NEW f \in Owed(judged) \cap (tree.bad \ gone)
          PROVE  NthIn(InWalkOrder(Owed(judged)), why) <= NthIn(InWalkOrder(Owed(judged)), f)
      <4>1. f \in S /\ f \in Entries
        BY <1>4, <3>3, <3>9, OwedMeans, ScanAssumption, FileDir
      <4>2. PICK l \in 1..m : Walk[l] = f
        BY <3>2, <4>1, WalkIs
      <4>3. PICK y \in 1..n : place[y] = l
        BY <3>5, <3>6, <4>1, <4>2 DEF Placing
      <4>4. scan.files[y] = f
        BY <3>3, <3>5, <3>6, <4>2, <4>3 DEF Placing
      <4>5. scan.results[y].failed
        BY <1>7, <3>9, <4>4 DEF Answered
      <4>6. y \in failed
        BY <1>6, <1>a, <4>5
      <4>7. x <= y
        BY <2>2, <4>6
      <4>8. place[x] <= place[y]
        <5>1. x < y => place[x] < place[y]
          BY <2>5, <3>5, <3>6 DEF Placing
        <5>2. place[x] \in Nat /\ place[y] \in Nat
          BY <2>5, <3>5, <3>6
        <5>3. QED
          BY <2>5, <4>7, <5>1, <5>2
      <4>9. QED
        BY <3>2, <3>7, <3>8, <3>9, <4>2, <4>3, <4>8, InOrder
    <3>10. ErrorRight(why, judged)
      BY <3>1, <3>8, <3>9 DEF ErrorRight
    <3>11. Right(scan'.out, judged)
      BY <2>4, <3>10, FailureRight
    <3>12. QED
      BY <1>1, <1>3, <2>4, <3>11, FinishMeans, EndsExact
  <2>8. QED
    BY <2>6, <2>7
<1>10. QED
  BY <1>8, <1>9

(***************************************************************************)
(* The session.                                                            *)
(***************************************************************************)
\* A command goes on, with the scan as it was.
LEMMA BesideExact ==
    ASSUME Exact, UNCHANGED <<tree, gone, cancelled, scan, hold, seen>>, stems' = stems \/ scan.phase = "done",
           cmd'.phase # "scan" => scan.phase = "done"
    PROVE  Exact'
<1>1. Later
  BY DEF Later, Exact, Progress
<1>2. QED
  BY <1>1, LaterExact

LEMMA ExactSteps ==
    ASSUME SessionSound, Exact, [Next]_vars
    PROVE  Exact'
<1>a. SessionTypes /\ ScanSound /\ Shaped(cmd, CmdFields)
  BY DEF SessionSound, SessionTypes
<1>b. cmd.phase # "scan" => scan.phase = "done"
  BY DEF Exact
<1>1. CASE UNCHANGED vars
  BY <1>1, <1>b, BesideExact DEF vars, scanVars
<1>2. CASE Begin
  <2>1. scan.phase = "done"
    BY <1>2, <1>b DEF Begin
  <2>2. QED
    BY <1>2, <2>1, BesideExact DEF Begin, scanVars
<1>3. CASE Preflight
  <2>1. scan.phase = "done"
    BY <1>3, <1>b DEF Preflight, Admit, Declare
  <2>2. UNCHANGED <<tree, gone, cancelled, scan, hold, seen>>
    BY <1>3 DEF Preflight, Admit, Declare, scanVars
  <2>3. QED
    BY <2>1, <2>2, BesideExact
<1>4. CASE Scanning
  <2>1. UNCHANGED cmd /\ ScanNext
    BY <1>4 DEF Scanning
  <2>2. QED
    BY <1>a, <2>1, WalkDirExact, WalkFileExact, EndWalkExact, SendExact, TakeExact, ExtractExact, LeaveExact,
       CollectExact DEF ScanNext
<1>5. CASE Mishap
  <2>1. Later
    <3>1. UNCHANGED <<cmd, tree, scan, hold>>
      BY <1>5 DEF Mishap, Environment, Cancel, Delete, EditStem
    <3>2. gone \subseteq gone' /\ gone' \subseteq gone \cup Files /\ (cancelled => cancelled')
      BY <1>5 DEF Mishap, Environment, Cancel, Delete, EditStem
    <3>3. seen \subseteq seen' /\ (scan.phase # "done" => stems' \in seen')
      BY <1>5 DEF Mishap, Environment, Cancel, Delete, EditStem, Exact, Progress
    <3>4. QED
      BY <1>b, <3>1, <3>2, <3>3 DEF Later
  <2>2. QED
    BY <2>1, LaterExact
<1>6. CASE Health \/ GraphStart
  <2>1. cmd'.phase = "scan"
    BY <1>6, <1>a, CommandFields DEF Health, GraphStart, To, Shaped
  <2>2. \E r, u : BeginScan(r, u)
    BY <1>6 DEF Health, GraphStart
  <2>3. QED
    BY <2>1, <2>2, BeginExact
<1>7. CASE GraphRescan
  <2>1. cmd'.phase = "scan" /\ BeginScan(FALSE, TRUE)
    BY <1>7 DEF GraphRescan, Retry
  <2>2. QED
    BY <2>1, BeginExact
<1>8. CASE /\ UNCHANGED scanVars
           /\ ValidateNext /\ ~Health
  <2>1. cmd.phase # "scan" \/ scan.phase = "done"
    <3>1. CASE \E i \in 1..3 : Derive(i)
      <4>1. \A i \in 1..3 : i = 1 \/ i = 2 \/ i = 3
        OBVIOUS
      <4>2. Derivations[1] # "scan" /\ Derivations[2] # "scan" /\ Derivations[3] # "scan"
        BY DEF Derivations
      <4>3. \E i \in 1..3 : cmd.phase = Derivations[i]
        BY <3>1, SMTT(30) DEF Derive, Now
      <4>4. QED
        BY <4>1, <4>2, <4>3
    <3>2. CASE ~\E i \in 1..3 : Derive(i)
      BY <1>8, <3>2 DEF ValidateNext, AllScanned, CheckBoundary, FilterAll, ValidateRecord,
         ValidateDirectories, DetectDrift, NameFiles, ValidateFile, FilesDone, Now
    <3>3. QED
      BY <3>1, <3>2
  <2>2. QED
    BY <1>8, <1>b, <2>1, BesideExact DEF scanVars
<1>9. CASE /\ UNCHANGED scanVars
           /\ \/ GraphScanned \/ Ensure \/ FilterStyles \/ Enrich \/ Stop \/ FilterWhere
              \/ CollectIssues \/ Prepare \/ FilterTypes \/ OptIn \/ BuildGraph \/ DecideByFlag \/ Decide \/ DecideByMembers
  <2>1. cmd.phase # "scan" \/ scan.phase = "done"
    BY <1>9 DEF GraphScanned, Ensure, FilterStyles, Enrich, Stop, FilterWhere,
       CollectIssues, Prepare, FilterTypes, OptIn, BuildGraph, DecideByFlag, Decide, DecideByMembers, Phase
  <2>2. QED
    BY <1>9, <1>b, <2>1, BesideExact DEF scanVars
<1>10. CASE GraphStep /\ UNCHANGED <<scanVars, cmd, report>>
  BY <1>10, <1>b, BesideExact DEF scanVars
<1>11. ValidateNext => Health \/ UNCHANGED scanVars
  BY DEF ValidateNext, AllScanned, CheckBoundary, FilterAll, ValidateRecord,
     ValidateDirectories, DetectDrift, NameFiles, ValidateFile, FilesDone, Derive, Quiet
<1>12. ASSUME \/ GraphScanned \/ Ensure \/ FilterStyles \/ Enrich \/ Stop \/ FilterWhere
              \/ CollectIssues \/ Prepare \/ FilterTypes \/ OptIn \/ BuildGraph \/ DecideByFlag \/ Decide \/ DecideByMembers
       PROVE  UNCHANGED scanVars
  BY <1>12 DEF GraphScanned, Ensure, FilterStyles, Enrich, Stop, FilterWhere,
     CollectIssues, Prepare, FilterTypes, OptIn, BuildGraph, DecideByFlag, Decide, DecideByMembers, Phase
<1>13. QED
  BY <1>1, <1>2, <1>3, <1>4, <1>5, <1>6, <1>7, <1>8, <1>9, <1>10, <1>11, <1>12 DEF Next, Over, Working, GraphNext

LEMMA ExactStarts == Init => Exact
<1> SUFFICES ASSUME Init PROVE Exact
  OBVIOUS
<1>1. PICK x \in Sessions : ScanInit(x.tree)
  BY DEF Init
<1>2. x.tree \in Trees
  BY SessionAssumption
<1>3. tree = x.tree /\ gone = tree.absent
  BY <1>1 DEF ScanInit
<1>4. scan = [Start(FALSE, FALSE) EXCEPT !.phase = "done"]
  BY <1>1 DEF ScanInit
<1>5. scan.phase = "done" /\ scan.out = Running
  BY <1>4 DEF Start
<1>6. QED
  BY <1>2, <1>3, <1>5 DEF Exact, Phases

LEMMA ExactEnds == Exact => ScanExact
<1> SUFFICES ASSUME Exact, scan.phase = "done", scan.out # Running
             PROVE  \E judged \in [Dirs -> seen] :
                       CASE scan.out.kind = "records" -> RecordsRight(scan.out.records, judged)
                         [] scan.out.kind = "noschema" -> SchemaRight(judged)
                         [] scan.out.kind = "error" -> ErrorRight(scan.out.why, judged)
  BY Zenon DEF ScanExact, RecordsRight, SchemaRight, ErrorRight, BrokenFor, Needed, NthIn
<1>1. PICK judged \in [Dirs -> seen] : Right(scan.out, judged)
  BY DEF Exact
<1>2. (CASE scan.out.kind = "records" -> RecordsRight(scan.out.records, judged)
         [] scan.out.kind = "noschema" -> SchemaRight(judged)
         [] scan.out.kind = "error" -> ErrorRight(scan.out.why, judged))
  BY <1>1 DEF Right
<1>3. QED
  BY <1>2

\* Whatever the workers' order and whatever happens meanwhile, a scan that
\* succeeds returns exactly the documents it owes, and one that fails names the
\* first cause in the order of the walk (index.Scan).
THEOREM ScansAreExact == Spec => []ScanExact
<1>1. Init => SessionSound /\ Exact
  BY SessionStarts, ExactStarts
<1>2. SessionSound /\ Exact /\ [Next]_vars => (SessionSound /\ Exact)'
  BY SessionSteps, ExactSteps
<1>3. QED
  BY <1>1, <1>2, ExactEnds, PTL DEF Spec

(***************************************************************************)
(* The modes agree: what validate and graph say of a tree nobody touches   *)
(* is a function of the tree (Agreed): each command keeps its part of it   *)
(* through its phases, by what a scan of that tree owes (Due), and its     *)
(* report says it after the next command has begun (AllTold, FileTold,     *)
(* GraphTold), as long as the marker is not written (Same).                *)
(***************************************************************************)
\* The documents a scan of that tree owes, and those that --where keeps.
Ruled(f) == Resolve(stems, Dir(f)) = "governed"
Due == {f \in Known \ gone : /\ ~Ignored(f) /\ Resolve(stems, Dir(f)) # "none"
                             /\ InScope(f, Resolve(stems, Dir(f)))}
Asked == Due \cap tree.where

\* What --all computes, what it says of a document, and what validate says of it
\* by name.
Computed  == AggregateAll(stems, Due, DeriveAll(stems, Due))
Judged(f) == RulesBroken(stems, f, Root, Computed[f])
GateRow(f) == IF Ruled(f) THEN Judged(f) ELSE Unresolved(f)
HookRow(f) ==
    IF Excluded(stems, f) THEN {<<"excluded", f>>}
    ELSE IF Ruled(f) THEN RulesBroken(stems, f, Topmost(Chain(stems, Dir(f))), None) ELSE Unresolved(f)

\* What graph has of a document: its links, those that lead nowhere, its issues.
Styled(f) == OfStyle(tree.links[f], Schema(stems, f))
Unmet(f)  == {l \in Styled(f) : ResolveTarget(Disk, Nothing, Root, Dir(f), l) = Nothing}
Said(f)   == {i \in CheckLinks(Disk, Nothing, Root, Dir(f), Schema(stems, f), Styled(f)) :
                 i[1] \notin {"link_resolve", "link_unverifiable"}}
SaidOf(issues, f) == {x[2] : x \in {i \in issues : i[1] = f}}
Good      == {f \in Due : Ruled(f)}
Unbroken(f) == Schema(stems, f).rules = {} /\ ~Schema(stems, f).fallback

\* Of f, broken has the links that lead nowhere, all of them unless a typed rule
\* or a fallback takes some away.
BrokenTold(broken, f) ==
    /\ \A l : <<f, l>> \in broken => l \in Unmet(f)
    /\ Unbroken(f) => \A l \in Unmet(f) : <<f, l>> \in broken

\* The rows so far are the tree's, and one that is not resolved has its notice.
RowsAgreed(rows, notices) == \A f \in DOMAIN rows : rows[f] = GateRow(f) /\ (Ruled(f) \/ "unresolved" \in notices)
Warned == \E f \in Known : ~Ruled(f) \/ Notice(stems, Dir(f)) # {}
Reached(records, at) == {records[i] : i \in {j \in DOMAIN records : j < at}}

\* validate --all, phase by phase.
AllAgreed(c, scanned, versions) ==
    /\ c.phase = "scan" => versions = {stems} /\ scanned.resilient /\ ~scanned.ungoverned
    /\ c.phase \in {"preflight", "health", "scan", "boundary", "derive", "builtins", "aggregate", "where"} =>
          c.rows = <<>> /\ c.at = 1
    /\ c.phase \in {"boundary", "derive", "builtins", "aggregate", "where"} => Range(c.records) = Due
    /\ c.phase \in {"derive", "builtins", "aggregate", "where", "corpus", "drift"} => Notice(stems, Root) \subseteq c.notices
    /\ c.phase \in {"builtins", "aggregate"} => c.derived = DeriveAll(stems, Due)
    /\ c.phase \in {"where", "corpus"} => c.derived = Computed
    /\ c.phase = "corpus" =>
          /\ c.at \in Nat \ {0} /\ Range(c.records) = Asked
          /\ DOMAIN c.rows = Reached(c.records, c.at) /\ RowsAgreed(c.rows, c.notices)
    /\ c.phase = "drift" => DOMAIN c.rows = Asked /\ RowsAgreed(c.rows, c.notices)

\* validate of named files.
FileAgreed(c) ==
    /\ c.phase \in {"preflight", "files", "each"} => c.structural = {} /\ ~c.health
    /\ c.phase \in {"preflight", "files"} => c.rows = <<>> /\ c.at = 1 /\ c.notices = {}
    /\ c.phase = "each" =>
          /\ c.at \in Nat \ {0} /\ Range(c.records) = Known \ gone
          /\ DOMAIN c.rows = Reached(c.records, c.at) /\ \A f \in DOMAIN c.rows : c.rows[f] = HookRow(f)
          /\ c.notices # {} => Warned

\* graph --check.
BrokenIn(edges) == {<<e.from, e.link>> : e \in {x \in edges : ~x.resolved}}
GraphAgreed(c, scanned, versions) ==
    /\ c.phase = "scan" => /\ versions = {stems} /\ ~scanned.resilient
                           /\ scanned.phase = "done" => scanned.out.kind # "running"
    /\ c.phase \in {"ensure", "styles", "enrich", "where"} => Good \subseteq Range(c.records)
    /\ c.phase \in {"issues", "prepare", "types", "scope", "build", "cycles", "members"} =>
          Good \cap tree.where \subseteq Range(c.records)
    /\ c.phase \in {"ensure", "styles"} => c.links = tree.links
    /\ c.phase \in {"enrich", "where", "issues", "prepare"} => \A f \in Good : c.links[f] = Styled(f)
    /\ c.phase \in {"prepare", "types", "scope", "build", "cycles", "members"} =>
          \A f \in Good \cap tree.where : SaidOf(c.issues, f) = Said(f)
    /\ c.phase \in {"types", "scope", "build", "cycles", "members"} =>
          \A f \in Good \cap tree.where : BrokenTold(BrokenIn(c.edges), f)

\* What the reports say.
AllTold(r) == r.kind = "envelope" =>
    /\ \A f \in DOMAIN r.rows : r.rows[f] = Unresolved(f) \/ (f \in Good \cap tree.where /\ r.rows[f] = Judged(f))
    /\ r.notices \cap {"unresolved", "scan failed"} = {} =>
          /\ DOMAIN r.rows = Asked /\ (\A f \in Asked : r.rows[f] = GateRow(f))
          /\ Notice(stems, Root) \subseteq r.notices
    /\ r.ok => r.notices \subseteq {"no records"} /\ \A f \in DOMAIN r.rows : Valid(r.rows[f])

FileTold(r) == r.kind = "envelope" =>
    /\ DOMAIN r.rows = Known \ gone /\ \A f \in DOMAIN r.rows : r.rows[f] = HookRow(f)
    /\ r.ok \/ r.strict \/ (\E f \in DOMAIN r.rows : ~Valid(r.rows[f]))
            \/ Warned

GraphTold(r) == r.kind = "graph" =>
    \A f \in Good \cap tree.where : SaidOf(r.issues, f) = Said(f) /\ BrokenTold(r.broken, f)

\* A mishap apart, only the marker changes the .stem files.
Marking == mishaps = 0 => gone = tree.absent /\ \A d \in Places : stems[d] \in {tree.stems[d], "root"}

\* All of it, while nothing has happened and no marker was written.
Agreeing ==
    /\ cmd.name = "all" => AllAgreed(cmd, scan, seen)
    /\ cmd.name = "file" => FileAgreed(cmd)
    /\ cmd.name = "graph" => GraphAgreed(cmd, scan, seen)
    /\ AllTold(report.all) /\ FileTold(report.file) /\ GraphTold(report.graph)
Agreed == Marking /\ (Unchanged => Agreeing)

\* The tree and what is known of it are as they were.
Same == UNCHANGED <<tree, stems, gone>>

\* What the tree owes and says is what it was.
LEMMA FactsStay ==
    ASSUME Same
    PROVE  /\ Due' = Due /\ Asked' = Asked /\ Good' = Good
           /\ \A f : Ruled(f)' = Ruled(f) /\ Notice(stems, Dir(f))' = Notice(stems, Dir(f))
           /\ Notice(stems, Root)' = Notice(stems, Root)
           /\ \A f : GateRow(f)' = GateRow(f) /\ HookRow(f)' = HookRow(f)
           /\ Computed' = Computed /\ DeriveAll(stems, Due)' = DeriveAll(stems, Due)
           /\ \A f : Judged(f)' = Judged(f)
           /\ Warned' = Warned
           /\ \A f : Styled(f)' = Styled(f) /\ Unmet(f)' = Unmet(f) /\ Said(f)' = Said(f) /\ Unbroken(f)' = Unbroken(f)
<1>1. tree' = tree /\ stems' = stems /\ gone' = gone
  BY DEF Same
<1>2. /\ \A d : Resolve(stems, d)' = Resolve(stems, d) /\ Chain(stems, d)' = Chain(stems, d)
      /\ \A f : Ignored(f)' = Ignored(f)
  BY <1>1 DEF Resolve, Chain, Ignored
<1>3. \A d : Notice(stems, d)' = Notice(stems, d)
  <2>1. \A d : Below(stems, d)' = Below(stems, d)
    BY <1>1 DEF Below
  <2>2. \A d : Boundary(stems, d)' = Boundary(stems, d)
    BY <1>1, <1>2, <2>1 DEF Boundary
  <2>3. QED
    BY <2>2 DEF Notice
<1>4. \A f : Ruled(f)' = Ruled(f) /\ Notice(stems, Dir(f))' = Notice(stems, Dir(f))
  BY <1>2, <1>3 DEF Ruled, Dir
<1>5. Due' = Due /\ Asked' = Asked /\ Good' = Good
  <2>1. Due' = Due
    BY <1>1, <1>2 DEF Due, InScope, Dir
  <2>2. QED
    BY <1>1, <1>4, <2>1 DEF Asked, Good
<1>6. \A f : Schema(stems, f)' = Schema(stems, f)
  BY <1>1, <1>2 DEF Schema, Dir
<1>7. Disk' = Disk
  BY <1>1 DEF Disk
<1>8. \A f, root, d : RulesBroken(stems, f, root, d)' = RulesBroken(stems, f, root, d)
  <2>1. \A f, declaring : Declares(stems, f, declaring)' = Declares(stems, f, declaring)
    BY <1>2 DEF Declares, Dir
  <2>2. \A f, d : FieldRules(stems, f, d)' = FieldRules(stems, f, d)
    BY <1>1, <2>1, Zenon DEF FieldRules, Index
  <2>3. \A f, root : CheckLinks(Disk, Nothing, root, Dir(f), Schema(stems, f), tree.links[f])'
                       = CheckLinks(Disk, Nothing, root, Dir(f), Schema(stems, f), tree.links[f])
    BY <1>1, <1>6, <1>7 DEF Dir
  <2>4. QED
    BY <1>1, <2>2, <2>3, Zenon DEF RulesBroken
<1>8a. /\ Computed' = Computed /\ DeriveAll(stems, Due)' = DeriveAll(stems, Due)
       /\ \A f : Judged(f)' = Judged(f)
  <2>1. \A f, declaring : Declares(stems, f, declaring)' = Declares(stems, f, declaring)
    BY <1>2 DEF Declares, Dir
  <2>2. \A S : Held(S)' = Held(S)
    BY <1>1 DEF Held
  <2>3. DeriveAll(stems, Due)' = DeriveAll(stems, Due)
    BY <1>1, <1>5, <2>1, <2>2, Zenon DEF DeriveAll, Dir
  <2>4. \A f : Total(Due, f)' = Total(Due, f)
    BY <1>5, <2>2, Zenon DEF Total, Index, Dir
  <2>5. Computed' = Computed
    BY <1>1, <1>5, <2>1, <2>3, <2>4, Zenon DEF Computed, AggregateAll, Index
  <2>6. QED
    BY <1>8, <2>3, <2>5, Zenon DEF Judged
<1>9. \A f : Excluded(stems, f)' = Excluded(stems, f)
  BY <1>1, <1>2 DEF Excluded, IgnoredFrom, Dir
<1>10. \A f : GateRow(f)' = GateRow(f) /\ HookRow(f)' = HookRow(f)
  BY <1>1, <1>2, <1>4, <1>8, <1>9, <1>8a DEF GateRow, HookRow, Unresolved, Dir
<1>11. \A f : Styled(f)' = Styled(f) /\ Unbroken(f)' = Unbroken(f)
  BY <1>1, <1>6 DEF Styled, Unbroken
<1>12. \A f : Unmet(f)' = Unmet(f) /\ Said(f)' = Said(f)
  BY <1>6, <1>7, <1>11 DEF Unmet, Said, Dir
<1>13. Warned' = Warned
  BY <1>4 DEF Warned
<1>14. QED
  BY <1>3, <1>4, <1>5, <1>8a, <1>10, <1>11, <1>12, <1>13

\* So what is said of it stays true.
LEMMA ToldLater ==
    ASSUME Same, NEW r
    PROVE  /\ AllTold(r) /\ report'.all = r => AllTold(report.all)'
           /\ FileTold(r) /\ report'.file = r => FileTold(report.file)'
           /\ GraphTold(r) /\ report'.graph = r => GraphTold(report.graph)'
<1>1. tree' = tree
  BY DEF Same
<1>2. AllTold(r) /\ report'.all = r => AllTold(report.all)'
  BY <1>1, FactsStay DEF AllTold, Unresolved, Valid
<1>3. FileTold(r) /\ report'.file = r => FileTold(report.file)'
  BY <1>1, FactsStay DEF FileTold, Valid, Same
<1>4. GraphTold(r) /\ report'.graph = r => GraphTold(report.graph)'
  BY <1>1, FactsStay DEF GraphTold, BrokenTold
<1>5. QED
  BY <1>2, <1>3, <1>4

\* And what each command has of it.
LEMMA AllLater ==
    ASSUME Same, NEW c, NEW s, NEW v, c = cmd', s = scan', v = seen', AllAgreed(c, s, v)
    PROVE  AllAgreed(cmd, scan, seen)'
<1>1. stems' = stems
  BY DEF Same
<1>2. \A rows, notices : RowsAgreed(rows, notices)' = RowsAgreed(rows, notices)
  BY FactsStay DEF RowsAgreed
<1>3. RowsAgreed(c.rows, c.notices) => RowsAgreed(cmd.rows, cmd.notices)'
  BY FactsStay DEF RowsAgreed
<1>4. QED
  BY <1>1, <1>3, FactsStay DEF AllAgreed

LEMMA FileLater ==
    ASSUME Same, NEW c, c = cmd', FileAgreed(c)
    PROVE  FileAgreed(cmd)'
<1>1. gone' = gone
  BY DEF Same
<1>2. QED
  BY <1>1, FactsStay DEF FileAgreed

LEMMA GraphLater ==
    ASSUME Same, NEW c, NEW s, NEW v, c = cmd', s = scan', v = seen', GraphAgreed(c, s, v)
    PROVE  GraphAgreed(cmd, scan, seen)'
<1>1. stems' = stems /\ tree' = tree
  BY DEF Same
<1>2. \A f : BrokenTold(BrokenIn(c.edges), f) => BrokenTold(BrokenIn(cmd.edges), f)'
  BY FactsStay DEF BrokenTold, BrokenIn
<1>3. QED
  BY <1>1, <1>2, FactsStay DEF GraphAgreed

\* What is kept of a list is what it has of the set.
LEMMA KeptHas ==
    ASSUME NEW list \in Seq(Entries), NEW S
    PROVE  Range(Kept(list, S)) = Range(list) \cap S
<1>a. PICK q, m : q = Kept(list, S) /\ m = Len(list)
  OBVIOUS
<1>1. KeptSoFar(q, list, S, m) /\ m \in 0..Len(list) /\ DOMAIN list = 1..m
  BY <1>a, KeptIsKept
<1>2. PICK n \in Nat : \E place \in [1..n -> 1..m] : Placing(q, list, S, m, n, place)
  BY <1>1, KeptPlaces
<1>3. PICK place \in [1..n -> 1..m] : Placing(q, list, S, m, n, place)
  BY <1>2
<1>4. /\ DOMAIN q = 1..n
      /\ \A i \in 1..n : q[i] = list[place[i]] /\ list[place[i]] \in S /\ place[i] \in 1..m
      /\ \A k \in 1..m : list[k] \in S => \E i \in 1..n : place[i] = k
  <2>a. q \in Seq(Entries) /\ Len(q) = n
    BY <1>3 DEF Placing
  <2>1. DOMAIN q = 1..n
    BY <2>a
  <2>2. \A i \in 1..n : q[i] = list[place[i]] /\ list[place[i]] \in S
    BY <1>3 DEF Placing
  <2>3. \A k \in 1..m : list[k] \in S => \E i \in 1..n : place[i] = k
    BY <1>3 DEF Placing
  <2>4. \A i \in 1..n : place[i] \in 1..m
    OBVIOUS
  <2>5. QED
    BY <2>1, <2>2, <2>3, <2>4, Zenon
<1>5. Range(q) \subseteq Range(list) \cap S
  BY <1>1, <1>4 DEF Range
<1>6. ASSUME NEW e \in Range(list) \cap S PROVE e \in Range(q)
  <2>1. PICK k \in 1..m : list[k] = e
    BY <1>1 DEF Range
  <2>2. PICK i \in 1..n : place[i] = k
    BY <1>4, <1>6, <2>1
  <2>3. q[i] = e
    BY <1>4, <2>1, <2>2
  <2>4. QED
    BY <1>4, <2>3 DEF Range
<1>7. QED
  BY <1>5, <1>6, <1>a

\* While nothing happens a scan returns what the tree owes as it stands.
LEMMA ScannedWhole ==
    ASSUME Exact, gone = tree.absent, seen = {stems}, scan.phase = "done", scan.out.kind = "records", NEW f
    PROVE  f \in Range(scan.out.records) <=>
             /\ f \in Known \ gone /\ ~Ignored(f)
             /\ Resolve(stems, Dir(f)) = "none" => scan.ungoverned
             /\ Resolve(stems, Dir(f)) = "broken" => scan.resilient
             /\ Resolve(stems, Dir(f)) = "governed" => f \notin tree.outOfScope
<1>1. scan.out # Running
  BY DEF Running
<1>2. PICK judged \in [Dirs -> seen] : Right(scan.out, judged)
  BY <1>1 DEF Exact
<1>3. RecordsRight(scan.out.records, judged)
  BY <1>2 DEF Right
<1>4. PICK there \in SUBSET gone :
         scan.out.records = InWalkOrder(Owed(judged) \cap ((Files \ gone) \cup (there \ tree.absent)))
  BY <1>3 DEF RecordsRight
<1>5. scan.out.records = Kept(Walk, Owed(judged) \cap (Files \ gone))
  <2>1. (Files \ gone) \cup (there \ tree.absent) = Files \ gone
    BY <1>4
  <2>2. QED
    BY <1>4, <2>1 DEF InWalkOrder
<1>6. Range(scan.out.records) = Entries \cap (Owed(judged) \cap (Files \ gone))
  BY <1>5, KeptHas, WalkIs DEF Entries
<1>7. f \in Range(scan.out.records) <=> f \in Owed(judged) /\ f \in Files /\ f \notin gone
  BY <1>6, FileDir
<1>8. CASE f \notin Known
  BY <1>7, <1>8, OwedMeans
<1>9. CASE f \in Known
  <2>1. f \in Files /\ Dir(f) \in Dirs
    BY <1>9, FileDir, ScanAssumption
  <2>2. judged[Dir(f)] = stems
    BY <2>1
  <2>3. f \in Owed(judged) <=>
             /\ f \in Known /\ ~Ignored(f)
             /\ Resolve(judged[Dir(f)], Dir(f)) = "none" => scan.ungoverned
             /\ Resolve(judged[Dir(f)], Dir(f)) = "broken" => scan.resilient
             /\ Resolve(judged[Dir(f)], Dir(f)) = "governed" => f \notin tree.outOfScope
    BY OwedMeans
  <2>4. QED
    BY <1>7, <2>1, <2>2, <2>3
<1>10. QED
  BY <1>8, <1>9

\* For validate --all: what is due.
LEMMA ScannedDue ==
    ASSUME Exact, gone = tree.absent, seen = {stems}, scan.phase = "done", scan.out.kind = "records"
    PROVE  /\ scan.resilient /\ ~scan.ungoverned => Range(scan.out.records) = Due
           /\ Good \subseteq Range(scan.out.records)
<1>1. \A f : f \in Range(scan.out.records) <=>
             /\ f \in Known \ gone /\ ~Ignored(f)
             /\ Resolve(stems, Dir(f)) = "none" => scan.ungoverned
             /\ Resolve(stems, Dir(f)) = "broken" => scan.resilient
             /\ Resolve(stems, Dir(f)) = "governed" => f \notin tree.outOfScope
  BY ScannedWhole
<1>2. \A f : f \in Due <=> /\ f \in Known \ gone /\ ~Ignored(f)
                           /\ Resolve(stems, Dir(f)) # "none"
                           /\ Resolve(stems, Dir(f)) = "governed" => f \notin tree.outOfScope
  BY DEF Due, InScope
<1>3. Good \subseteq Range(scan.out.records)
  BY <1>1, <1>2 DEF Good, Ruled
<1>4. ASSUME scan.resilient, ~scan.ungoverned PROVE Range(scan.out.records) = Due
  <2>1. \A f : f \in Range(scan.out.records) <=> f \in Due
    BY <1>1, <1>2, <1>4
  <2>2. PICK R, D : R = Range(scan.out.records) /\ D = Due
    OBVIOUS
  <2>3. QED
    BY <2>1, <2>2
<1>5. QED
  BY <1>3, <1>4

\* Parts of a command's records.
LEMMA KeptRecords ==
    ASSUME SessionTypes, NEW S, cmd'.records = Kept(cmd.records, S)
    PROVE  Records' = Records \cap S
<1>1. cmd.records \in Seq(Entries)
  <2>1. Known \subseteq Entries
    BY ScanAssumption DEF Files
  <2>2. PICK q : q = cmd.records
    OBVIOUS
  <2>3. q \in Seq(Known)
    BY <2>2, CommandFields
  <2>4. q \in Seq(Entries)
    BY <2>1, <2>3
  <2>5. QED
    BY <2>2, <2>4
<1>2. QED
  BY <1>1, KeptHas DEF Records

\* One more record is reached.
LEMMA OneMoreReached ==
    ASSUME NEW W, NEW q \in Seq(W), NEW k \in Nat \ {0}
    PROVE  /\ k <= Len(q) => Reached(q, k + 1) = Reached(q, k) \cup {q[k]}
           /\ k > Len(q) => Reached(q, k) = Range(q)
           /\ Reached(q, 1) = {}
<1>1. DOMAIN q = 1..Len(q) /\ Len(q) \in Nat
  OBVIOUS
<1>2. ASSUME k <= Len(q) PROVE Reached(q, k + 1) = Reached(q, k) \cup {q[k]}
  <2>1. {j \in DOMAIN q : j < k + 1} = {j \in DOMAIN q : j < k} \cup {k}
    BY <1>1, <1>2
  <2>2. QED
    BY <2>1 DEF Reached
<1>3. ASSUME k > Len(q) PROVE Reached(q, k) = Range(q)
  <2>1. {j \in DOMAIN q : j < k} = DOMAIN q
    BY <1>1, <1>3
  <2>2. QED
    BY <2>1 DEF Reached, Range
<1>4. Reached(q, 1) = {}
  BY <1>1 DEF Reached
<1>5. QED
  BY <1>2, <1>3, <1>4

\* A session comes back to no tree it has left: the marker stays, a mishap counts.
LEMMA MarkingStays ==
    ASSUME Governed, Marking, [Next]_vars
    PROVE  Marking' /\ (Unchanged' => Unchanged /\ Same)
<1>1. CASE Mishap
  <2>1. mishaps' = mishaps + 1 /\ mishaps \in Nat
    BY <1>1 DEF Mishap, Environment, Cancel, Delete, EditStem, Disturb, Governed
  <2>2. mishaps' # 0
    BY <2>1
  <2>3. QED
    BY <2>2 DEF Marking, Unchanged
<1>2. CASE UNCHANGED <<tree, stems, gone, mishaps>>
  BY <1>2 DEF Marking, Unchanged, Same
<1>3. CASE UNCHANGED <<tree, gone, mishaps>> /\ \E p : stems' = Marked(stems, p)
  <2>1. PICK p : stems' = stems \/ stems' = [stems EXCEPT ![p] = "root"]
    BY <1>3 DEF Marked
  <2>2. PICK s, t : s = stems /\ t = stems'
    OBVIOUS
  <2>3. s \in [Places -> StemStates]
    BY <2>2 DEF Governed, StemsTyped
  <2>4. t = s \/ t = [s EXCEPT ![p] = "root"]
    BY <2>1, <2>2
  <2>5. t = [d \in Places |-> t[d]] /\ \A d \in Places : t[d] = s[d] \/ t[d] = "root"
    BY <2>3, <2>4
  <2>6. ASSUME mishaps = 0 PROVE gone = tree.absent /\ \A d \in Places : s[d] \in {tree.stems[d], "root"}
    BY <2>2, <2>6 DEF Marking
  <2>7. Marking'
    BY <1>3, <2>2, <2>5, <2>6 DEF Marking
  <2>8. ASSUME Unchanged' PROVE Unchanged /\ Same
    <3>1. mishaps = 0 /\ t = tree.stems
      BY <1>3, <2>2, <2>8 DEF Unchanged
    <3>2. \A d \in Places : t[d] = s[d]
      BY <2>5, <2>6, <3>1
    <3>3. [d \in Places |-> t[d]] = [d \in Places |-> s[d]]
      BY <3>2
    <3>4. t = s
      BY <2>3, <2>5, <3>3
    <3>5. QED
      BY <1>3, <2>2, <3>1, <3>4 DEF Unchanged, Same
  <2>9. QED
    BY <2>7, <2>8
<1>4. QED
  <2>1. CASE UNCHANGED vars \/ Begin \/ Over
    BY <1>2, <2>1 DEF vars, scanVars, Begin, Over
  <2>2. CASE Preflight
    <3>1. CASE Admit(Target, After)
      BY <1>2, <3>1 DEF Admit, scanVars
    <3>2. CASE Declare(Target, After)
      BY <1>2, <1>3, <3>2 DEF Declare
    <3>3. QED
      BY <2>2, <3>1, <3>2 DEF Preflight
  <2>3. CASE Scanning
    BY <1>2, <2>3, SMTT(30) DEF Scanning, ScanNext, WalkDir, WalkFile, EndWalk, Send, Collect, Take, Extract, Leave, Steady
  <2>4. CASE ValidateNext
    BY <1>2, <2>4 DEF ValidateNext, Health, AllScanned, CheckBoundary, FilterAll, ValidateRecord, ValidateDirectories, DetectDrift,
         NameFiles, ValidateFile, FilesDone, Derive, Quiet, BeginScan, scanVars
  <2>5. CASE GraphNext
    BY <1>2, <2>5 DEF GraphNext, GraphStart, GraphRescan, Retry, GraphScanned, Ensure, FilterStyles, Enrich, Stop, FilterWhere,
       CollectIssues, Prepare, FilterTypes, OptIn, BuildGraph, DecideByFlag, Decide, DecideByMembers, Phase, BeginScan, scanVars
  <2>6. QED
    BY <1>1, <2>1, <2>2, <2>3, <2>4, <2>5 DEF Next, Working

\* What an envelope says (NewValidationEnvelope).
LEMMA EnvelopeSays ==
    ASSUME SessionTypes, NEW c, Envelope(c), c.name \in Commands
    PROVE  /\ \A m \in Commands : m # c.name => report'[m] = report[m]
           /\ report'[c.name].kind = "envelope" /\ report'[c.name].rows = c.rows
           /\ report'[c.name].notices = c.notices
           /\ (report'[c.name].ok => ~Fail(c, FALSE)) /\ (report'[c.name].ok \/ report'[c.name].strict \/ Fail(c, FALSE))
<1>1. PICK strict \in BOOLEAN : report' = [report EXCEPT ![c.name] =
                [kind |-> "envelope", rows |-> c.rows, structural |-> c.structural, drift |-> c.drift,
                 notices |-> c.notices, strict |-> strict, ok |-> ~Fail(c, strict)]]
  BY DEF Envelope
<1>2. PICK b : b = ~Fail(c, strict)
  OBVIOUS
<1>3. PICK r : r = [kind |-> "envelope", rows |-> c.rows, structural |-> c.structural, drift |-> c.drift,
                    notices |-> c.notices, strict |-> strict, ok |-> b]
  OBVIOUS
<1>4. report' = [report EXCEPT ![c.name] = r]
  BY <1>1, <1>2, <1>3, Zenon
<1>5. report'[c.name] = r /\ \A m \in Commands : m # c.name => report'[m] = report[m]
  BY <1>4 DEF SessionTypes, Shaped
<1>6. r.kind = "envelope" /\ r.rows = c.rows /\ r.notices = c.notices /\ r.strict = strict /\ r.ok = b
  BY <1>3
<1>7. strict = FALSE => (b <=> ~Fail(c, FALSE))
  BY <1>2
<1>8. b => ~Fail(c, FALSE)
  <2>1. Fail(c, FALSE) => Fail(c, strict)
    BY DEF Fail
  <2>2. QED
    BY <1>2, <2>1
<1>9. (r.ok => ~Fail(c, FALSE)) /\ (r.ok \/ r.strict \/ Fail(c, FALSE))
  BY <1>6, <1>7, <1>8
<1>10. QED
  BY <1>5, <1>6, <1>9

\* A validate --all that ends.
LEMMA AllEnds ==
    ASSUME SessionTypes, Same, NEW c, Envelope(c), Shaped(c, CmdFields), c.name = "all",
           \A f \in DOMAIN c.rows : c.rows[f] = Unresolved(f) \/ (f \in Good \cap tree.where /\ c.rows[f] = Judged(f)),
           c.notices \cap {"unresolved", "scan failed"} = {} =>
              /\ DOMAIN c.rows = Asked /\ (\A f \in Asked : c.rows[f] = GateRow(f))
              /\ Notice(stems, Root) \subseteq c.notices
    PROVE  /\ cmd'.name = "all" /\ AllAgreed(cmd, scan, seen)' /\ AllTold(report.all)'
           /\ report'.file = report.file /\ report'.graph = report.graph
<1>1. cmd'.phase = "done" /\ cmd'.name = "all"
  BY EnvelopeTells DEF Commands
<1>2. AllAgreed(cmd, scan, seen)'
  BY <1>1 DEF AllAgreed
<1>3. /\ report'["file"] = report["file"] /\ report'["graph"] = report["graph"]
      /\ report'["all"].kind = "envelope" /\ report'["all"].rows = c.rows /\ report'["all"].notices = c.notices
      /\ report'["all"].ok => ~Fail(c, FALSE)
  BY EnvelopeSays DEF Commands
<1>4. PICK r : r = report'.all
  OBVIOUS
<1>5. r.rows = c.rows /\ r.notices = c.notices /\ (r.ok => ~Fail(c, FALSE))
  BY <1>3, <1>4
<1>6. ~Fail(c, FALSE) => c.notices \subseteq {"no records"} /\ \A f \in DOMAIN c.rows : Valid(c.rows[f])
  BY DEF Fail
<1>7. AllTold(r)
  BY <1>5, <1>6 DEF AllTold
<1>8. QED
  BY <1>1, <1>2, <1>3, <1>4, <1>7, ToldLater

\* One that goes on.
LEMMA AllGoesOn ==
    ASSUME Same, UNCHANGED report, AllTold(report.all), cmd'.name = "all",
           NEW c, NEW s, NEW v, c = cmd', s = scan', v = seen', AllAgreed(c, s, v)
    PROVE  /\ cmd'.name = "all" /\ AllAgreed(cmd, scan, seen)' /\ AllTold(report.all)'
           /\ report'.file = report.file /\ report'.graph = report.graph
<1>1. AllAgreed(cmd, scan, seen)'
  BY AllLater
<1>2. PICK r : r = report.all
  OBVIOUS
<1>3. AllTold(r) /\ report'.all = r
  BY <1>2 DEF AllTold
<1>4. QED
  BY <1>1, <1>3, ToldLater

\* The steps of validate --all.
LEMMA AllAgreedSteps ==
    ASSUME SessionTypes, Exact, Same, gone = tree.absent, cmd.name = "all", AllAgreed(cmd, scan, seen), AllTold(report.all),
           ValidateNext
    PROVE  /\ cmd'.name = "all" /\ AllAgreed(cmd, scan, seen)' /\ AllTold(report.all)'
           /\ report'.file = report.file /\ report'.graph = report.graph
<1> DEFINE Goal == /\ cmd'.name = "all" /\ AllAgreed(cmd, scan, seen)' /\ AllTold(report.all)'
                   /\ report'.file = report.file /\ report'.graph = report.graph
<1>a. /\ Shaped(cmd, CmdFields)
      /\ CmdFields = {"name", "phase", "offered", "records", "at", "links", "issues", "edges", "opted",
                      "derived", "rows", "visited", "structural", "drift", "notices", "health"}
  BY CommandFields
<1>b. PICK c, s, v : c = cmd' /\ s = scan' /\ v = seen'
  OBVIOUS
<1>c. PICK k : k = cmd
  OBVIOUS
<1>d. /\ k.name = "all" /\ AllAgreed(k, scan, seen)
      /\ k.records \in Seq(Known) /\ Shaped(k, CmdFields)
  <2>1. AllAgreed(k, scan, seen)
    BY <1>c DEF AllAgreed
  <2>2. QED
    BY <2>1, <1>a, <1>c, CommandFields
<1>2. CASE Health
  <2>1. cmd.phase = "health" /\ UNCHANGED report /\ BeginScan(TRUE, FALSE)
        /\ \E h : cmd' = [cmd EXCEPT !.phase = "scan", !.health = h]
    BY <1>2 DEF Health, Now
  <2>2. c.name = "all" /\ c.phase = "scan" /\ c.rows = k.rows /\ c.at = k.at
    BY <1>a, <1>b, <1>c, <2>1 DEF Shaped
  <2>3. v = {stems} /\ s.resilient /\ ~s.ungoverned
    BY <1>b, <2>1 DEF BeginScan, Start
  <2>4. AllAgreed(c, s, v)
    BY <1>c, <1>d, <2>1, <2>2, <2>3 DEF AllAgreed
  <2>5. QED
    BY <1>b, <2>1, <2>2, <2>4, AllGoesOn
<1>3. CASE AllScanned
  <2>1. cmd.phase = "scan" /\ scan.phase = "done" /\ UNCHANGED <<scan, seen>>
    BY <1>3 DEF AllScanned, Now, Quiet, scanVars
  <2>2. CASE scan.out.kind # "records"
    <3>a. PICK e : e = [cmd EXCEPT !.notices = {"scan failed"}]
      OBVIOUS
    <3>1. Envelope(e)
      BY <1>3, <2>2, <3>a DEF AllScanned
    <3>2. Shaped(e, CmdFields) /\ e.name = "all" /\ e.rows = k.rows /\ e.notices = {"scan failed"}
      BY <1>a, <1>c, <1>d, <3>a DEF Shaped
    <3>3. k.rows = <<>>
      BY <1>c, <1>d, <2>1 DEF AllAgreed
    <3>4. DOMAIN e.rows = {} /\ e.notices \cap {"unresolved", "scan failed"} # {}
      <4>1. e.rows = <<>>
        BY <3>2, <3>3
      <4>2. DOMAIN e.rows = {}
        BY <4>1
      <4>3. "scan failed" \in e.notices
        BY <3>2
      <4>4. QED
        BY <4>2, <4>3
    <3>5. QED
      BY <3>1, <3>2, <3>4, AllEnds
  <2>3. CASE scan.out.kind = "records"
    <3>1. cmd' = [cmd EXCEPT !.phase = "boundary", !.records = scan.out.records] /\ UNCHANGED report
      BY <1>3, <2>3 DEF AllScanned
    <3>2. c.name = "all" /\ c.phase = "boundary" /\ c.rows = k.rows /\ c.at = k.at /\ c.records = scan.out.records
      BY <1>a, <1>b, <1>c, <1>d, <3>1 DEF Shaped
    <3>3. k.rows = <<>> /\ k.at = 1 /\ seen = {stems} /\ scan.resilient /\ ~scan.ungoverned
      BY <1>c, <1>d, <2>1 DEF AllAgreed
    <3>4. Range(c.records) = Due
      BY <2>1, <2>3, <3>2, <3>3, ScannedDue
    <3>5. AllAgreed(c, s, v)
      BY <3>2, <3>3, <3>4 DEF AllAgreed
    <3>6. QED
      BY <1>b, <3>1, <3>2, <3>5, AllGoesOn
  <2>4. QED
    BY <2>2, <2>3
<1>4. CASE CheckBoundary
  <2>1. cmd.phase = "boundary" /\ UNCHANGED report /\ cmd' = [cmd EXCEPT !.phase = "derive",
                  !.notices = @ \cup Notice(stems, Root) \cup {n \in {"no records"} : cmd.records = <<>>}]
    BY <1>4 DEF CheckBoundary, Now
  <2>2. c.name = "all" /\ c.phase = "derive" /\ c.rows = k.rows /\ c.at = k.at /\ c.records = k.records
        /\ Notice(stems, Root) \subseteq c.notices
    BY <1>a, <1>b, <1>c, <1>d, <2>1 DEF Shaped
  <2>3. AllAgreed(c, s, v)
    BY <1>c, <1>d, <2>1, <2>2 DEF AllAgreed
  <2>4. QED
    BY <1>b, <2>1, <2>2, <2>3, AllGoesOn
<1>5. ASSUME NEW i \in 1..3, Derive(i) PROVE Goal
  <2>1. /\ cmd.phase = Derivations[i] /\ cmd.phase \in {"derive", "builtins", "aggregate"}
        /\ Derivations[i + 1] \in {"builtins", "aggregate", "where"}
    BY <1>5 DEF Derive, Now, Derivations
  <2>2. CASE Envelope([cmd EXCEPT !.notices = @ \cup {"unresolved"}, !.rows = [f \in Records |-> Unresolved(f)]])
    <3>1. PICK e : e = [cmd EXCEPT !.notices = @ \cup {"unresolved"}, !.rows = [f \in Records |-> Unresolved(f)]]
      OBVIOUS
    <3>2. Envelope(e)
      BY <2>2, <3>1
    <3>3. Shaped(e, CmdFields) /\ e.name = "all" /\ e.rows = [f \in Records |-> Unresolved(f)] /\ "unresolved" \in e.notices
      BY <1>a, <3>1 DEF Shaped
    <3>4. \A f \in DOMAIN e.rows : e.rows[f] = Unresolved(f)
      BY <3>3
    <3>5. QED
      BY <3>2, <3>3, <3>4, AllEnds
  <2>3. CASE ~Envelope([cmd EXCEPT !.notices = @ \cup {"unresolved"}, !.rows = [f \in Records |-> Unresolved(f)]])
    <3>a. PICK x, next : x = Derivation(Derivations[i]) /\ next = Derivations[i + 1]
      OBVIOUS
    <3>1. cmd' = [cmd EXCEPT !.phase = next, !.derived = x] /\ UNCHANGED report
      BY <1>5, <2>3, <3>a, Zenon DEF Derive
    <3>2. c.name = "all" /\ c.phase = next /\ c.rows = k.rows /\ c.at = k.at /\ c.records = k.records
          /\ c.notices = k.notices /\ c.derived = x
      BY <1>a, <1>b, <1>c, <1>d, <3>1 DEF Shaped
    <3>3. /\ k.rows = <<>> /\ k.at = 1 /\ Range(k.records) = Due /\ Notice(stems, Root) \subseteq k.notices
          /\ k.phase \in {"builtins", "aggregate"} => k.derived = DeriveAll(stems, Due)
      BY <1>c, <1>d, <2>1, Zenon DEF AllAgreed
    <3>4. Records = Due
      BY <1>c, <3>3, Zenon DEF Records
    <3>5. \/ k.phase = "derive" /\ next = "builtins" /\ x = DeriveAll(stems, Due)
          \/ k.phase = "builtins" /\ next = "aggregate" /\ x = DeriveAll(stems, Due)
          \/ k.phase = "aggregate" /\ next = "where" /\ x = Computed
      <4>1. CASE i = 1
        <5>1. k.phase = "derive" /\ next = "builtins" /\ Derivations[i] = "derive"
          BY <1>c, <2>1, <3>a, <4>1 DEF Derivations
        <5>2. QED
          BY <3>4, <3>a, <5>1 DEF Derivation
      <4>2. CASE i = 2
        <5>1. k.phase = "builtins" /\ next = "aggregate" /\ Derivations[i] = "builtins"
          BY <1>c, <2>1, <3>a, <4>2 DEF Derivations
        <5>2. QED
          BY <1>c, <3>3, <3>a, <5>1 DEF Derivation
      <4>3. CASE i = 3
        <5>1. k.phase = "aggregate" /\ next = "where" /\ Derivations[i] = "aggregate"
          BY <1>c, <2>1, <3>a, <4>3 DEF Derivations
        <5>2. QED
          BY <1>c, <3>3, <3>4, <3>a, <5>1 DEF Derivation, Computed
      <4>4. QED
        BY <4>1, <4>2, <4>3
    <3>6. AllAgreed(c, s, v)
      BY <3>2, <3>3, <3>5, Zenon DEF AllAgreed
    <3>7. QED
      BY <1>b, <3>1, <3>2, <3>6, AllGoesOn
  <2>4. QED
    BY <2>2, <2>3
<1>6. CASE FilterAll
  <2>1. cmd.phase = "where" /\ UNCHANGED report /\ cmd' = [cmd EXCEPT !.phase = "corpus", !.records = Kept(@, tree.where)]
    BY <1>6 DEF FilterAll, Now
  <2>2. c.name = "all" /\ c.phase = "corpus" /\ c.rows = k.rows /\ c.at = k.at /\ c.notices = k.notices
        /\ c.derived = k.derived /\ cmd'.records = Kept(cmd.records, tree.where)
    BY <1>a, <1>b, <1>c, <1>d, <2>1 DEF Shaped
  <2>3. k.rows = <<>> /\ k.at = 1 /\ Range(k.records) = Due /\ Notice(stems, Root) \subseteq k.notices
        /\ k.derived = Computed
    BY <1>c, <1>d, <2>1 DEF AllAgreed
  <2>4. Range(c.records) = Asked
    <3>1. Records' = Records \cap tree.where
      BY <2>2, KeptRecords
    <3>2. QED
      BY <1>b, <1>c, <2>3, <3>1 DEF Records, Asked
  <2>5. Reached(c.records, 1) = {}
    <3>1. PICK S : S = tree.where
      OBVIOUS
    <3>2. c.records = Kept(k.records, S)
      BY <1>b, <1>c, <2>2, <3>1
    <3>3. c.records \in Seq(Known \cap S)
      BY <1>d, <3>2, KeptWithin
    <3>4. QED
      BY <3>3, OneMoreReached
  <2>6. DOMAIN c.rows = {} /\ RowsAgreed(c.rows, c.notices)
    BY <2>2, <2>3 DEF RowsAgreed
  <2>7. AllAgreed(c, s, v)
    BY <2>2, <2>3, <2>4, <2>5, <2>6 DEF AllAgreed
  <2>8. QED
    BY <1>b, <2>1, <2>2, <2>7, AllGoesOn
<1>7. CASE ValidateRecord
  <2>a. PICK f, row, x : /\ f = cmd.records[cmd.at] /\ row = GateRow(f)
                         /\ x = IF Ruled(f) THEN cmd.notices ELSE cmd.notices \cup {"unresolved"}
    OBVIOUS
  <2>1. /\ cmd.phase = "corpus" /\ cmd.at <= Len(cmd.records) /\ UNCHANGED report
        /\ cmd' = IF Ruled(f)
                  THEN [Row(f, Judged(f)) EXCEPT !.visited = @ \cup Above(f)]
                  ELSE [Row(f, Unresolved(f)) EXCEPT !.notices = @ \cup {"unresolved"}]
    <3>1. cmd.phase = "corpus" /\ cmd.derived = Computed
      BY <1>7, <1>c, <1>d, Zenon DEF ValidateRecord, Now, AllAgreed
    <3>2. QED
      BY <1>7, <2>a, <3>1, Zenon DEF ValidateRecord, Now, Ruled, Judged
  <2>2. \/ Ruled(f) /\ \E y : cmd' = [Row(f, row) EXCEPT !.visited = @ \cup y]
        \/ ~Ruled(f) /\ cmd' = [Row(f, row) EXCEPT !.notices = @ \cup {"unresolved"}]
    BY <2>1, <2>a, Zenon DEF GateRow
  <2>3. PICK e : e = Row(f, row)
    OBVIOUS
  <2>4. Shaped(e, CmdFields) /\ e.name = k.name /\ e.phase = k.phase /\ e.at = k.at + 1 /\ e.derived = k.derived
        /\ e.records = k.records /\ e.notices = k.notices /\ e.rows = RowsWith(k.rows, f, row)
    BY <1>a, <1>c, <2>3 DEF Row, Shaped
  <2>5. c.name = "all" /\ c.phase = "corpus" /\ c.at = k.at + 1 /\ c.derived = k.derived
        /\ c.records = k.records /\ c.notices = x /\ c.rows = RowsWith(k.rows, f, row)
    <3>1. CASE Ruled(f)
      <4>1. PICK y : cmd' = [e EXCEPT !.visited = @ \cup y]
        BY <2>2, <2>3, <3>1
      <4>2. QED
        BY <1>a, <1>b, <1>c, <1>d, <2>1, <2>4, <2>a, <3>1, <4>1, ZenonT(40) DEF Shaped
    <3>2. CASE ~Ruled(f)
      <4>1. cmd' = [e EXCEPT !.notices = @ \cup {"unresolved"}]
        BY <2>2, <2>3, <3>2
      <4>2. QED
        BY <1>a, <1>b, <1>c, <1>d, <2>1, <2>4, <2>a, <3>2, <4>1, Zenon DEF Shaped
    <3>3. QED
      BY <3>1, <3>2
  <2>6. /\ k.at \in Nat \ {0} /\ Range(k.records) = Asked /\ Notice(stems, Root) \subseteq k.notices
        /\ DOMAIN k.rows = Reached(k.records, k.at) /\ RowsAgreed(k.rows, k.notices) /\ k.derived = Computed
    BY <1>c, <1>d, <2>1 DEF AllAgreed
  <2>7. DOMAIN c.rows = Reached(c.records, c.at) /\ c.at \in Nat \ {0}
    <3>1. PICK q, n : q = k.records /\ n = k.at
      OBVIOUS
    <3>2. q \in Seq(Known) /\ n \in Nat \ {0} /\ n <= Len(q) /\ f = q[n]
      BY <1>c, <1>d, <2>1, <2>6, <2>a, <3>1
    <3>3. Reached(q, n + 1) = Reached(q, n) \cup {f}
      BY <3>2, OneMoreReached
    <3>4. n + 1 \in Nat \ {0}
      BY <3>2
    <3>5. DOMAIN c.rows = DOMAIN k.rows \cup {f}
      BY <2>5 DEF RowsWith
    <3>6. QED
      BY <2>5, <2>6, <3>1, <3>3, <3>4, <3>5
  <2>8. RowsAgreed(c.rows, c.notices)
    <3>1. SUFFICES ASSUME NEW g \in DOMAIN c.rows
                   PROVE  c.rows[g] = GateRow(g) /\ (Ruled(g) \/ "unresolved" \in c.notices)
      BY DEF RowsAgreed
    <3>2. k.notices \subseteq c.notices
      BY <1>c, <2>5, <2>a
    <3>3. CASE g = f
      BY <2>5, <2>a, <3>3 DEF RowsWith
    <3>4. CASE g # f
      <4>1. g \in DOMAIN k.rows /\ c.rows[g] = k.rows[g]
        BY <2>5, <3>1, <3>4 DEF RowsWith
      <4>2. QED
        BY <2>6, <3>2, <4>1 DEF RowsAgreed
    <3>5. QED
      BY <3>3, <3>4
  <2>9. Notice(stems, Root) \subseteq c.notices
    BY <1>c, <2>5, <2>6, <2>a
  <2>10. AllAgreed(c, s, v)
    BY <2>5, <2>6, <2>7, <2>8, <2>9 DEF AllAgreed
  <2>11. QED
    BY <1>b, <2>1, <2>5, <2>10, AllGoesOn
<1>8. CASE ValidateDirectories
  <2>1. cmd.phase = "corpus" /\ cmd.at > Len(cmd.records) /\ UNCHANGED report
        /\ \E u, x : cmd' = [cmd EXCEPT !.phase = "drift", !.structural = u, !.notices = @ \cup x]
    BY <1>8 DEF ValidateDirectories, Now
  <2>2. c.name = "all" /\ c.phase = "drift" /\ c.rows = k.rows /\ k.notices \subseteq c.notices
    BY <1>a, <1>b, <1>c, <1>d, <2>1 DEF Shaped
  <2>3. /\ k.at \in Nat \ {0} /\ Range(k.records) = Asked /\ Notice(stems, Root) \subseteq k.notices
        /\ DOMAIN k.rows = Reached(k.records, k.at) /\ RowsAgreed(k.rows, k.notices)
    BY <1>c, <1>d, <2>1 DEF AllAgreed
  <2>4. Reached(k.records, k.at) = Range(k.records)
    <3>1. PICK q, n : q = k.records /\ n = k.at
      OBVIOUS
    <3>2. q \in Seq(Known) /\ n \in Nat \ {0} /\ n > Len(q)
      BY <1>c, <1>d, <2>1, <2>3, <3>1
    <3>3. QED
      BY <3>1, <3>2, OneMoreReached
  <2>5. RowsAgreed(c.rows, c.notices)
    BY <2>2, <2>3 DEF RowsAgreed
  <2>6. AllAgreed(c, s, v)
    BY <2>2, <2>3, <2>4, <2>5 DEF AllAgreed
  <2>7. QED
    BY <1>b, <2>1, <2>2, <2>6, AllGoesOn
<1>9. CASE DetectDrift
  <2>1. cmd.phase = "drift" /\ \E d, x : Envelope([cmd EXCEPT !.drift = d, !.notices = @ \cup x])
    BY <1>9 DEF DetectDrift, Now
  <2>2. PICK d, x : Envelope([cmd EXCEPT !.drift = d, !.notices = @ \cup x])
    BY <2>1
  <2>3. PICK e : e = [cmd EXCEPT !.drift = d, !.notices = @ \cup x]
    OBVIOUS
  <2>4. Envelope(e)
    BY <2>2, <2>3
  <2>5. Shaped(e, CmdFields) /\ e.name = "all" /\ e.rows = k.rows /\ k.notices \subseteq e.notices
    BY <1>a, <1>c, <1>d, <2>3 DEF Shaped
  <2>6. DOMAIN e.rows = Asked /\ RowsAgreed(e.rows, k.notices) /\ Notice(stems, Root) \subseteq e.notices
    BY <1>c, <1>d, <2>1, <2>5 DEF AllAgreed
  <2>7. \A f \in DOMAIN e.rows : e.rows[f] = Unresolved(f) \/ (f \in Good \cap tree.where /\ e.rows[f] = Judged(f))
    BY <2>6 DEF RowsAgreed, GateRow, Good, Asked
  <2>8. \A f \in Asked : e.rows[f] = GateRow(f)
    BY <2>6 DEF RowsAgreed
  <2>9. QED
    BY <2>4, <2>5, <2>6, <2>7, <2>8, AllEnds
<1>10. QED
  BY <1>2, <1>3, <1>4, <1>5, <1>6, <1>7, <1>8, <1>9 DEF ValidateNext, NameFiles, ValidateFile, FilesDone, Now

\* A command that fails says nothing of the tree.
LEMMA FailsSays ==
    ASSUME SessionTypes, cmd.name \in Commands, NEW why, Fails(why)
    PROVE  /\ cmd'.phase = "done" /\ cmd'.name = cmd.name
           /\ report'[cmd.name].kind = "error" /\ \A m \in Commands : m # cmd.name => report'[m] = report[m]
<1>1. cmd' = [cmd EXCEPT !.phase = "done"] /\ report' = [report EXCEPT ![cmd.name] = [kind |-> "error", why |-> why]]
  BY DEF Fails, End
<1>2. cmd'.phase = "done" /\ cmd'.name = cmd.name
  BY <1>1, CommandFields DEF Shaped
<1>3. report'[cmd.name].kind = "error" /\ \A m \in Commands : m # cmd.name => report'[m] = report[m]
  BY <1>1 DEF SessionTypes, Shaped
<1>4. QED
  BY <1>2, <1>3

\* One file of those named, and its row.
LEMMA FileSays ==
    ASSUME SessionTypes, ValidateFile, ~\E why : Fails(why), NEW f, f = cmd.records[cmd.at]
    PROVE  /\ UNCHANGED report /\ cmd.phase = "each" /\ cmd.at <= Len(cmd.records)
           /\ cmd'.name = cmd.name /\ cmd'.phase = cmd.phase /\ cmd'.records = cmd.records /\ cmd'.at = cmd.at + 1
           /\ cmd'.structural = cmd.structural /\ cmd'.health = cmd.health
           /\ cmd'.rows = RowsWith(cmd.rows, f, HookRow(f))
           /\ cmd'.notices \subseteq cmd.notices \/ ~Ruled(f) \/ Notice(stems, Dir(f)) # {}
<1>a. /\ Shaped(cmd, CmdFields)
      /\ CmdFields = {"name", "phase", "offered", "records", "at", "links", "issues", "edges", "opted",
                      "derived", "rows", "visited", "structural", "drift", "notices", "health"}
  BY CommandFields
<1>1. cmd.phase = "each" /\ UNCHANGED report /\ cmd.at <= Len(cmd.records)
  BY DEF ValidateFile, Now
<1>b. PICK row : row = HookRow(f)
  OBVIOUS
<1>2. PICK c : c = Row(f, row)
  OBVIOUS
<1>3. /\ Shaped(c, CmdFields) /\ c.name = cmd.name /\ c.phase = cmd.phase /\ c.structural = cmd.structural
      /\ c.records = cmd.records /\ c.notices = cmd.notices /\ c.at = cmd.at + 1 /\ c.health = cmd.health
      /\ c.rows = RowsWith(cmd.rows, f, row)
  <2>1. Row(f, row) = [cmd EXCEPT !.rows = RowsWith(cmd.rows, f, row), !.at = cmd.at + 1]
    BY <1>a DEF Row, Shaped
  <2>2. QED
    BY <1>2, <1>a, <2>1 DEF Shaped
<1>4. \/ cmd' = c
      \/ ~Ruled(f) /\ cmd' = [[c EXCEPT !.notices = @ \cup Notice(stems, Dir(f))] EXCEPT !.notices = @ \cup {"unresolved"}]
      \/ cmd' = [c EXCEPT !.notices = @ \cup Notice(stems, Dir(f))]
  BY <1>b, <1>2 DEF ValidateFile, HookRow, Ruled
<1>5. CASE cmd' = c
  BY <1>1, <1>3, <1>5, <1>b
<1>6. CASE ~Ruled(f) /\ cmd' = [[c EXCEPT !.notices = @ \cup Notice(stems, Dir(f))] EXCEPT !.notices = @ \cup {"unresolved"}]
  BY <1>1, <1>3, <1>6, <1>a, <1>b DEF Shaped
<1>7. CASE cmd' = [c EXCEPT !.notices = @ \cup Notice(stems, Dir(f))]
  <2>1. /\ cmd'.name = c.name /\ cmd'.phase = c.phase /\ cmd'.records = c.records /\ cmd'.at = c.at
        /\ cmd'.structural = c.structural /\ cmd'.health = c.health /\ cmd'.rows = c.rows
        /\ cmd'.notices = c.notices \cup Notice(stems, Dir(f))
    BY <1>3, <1>7, <1>a DEF Shaped
  <2>2. cmd'.notices \subseteq cmd.notices \/ Notice(stems, Dir(f)) # {}
    BY <1>3, <2>1
  <2>3. QED
    BY <1>1, <1>3, <1>b, <2>1, <2>2
<1>8. QED
  BY <1>4, <1>5, <1>6, <1>7

\* The steps of validate of named files.
LEMMA FileAgreedSteps ==
    ASSUME SessionTypes, Same, cmd.name = "file", FileAgreed(cmd), FileTold(report.file), ValidateNext
    PROVE  /\ cmd'.name = "file" /\ FileAgreed(cmd)' /\ FileTold(report.file)'
           /\ report'.all = report.all /\ report'.graph = report.graph
<1>a. /\ Shaped(cmd, CmdFields)
      /\ CmdFields = {"name", "phase", "offered", "records", "at", "links", "issues", "edges", "opted",
                      "derived", "rows", "visited", "structural", "drift", "notices", "health"}
  BY CommandFields
<1>b. PICK c, k : c = cmd' /\ k = cmd
  OBVIOUS
<1>c. k.name = "file" /\ FileAgreed(k) /\ k.records \in Seq(Known) /\ Shaped(k, CmdFields)
  <2>1. FileAgreed(k)
    BY <1>b DEF FileAgreed
  <2>2. QED
    BY <2>1, <1>a, <1>b, CommandFields
<1>d. ASSUME UNCHANGED report, c.name = "file", FileAgreed(c)
      PROVE  /\ cmd'.name = "file" /\ FileAgreed(cmd)' /\ FileTold(report.file)'
             /\ report'.all = report.all /\ report'.graph = report.graph
  <2>1. FileAgreed(cmd)'
    BY <1>b, <1>d, FileLater
  <2>2. PICK r : r = report.file
    OBVIOUS
  <2>3. FileTold(r) /\ report'.file = r
    BY <1>d, <2>2 DEF FileTold
  <2>4. FileTold(report.file)'
    BY <2>3, ToldLater
  <2>5. QED
    BY <1>b, <1>d, <2>1, <2>4
<1>2. CASE \E why : Fails(why)
  <2>1. /\ cmd'.phase = "done" /\ cmd'.name = "file" /\ report'["file"].kind = "error"
        /\ report'["all"] = report["all"] /\ report'["graph"] = report["graph"]
    BY <1>2, FailsSays DEF Commands
  <2>2. FileAgreed(cmd)'
    BY <2>1 DEF FileAgreed
  <2>3. FileTold(report.file)'
    BY <2>1 DEF FileTold
  <2>4. QED
    BY <2>1, <2>2, <2>3
<1>3. CASE NameFiles
  <2>1. cmd.phase = "files" /\ cmd' = [cmd EXCEPT !.phase = "each", !.records = ThereNow] /\ UNCHANGED report
    BY <1>3 DEF NameFiles, Now
  <2>2. c.name = "file" /\ c.phase = "each" /\ c.at = k.at /\ c.rows = k.rows /\ c.records = ThereNow
        /\ c.notices = k.notices /\ c.structural = k.structural /\ c.health = k.health
    BY <1>a, <1>b, <1>c, <2>1 DEF Shaped
  <2>3. k.at = 1 /\ k.rows = <<>> /\ k.notices = {} /\ k.structural = {} /\ ~k.health
    BY <1>b, <1>c, <2>1 DEF FileAgreed
  <2>4. Range(c.records) = Known \ gone
    <3>1. Range(c.records) = Range(Walk) \cap (Known \ gone)
      BY <2>2, WalkIs, KeptHas DEF ThereNow
    <3>2. Known \subseteq Range(Walk)
      BY ScanAssumption DEF Files, Entries
    <3>3. QED
      BY <3>1, <3>2
  <2>5. Reached(c.records, 1) = {}
    <3>1. PICK G : G = Known \ gone
      OBVIOUS
    <3>2. c.records = Kept(Walk, G)
      BY <2>2, <3>1 DEF ThereNow
    <3>3. c.records \in Seq(Entries \cap G)
      BY <3>2, WalkIs, KeptWithin
    <3>4. QED
      BY <3>3, OneMoreReached
  <2>6. DOMAIN c.rows = {}
    <3>1. c.rows = <<>>
      BY <2>2, <2>3
    <3>2. QED
      BY <3>1
  <2>7. FileAgreed(c)
    BY <2>2, <2>3, <2>4, <2>5, <2>6 DEF FileAgreed
  <2>8. QED
    BY <1>d, <2>1, <2>2, <2>7
<1>4. CASE ValidateFile /\ ~\E why : Fails(why)
  <2>a. PICK f, row, n : f = cmd.records[cmd.at] /\ row = HookRow(f) /\ n = Notice(stems, Dir(f))
    OBVIOUS
  <2>1. /\ UNCHANGED report /\ k.phase = "each" /\ k.at <= Len(k.records)
        /\ c.name = k.name /\ c.phase = k.phase /\ c.records = k.records /\ c.at = k.at + 1
        /\ c.structural = k.structural /\ c.health = k.health
        /\ c.rows = RowsWith(k.rows, f, row)
        /\ c.notices \subseteq k.notices \/ ~Ruled(f) \/ n # {}
    BY <1>4, <1>b, <2>a, FileSays
  <2>2. /\ k.at \in Nat \ {0} /\ Range(k.records) = Known \ gone /\ k.structural = {} /\ ~k.health
        /\ DOMAIN k.rows = Reached(k.records, k.at) /\ (\A g \in DOMAIN k.rows : k.rows[g] = HookRow(g))
        /\ k.notices # {} => Warned
    BY <1>c, <2>1 DEF FileAgreed
  <2>3. f \in Known /\ DOMAIN c.rows = Reached(c.records, c.at) /\ c.at \in Nat \ {0}
    <3>1. PICK q, m : q = k.records /\ m = k.at
      OBVIOUS
    <3>2. q \in Seq(Known) /\ m \in Nat \ {0} /\ m <= Len(q) /\ f = q[m]
      BY <1>b, <1>c, <2>1, <2>2, <2>a, <3>1
    <3>3. Reached(q, m + 1) = Reached(q, m) \cup {f}
      BY <3>2, OneMoreReached
    <3>4. m + 1 \in Nat \ {0} /\ f \in Known
      BY <3>2
    <3>5. DOMAIN c.rows = DOMAIN k.rows \cup {f}
      BY <2>1 DEF RowsWith
    <3>6. QED
      BY <2>1, <2>2, <3>1, <3>3, <3>4, <3>5
  <2>4. \A g \in DOMAIN c.rows : c.rows[g] = HookRow(g)
    <3>1. SUFFICES ASSUME NEW g \in DOMAIN c.rows PROVE c.rows[g] = HookRow(g)
      OBVIOUS
    <3>2. CASE g = f
      BY <2>1, <2>a, <3>2 DEF RowsWith
    <3>3. CASE g # f
      <4>1. g \in DOMAIN k.rows /\ c.rows[g] = k.rows[g]
        BY <2>1, <3>1, <3>3 DEF RowsWith
      <4>2. QED
        BY <2>2, <4>1
    <3>4. QED
      BY <3>2, <3>3
  <2>5. c.notices # {} => Warned
    BY <2>1, <2>2, <2>3, <2>a DEF Warned
  <2>6. FileAgreed(c)
    BY <2>1, <2>2, <2>3, <2>4, <2>5 DEF FileAgreed
  <2>7. QED
    BY <1>c, <1>d, <2>1, <2>6
<1>5. CASE FilesDone
  <2>1. cmd.phase = "each" /\ cmd.at > Len(cmd.records) /\ Envelope(cmd)
    BY <1>5 DEF FilesDone, Now
  <2>2. /\ k.at \in Nat \ {0} /\ Range(k.records) = Known \ gone /\ k.structural = {} /\ ~k.health
        /\ DOMAIN k.rows = Reached(k.records, k.at) /\ (\A g \in DOMAIN k.rows : k.rows[g] = HookRow(g))
        /\ k.notices # {} => Warned
    BY <1>b, <1>c, <2>1 DEF FileAgreed
  <2>3. Reached(k.records, k.at) = Range(k.records)
    <3>1. PICK q, m : q = k.records /\ m = k.at
      OBVIOUS
    <3>2. q \in Seq(Known) /\ m \in Nat \ {0} /\ m > Len(q)
      BY <1>b, <1>c, <2>1, <2>2, <3>1
    <3>3. QED
      BY <3>1, <3>2, OneMoreReached
  <2>4. Envelope(k)
    BY <1>b, <2>1 DEF Envelope, Fail
  <2>5. cmd'.phase = "done" /\ cmd'.name = "file"
    BY <1>c, <2>4, EnvelopeTells DEF Commands
  <2>6. /\ report'["all"] = report["all"] /\ report'["graph"] = report["graph"]
        /\ report'["file"].kind = "envelope" /\ report'["file"].rows = k.rows
        /\ report'["file"].ok \/ report'["file"].strict \/ Fail(k, FALSE)
    BY <1>c, <2>4, EnvelopeSays DEF Commands
  <2>7. PICK r : r = report'.file
    OBVIOUS
  <2>8. Fail(k, FALSE) => (\E f \in DOMAIN k.rows : ~Valid(k.rows[f])) \/ Warned
    BY <2>2 DEF Fail
  <2>9. FileTold(r)
    BY <2>2, <2>3, <2>6, <2>7, <2>8 DEF FileTold
  <2>10. FileTold(report.file)'
    BY <2>7, <2>9, ToldLater
  <2>11. FileAgreed(cmd)'
    BY <2>5 DEF FileAgreed
  <2>12. QED
    BY <2>5, <2>6, <2>10, <2>11
<1>6. QED
  BY <1>2, <1>3, <1>4, <1>5 DEF ValidateNext, Health, AllScanned, CheckBoundary, FilterAll, ValidateRecord,
     ValidateDirectories, DetectDrift, Derive, Now

\* The links: block of a governed document is one.
LEMMA GoodSchema ==
    ASSUME NEW f \in Known, Ruled(f)
    PROVE  Schema(stems, f) # Nothing
<1>a. PICK d, up, with : d = Dir(f) /\ up = Chain(stems, Dir(f)) /\ with = {e \in Chain(stems, Dir(f)) : tree.schema[e] # Nothing}
  OBVIOUS
<1>1. up # {}
  BY <1>a DEF Ruled, Resolve
<1>2. CASE with = {}
  BY <1>1, <1>2, <1>a, SessionAssumption DEF Schema
<1>3. CASE with # {}
  <2>1. d \in Paths /\ Len(d) \in Nat
    BY <1>a, FileBelowRoot, PathLen
  <2>2. \A e \in with : e \in Paths /\ Len(e) \in Nat /\ Len(e) <= Len(d)
    <3>1. SUFFICES ASSUME NEW e \in with PROVE e \in Paths /\ Len(e) \in Nat /\ Len(e) <= Len(d)
      OBVIOUS
    <3>2. e \in Places /\ IsPrefix(e, d)
      BY <1>a DEF Chain
    <3>3. e \in Paths
      BY <3>2, PlacesArePaths
    <3>4. QED
      BY <2>1, <3>2, <3>3, PathLen, PrefixMeans
  <2> DEFINE L == {Len(e) : e \in with}
  <2>n. PICK n \in Nat : n = Len(d)
    BY <2>1
  <2>3. L \in SUBSET (0..n) /\ L # {}
    <3>1. \A e \in with : Len(e) \in Nat /\ Len(e) <= n
      BY <2>2, <2>n
    <3>2. \A e \in with : Len(e) \in 0..n
      BY <3>1
    <3>3. QED
      BY <1>3, <3>2, Zenon
  <2>4. PICK l \in L : \A m \in L : m <= l
    <3> HIDE DEF L
    <3>1. QED
      BY <2>3, GreatestNatural
  <2>5. PICK e \in with : l = Len(e)
    OBVIOUS
  <2>6. \A x \in with : Len(x) <= Len(e)
    BY <2>4, <2>5
  <2>7. PICK w : w = CHOOSE x \in with : \A y \in with : Len(y) <= Len(x)
    OBVIOUS
  <2>8. w \in with
    BY <2>6, <2>7
  <2>9. Schema(stems, f) = tree.schema[w]
    BY <1>1, <1>3, <1>a, <2>7 DEF Schema
  <2>10. QED
    BY <1>a, <2>8, <2>9
<1>4. QED
  BY <1>2, <1>3

\* What graph has of a link (PrepareLinks).
LEMMA PreparedIs ==
    ASSUME NEW d, NEW schema, NEW records, NEW l
    PROVE  LET to == Prepared(Disk, Root, d, schema, records, l) IN
           /\ to.link = l
           /\ ~to.resolved => ResolveTarget(Disk, Nothing, Root, d, l) = Nothing
           /\ ResolveTarget(Disk, Nothing, Root, d, l) = Nothing /\ ~schema.fallback => ~to.resolved
<1>1. PICK to : to = Prepared(Disk, Root, d, schema, records, l)
  OBVIOUS
<1>2. PICK t : t = ResolveTarget(Disk, Nothing, Root, d, l)
  OBVIOUS
<1>3. CASE t # Nothing
  <2>1. to = [link |-> l, resolved |-> TRUE, key |-> t]
    BY <1>1, <1>2, <1>3 DEF Prepared
  <2>2. QED
    BY <1>1, <1>2, <1>3, <2>1
<1>4. CASE t = Nothing /\ schema # Nothing /\ schema.fallback /\ Cardinality(Named(records, l)) = 1
  <2>1. to = [link |-> l, resolved |-> TRUE, key |-> CHOOSE r \in Named(records, l) : TRUE]
    BY <1>1, <1>2, <1>4 DEF Prepared
  <2>2. QED
    BY <1>1, <1>2, <1>4, <2>1
<1>5. CASE t = Nothing /\ ~(schema # Nothing /\ schema.fallback /\ Cardinality(Named(records, l)) = 1)
  <2>1. to = [link |-> l, resolved |-> FALSE, key |-> Text(Root, l)]
    BY <1>1, <1>2, <1>5 DEF Prepared
  <2>2. QED
    BY <1>1, <1>2, <1>5, <2>1
<1>6. QED
  BY <1>3, <1>4, <1>5

\* What a graph reports is what it has gathered.
LEMMA GraphEnds ==
    ASSUME SessionTypes, Same, cmd.name = "graph", GraphAgreed(cmd, scan, seen), cmd.phase \in {"cycles", "members"},
           NEW fails, NEW flag, Report(fails, flag)
    PROVE  /\ cmd'.name = "graph" /\ GraphAgreed(cmd, scan, seen)' /\ GraphTold(report.graph)'
           /\ report'.all = report.all /\ report'.file = report.file
<1>1. PICK r : r = [kind |-> "graph", cycles |-> dfs.cycles, opted |-> cmd.opted, fails |-> fails, flag |-> flag, broken |-> BrokenLinks, issues |-> cmd.issues,
         ok |-> ~(fails /\ dfs.cycles # {}) /\ BrokenLinks = {} /\ cmd.issues = {}]
  OBVIOUS
<1>2. cmd' = [cmd EXCEPT !.phase = "done"] /\ report' = [report EXCEPT ![cmd.name] = r]
  BY <1>1, Zenon DEF Report, End
<1>3. cmd'.name = "graph" /\ cmd'.phase = "done"
  BY <1>2, CommandFields DEF Shaped
<1>4. report'["graph"] = r /\ report'["all"] = report["all"] /\ report'["file"] = report["file"]
  BY <1>2 DEF SessionTypes, Shaped, Commands
<1>5. r.broken = BrokenIn(cmd.edges) /\ r.issues = cmd.issues
  BY <1>1 DEF BrokenLinks, BrokenIn
<1>6. GraphTold(r)
  BY <1>5 DEF GraphTold, GraphAgreed
<1>7. GraphAgreed(cmd, scan, seen)'
  BY <1>3 DEF GraphAgreed
<1>8. QED
  BY <1>3, <1>4, <1>6, <1>7, ToldLater

\* One that goes on.
LEMMA GraphGoesOn ==
    ASSUME Same, UNCHANGED report, GraphTold(report.graph), cmd'.name = "graph",
           NEW c, NEW s, NEW v, c = cmd', s = scan', v = seen', GraphAgreed(c, s, v)
    PROVE  /\ cmd'.name = "graph" /\ GraphAgreed(cmd, scan, seen)' /\ GraphTold(report.graph)'
           /\ report'.all = report.all /\ report'.file = report.file
<1>1. GraphAgreed(cmd, scan, seen)'
  BY GraphLater
<1>2. PICK r : r = report.graph
  OBVIOUS
<1>3. GraphTold(r) /\ report'.graph = r
  BY <1>2 DEF GraphTold
<1>4. QED
  BY <1>1, <1>3, ToldLater

\* Issues, gathered for all records, are each document's own.
LEMMA IssuesApart ==
    ASSUME NEW S, NEW f \in S, NEW G, \A x : x \in G <=> \E g \in S : x \in {g} \X Issues(g)
    PROVE  SaidOf(G, f) = Issues(f)
<1>1. ASSUME NEW y \in SaidOf(G, f) PROVE y \in Issues(f)
  <2>1. PICK x \in G : x[1] = f /\ x[2] = y
    BY DEF SaidOf
  <2>2. PICK g \in S : x \in {g} \X Issues(g)
    OBVIOUS
  <2>3. x[1] = g /\ x[2] \in Issues(g)
    BY <2>2
  <2>4. QED
    BY <2>1, <2>3
<1>2. ASSUME NEW y \in Issues(f) PROVE y \in SaidOf(G, f)
  <2>1. <<f, y>> \in {f} \X Issues(f)
    OBVIOUS
  <2>2. <<f, y>> \in G
    BY <2>1
  <2>3. PICK x : x = <<f, y>>
    OBVIOUS
  <2>4. x \in G /\ x[1] = f /\ x[2] = y
    BY <2>2, <2>3
  <2>5. QED
    BY <2>4 DEF SaidOf
<1>3. QED
  BY <1>1, <1>2

\* Of each document the edges have the links, and of the broken ones those that
\* lead nowhere (Prepare).
LEMMA EdgesTell ==
    ASSUME NEW f \in Records, cmd.links[f] = Styled(f), NEW E,
           \A e : e \in E <=> \E g \in Records : e \in Edges(g)
    PROVE  BrokenTold(BrokenIn(E), f)
<1>1. \A l : LET to == Prepared(Disk, Root, Dir(f), Schema(stems, f), Records, l) IN
           /\ to.link = l
           /\ ~to.resolved => ResolveTarget(Disk, Nothing, Root, Dir(f), l) = Nothing
           /\ ResolveTarget(Disk, Nothing, Root, Dir(f), l) = Nothing /\ ~Schema(stems, f).fallback => ~to.resolved
  BY PreparedIs
<1>2. ASSUME NEW l, <<f, l>> \in BrokenIn(E) PROVE l \in Unmet(f)
  <2>1. PICK e \in E : ~e.resolved /\ <<f, l>> = <<e.from, e.link>>
    BY <1>2 DEF BrokenIn
  <2>2. e.from = f /\ e.link = l
    BY <2>1
  <2>3. PICK g \in Records : e \in Edges(g)
    OBVIOUS
  <2>4. PICK m \in cmd.links[g] :
              \E to : /\ to = Prepared(Disk, Root, Dir(g), Schema(stems, g), Records, m)
                      /\ e = [from |-> g, link |-> to.link, resolved |-> to.resolved, key |-> to.key]
    BY <2>3 DEF Edges
  <2>a. PICK to : /\ to = Prepared(Disk, Root, Dir(g), Schema(stems, g), Records, m)
                  /\ e = [from |-> g, link |-> to.link, resolved |-> to.resolved, key |-> to.key]
    BY <2>4
  <2>5. e.from = g /\ e.link = to.link /\ e.resolved = to.resolved
    BY <2>a
  <2>6. g = f
    BY <2>2, <2>5
  <2>7. to.link = m /\ (~to.resolved => ResolveTarget(Disk, Nothing, Root, Dir(f), m) = Nothing)
    BY <1>1, <2>a, <2>6
  <2>8. m = l /\ l \in Styled(f)
    BY <2>2, <2>4, <2>5, <2>6, <2>7
  <2>9. QED
    BY <2>1, <2>5, <2>7, <2>8 DEF Unmet
<1>3. ASSUME Unbroken(f), NEW l \in Unmet(f) PROVE <<f, l>> \in BrokenIn(E)
  <2>1. PICK to : to = Prepared(Disk, Root, Dir(f), Schema(stems, f), Records, l)
    OBVIOUS
  <2>2. to.link = l /\ ~to.resolved
    BY <1>1, <1>3, <2>1 DEF Unbroken, Unmet
  <2>3. PICK e : e = [from |-> f, link |-> to.link, resolved |-> to.resolved, key |-> to.key]
    OBVIOUS
  <2>4. l \in cmd.links[f]
    BY DEF Unmet
  <2>5. e \in Edges(f)
    BY <2>1, <2>3, <2>4 DEF Edges
  <2>6. e \in E
    BY <2>5
  <2>7. e.from = f /\ e.link = l /\ ~e.resolved
    BY <2>2, <2>3
  <2>8. QED
    BY <2>6, <2>7 DEF BrokenIn
<1>4. QED
  BY <1>2, <1>3 DEF BrokenTold

\* A schema without typed rules takes no edge away (FilterLinksByTypedRules).
LEMMA TypesTell ==
    ASSUME NEW f, NEW E, BrokenTold(BrokenIn(E), f), NEW F,
           \A e : e \in F <=> e \in E /\ OfType({e.link}, Schema(stems, e.from)) # {}
    PROVE  BrokenTold(BrokenIn(F), f)
<1>1. F \subseteq E
  OBVIOUS
<1>2. BrokenIn(F) \subseteq BrokenIn(E)
  BY <1>1 DEF BrokenIn
<1>3. ASSUME Unbroken(f), NEW l, <<f, l>> \in BrokenIn(E) PROVE <<f, l>> \in BrokenIn(F)
  <2>1. PICK e \in E : ~e.resolved /\ <<f, l>> = <<e.from, e.link>>
    BY <1>3 DEF BrokenIn
  <2>2. e.from = f
    BY <2>1
  <2>3. Schema(stems, e.from).rules = {}
    BY <1>3, <2>2 DEF Unbroken
  <2>4. OfType({e.link}, Schema(stems, e.from)) # {}
    BY <2>3 DEF OfType
  <2>5. e \in F
    BY <2>4
  <2>6. QED
    BY <2>1, <2>5 DEF BrokenIn
<1>4. QED
  BY <1>2, <1>3 DEF BrokenTold

\* The links of a document in one of the styles of its schema.
LEMMA StyledIs ==
    ASSUME NEW f
    PROVE  /\ Styled(f) \subseteq tree.links[f]
           /\ tree.links[f] = {} => Styled(f) = {}
           /\ OfStyle(Styled(f), Schema(stems, f)) = Styled(f)
BY DEF Styled, OfStyle

\* graph's steps from its scan to its report.
LEMMA GraphAgreedSteps ==
    ASSUME SessionTypes, Exact, Same, gone = tree.absent, cmd.name = "graph", GraphAgreed(cmd, scan, seen), GraphTold(report.graph),
           \/ GraphStart \/ GraphRescan \/ GraphScanned \/ Ensure \/ FilterStyles \/ Enrich \/ Stop \/ FilterWhere
           \/ CollectIssues \/ Prepare \/ FilterTypes \/ OptIn \/ BuildGraph \/ DecideByFlag \/ Decide \/ DecideByMembers
    PROVE  /\ cmd'.name = "graph" /\ GraphAgreed(cmd, scan, seen)' /\ GraphTold(report.graph)'
           /\ report'.all = report.all /\ report'.file = report.file
<1>a. /\ Shaped(cmd, CmdFields)
      /\ CmdFields = {"name", "phase", "offered", "records", "at", "links", "issues", "edges", "opted",
                      "derived", "rows", "visited", "structural", "drift", "notices", "health"}
  BY CommandFields
<1>b. PICK c, s, v, k : c = cmd' /\ s = scan' /\ v = seen' /\ k = cmd
  OBVIOUS
<1>c. k.name = "graph" /\ GraphAgreed(k, scan, seen) /\ k.records \in Seq(Known) /\ Shaped(k, CmdFields)
  <2>1. GraphAgreed(k, scan, seen)
    BY <1>b DEF GraphAgreed
  <2>2. QED
    BY <2>1, <1>a, <1>b, CommandFields
<1>1. CASE \E why : Fails(why)
  <2>1. /\ cmd'.phase = "done" /\ cmd'.name = "graph" /\ report'["graph"].kind = "error"
        /\ report'["all"] = report["all"] /\ report'["file"] = report["file"]
    BY <1>1, FailsSays DEF Commands
  <2>2. GraphAgreed(cmd, scan, seen)'
    BY <2>1 DEF GraphAgreed
  <2>3. GraphTold(report.graph)'
    BY <2>1 DEF GraphTold
  <2>4. QED
    BY <2>1, <2>2, <2>3
<1> SUFFICES ASSUME ~\E why : Fails(why)
             PROVE  /\ cmd'.name = "graph" /\ GraphAgreed(cmd, scan, seen)' /\ GraphTold(report.graph)'
                    /\ report'.all = report.all /\ report'.file = report.file
  BY <1>1
<1>2. CASE GraphStart
  <2>1. cmd.phase = "start" /\ UNCHANGED report /\ BeginScan(FALSE, FALSE) /\ cmd' = [cmd EXCEPT !.phase = "scan"]
    BY <1>2 DEF GraphStart, To
  <2>2. c.name = "graph" /\ c.phase = "scan"
    BY <1>a, <1>b, <1>c, <2>1 DEF Shaped
  <2>3. v = {stems} /\ ~s.resilient /\ s.phase = "walk"
    BY <1>b, <2>1 DEF BeginScan, Start
  <2>4. GraphAgreed(c, s, v)
    BY <2>2, <2>3 DEF GraphAgreed
  <2>5. QED
    BY <1>b, <2>1, <2>2, <2>4, GraphGoesOn
<1>3. CASE GraphRescan
  <2>1. cmd.phase = "scan" /\ UNCHANGED <<cmd, report>> /\ BeginScan(FALSE, TRUE)
    BY <1>3 DEF GraphRescan, Retry
  <2>2. c = k /\ k.phase = "scan"
    BY <1>b, <2>1
  <2>3. v = {stems} /\ ~s.resilient /\ s.phase = "walk"
    BY <1>b, <2>1 DEF BeginScan, Start
  <2>4. GraphAgreed(c, s, v)
    BY <2>2, <2>3 DEF GraphAgreed
  <2>5. QED
    BY <1>b, <1>c, <2>1, <2>2, <2>4, GraphGoesOn
<1>4. CASE GraphScanned
  <2>1. /\ cmd.phase = "scan" /\ scan.phase = "done" /\ scan.out.kind \notin {"noschema", "error"} /\ UNCHANGED report
        /\ cmd' = [cmd EXCEPT !.phase = "ensure", !.records = scan.out.records, !.links = tree.links]
    BY <1>4 DEF GraphScanned
  <2>2. c.name = "graph" /\ c.phase = "ensure" /\ c.records = scan.out.records /\ c.links = tree.links
    BY <1>a, <1>b, <1>c, <2>1 DEF Shaped
  <2>3. seen = {stems} /\ scan.out.kind # "running"
    BY <1>b, <1>c, <2>1 DEF GraphAgreed
  <2>4. scan.out.kind = "records"
    <3>1. scan.out # Running
      BY <2>3 DEF Running
    <3>2. \E judged \in [Dirs -> seen] : Right(scan.out, judged)
      BY <2>1, <3>1 DEF Exact
    <3>3. QED
      BY <2>1, <3>2 DEF Right
  <2>5. Good \subseteq Range(c.records)
    BY <2>1, <2>2, <2>3, <2>4, ScannedDue
  <2>6. GraphAgreed(c, s, v)
    BY <2>2, <2>5 DEF GraphAgreed
  <2>7. QED
    BY <1>b, <2>1, <2>2, <2>6, GraphGoesOn
<1>5. CASE Ensure
  <2>1. cmd.phase = "ensure" /\ cmd' = [cmd EXCEPT !.phase = "styles"] /\ UNCHANGED report
    BY <1>5, PhaseMoves DEF Ensure
  <2>2. c.name = "graph" /\ c.phase = "styles" /\ c.records = k.records /\ c.links = k.links
    BY <1>a, <1>b, <1>c, <2>1 DEF Shaped
  <2>3. GraphAgreed(c, s, v)
    BY <1>b, <1>c, <2>1, <2>2 DEF GraphAgreed
  <2>4. QED
    BY <1>b, <2>1, <2>2, <2>3, GraphGoesOn
<1>6. CASE FilterStyles
  <2>1. PICK L : L = [f \in Files |-> IF f \in Linked THEN InStyle(f) ELSE cmd.links[f]]
    OBVIOUS
  <2>2. PICK o : o = [cmd EXCEPT !.links = [f \in Files |-> IF f \in Linked THEN InStyle(f) ELSE @[f]]]
    OBVIOUS
  <2>3. o = [cmd EXCEPT !.links = L]
    BY <2>1, <2>2
  <2>4. cmd.phase = "styles" /\ cmd' = [o EXCEPT !.phase = "enrich"] /\ UNCHANGED report
    BY <1>6, <2>2, PhaseMoves DEF FilterStyles
  <2>5. c.name = "graph" /\ c.phase = "enrich" /\ c.records = k.records /\ c.links = L
    BY <1>a, <1>b, <1>c, <2>3, <2>4 DEF Shaped
  <2>6. k.links = tree.links /\ Good \subseteq Range(k.records)
    BY <1>b, <1>c, <2>4 DEF GraphAgreed
  <2>7. ASSUME NEW f \in Good PROVE L[f] = Styled(f)
    <3>1. f \in Files
      BY ScanAssumption DEF Good, Due
    <3>2. f \in Records
      BY <1>b, <2>6 DEF Records
    <3>3. CASE f \in Linked
      BY <1>b, <2>1, <2>6, <3>1, <3>3 DEF InStyle, Styled
    <3>4. CASE f \notin Linked
      BY <1>b, <2>1, <2>6, <3>1, <3>2, <3>4, StyledIs DEF Linked
    <3>5. QED
      BY <3>3, <3>4
  <2>8. GraphAgreed(c, s, v)
    BY <2>5, <2>6, <2>7 DEF GraphAgreed
  <2>9. QED
    BY <1>b, <2>4, <2>5, <2>8, GraphGoesOn
<1>7. CASE Enrich
  <2>1. cmd.phase = "enrich" /\ cmd' = [cmd EXCEPT !.phase = "where"] /\ UNCHANGED report
    BY <1>7, PhaseMoves DEF Enrich
  <2>2. c.name = "graph" /\ c.phase = "where" /\ c.records = k.records /\ c.links = k.links
    BY <1>a, <1>b, <1>c, <2>1 DEF Shaped
  <2>3. GraphAgreed(c, s, v)
    BY <1>b, <1>c, <2>1, <2>2 DEF GraphAgreed
  <2>4. QED
    BY <1>b, <2>1, <2>2, <2>3, GraphGoesOn
<1>8. CASE Stop
  BY <1>8 DEF Stop
<1>9. CASE FilterWhere
  <2>1. PICK o : o = [cmd EXCEPT !.records = Kept(@, tree.where)]
    OBVIOUS
  <2>2. cmd.phase = "where" /\ cmd' = [o EXCEPT !.phase = "issues"] /\ UNCHANGED report
    BY <1>9, <2>1, PhaseMoves DEF FilterWhere
  <2>3. c.name = "graph" /\ c.phase = "issues" /\ c.records = Kept(k.records, tree.where) /\ c.links = k.links
    BY <1>a, <1>b, <1>c, <2>1, <2>2 DEF Shaped
  <2>4. Records' = Records \cap tree.where
    BY <1>b, <2>3, KeptRecords
  <2>5. Good \cap tree.where \subseteq Range(c.records)
    <3>1. Good \subseteq Range(k.records)
      BY <1>b, <1>c, <2>2 DEF GraphAgreed
    <3>2. QED
      BY <1>b, <2>4, <3>1 DEF Records
  <2>6. GraphAgreed(c, s, v)
    BY <1>b, <1>c, <2>2, <2>3, <2>5 DEF GraphAgreed
  <2>7. QED
    BY <1>b, <2>2, <2>3, <2>6, GraphGoesOn
<1>10. CASE CollectIssues
  <2>1. PICK G : G = UNION {{f} \X Issues(f) : f \in Records}
    OBVIOUS
  <2>2. PICK o : o = [cmd EXCEPT !.issues = UNION {{f} \X Issues(f) : f \in Records}]
    OBVIOUS
  <2>3. o = [cmd EXCEPT !.issues = G]
    BY <2>1, <2>2
  <2>4. cmd.phase = "issues" /\ cmd' = [o EXCEPT !.phase = "prepare"] /\ UNCHANGED report
    BY <1>10, <2>2, PhaseMoves DEF CollectIssues
  <2>5. c.name = "graph" /\ c.phase = "prepare" /\ c.records = k.records /\ c.links = k.links /\ c.issues = G
    BY <1>a, <1>b, <1>c, <2>3, <2>4 DEF Shaped
  <2>6. Good \cap tree.where \subseteq Range(k.records) /\ \A f \in Good : k.links[f] = Styled(f)
    BY <1>b, <1>c, <2>4 DEF GraphAgreed
  <2>7. ASSUME NEW f \in Good \cap tree.where PROVE SaidOf(G, f) = Said(f)
    <3>1. f \in Records /\ cmd.links[f] = Styled(f) /\ f \in Known /\ Ruled(f)
      BY <1>b, <2>6 DEF Records, Good, Due
    <3>2. \A x : x \in G <=> \E g \in Records : x \in {g} \X Issues(g)
      BY <2>1
    <3>3. SaidOf(G, f) = Issues(f)
      BY <3>1, <3>2, IssuesApart
    <3>4. Issues(f) = Said(f)
      BY <3>1, GoodSchema DEF Issues, Said
    <3>5. QED
      BY <3>3, <3>4
  <2>8. GraphAgreed(c, s, v)
    BY <2>5, <2>6, <2>7 DEF GraphAgreed
  <2>9. QED
    BY <1>b, <2>4, <2>5, <2>8, GraphGoesOn
<1>11. CASE Prepare
  <2>1. PICK E : E = UNION {Edges(f) : f \in Records}
    OBVIOUS
  <2>2. PICK o : o = [cmd EXCEPT !.edges = UNION {Edges(f) : f \in Records}]
    OBVIOUS
  <2>3. o = [cmd EXCEPT !.edges = E]
    BY <2>1, <2>2
  <2>4. cmd.phase = "prepare" /\ cmd' = [o EXCEPT !.phase = "types"] /\ UNCHANGED report
    BY <1>11, <2>2, PhaseMoves DEF Prepare
  <2>5. c.name = "graph" /\ c.phase = "types" /\ c.records = k.records /\ c.issues = k.issues /\ c.edges = E
    BY <1>a, <1>b, <1>c, <2>3, <2>4 DEF Shaped
  <2>6. /\ Good \cap tree.where \subseteq Range(k.records) /\ \A f \in Good : k.links[f] = Styled(f)
        /\ \A f \in Good \cap tree.where : SaidOf(k.issues, f) = Said(f)
    BY <1>b, <1>c, <2>4 DEF GraphAgreed
  <2>7. ASSUME NEW f \in Good \cap tree.where PROVE BrokenTold(BrokenIn(E), f)
    <3>1. f \in Records /\ cmd.links[f] = Styled(f)
      BY <1>b, <2>6 DEF Records
    <3>2. \A e : e \in E <=> \E g \in Records : e \in Edges(g)
      BY <2>1
    <3>3. QED
      BY <3>1, <3>2, EdgesTell
  <2>8. GraphAgreed(c, s, v)
    BY <2>5, <2>6, <2>7 DEF GraphAgreed
  <2>9. QED
    BY <1>b, <2>4, <2>5, <2>8, GraphGoesOn
<1>12. CASE FilterTypes
  <2>1. PICK F : F = {e \in cmd.edges : OfType({e.link}, Schema(stems, e.from)) # {}}
    OBVIOUS
  <2>2. PICK o : o = [cmd EXCEPT !.edges = {e \in @ : OfType({e.link}, Schema(stems, e.from)) # {}}]
    OBVIOUS
  <2>3. o = [cmd EXCEPT !.edges = F]
    BY <2>1, <2>2
  <2>4. cmd.phase = "types" /\ cmd' = [o EXCEPT !.phase = "scope"] /\ UNCHANGED report
    BY <1>12, <2>2, PhaseMoves DEF FilterTypes
  <2>5. c.name = "graph" /\ c.phase = "scope" /\ c.records = k.records /\ c.issues = k.issues /\ c.edges = F
    BY <1>a, <1>b, <1>c, <2>3, <2>4 DEF Shaped
  <2>6. /\ Good \cap tree.where \subseteq Range(k.records)
        /\ \A f \in Good \cap tree.where : SaidOf(k.issues, f) = Said(f) /\ BrokenTold(BrokenIn(k.edges), f)
    BY <1>b, <1>c, <2>4 DEF GraphAgreed
  <2>7. ASSUME NEW f \in Good \cap tree.where PROVE BrokenTold(BrokenIn(F), f)
    <3>1. PICK E : E = cmd.edges
      OBVIOUS
    <3>2. BrokenTold(BrokenIn(E), f)
      BY <1>b, <2>6, <3>1
    <3>3. \A e : e \in F <=> e \in E /\ OfType({e.link}, Schema(stems, e.from)) # {}
      BY <2>1, <3>1
    <3>4. QED
      BY <3>2, <3>3, TypesTell
  <2>8. GraphAgreed(c, s, v)
    BY <2>5, <2>6, <2>7 DEF GraphAgreed
  <2>9. QED
    BY <1>b, <2>4, <2>5, <2>8, GraphGoesOn
<1>13. CASE OptIn
  <2>1. PICK o : o = [cmd EXCEPT !.opted = {f \in Records : CycleFailureScope(Schema(stems, f))}]
    OBVIOUS
  <2>2. cmd.phase = "scope" /\ cmd' = [o EXCEPT !.phase = "build"] /\ UNCHANGED report
    BY <1>13, <2>1, PhaseMoves DEF OptIn
  <2>3. c.name = "graph" /\ c.phase = "build" /\ c.records = k.records /\ c.issues = k.issues /\ c.edges = k.edges
    BY <1>a, <1>b, <1>c, <2>1, <2>2 DEF Shaped
  <2>4. GraphAgreed(c, s, v)
    BY <1>b, <1>c, <2>2, <2>3 DEF GraphAgreed
  <2>5. QED
    BY <1>b, <2>2, <2>3, <2>4, GraphGoesOn
<1>14. ASSUME NEW now \in {"build", "cycles"}, NEW next \in {"cycles", "members"}, cmd.phase = now,
              cmd' = [cmd EXCEPT !.phase = next], UNCHANGED report
       PROVE  /\ cmd'.name = "graph" /\ GraphAgreed(cmd, scan, seen)' /\ GraphTold(report.graph)'
              /\ report'.all = report.all /\ report'.file = report.file
  <2>1. c.name = "graph" /\ c.phase = next /\ c.records = k.records /\ c.issues = k.issues /\ c.edges = k.edges
    BY <1>a, <1>b, <1>c, <1>14 DEF Shaped
  <2>2. GraphAgreed(c, s, v)
    BY <1>b, <1>c, <1>14, <2>1 DEF GraphAgreed
  <2>3. QED
    BY <1>b, <1>14, <2>1, <2>2, GraphGoesOn
<1>15. CASE BuildGraph
  BY <1>14, <1>15 DEF BuildGraph, To
<1>16. CASE DecideByFlag
  BY <1>16, GraphEnds DEF DecideByFlag
<1>17. CASE DecideByMembers
  BY <1>17, GraphEnds DEF DecideByMembers
<1>18. CASE Decide
  <2>1. CASE Report(FALSE, FALSE)
    BY <1>18, <2>1, GraphEnds DEF Decide
  <2>2. CASE ~Report(FALSE, FALSE)
    BY <1>14, <1>18, <2>2 DEF Decide, To
  <2>3. QED
    BY <2>1, <2>2
<1>19. QED
  BY <1>2, <1>3, <1>4, <1>5, <1>6, <1>7, <1>8, <1>9, <1>10, <1>11, <1>12, <1>13, <1>15, <1>16, <1>17, <1>18

\* Steps that say nothing.
LEMMA ToldStays ==
    ASSUME Same
    PROVE  /\ AllTold(report.all) /\ report'.all = report.all => AllTold(report.all)'
           /\ FileTold(report.file) /\ report'.file = report.file => FileTold(report.file)'
           /\ GraphTold(report.graph) /\ report'.graph = report.graph => GraphTold(report.graph)'
<1>1. PICK a, f, g : a = report.all /\ f = report.file /\ g = report.graph
  OBVIOUS
<1>2. (AllTold(report.all) => AllTold(a)) /\ (FileTold(report.file) => FileTold(f)) /\ (GraphTold(report.graph) => GraphTold(g))
  BY <1>1 DEF AllTold, FileTold, GraphTold
<1>3. QED
  BY <1>1, <1>2, ToldLater

\* A command that fails says nothing either.
LEMMA FailsAgreed ==
    ASSUME SessionTypes, Agreeing, Same, NEW why, Fails(why)
    PROVE  Agreeing'
<1>1. cmd' = [cmd EXCEPT !.phase = "done"] /\ report' = [report EXCEPT ![cmd.name] = [kind |-> "error", why |-> why]]
  BY DEF Fails, End
<1>2. cmd'.phase = "done"
  BY <1>1, CommandFields DEF Shaped
<1>3. \A m \in Commands : report'[m] = report[m] \/ report'[m].kind = "error"
  BY <1>1 DEF SessionTypes, Shaped
<1>4. AllTold(report.all)'
  <2>1. CASE report'["all"] = report["all"]
    BY <2>1, ToldStays DEF Agreeing
  <2>2. CASE report'["all"].kind = "error"
    BY <2>2 DEF AllTold
  <2>3. QED
    BY <1>3, <2>1, <2>2 DEF Commands
<1>5. FileTold(report.file)'
  <2>1. CASE report'["file"] = report["file"]
    BY <2>1, ToldStays DEF Agreeing
  <2>2. CASE report'["file"].kind = "error"
    BY <2>2 DEF FileTold
  <2>3. QED
    BY <1>3, <2>1, <2>2 DEF Commands
<1>6. GraphTold(report.graph)'
  <2>1. CASE report'["graph"] = report["graph"]
    BY <2>1, ToldStays DEF Agreeing
  <2>2. CASE report'["graph"].kind = "error"
    BY <2>2 DEF GraphTold
  <2>3. QED
    BY <1>3, <2>1, <2>2 DEF Commands
<1>7. AllAgreed(cmd, scan, seen)' /\ FileAgreed(cmd)' /\ GraphAgreed(cmd, scan, seen)'
  BY <1>2 DEF AllAgreed, FileAgreed, GraphAgreed
<1>8. QED
  BY <1>4, <1>5, <1>6, <1>7 DEF Agreeing

\* Steps of the scan and of the graph's searches.
LEMMA ElsewhereAgreed ==
    ASSUME Agreeing, Same, UNCHANGED <<cmd, report, seen>>,
           scan'.resilient = scan.resilient, scan'.ungoverned = scan.ungoverned,
           UNCHANGED scan \/ (scan'.phase = "done" => scan'.out.kind # "running")
    PROVE  Agreeing'
<1>1. PICK k, c, s, t, v : k = cmd /\ c = cmd' /\ s = scan /\ t = scan' /\ v = seen'
  OBVIOUS
<1>2. c = k /\ v = seen /\ t.resilient = s.resilient /\ t.ungoverned = s.ungoverned
      /\ (t = s \/ (t.phase = "done" => t.out.kind # "running"))
  BY <1>1
<1>3. cmd.name = "all" => AllAgreed(cmd, scan, seen)'
  <2>1. SUFFICES ASSUME cmd.name = "all" PROVE AllAgreed(cmd, scan, seen)'
    OBVIOUS
  <2>2. AllAgreed(k, s, v)
    BY <1>1, <1>2, <2>1 DEF Agreeing, AllAgreed
  <2>3. AllAgreed(c, t, v)
    BY <1>2, <2>2 DEF AllAgreed
  <2>4. QED
    BY <1>1, <2>3, AllLater
<1>4. cmd.name = "file" => FileAgreed(cmd)'
  <2>1. SUFFICES ASSUME cmd.name = "file" PROVE FileAgreed(cmd)'
    OBVIOUS
  <2>2. FileAgreed(k)
    BY <1>1, <2>1 DEF Agreeing, FileAgreed
  <2>3. QED
    BY <1>1, <1>2, <2>2, FileLater
<1>5. cmd.name = "graph" => GraphAgreed(cmd, scan, seen)'
  <2>1. SUFFICES ASSUME cmd.name = "graph" PROVE GraphAgreed(cmd, scan, seen)'
    OBVIOUS
  <2>2. GraphAgreed(k, s, v)
    BY <1>1, <1>2, <2>1 DEF Agreeing, GraphAgreed
  <2>3. GraphAgreed(c, t, v)
    BY <1>2, <2>2 DEF GraphAgreed
  <2>4. QED
    BY <1>1, <2>3, GraphLater
<1>6. QED
  BY <1>3, <1>4, <1>5, ToldStays DEF Agreeing

\* A scan's step changes nothing but the scan, which ends with an outcome.
LEMMA ScanGoesOn ==
    ASSUME ScanSound, Scanning
    PROVE  /\ Same /\ UNCHANGED <<cmd, report, seen>>
           /\ scan'.resilient = scan.resilient /\ scan'.ungoverned = scan.ungoverned
           /\ UNCHANGED scan \/ (scan'.phase = "done" => scan'.out.kind # "running")
<1>1. Same /\ UNCHANGED <<cmd, report, seen>>
  BY DEF Scanning, ScanNext, WalkDir, WalkFile, EndWalk, Send, Collect, Take, Extract, Leave, Steady, Same
<1>a. /\ scan = [x \in ScanFields |-> scan[x]] /\ DOMAIN scan = ScanFields
      /\ ScanFields = {"phase", "resilient", "ungoverned", "at", "listed", "files", "hit", "cache",
                       "sent", "taken", "results", "out"}
  BY ScanFieldsAre
<1> DEFINE Goal == /\ scan'.resilient = scan.resilient /\ scan'.ungoverned = scan.ungoverned
                   /\ UNCHANGED scan \/ (scan'.phase = "done" => scan'.out.kind # "running")
<1> SUFFICES Goal
  BY <1>1
<1>2. ASSUME NEW kind, NEW why, Finish(kind, why), kind # "running" PROVE Goal
  <2>1. PICK o : o = [kind |-> kind, records |-> <<>>, why |-> why]
    OBVIOUS
  <2>2. scan'.out = o /\ scan'.ungoverned = scan.ungoverned /\ scan'.resilient = scan.resilient
    BY <1>2, <2>1, FinishMeans
  <2>3. QED
    BY <1>2, <2>1, <2>2
<1>3. CASE WalkDir
  <2>1. CASE \E why : Finish("error", why)
    BY <1>2, <2>1
  <2>2. CASE \E l, x : scan' = [Onward EXCEPT !.listed = l, !.cache = x]
    BY <1>3, <1>a, <2>2 DEF WalkDir, Walking, Onward
  <2>3. \A x : [scan EXCEPT !.at = x].listed = scan.listed /\ [scan EXCEPT !.at = x].cache = scan.cache
    BY <1>a
  <2>4. QED
    BY <1>3, <2>1, <2>2 DEF WalkDir
<1>4. CASE WalkFile
  <2>1. CASE \E why : Finish("error", why)
    BY <1>2, <2>1
  <2>2. CASE scan' = Onward
    BY <1>4, <1>a, <2>2 DEF WalkFile, Walking, Onward
  <2>3. CASE \E x, h, q : scan' = [Onward EXCEPT !.cache = x, !.hit = h, !.files = q]
    BY <1>4, <1>a, <2>3 DEF WalkFile, Walking, Onward
  <2>4. PICK h, q : h = (scan.hit \/ Outcome = "none")
                    /\ q = IF Taken(Entry, Outcome) THEN Append(scan.files, Entry) ELSE scan.files
    OBVIOUS
  <2>5. Onward.hit = scan.hit /\ Onward.files = scan.files
    BY <1>a DEF Onward
  <2>6. \/ \E why : Finish("error", why)
        \/ scan' = Onward
        \/ scan' = [Onward EXCEPT !.cache[Dir(Entry)] = Outcome, !.hit = h, !.files = q]
    BY <1>4, <2>4, <2>5, Zenon DEF WalkFile
  <2>7. PICK x : x = [Onward.cache EXCEPT ![Dir(Entry)] = Outcome]
    OBVIOUS
  <2>8. CASE scan' = [Onward EXCEPT !.cache[Dir(Entry)] = Outcome, !.hit = h, !.files = q]
    <3>1. scan' = [Onward EXCEPT !.cache = x, !.hit = h, !.files = q]
      BY <2>7, <2>8
    <3>2. QED
      BY <2>3, <3>1, Zenon
  <2>9. QED
    BY <2>1, <2>2, <2>6, <2>8
<1>5. CASE EndWalk
  <2>1. CASE \E kind \in {"noschema", "records"} : \E why : Finish(kind, why)
    BY <1>2, <2>1
  <2>2. CASE \E q : scan' = [scan EXCEPT !.phase = "extract", !.results = q]
    BY <1>a, <2>2
  <2>3. QED
    BY <1>5, <2>1, <2>2 DEF EndWalk
<1>6. CASE Send \/ \E w \in Workers : Take(w) \/ Leave(w)
  BY <1>6, <1>a DEF Send, Take, Leave
<1>7. CASE \E w \in Workers : Extract(w)
  <2>1. PICK w, x : scan.phase = "extract" /\ scan' = [scan EXCEPT !.results[Slot(w)] = x]
    BY <1>7, Zenon DEF Extract
  <2>2. PICK q : scan' = [scan EXCEPT !.results = q]
    BY <2>1
  <2>3. QED
    BY <1>a, <2>1, <2>2
<1>8. CASE Collect
  <2>1. CASE \E why : Finish("error", why)
    BY <1>2, <2>1
  <2>2. CASE \E q : scan' = [scan EXCEPT !.phase = "done", !.out = [kind |-> "records", why |-> None, records |-> q]]
    <3>1. PICK q, o : o = [kind |-> "records", why |-> None, records |-> q] /\ scan' = [scan EXCEPT !.phase = "done", !.out = o]
      BY <2>2
    <3>2. o.kind = "records"
      BY <3>1
    <3>3. QED
      BY <1>a, <3>1, <3>2
  <2>3. QED
    BY <1>8, <2>1, <2>2, Zenon DEF Collect
<1>9. QED
  BY <1>3, <1>4, <1>5, <1>6, <1>7, <1>8 DEF Scanning, ScanNext

\* A command begins with nothing said.
LEMMA BeginAgreed ==
    ASSUME Agreeing, Same, Begin
    PROVE  Agreeing'
<1>1. cmd' = Command(Head(todo)) /\ UNCHANGED report
  BY DEF Begin
<1>2. /\ cmd'.phase = "preflight" /\ cmd'.at = 1 /\ cmd'.rows = <<>> /\ cmd'.notices = {} /\ cmd'.structural = {}
      /\ ~cmd'.health
  BY <1>1 DEF Command
<1>3. AllAgreed(cmd, scan, seen)' /\ FileAgreed(cmd)' /\ GraphAgreed(cmd, scan, seen)'
  BY <1>2 DEF AllAgreed, FileAgreed, GraphAgreed
<1>4. QED
  BY <1>1, <1>3, ToldStays DEF Agreeing

\* The preflight, but for the marker, which changes the tree.
LEMMA PreflightAgreed ==
    ASSUME SessionTypes, Agreeing, Same, Preflight
    PROVE  Agreeing'
<1>1. \/ \E why : Fails(why)
      \/ /\ UNCHANGED report /\ cmd.phase = "preflight"
         /\ \E o : cmd' = [cmd EXCEPT !.phase = After, !.offered = o]
  <2>1. [cmd EXCEPT !.phase = After] = [cmd EXCEPT !.phase = After, !.offered = cmd.offered]
    BY CommandFields DEF Shaped
  <2>2. QED
    BY <2>1 DEF Preflight, Admit, Declare, To
<1>2. CASE \E why : Fails(why)
  BY <1>2, FailsAgreed
<1>3. CASE /\ UNCHANGED report /\ cmd.phase = "preflight"
           /\ \E o : cmd' = [cmd EXCEPT !.phase = After, !.offered = o]
  <2>1. /\ cmd'.name = cmd.name /\ cmd'.phase = After /\ cmd'.at = cmd.at /\ cmd'.rows = cmd.rows
        /\ cmd'.notices = cmd.notices /\ cmd'.structural = cmd.structural /\ cmd'.health = cmd.health
    BY <1>3, CommandFields DEF Shaped
  <2>2. cmd.name = "all" => AllAgreed(cmd, scan, seen)'
    <3>1. SUFFICES ASSUME cmd.name = "all" PROVE AllAgreed(cmd, scan, seen)'
      OBVIOUS
    <3>2. cmd'.phase = "health" /\ cmd'.rows = <<>> /\ cmd'.at = 1
      BY <1>3, <2>1, <3>1 DEF After, Agreeing, AllAgreed
    <3>3. QED
      BY <3>2 DEF AllAgreed
  <2>3. cmd.name = "file" => FileAgreed(cmd)'
    <3>1. SUFFICES ASSUME cmd.name = "file" PROVE FileAgreed(cmd)'
      OBVIOUS
    <3>2. /\ cmd'.phase = "files" /\ cmd'.rows = <<>> /\ cmd'.at = 1 /\ cmd'.notices = {} /\ cmd'.structural = {}
          /\ ~cmd'.health
      BY <1>3, <2>1, <3>1 DEF After, Agreeing, FileAgreed
    <3>3. QED
      BY <3>2 DEF FileAgreed
  <2>4. cmd.name = "graph" => GraphAgreed(cmd, scan, seen)'
    <3>1. SUFFICES ASSUME cmd.name = "graph" PROVE GraphAgreed(cmd, scan, seen)'
      OBVIOUS
    <3>2. cmd'.phase = "start"
      BY <2>1, <3>1 DEF After
    <3>3. QED
      BY <3>2 DEF GraphAgreed
  <2>5. QED
    BY <1>3, <2>1, <2>2, <2>3, <2>4, ToldStays DEF Agreeing
<1>4. QED
  BY <1>1, <1>2, <1>3

\* Whatever the code does, the reports say what the tree says.
LEMMA AgreedSteps ==
    ASSUME SessionSound, Governed, Exact, Agreed, [Next]_vars
    PROVE  Agreed'
<1>1. Marking' /\ (Unchanged' => Unchanged /\ Same)
  BY MarkingStays DEF Agreed
<1>2. SUFFICES ASSUME Unchanged' PROVE Agreeing'
  BY <1>1 DEF Agreed
<1>3. Same /\ Agreeing /\ SessionTypes /\ ScanSound /\ gone = tree.absent
  BY <1>1, <1>2 DEF Agreed, Marking, Unchanged, SessionSound, SessionTypes
<1>4. CASE UNCHANGED vars
  BY <1>3, <1>4, ElsewhereAgreed DEF vars, scanVars
<1>5. CASE Begin
  BY <1>3, <1>5, BeginAgreed
<1>6. CASE Preflight
  BY <1>3, <1>6, PreflightAgreed
<1>7. CASE Scanning
  BY <1>3, <1>7, ScanGoesOn, ElsewhereAgreed
<1>8. CASE Mishap
  <2>1. PICK m : m = mishaps
    OBVIOUS
  <2>2. mishaps' = m + 1 /\ m \in Nat
    BY <1>8, <2>1 DEF Mishap, Environment, Cancel, Delete, EditStem, Disturb, Governed
  <2>3. m + 1 # 0
    BY <2>2
  <2>4. QED
    BY <1>2, <2>2, <2>3 DEF Unchanged
<1>9. CASE ValidateNext
  <2>1. CASE cmd.name = "all"
    <3>1. /\ cmd'.name = "all" /\ AllAgreed(cmd, scan, seen)' /\ AllTold(report.all)'
          /\ report'.file = report.file /\ report'.graph = report.graph
      BY <1>3, <1>9, <2>1, AllAgreedSteps DEF Agreeing
    <3>2. QED
      BY <1>3, <3>1, ToldStays DEF Agreeing
  <2>2. CASE cmd.name = "file"
    <3>1. /\ cmd'.name = "file" /\ FileAgreed(cmd)' /\ FileTold(report.file)'
          /\ report'.all = report.all /\ report'.graph = report.graph
      BY <1>3, <1>9, <2>2, FileAgreedSteps, SMTT(30) DEF Agreeing
    <3>2. QED
      BY <1>3, <3>1, ToldStays DEF Agreeing
  <2>3. cmd.name \in {"all", "file"}
    BY <1>9 DEF ValidateNext, Health, AllScanned, CheckBoundary, FilterAll, ValidateRecord,
       ValidateDirectories, DetectDrift, NameFiles, ValidateFile, FilesDone, Derive, Now
  <2>4. QED
    BY <2>1, <2>2, <2>3
<1>10. CASE GraphStep /\ UNCHANGED <<scanVars, cmd, report>>
  BY <1>3, <1>10, ElsewhereAgreed DEF scanVars
<1>11. CASE /\ cmd.name = "graph"
            /\ \/ GraphStart \/ GraphRescan \/ GraphScanned \/ Ensure \/ FilterStyles \/ Enrich \/ Stop \/ FilterWhere
               \/ CollectIssues \/ Prepare \/ FilterTypes \/ OptIn \/ BuildGraph \/ DecideByFlag \/ Decide \/ DecideByMembers
  <2>1. /\ cmd'.name = "graph" /\ GraphAgreed(cmd, scan, seen)' /\ GraphTold(report.graph)'
        /\ report'.all = report.all /\ report'.file = report.file
    BY <1>3, <1>11, GraphAgreedSteps DEF Agreeing
  <2>2. QED
    BY <1>3, <2>1, ToldStays DEF Agreeing
<1>12. QED
  BY <1>4, <1>5, <1>6, <1>7, <1>8, <1>9, <1>10, <1>11 DEF Next, Over, Working, GraphNext

\* A session starts with nothing reported.
LEMMA AgreedStarts == Init => Agreed
<1> SUFFICES ASSUME Init PROVE Agreed
  OBVIOUS
<1>1. PICK x \in Sessions : ScanInit(x.tree)
  BY DEF Init
<1>2. stems = tree.stems /\ gone = tree.absent
  BY <1>1 DEF ScanInit
<1>3. cmd.phase = "done"
  BY DEF Init, Command
<1>4. \A c \in Commands : report[c].kind = "none"
  BY DEF Init
<1>5. report["all"].kind = "none" /\ report["file"].kind = "none" /\ report["graph"].kind = "none"
  BY <1>4 DEF Commands
<1>6. Marking
  BY <1>2 DEF Marking
<1>7. AllAgreed(cmd, scan, seen) /\ FileAgreed(cmd) /\ GraphAgreed(cmd, scan, seen)
  BY <1>3 DEF AllAgreed, FileAgreed, GraphAgreed
<1>8. AllTold(report.all) /\ FileTold(report.file) /\ GraphTold(report.graph)
  BY <1>5 DEF AllTold, FileTold, GraphTold
<1>9. QED
  BY <1>6, <1>7, <1>8 DEF Agreed, Agreeing

\* The rules a link of f breaks (CheckLink).
Broke(f, l) == CheckLink(Disk, Nothing, Root, Dir(f), Schema(stems, f), l)

\* The rules beside links.
Own(f) == {r \in {<<"schema", f>>} : f \in tree.invalid} \cup {r \in {<<"advice", f>>} : f \in tree.advised}
          \cup {r \in {<<"source", f>>} : f \in tree.ambiguous} \cup FieldRules(stems, f, Computed[f])
OwnRules == {"schema", "advice", "source", "aggregate", "exists"}

LEMMA OwnAre ==
    ASSUME NEW f, NEW i \in Own(f)
    PROVE  i = <<i[1], i[2]>> /\ i[1] \in OwnRules
<1>1. i \in {<<"schema", f>>, <<"advice", f>>, <<"source", f>>, <<"aggregate", f>>, <<"exists", f>>}
  BY DEF Own, FieldRules
<1>2. QED
  BY <1>1 DEF OwnRules

LEMMA NotOwn ==
    \A f, x : \A rule \in {"link_encoding", "link_resolve", "link_unverifiable", "link_anchor"} : <<rule, x>> \notin Own(f)
<1>1. SUFFICES ASSUME NEW f, NEW x, NEW rule \in {"link_encoding", "link_resolve", "link_unverifiable", "link_anchor"},
                      <<rule, x>> \in Own(f)
               PROVE  FALSE
  OBVIOUS
<1>2. PICK i : i = <<rule, x>>
  OBVIOUS
<1>3. i[1] = rule /\ i \in Own(f)
  BY <1>1, <1>2
<1>4. QED
  BY <1>1, <1>3, OwnAre DEF OwnRules

\* A pair of a rule and what breaks it.
LEMMA RowMeans ==
    ASSUME NEW f
    PROVE  /\ \A rule, x : <<rule, x>> \in Judged(f) <=>
                 <<rule, x>> \in Own(f) \/ (x \in Styled(f) /\ rule \in Broke(f, x))
           /\ \A i \in Judged(f) : i = <<i[1], i[2]>>
           /\ \A rule, x : <<rule, x>> \in Said(f) <=>
                 x \in Styled(f) /\ rule \in Broke(f, x) \ {"link_resolve", "link_unverifiable"}
           /\ \A i \in Said(f) : i = <<i[1], i[2]>>
<1> DEFINE C(L) == CheckLinks(Disk, Nothing, Root, Dir(f), Schema(stems, f), L)
<1>1. ASSUME NEW L, OfStyle(L, Schema(stems, f)) = Styled(f)
      PROVE  /\ \A rule, x : <<rule, x>> \in C(L) <=> x \in Styled(f) /\ rule \in Broke(f, x)
             /\ \A i \in C(L) : i = <<i[1], i[2]>>
  <2>1. C(L) = UNION {Broke(f, l) \X {l} : l \in Styled(f)}
    BY <1>1 DEF CheckLinks, Broke
  <2>2. ASSUME NEW i \in C(L) PROVE i = <<i[1], i[2]>> /\ i[2] \in Styled(f) /\ i[1] \in Broke(f, i[2])
    <3>1. PICK l \in Styled(f) : i \in Broke(f, l) \X {l}
      BY <2>1
    <3>2. i = <<i[1], i[2]>> /\ i[1] \in Broke(f, l) /\ i[2] = l
      BY <3>1
    <3>3. QED
      BY <3>2
  <2>3. ASSUME NEW x \in Styled(f), NEW rule \in Broke(f, x) PROVE <<rule, x>> \in C(L)
    <3>1. <<rule, x>> \in Broke(f, x) \X {x}
      OBVIOUS
    <3>2. QED
      BY <2>1, <3>1
  <2>4. ASSUME NEW rule, NEW x, <<rule, x>> \in C(L) PROVE x \in Styled(f) /\ rule \in Broke(f, x)
    <3>1. PICK i : i = <<rule, x>>
      OBVIOUS
    <3>2. i \in C(L) /\ i[1] = rule /\ i[2] = x
      BY <2>4, <3>1
    <3>3. QED
      BY <2>2, <3>2
  <2> HIDE DEF C
  <2>5. QED
    BY <2>2, <2>3, <2>4
<1>2. OfStyle(tree.links[f], Schema(stems, f)) = Styled(f)
  BY DEF Styled
<1>3. Judged(f) = Own(f) \cup C(tree.links[f])
  BY Zenon DEF Judged, RulesBroken, Own
<1>4. Said(f) = {i \in C(Styled(f)) : i[1] \notin {"link_resolve", "link_unverifiable"}}
  BY DEF Said
<1> HIDE DEF C
<1>5. /\ \A rule, x : <<rule, x>> \in C(tree.links[f]) <=> x \in Styled(f) /\ rule \in Broke(f, x)
      /\ \A i \in C(tree.links[f]) : i = <<i[1], i[2]>>
  BY <1>1, <1>2
<1>6. /\ \A rule, x : <<rule, x>> \in C(Styled(f)) <=> x \in Styled(f) /\ rule \in Broke(f, x)
      /\ \A i \in C(Styled(f)) : i = <<i[1], i[2]>>
  BY <1>1, StyledIs
<1>7. \A i \in Judged(f) : i = <<i[1], i[2]>>
  <2>1. SUFFICES ASSUME NEW i \in Judged(f) PROVE i = <<i[1], i[2]>>
    OBVIOUS
  <2>2. i \in Own(f) \/ i \in C(tree.links[f])
    BY <1>3
  <2>3. QED
    BY <1>5, <2>2, OwnAre
<1>8. ASSUME NEW rule, NEW x
      PROVE  <<rule, x>> \in Judged(f) <=>
                 <<rule, x>> \in Own(f) \/ (x \in Styled(f) /\ rule \in Broke(f, x))
  BY <1>3, <1>5
<1>9. ASSUME NEW rule, NEW x
      PROVE  <<rule, x>> \in Said(f) <=> x \in Styled(f) /\ rule \in Broke(f, x) \ {"link_resolve", "link_unverifiable"}
  <2>1. PICK i : i = <<rule, x>>
    OBVIOUS
  <2>2. i[1] = rule
    BY <2>1
  <2>3. i \in Said(f) <=> i \in C(Styled(f)) /\ rule \notin {"link_resolve", "link_unverifiable"}
    BY <1>4, <2>2
  <2>4. QED
    BY <1>6, <2>1, <2>3
<1>10. \A i \in Said(f) : i = <<i[1], i[2]>>
  BY <1>4, <1>6
<1>11. QED
  BY <1>7, <1>8, <1>9, <1>10, Zenon

\* What breaks one rule.
LEMMA BreakingIs ==
    ASSUME NEW f, NEW rule, NEW row, row = Judged(f)
    PROVE  \A x : x \in Breaking(row, rule) <=> <<rule, x>> \in row
<1>1. ASSUME NEW x \in Breaking(row, rule) PROVE <<rule, x>> \in row
  <2>1. PICK i \in row : i[1] = rule /\ i[2] = x
    BY DEF Breaking
  <2>2. i = <<i[1], i[2]>>
    BY RowMeans
  <2>3. QED
    BY <2>1, <2>2
<1>2. ASSUME NEW x, <<rule, x>> \in row PROVE x \in Breaking(row, rule)
  <2>1. PICK i : i = <<rule, x>>
    OBVIOUS
  <2>2. i \in row /\ i[1] = rule /\ i[2] = x
    BY <1>2, <2>1
  <2>3. QED
    BY <2>2 DEF Breaking
<1>3. QED
  BY <1>1, <1>2

\* The rules of CheckLink.
LEMMA BrokeIs ==
    ASSUME NEW f, NEW l
    PROVE  /\ Broke(f, l) \subseteq {"link_encoding", "link_resolve", "link_unverifiable", "link_anchor"}
           /\ Schema(stems, f).resolve =>
                 LET nowhere == ResolveTarget(Disk, Nothing, Root, Dir(f), l) = Nothing
                     left    == Schema(stems, f).fallback
                 IN  /\ "link_resolve" \in Broke(f, l) <=> nowhere /\ ~left
                     /\ "link_unverifiable" \in Broke(f, l) <=> nowhere /\ left
<1>1. PICK schema, to : schema = Schema(stems, f) /\ to = ResolveTarget(Disk, Nothing, Root, Dir(f), l)
  OBVIOUS
<1> DEFINE E == IF schema.encoding /\ l.spelling = "blank" THEN {"link_encoding"} ELSE {}
           T == IF ~schema.resolve /\ ~schema.anchors THEN {}
                ELSE IF to = Nothing
                THEN IF ~schema.resolve THEN {}
                     ELSE IF schema.fallback THEN {"link_unverifiable"} ELSE {"link_resolve"}
                ELSE IF schema.anchors /\ ~Anchored(Disk, l, to) THEN {"link_anchor"} ELSE {}
<1>2. Broke(f, l) = E \cup T
  BY <1>1, Zenon DEF Broke, CheckLink
<1>3. E \subseteq {"link_encoding"}
  OBVIOUS
<1>4. T \subseteq {"link_resolve", "link_unverifiable", "link_anchor"}
  OBVIOUS
<1>5. schema.resolve => /\ "link_resolve" \in T <=> to = Nothing /\ ~schema.fallback
                        /\ "link_unverifiable" \in T <=> to = Nothing /\ schema.fallback
  OBVIOUS
<1> HIDE DEF E, T
<1>6. Broke(f, l) \subseteq {"link_encoding", "link_resolve", "link_unverifiable", "link_anchor"}
  BY <1>2, <1>3, <1>4
<1>7. \A rule : rule # "link_encoding" => (rule \in Broke(f, l) <=> rule \in T)
  BY <1>2, <1>3
<1>8. QED
  BY <1>1, <1>5, <1>6, <1>7

\* What two reports of one tree say of a document's links.
LEMMA BrokenEnds == Agreed => BrokenAgrees
<1> SUFFICES ASSUME Agreed, Unchanged, report.graph.kind = "graph", report.all.kind = "envelope",
                    NEW f \in DOMAIN report.all.rows, Unresolved(f) # report.all.rows[f],
                    Schema(stems, f).rules = {}, Schema(stems, f).resolve
             PROVE  /\ IF Schema(stems, f).fallback
                       THEN LinksOf(f, report.graph.broken) \subseteq Breaking(report.all.rows[f], "link_unverifiable")
                       ELSE LinksOf(f, report.graph.broken) = Breaking(report.all.rows[f], "link_resolve")
                    /\ {i \in report.all.rows[f] : i[1] \in LinkRules} = {x[2] : x \in {i \in report.graph.issues : i[1] = f}}
  BY DEF BrokenAgrees
<1>1. PICK row, broken, issues, left : row = report.all.rows[f] /\ broken = report.graph.broken
                                       /\ issues = report.graph.issues /\ left = Schema(stems, f).fallback
  OBVIOUS
<1>2. f \in Good \cap tree.where /\ row = Judged(f)
  BY <1>1 DEF Agreed, Agreeing, AllTold
<1>3. SaidOf(issues, f) = Said(f) /\ BrokenTold(broken, f)
  BY <1>1, <1>2 DEF Agreed, Agreeing, GraphTold
<1>4. Unbroken(f) <=> ~left
  BY <1>1 DEF Unbroken
<1>5. ASSUME NEW l \in Styled(f)
      PROVE  /\ l \in Unmet(f) /\ left => <<"link_unverifiable", l>> \in row
             /\ l \in Unmet(f) /\ ~left => <<"link_resolve", l>> \in row
             /\ <<"link_resolve", l>> \in row => l \in Unmet(f)
  <2>1. /\ "link_resolve" \in Broke(f, l) <=> l \in Unmet(f) /\ ~left
        /\ "link_unverifiable" \in Broke(f, l) <=> l \in Unmet(f) /\ left
    BY <1>1, BrokeIs DEF Unmet
  <2>2. \A rule \in {"link_resolve", "link_unverifiable"} : <<rule, l>> \in row <=> rule \in Broke(f, l)
    BY <1>2, RowMeans, NotOwn
  <2>3. QED
    BY <2>1, <2>2
<1>6. Unmet(f) \subseteq Styled(f) /\ Styled(f) \subseteq tree.links[f]
  BY StyledIs DEF Unmet
<1>7. ASSUME left PROVE LinksOf(f, broken) \subseteq Breaking(row, "link_unverifiable")
  <2>1. ASSUME NEW l \in LinksOf(f, broken) PROVE l \in Breaking(row, "link_unverifiable")
    <3>1. l \in Unmet(f)
      BY <1>3 DEF LinksOf, BrokenTold
    <3>2. QED
      BY <1>2, <1>5, <1>6, <1>7, <3>1, BreakingIs
  <2>2. QED
    BY <2>1
<1>8. ASSUME ~left PROVE LinksOf(f, broken) = Breaking(row, "link_resolve")
  <2>1. \A l : l \in LinksOf(f, broken) <=> l \in Unmet(f)
    BY <1>3, <1>4, <1>6, <1>8 DEF LinksOf, BrokenTold
  <2>2. \A l : <<"link_resolve", l>> \in row => l \in Styled(f)
    BY <1>2, RowMeans, NotOwn
  <2>3. \A l : l \in Breaking(row, "link_resolve") <=> l \in Unmet(f)
    BY <1>2, <1>5, <1>6, <1>8, <2>2, BreakingIs
  <2>4. \A l : l \in LinksOf(f, broken) <=> l \in Breaking(row, "link_resolve")
    BY <2>1, <2>3
  <2>5. QED
    BY <2>4
<1>9. {i \in row : i[1] \in LinkRules} = Said(f)
  <2>1. ASSUME NEW i \in row, i[1] \in LinkRules PROVE i \in Said(f)
    <3>1. PICK rule, x : rule = i[1] /\ x = i[2]
      OBVIOUS
    <3>2. i = <<rule, x>> /\ rule \in {"link_anchor", "link_encoding"}
      BY <1>2, <2>1, <3>1, RowMeans DEF LinkRules
    <3>3. x \in Styled(f) /\ rule \in Broke(f, x)
      <4>1. <<rule, x>> \in Judged(f)
        BY <1>2, <2>1, <3>2
      <4>2. QED
        BY <3>2, <4>1, RowMeans, NotOwn
    <3>4. QED
      BY <3>2, <3>3, RowMeans
  <2>2. ASSUME NEW i \in Said(f) PROVE i \in row /\ i[1] \in LinkRules
    <3>1. PICK rule, x : rule = i[1] /\ x = i[2]
      OBVIOUS
    <3>2. i = <<rule, x>>
      BY <3>1, RowMeans
    <3>3. x \in Styled(f) /\ rule \in Broke(f, x) \ {"link_resolve", "link_unverifiable"}
      BY <3>2, RowMeans
    <3>4. rule \in LinkRules
      BY <3>3, BrokeIs DEF LinkRules
    <3>5. <<rule, x>> \in row
      BY <1>2, <3>3, RowMeans
    <3>6. QED
      BY <3>1, <3>2, <3>4, <3>5
  <2>3. QED
    BY <2>1, <2>2
<1>10. SaidOf(issues, f) = {x[2] : x \in {i \in issues : i[1] = f}}
  BY DEF SaidOf
<1>11. {i \in report.all.rows[f] : i[1] \in LinkRules} = {x[2] : x \in {i \in report.graph.issues : i[1] = f}}
  BY <1>1, <1>3, <1>9, <1>10
<1>12. QED
  BY <1>1, <1>7, <1>8, <1>11

\* What keeps a document governed from Root out of a scan keeps it out by name.
LEMMA ExcludedFromRoot ==
    ASSUME NEW f \in Known, FromRoot(f)
    PROVE  Excluded(stems, f) <=> Ignored(f) \/ f \in tree.outOfScope
<1>1. Excluded(stems, f) <=> IgnoredFrom(Root, f) \/ f \in tree.outOfScope
  BY DEF Excluded, FromRoot
<1>2. \A d \in Dirs : d \in Places /\ IsPrefix(Root, d)
  BY ScanAssumption DEF Places
<1>3. ASSUME NEW d \in Places, IsPrefix(Root, d) PROVE d \in Dirs
  <2>1. SUFFICES ASSUME d \in Outer PROVE FALSE
    BY DEF Places
  <2>2. IsPrefix(d, Root) /\ d # Root
    BY <2>1, ScanAssumption DEF IsStrictPrefix
  <2>3. d \in Paths /\ Root \in Paths
    BY PlacesArePaths
  <2>4. Len(d) \in Nat /\ Len(Root) \in Nat /\ Len(Root) <= Len(d) /\ Len(d) <= Len(Root)
    BY <1>3, <2>2, <2>3, PathLen, PrefixMeans
  <2>5. IsPrefix(Root, Root)
    BY <2>3, <2>4, PrefixMeans
  <2>6. QED
    BY <2>2, <2>3, <2>4, <2>5, PrefixesNest
<1>4. IgnoredFrom(Root, f) <=> Ignored(f)
  BY <1>2, <1>3 DEF IgnoredFrom, Ignored
<1>5. QED
  BY <1>1, <1>4

\* A boundary that is not declared above a document governed from Root is not
\* declared at Root.
LEMMA RootDeclares ==
    ASSUME NEW f \in Known, FromRoot(f), Notice(stems, Dir(f)) # {}
    PROVE  Notice(stems, Root) = {"boundary"}
<1>a. PICK d, top : d = Dir(f) /\ top = Topmost(Chain(stems, d))
  OBVIOUS
<1>1. d \in Paths /\ IsPrefix(Root, d) /\ Root \in Paths
  BY <1>a, FileBelowRoot, PlacesArePaths
<1>2. Resolve(stems, d) = "governed" /\ Root = top /\ Chain(stems, d) # {} /\ ~\E e \in Chain(stems, d) : stems[e] = "broken"
  BY <1>a DEF FromRoot, Resolve
<1>3. Chain(stems, d) \in SUBSET Paths
  BY PlacesArePaths DEF Chain
<1>4. Root \in Chain(stems, d) /\ \A e \in Chain(stems, d) : Len(Root) <= Len(e)
  BY <1>2, <1>3, <1>a, TopmostIs
<1>5. Boundary(stems, d) = "undeclared"
  BY <1>a DEF Notice
<1>6. stems[Root] # "root" /\ stems[Root] # "broken"
  BY <1>2, <1>4, <1>5, <1>a DEF Boundary
<1>7. Root \in Up(stems, d) /\ \A below \in Up(stems, d) : Len(below) > Len(Root) => stems[below] = "plain"
  BY <1>4, ChainMeans
<1>8. Root \in Up(stems, Root)
  <2>1. Len(Root) \in Nat
    BY <1>1, PathLen
  <2>2. IsPrefix(Root, Root)
    BY <1>1, <2>1, PrefixMeans
  <2>3. QED
    BY <1>7, <2>2 DEF Up
<1>9. \A e \in Up(stems, Root) : e \in Paths /\ Len(e) \in Nat /\ Len(e) <= Len(Root) /\ e \in Up(stems, d)
  <2>1. SUFFICES ASSUME NEW e \in Up(stems, Root)
                 PROVE  e \in Paths /\ Len(e) \in Nat /\ Len(e) <= Len(Root) /\ e \in Up(stems, d)
    OBVIOUS
  <2>2. e \in Places /\ IsPrefix(e, Root) /\ stems[e] # "none"
    BY DEF Up
  <2>3. e \in Paths /\ Len(e) \in Nat
    BY <2>2, PlacesArePaths, PathLen
  <2>4. Len(e) <= Len(Root)
    BY <1>1, <2>2, <2>3, PrefixMeans
  <2>5. IsPrefix(e, d)
    BY <1>1, <2>2, <2>3, PrefixTrans
  <2>6. QED
    BY <2>2, <2>3, <2>4, <2>5 DEF Up
<1>10. Root \in Chain(stems, Root)
  <2>1. PICK n \in Nat : n = Len(Root)
    BY <1>1, PathLen
  <2>2. \A e \in Up(stems, Root) : ~(Len(e) > Len(Root))
    BY <1>9, <2>1
  <2>3. QED
    BY <1>8, <2>2, ChainMeans
<1>11. ASSUME NEW e \in Chain(stems, Root) PROVE e = Root
  <2>1. e \in Up(stems, Root) /\ \A below \in Up(stems, Root) : Len(below) > Len(e) => stems[below] = "plain"
    BY ChainMeans
  <2>2. e \in Up(stems, d)
    BY <1>9, <2>1
  <2>3. ASSUME NEW below \in Up(stems, d), Len(below) > Len(e) PROVE stems[below] = "plain"
    <3>1. below \in Paths /\ Len(below) \in Nat /\ Len(Root) \in Nat /\ below \in Places /\ IsPrefix(below, d)
          /\ stems[below] # "none"
      BY <1>1, PlacesArePaths, PathLen DEF Up
    <3>2. CASE Len(below) > Len(Root)
      BY <1>7, <3>2
    <3>3. CASE Len(below) <= Len(Root)
      <4>1. IsPrefix(below, Root)
        BY <1>1, <3>1, <3>3, PrefixesNest
      <4>2. below \in Up(stems, Root)
        BY <3>1, <4>1 DEF Up
      <4>3. QED
        BY <2>1, <2>3, <4>2
    <3>4. QED
      BY <3>1, <3>2, <3>3
  <2>4. e \in Chain(stems, d)
    BY <2>2, <2>3, ChainMeans
  <2>5. Len(Root) <= Len(e) /\ Len(e) <= Len(Root) /\ Len(e) \in Nat /\ Len(Root) \in Nat
    BY <1>1, <1>4, <1>9, <2>1, <2>4, PathLen
  <2>6. e \in Paths /\ IsPrefix(e, Root) /\ IsPrefix(Root, Root) /\ Len(e) = Len(Root)
    BY <1>8, <1>9, <2>1, <2>5 DEF Up
  <2>7. QED
    BY <1>1, <2>5, <2>6, PrefixesNest
<1>12. Chain(stems, Root) = {Root}
  BY <1>10, <1>11
<1>13. Topmost(Chain(stems, Root)) = Root
  BY <1>12 DEF Topmost
<1>14. Resolve(stems, Root) = "governed"
  BY <1>6, <1>12 DEF Resolve
<1>15. Boundary(stems, Root) = "undeclared"
  BY <1>6, <1>12, <1>13, <1>14 DEF Boundary
<1>16. QED
  BY <1>15 DEF Notice

\* The field of a document in the one mode and in the other.
LEMMA FieldsByMode ==
    ASSUME NEW f, NEW d
    PROVE  /\ FieldRules(stems, f, None) \subseteq FieldRules(stems, f, d) \cup {<<"exists", f>>}
           /\ FieldRules(stems, f, d) \subseteq FieldRules(stems, f, None) \cup {<<"aggregate", f>>}
           /\ ~Demands(f) => FieldRules(stems, f, None) = {}
<1>1. FieldRules(stems, f, None) = {r \in {<<"exists", f>>} : Declares(stems, f, tree.demands) /\ tree.value[f] = None}
  <2>1. {tree.value[f], None} \cap {None} # {} /\ ({tree.value[f], None} = {None} <=> tree.value[f] = None)
    OBVIOUS
  <2>2. QED
    BY <2>1 DEF FieldRules
<1>2. FieldRules(stems, f, d) \subseteq {<<"aggregate", f>>} \cup FieldRules(stems, f, None)
  <2>1. {tree.value[f], d} = {None} => tree.value[f] = None
    OBVIOUS
  <2>2. QED
    BY <1>1, <2>1 DEF FieldRules
<1>3. QED
  BY <1>1, <1>2 DEF Demands

\* A field that nothing computes.
LEMMA NotComputed == \A f \in Files : ~Computes(f) => Computed[f] = None
<1>1. SUFFICES ASSUME NEW f \in Files, ~Computes(f) PROVE Computed[f] = None
  OBVIOUS
<1>2. ~Declares(stems, f, tree.derives) /\ ~Declares(stems, f, tree.aggregates)
  BY <1>1 DEF Computes, Declares
<1>3. DeriveAll(stems, Due)[f] = None
  BY <1>2 DEF DeriveAll
<1>4. QED
  BY <1>2, <1>3 DEF Computed, AggregateAll

\* What two reports of one tree say of its documents.
LEMMA ModesEnd == Exact /\ Agreed => ModesAgree
<1> SUFFICES ASSUME Exact, Agreed, BothModes
             PROVE  /\ \A f \in (Known \cap tree.where) \ gone :
                          IF f \in DOMAIN report.all.rows
                          THEN /\ ~Computes(f) => report.file.rows[f] = report.all.rows[f]
                               /\ \A i \in report.file.rows[f] \ report.all.rows[f] : i[1] = "exists"
                               /\ \A i \in report.all.rows[f] \ report.file.rows[f] : i[1] = "aggregate"
                          ELSE report.file.rows[f] = {<<"excluded", f>>}
                    /\ (/\ report.all.ok /\ ~report.file.strict /\ tree.where = Files
                        /\ \A f \in Known : ~(Computes(f) /\ Demands(f))) => report.file.ok
  BY Zenon DEF ModesAgree
<1>a. /\ Unchanged /\ (\A f \in Known : FromRoot(f)) /\ report.all.kind = "envelope"
      /\ report.all.notices \cap {"unresolved", "scan failed"} = {} /\ report.file.kind = "envelope"
  BY DEF BothModes
<1>1. PICK all, file : all = report.all /\ file = report.file
  OBVIOUS
<1>2. /\ DOMAIN all.rows = Asked /\ (\A f \in Asked : all.rows[f] = GateRow(f)) /\ Notice(stems, Root) \subseteq all.notices
      /\ all.ok => all.notices \subseteq {"no records"} /\ \A f \in DOMAIN all.rows : Valid(all.rows[f])
  BY <1>1, <1>a DEF Agreed, Agreeing, AllTold
<1>3. /\ DOMAIN file.rows = Known \ gone /\ (\A f \in DOMAIN file.rows : file.rows[f] = HookRow(f))
      /\ file.ok \/ file.strict \/ (\E f \in DOMAIN file.rows : ~Valid(file.rows[f])) \/ Warned
  BY <1>1, <1>a DEF Agreed, Agreeing, FileTold
\* Of one document, the two rows, and the rules of the field in each.
<1>4. ASSUME NEW f \in (Known \cap tree.where) \ gone
      PROVE  \/ /\ f \in DOMAIN all.rows
                /\ \E rest : /\ all.rows[f] = rest \cup FieldRules(stems, f, Computed[f])
                             /\ file.rows[f] = rest \cup FieldRules(stems, f, None)
             \/ f \notin DOMAIN all.rows /\ file.rows[f] = {<<"excluded", f>>}
  <2>1. FromRoot(f) /\ file.rows[f] = HookRow(f)
    BY <1>3, <1>a
  <2>2. Ruled(f) /\ Topmost(Chain(stems, Dir(f))) = Root
    BY <2>1 DEF FromRoot, Ruled
  <2>3. f \in Asked <=> ~Excluded(stems, f)
    BY <2>1, <2>2, ExcludedFromRoot DEF Asked, Due, Ruled, InScope
  <2>4. CASE f \in Asked
    <3>1. PICK rest : rest = {r \in {<<"schema", f>>} : f \in tree.invalid} \cup {r \in {<<"advice", f>>} : f \in tree.advised}
                             \cup {r \in {<<"source", f>>} : f \in tree.ambiguous}
                             \cup CheckLinks(Disk, Nothing, Root, Dir(f), Schema(stems, f), tree.links[f])
      OBVIOUS
    <3>2. \A d : RulesBroken(stems, f, Root, d) = rest \cup FieldRules(stems, f, d)
      BY <3>1 DEF RulesBroken
    <3>3. all.rows[f] = RulesBroken(stems, f, Root, Computed[f])
      BY <1>2, <2>2, <2>4, Zenon DEF GateRow, Judged
    <3>4. file.rows[f] = RulesBroken(stems, f, Root, None)
      BY <2>1, <2>2, <2>3, <2>4, Zenon DEF HookRow
    <3>5. /\ all.rows[f] = rest \cup FieldRules(stems, f, Computed[f])
          /\ file.rows[f] = rest \cup FieldRules(stems, f, None)
      BY <3>2, <3>3, <3>4, Zenon
    <3>6. QED
      BY <1>2, <2>4, <3>5, Zenon
  <2>5. CASE f \notin Asked
    BY <1>2, <2>1, <2>3, <2>5 DEF HookRow
  <2>6. QED
    BY <2>4, <2>5
<1>5. ASSUME NEW f \in (Known \cap tree.where) \ gone
      PROVE  IF f \in DOMAIN all.rows
             THEN /\ ~Computes(f) => file.rows[f] = all.rows[f]
                  /\ \A i \in file.rows[f] \ all.rows[f] : i[1] = "exists"
                  /\ \A i \in all.rows[f] \ file.rows[f] : i[1] = "aggregate"
             ELSE file.rows[f] = {<<"excluded", f>>}
  <2>1. CASE f \in DOMAIN all.rows
    <3>1. PICK rest, here, there : /\ all.rows[f] = rest \cup there /\ file.rows[f] = rest \cup here
                                   /\ here = FieldRules(stems, f, None) /\ there = FieldRules(stems, f, Computed[f])
      BY <1>4, <2>1
    <3>2. here \subseteq there \cup {<<"exists", f>>} /\ there \subseteq here \cup {<<"aggregate", f>>}
      BY <3>1, FieldsByMode
    <3>3. ~Computes(f) => here = there
      <4>1. f \in Files
        BY ScanAssumption
      <4>2. QED
        BY <3>1, <4>1, NotComputed
    <3>4. \A i \in file.rows[f] \ all.rows[f] : i = <<"exists", f>>
      BY <3>1, <3>2
    <3>5. \A i \in all.rows[f] \ file.rows[f] : i = <<"aggregate", f>>
      BY <3>1, <3>2
    <3>6. QED
      BY <2>1, <3>1, <3>3, <3>4, <3>5
  <2>2. CASE f \notin DOMAIN all.rows
    BY <1>4, <2>2
  <2>3. QED
    BY <2>1, <2>2
<1>6. ASSUME all.ok, ~file.strict, tree.where = Files, \A f \in Known : ~(Computes(f) /\ Demands(f)) PROVE file.ok
  <2>1. \A f \in DOMAIN file.rows : Valid(file.rows[f])
    <3>1. SUFFICES ASSUME NEW f \in DOMAIN file.rows PROVE Valid(file.rows[f])
      OBVIOUS
    <3>2. f \in (Known \cap tree.where) \ gone
      BY <1>3, <1>6, ScanAssumption
    <3>3. CASE f \in DOMAIN all.rows
      <4>1. Valid(all.rows[f])
        BY <1>2, <1>6, <3>3
      <4>2. file.rows[f] \subseteq all.rows[f]
        <5>1. CASE Computes(f)
          <6>1. ~Demands(f)
            BY <1>6, <3>2, <5>1
          <6>2. FieldRules(stems, f, None) = {}
            BY <6>1, FieldsByMode
          <6>3. QED
            BY <1>4, <3>2, <3>3, <6>2
        <5>2. CASE ~Computes(f)
          BY <1>5, <3>2, <3>3, <5>2
        <5>3. QED
          BY <5>1, <5>2
      <4>3. QED
        BY <4>1, <4>2 DEF Valid
    <3>4. CASE f \notin DOMAIN all.rows
      <4>1. file.rows[f] = {<<"excluded", f>>}
        BY <1>5, <3>2, <3>4
      <4>2. PICK row, x : row = file.rows[f] /\ x = <<"excluded", f>>
        OBVIOUS
      <4>3. row = {x} /\ x[1] \in Warnings
        BY <4>1, <4>2 DEF Warnings
      <4>4. Valid(row)
        BY <4>3 DEF Valid
      <4>5. QED
        BY <4>2, <4>4
    <3>5. QED
      BY <3>3, <3>4
  <2>2. ~Warned
    <3>1. SUFFICES ASSUME NEW f \in Known, Notice(stems, Dir(f)) # {} PROVE FALSE
      BY <1>a DEF Warned, Ruled, FromRoot
    <3>2. "boundary" \in all.notices
      BY <1>2, <1>a, <3>1, RootDeclares
    <3>3. QED
      BY <1>2, <1>6, <3>2
  <2>3. QED
    BY <1>3, <1>6, <2>1, <2>2
<1>7. QED
  BY <1>1, <1>5, <1>6

\* The gate and the hook enforce the same but for what only the gate computes: in
\* a tree nobody touches that is governed from where it is scanned, validate of a
\* file that validate --all leaves out says so; of any other it gives the row that
\* --all gives, but for a field that is missing until it is derived and for an
\* index file's stored aggregate; and it fails no file of a tree that passes where
\* no rule asks for a computed field (cmd/rootline/validate.go).
THEOREM GateAndHookAgree == Spec => []ModesAgree
<1>1. Init => SessionSound /\ Governed /\ Planned /\ Exact /\ Agreed
  BY SessionStarts, GovernedStarts, ExactStarts, AgreedStarts
<1>2. SessionSound /\ Governed /\ Planned /\ Exact /\ Agreed /\ [Next]_vars
         => (SessionSound /\ Governed /\ Planned /\ Exact /\ Agreed)'
  BY SessionSteps, GovernedSteps, ExactSteps, AgreedSteps
<1>3. QED
  BY <1>1, <1>2, ModesEnd, PTL DEF Spec

\* graph --check and validate --all answer alike of a document's links: the
\* ones that lead nowhere, but for what a fallback or typed rules leave out, and
\* the anchors and encodings (CheckLinks, PrepareLinks, collectLinkCheckIssues).
THEOREM GraphAndGateAgree == Spec => []BrokenAgrees
<1>1. Init => SessionSound /\ Governed /\ Planned /\ Exact /\ Agreed
  BY SessionStarts, GovernedStarts, ExactStarts, AgreedStarts
<1>2. SessionSound /\ Governed /\ Planned /\ Exact /\ Agreed /\ [Next]_vars
         => (SessionSound /\ Governed /\ Planned /\ Exact /\ Agreed)'
  BY SessionSteps, GovernedSteps, ExactSteps, AgreedSteps
<1>3. QED
  BY <1>1, <1>2, BrokenEnds, PTL DEF Spec
=============================================================================

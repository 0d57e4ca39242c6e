------------------------- MODULE AtomicWriteProofs -------------------------
(***************************************************************************)
(* AtomicWrite implements AtomicFile, for any callers, readers, contents   *)
(* and number of files.                                                    *)
(*                                                                         *)
(* The argument: every file that a name, in memory or on disk, or an open  *)
(* reader refers to is whole in memory and on disk; the file a call writes *)
(* to is referred to by nobody else until the rename, and by then it has   *)
(* been synced.                                                            *)
(***************************************************************************)
EXTENDS AtomicWrite, TLAPS

Whole(i) == \E v \in Contents : inode[i].data = Full(v) /\ inode[i].disk = Full(v)

Seen == ({name, settled} \cup {reader[r].open : r \in Readers}) \ {None}

SeenIsWhole == \A i \in Seen : Whole(i)

TempsApart == \A w \in Writers : writer[w].temp # None =>
                /\ writer[w].temp \notin Seen
                /\ \A u \in Writers : u # w => writer[u].temp # writer[w].temp

Progress(w) ==
    LET f == inode[writer[w].temp] IN
    /\ writer[w].pc = "write_rest" => f.data[1] = writer[w].want
    /\ writer[w].pc = "sync" => f.data = Full(writer[w].want)
    /\ writer[w].pc \in {"chmod", "close", "rename"} =>
         f.data = Full(writer[w].want) /\ f.disk = Full(writer[w].want)
    /\ writer[w].pc \notin Staging \cup {"cleanup"} => writer[w].temp = None

ReadSoFar(r) ==
    LET f == inode[reader[r].open] IN
    /\ reader[r].open = None => reader[r].got = <<>>
    /\ Len(reader[r].got) \in 0..2
    /\ Len(reader[r].got) > 0 => reader[r].got[1] = f.data[1]
    /\ Len(reader[r].got) > 1 => reader[r].got[2] = f.data[2]

IInv == /\ TypeOK
        /\ SeenIsWhole
        /\ TempsApart
        /\ \A w \in Writers : Progress(w)
        /\ \A r \in Readers : ReadSoFar(r)

AbstractStep == File!ANext \/ UNCHANGED <<File!avars>>

Untouched == UNCHANGED <<inode, name, settled, reader>>

\* A step that leaves files, names and readers alone, and in which calls at
\* most let go of their files, keeps the invariant if its calls are in order.
LEMMA CallOnly ==
  ASSUME IInv, Untouched, TypeOK',
         \A w \in Writers : writer'[w].temp \in {writer[w].temp, None},
         \A w \in Writers : Progress(w)'
  PROVE  IInv'
<1>1. SeenIsWhole'
  BY DEF IInv, SeenIsWhole, Seen, Whole, Untouched
<1>2. TempsApart'
  BY DEF IInv, TempsApart, Seen, Untouched
<1>3. \A r \in Readers : ReadSoFar(r)'
  BY DEF IInv, ReadSoFar, Untouched
<1> QED
  BY <1>1, <1>2, <1>3 DEF IInv

\* What is left of the types in a step that changes one call and no file.
LEMMA CallTyped ==
  ASSUME IInv, DirOnly, UNCHANGED inode, NEW w \in Writers, NEW c,
         c \in [pc : Steps \cup Over \cup {"return", "cleanup"},
                want : Contents, perm : Modes, temp : Inodes \cup {None}],
         c.pc \in Staging => c.temp # None,
         writer' = [writer EXCEPT ![w] = c]
  PROVE  TypeOK'
<1>1. writer \in [Writers -> [pc : Steps \cup Over \cup {"return", "cleanup"},
                             want : Contents, perm : Modes, temp : Inodes \cup {None}]]
  BY DEF IInv, TypeOK
<1>2. writer'[w] = c /\ \A u \in Writers \ {w} : writer'[u] = writer[u]
  BY <1>1
<1>3. writer' \in [Writers -> [pc : Steps \cup Over \cup {"return", "cleanup"},
                              want : Contents, perm : Modes, temp : Inodes \cup {None}]]
  BY <1>1
<1>4. \A u \in Writers : writer'[u].pc \in Staging => writer'[u].temp # None
  BY <1>2 DEF IInv, TypeOK
<1> QED
  BY <1>3, <1>4 DEF IInv, TypeOK, DirOnly

\* The steps of a call that touch no file.
LEMMA QuietSteps ==
  ASSUME IInv, NEW w \in Writers,
         Call(w) \/ Stat(w) \/ Close(w) \/ Return(w) \/ Fail(w) \/ Cleanup(w) \/ Kill(w)
  PROVE  IInv'
<1>1. Untouched
  BY DEF Untouched, Call, Stat, Close, Return, Fail, Cleanup, Kill, DirOnly
<1>2. TypeOK'
  <2>1. CASE Call(w)
    <3>1. PICK v \in Contents, m \in CallerModes :
             writer' = [writer EXCEPT ![w] = [Quiet(v) EXCEPT !.pc = "stat", !.perm = m]]
      BY <2>1 DEF Call
    <3> DEFINE c == [Quiet(v) EXCEPT !.pc = "stat", !.perm = m]
    <3>2. c \in [pc : Steps \cup Over \cup {"return", "cleanup"},
                 want : Contents, perm : Modes, temp : Inodes \cup {None}]
          /\ c.pc = "stat"
      BY DEF Quiet, Steps, Modes
    <3>3. c.pc \notin Staging
      BY <3>2 DEF Staging
    <3>4. writer' = [writer EXCEPT ![w] = c] /\ DirOnly /\ UNCHANGED inode
      BY <2>1, <3>1 DEF Call
    <3> HIDE DEF c
    <3> QED
      BY <3>2, <3>3, <3>4, CallTyped
  <2>2. CASE Stat(w)
    <3> DEFINE m == IF name = None THEN writer[w].perm ELSE inode[name].mode
               c == [writer[w] EXCEPT !.pc = "create", !.perm = m]
    <3>1. m \in Modes
      BY DEF IInv, TypeOK
    <3>2. writer' = [writer EXCEPT ![w] = c]
      BY <2>2 DEF Stat
    <3> HIDE DEF m
    <3>3. c \in [pc : Steps \cup Over \cup {"return", "cleanup"},
                 want : Contents, perm : Modes, temp : Inodes \cup {None}]
          /\ c.pc = "create"
      BY <3>1 DEF IInv, TypeOK, Steps
    <3>4. c.pc \notin Staging
      BY <3>3 DEF Staging
    <3> HIDE DEF c
    <3> QED
      BY <2>2, <3>2, <3>3, <3>4, CallTyped DEF Stat
  <2>3. CASE Close(w)
    BY <2>3 DEF IInv, TypeOK, Close, At, Goto, DirOnly, Over, Steps, Staging
  <2>4. CASE Return(w)
    BY <2>4 DEF IInv, TypeOK, Return, At, Goto, DirOnly, Over, Steps, Staging
  <2>5. CASE Fail(w)
    <3>1. CASE writer[w].temp = None
      BY <2>5, <3>1 DEF IInv, TypeOK, Fail, Goto, DirOnly, Over, Steps, Staging
    <3>2. CASE writer[w].temp # None
      BY <2>5, <3>2 DEF IInv, TypeOK, Fail, Goto, DirOnly, Over, Steps, Staging
    <3> QED
      BY <3>1, <3>2
  <2>6. CASE Cleanup(w)
    <3> DEFINE c == [writer[w] EXCEPT !.pc = "failed", !.temp = None]
    <3>1. writer' = [writer EXCEPT ![w] = c]
      BY <2>6 DEF Cleanup
    <3>2. c \in [pc : Steps \cup Over \cup {"return", "cleanup"},
                 want : Contents, perm : Modes, temp : Inodes \cup {None}]
          /\ c.pc = "failed"
      BY DEF IInv, TypeOK, Over
    <3>3. c.pc \notin Staging
      BY <3>2 DEF Staging, Steps
    <3> HIDE DEF c
    <3> QED
      BY <2>6, <3>1, <3>2, <3>3, CallTyped DEF Cleanup
  <2>7. CASE Kill(w)
    BY <2>7 DEF IInv, TypeOK, Kill, Killed, Quiet, Over, Steps, Staging, Modes
  <2> QED
    BY <2>1, <2>2, <2>3, <2>4, <2>5, <2>6, <2>7
<1>3. \A u \in Writers : writer'[u].temp \in {writer[u].temp, None} /\ Progress(u)'
  <2> SUFFICES ASSUME NEW u \in Writers
               PROVE  writer'[u].temp \in {writer[u].temp, None} /\ Progress(u)'
    OBVIOUS
  <2> USE DEF Steps, Staging, Over
  <2>0. Progress(u) /\ Progress(w) /\ writer \in [Writers -> [pc : Steps \cup Over \cup {"return", "cleanup"},
                               want : Contents, perm : Modes, temp : Inodes \cup {None}]]
    BY DEF IInv, TypeOK
  <2>1. CASE Call(w)
    BY <2>0, <2>1, ZenonT(40) DEF Call, Quiet, Progress, DirOnly
  <2>2. CASE Stat(w)
    BY <2>0, <2>2 DEF Stat, At, Progress, DirOnly
  <2>3. CASE Close(w)
    BY <2>0, <2>3 DEF Close, At, Goto, Progress, DirOnly
  <2>4. CASE Return(w)
    BY <2>0, <2>4 DEF Return, At, Goto, Progress, DirOnly
  <2>5. CASE Fail(w)
    BY <2>0, <2>5 DEF Fail, Goto, Progress, DirOnly
  <2>6. CASE Cleanup(w)
    BY <2>0, <2>6 DEF Cleanup, At, Progress, DirOnly
  <2>7. CASE Kill(w)
    BY <2>0, <2>7 DEF Kill, Killed, Quiet, Progress
  <2> QED
    BY <2>1, <2>2, <2>3, <2>4, <2>5, <2>6, <2>7
<1> QED
  BY <1>1, <1>2, <1>3, CallOnly

\* A step that changes one file nobody refers to keeps the invariant if the
\* calls stay apart and in order.
LEMMA FileOnly ==
  ASSUME IInv, UNCHANGED <<name, settled, reader>>,
         NEW t \in Inodes, t \notin Seen,
         \A i \in Inodes : i # t => inode'[i] = inode[i],
         TypeOK', TempsApart', \A w \in Writers : Progress(w)'
  PROVE  IInv'
<1>1. Seen' = Seen /\ Seen \subseteq Inodes
  BY DEF Seen, IInv, TypeOK
<1>2. \A i \in Seen : inode'[i] = inode[i]
  BY <1>1
<1>3. SeenIsWhole'
  BY <1>1, <1>2 DEF IInv, SeenIsWhole, Whole
<1>4. ASSUME NEW r \in Readers
      PROVE  ReadSoFar(r)'
  <2>1. CASE reader[r].open = None
    BY <2>1 DEF IInv, ReadSoFar
  <2>2. CASE reader[r].open # None
    <3>1. inode'[reader[r].open] = inode[reader[r].open]
      BY <1>2, <2>2 DEF Seen
    <3> QED
      BY <3>1 DEF IInv, ReadSoFar
  <2> QED
    BY <2>1, <2>2
<1> QED
  BY <1>3, <1>4 DEF IInv

LEMMA BlocksType ==
  /\ \A a, b \in Contents \cup {None} : <<a, b>> \in Blocks
  /\ \A f \in Blocks : f = <<f[1], f[2]>> /\ f[1] \in Contents \cup {None} /\ f[2] \in Contents \cup {None}
BY DEF Blocks

LEMMA CreateStep ==
  ASSUME IInv, NEW w \in Writers, Create(w)
  PROVE  IInv'
<1> USE DEF Steps, Staging, Over
<1>1. PICK i \in Free :
        /\ inode' = [inode EXCEPT ![i] = [data |-> Empty, disk |-> Empty, mode |-> "0600"]]
        /\ writer' = [writer EXCEPT ![w].pc = "write", ![w].temp = i]
  BY DEF Create
<1>2. At(w, "create") /\ UNCHANGED <<name, settled, orphans, reader>>
  BY DEF Create, DirOnly
<1>3. i \in Inodes /\ i # None /\ i \notin Seen /\ \A u \in Writers : writer[u].temp # i
  BY FileAssumption DEF Free, Seen
<1>4. Empty \in Blocks
  BY BlocksType DEF Empty
<1>5. TypeOK'
  BY <1>1, <1>2, <1>3, <1>4 DEF IInv, TypeOK, Modes
<1>6. writer'[w].temp = i /\ writer'[w].pc = "write" /\ \A u \in Writers : u # w => writer'[u] = writer[u]
  BY <1>1 DEF IInv, TypeOK
<1>7. TempsApart'
  BY <1>2, <1>3, <1>6 DEF IInv, TempsApart, Seen
<1>8. \A j \in Inodes : j # i => inode'[j] = inode[j]
  BY <1>1 DEF IInv, TypeOK
<1>9. ASSUME NEW u \in Writers
      PROVE  Progress(u)'
  <2>1. CASE u = w
    BY <1>6, <2>1 DEF Progress
  <2>2. CASE u # w
    <3>1. Progress(u) /\ writer'[u] = writer[u]
      BY <1>6, <2>2 DEF IInv
    <3>2. CASE writer[u].temp = None
      <4>1. writer[u].pc \notin Staging
        BY <3>2 DEF IInv, TypeOK
      <4> QED
        BY <3>1, <3>2, <4>1 DEF Progress
    <3>3. CASE writer[u].temp # None
      <4>1. inode'[writer[u].temp] = inode[writer[u].temp]
        BY <1>3, <1>8, <3>3 DEF IInv, TypeOK
      <4> QED
        BY <3>1, <4>1 DEF Progress
    <3> QED
      BY <3>2, <3>3
  <2> QED
    BY <2>1, <2>2
<1> QED
  BY <1>2, <1>3, <1>5, <1>7, <1>8, <1>9, FileOnly

\* A step in which a call changes its own staged file.
LEMMA OwnFile ==
  ASSUME IInv, NEW w \in Writers, writer[w].pc \in Staging,
         NEW f \in [data : Blocks, disk : Blocks, mode : Modes],
         NEW p \in Staging,
         inode' = [inode EXCEPT ![writer[w].temp] = f],
         Goto(w, p), DirOnly, Progress(w)'
  PROVE  IInv'
<1> DEFINE t == writer[w].temp
<1>1. t \in Inodes /\ t # None /\ t \notin Seen
  BY DEF IInv, TypeOK, TempsApart
<1>2. writer'[w] = [writer[w] EXCEPT !.pc = p] /\ \A u \in Writers : u # w => writer'[u] = writer[u]
  BY DEF IInv, TypeOK, Goto
<1>3. \A u \in Writers : writer'[u].temp = writer[u].temp
  <2>1. writer[w] \in [pc : Steps \cup Over \cup {"return", "cleanup"},
                       want : Contents, perm : Modes, temp : Inodes \cup {None}]
    BY DEF IInv, TypeOK
  <2>2. writer'[w].temp = writer[w].temp
    BY <1>2, <2>1
  <2> QED
    BY <1>2, <2>2
<1>4. TypeOK'
  <2>1. inode' \in [Inodes -> [data : Blocks, disk : Blocks, mode : Modes]]
    BY <1>1 DEF IInv, TypeOK
  <2>2. writer' \in [Writers -> [pc : Steps \cup Over \cup {"return", "cleanup"},
                                want : Contents, perm : Modes, temp : Inodes \cup {None}]]
    BY DEF IInv, TypeOK, Goto, Staging
  <2>3. \A u \in Writers : writer'[u].pc \in Staging => writer'[u].temp # None
    BY <1>1, <1>2, <1>3 DEF IInv, TypeOK
  <2> QED
    BY <2>1, <2>2, <2>3 DEF IInv, TypeOK, DirOnly
<1>5. TempsApart'
  BY <1>3 DEF IInv, TempsApart, Seen, DirOnly
<1>6. \A i \in Inodes : i # t => inode'[i] = inode[i]
  BY DEF IInv, TypeOK
<1>7. ASSUME NEW u \in Writers
      PROVE  Progress(u)'
  <2>1. CASE u = w
    BY <2>1
  <2>2. CASE u # w
    <3>1. Progress(u) /\ writer'[u] = writer[u]
      BY <1>2, <2>2 DEF IInv
    <3>2. CASE writer[u].temp = None
      <4>1. writer[u].pc \notin Staging
        BY <3>2 DEF IInv, TypeOK
      <4> QED
        BY <3>1, <3>2, <4>1 DEF Progress, Staging, Steps
    <3>3. CASE writer[u].temp # None
      <4>1. inode'[writer[u].temp] = inode[writer[u].temp]
        BY <1>1, <1>6, <2>2, <3>3 DEF IInv, TypeOK, TempsApart
      <4> QED
        BY <3>1, <4>1 DEF Progress
    <3> QED
      BY <3>2, <3>3
  <2> QED
    BY <2>1, <2>2
<1> HIDE DEF t
<1> QED
  BY <1>1, <1>4, <1>5, <1>6, <1>7, FileOnly DEF DirOnly

LEMMA WriteStep ==
  ASSUME IInv, NEW w \in Writers, Write(w)
  PROVE  IInv'
<1> USE DEF Steps, Staging
<1> DEFINE g == inode[writer[w].temp]
           v == writer[w].want
<1>1. writer[w].pc \in Staging /\ g \in [data : Blocks, disk : Blocks, mode : Modes] /\ v \in Contents
      /\ g.data[1] \in Contents \cup {None} /\ g.data[2] \in Contents \cup {None}
  <2>1. writer[w].pc \in Staging
    BY DEF Write, At
  <2>2. g \in [data : Blocks, disk : Blocks, mode : Modes] /\ v \in Contents
    BY <2>1 DEF IInv, TypeOK
  <2> QED
    BY <2>1, <2>2, BlocksType
<1>2. CASE At(w, "write")
  <2> DEFINE f == [g EXCEPT !.data = <<v, g.data[2]>>]
  <2>1. inode' = [inode EXCEPT ![writer[w].temp] = f] /\ Goto(w, "write_rest") /\ DirOnly
    BY <1>2 DEF Write, At
  <2>2. f \in [data : Blocks, disk : Blocks, mode : Modes]
    BY <1>1, BlocksType
  <2>3. writer'[w] = [writer[w] EXCEPT !.pc = "write_rest"]
    BY <2>1 DEF Goto, IInv, TypeOK
  <2>4. inode'[writer[w].temp] = f /\ f.data = <<v, g.data[2]>>
    BY <1>1, <2>1 DEF IInv, TypeOK
  <2>5. writer'[w].pc = "write_rest" /\ writer'[w].want = v /\ writer'[w].temp = writer[w].temp
    BY <2>3 DEF IInv, TypeOK
  <2>6. inode'[writer'[w].temp].data[1] = v
    <3>1. inode'[writer'[w].temp].data = <<v, g.data[2]>>
      BY <2>4, <2>5
    <3>2. <<v, g.data[2]>>[1] = v
      OBVIOUS
    <3> HIDE DEF g, v
    <3> QED
      BY <3>1, <3>2
  <2>7. Progress(w)'
    BY <2>5, <2>6 DEF Progress
  <2> HIDE DEF f
  <2> QED
    BY <1>1, <2>1, <2>2, <2>7, OwnFile
<1>3. CASE At(w, "write_rest")
  <2> DEFINE f == [g EXCEPT !.data = <<g.data[1], v>>]
  <2>1. inode' = [inode EXCEPT ![writer[w].temp] = f] /\ Goto(w, "sync") /\ DirOnly
    BY <1>3 DEF Write, At
  <2>2. f \in [data : Blocks, disk : Blocks, mode : Modes]
    BY <1>1, BlocksType
  <2>3. writer'[w] = [writer[w] EXCEPT !.pc = "sync"]
    BY <2>1 DEF Goto, IInv, TypeOK
  <2>4. inode'[writer[w].temp] = f /\ f.data = <<g.data[1], v>>
    BY <1>1, <2>1 DEF IInv, TypeOK
  <2>5. writer'[w].pc = "sync" /\ writer'[w].want = v /\ writer'[w].temp = writer[w].temp
    BY <2>3 DEF IInv, TypeOK
  <2>6. g.data[1] = v
    BY <1>3 DEF IInv, Progress, At
  <2>7. Progress(w)'
    BY <2>4, <2>5, <2>6 DEF Progress, Full
  <2> HIDE DEF f
  <2> QED
    BY <1>1, <2>1, <2>2, <2>7, OwnFile
<1> QED
  BY <1>2, <1>3 DEF Write

LEMMA SyncStep ==
  ASSUME IInv, NEW w \in Writers, Sync(w)
  PROVE  IInv'
<1> USE DEF Steps, Staging
<1> DEFINE g == inode[writer[w].temp]
           f == [g EXCEPT !.disk = g.data]
<1>1. writer[w].pc = "sync" /\ Goto(w, "chmod") /\ DirOnly /\ inode' = [inode EXCEPT ![writer[w].temp] = f]
  BY DEF Sync, At
<1>2. g \in [data : Blocks, disk : Blocks, mode : Modes] /\ g.data = Full(writer[w].want)
  BY <1>1 DEF IInv, TypeOK, Progress
<1>3. f \in [data : Blocks, disk : Blocks, mode : Modes]
  BY <1>2
<1>4. inode'[writer[w].temp] = f /\ writer'[w] = [writer[w] EXCEPT !.pc = "chmod"]
  BY <1>1 DEF IInv, TypeOK, Goto
<1>5. writer'[w].pc = "chmod" /\ writer'[w].want = writer[w].want /\ writer'[w].temp = writer[w].temp
  BY <1>1, <1>4 DEF IInv, TypeOK
<1>6. inode'[writer'[w].temp].data = g.data /\ inode'[writer'[w].temp].disk = g.data
  BY <1>2, <1>4, <1>5
<1> HIDE DEF g, f
<1>7. Progress(w)'
  BY <1>2, <1>5, <1>6 DEF Progress
<1> QED
  BY <1>1, <1>3, <1>7, OwnFile

LEMMA ChmodStep ==
  ASSUME IInv, NEW w \in Writers, Chmod(w)
  PROVE  IInv'
<1> USE DEF Steps, Staging
<1> DEFINE g == inode[writer[w].temp]
           f == [g EXCEPT !.mode = writer[w].perm]
<1>1. writer[w].pc = "chmod" /\ Goto(w, "close") /\ DirOnly /\ inode' = [inode EXCEPT ![writer[w].temp] = f]
  BY DEF Chmod, At
<1>2. g \in [data : Blocks, disk : Blocks, mode : Modes] /\ g.data = Full(writer[w].want) /\ g.disk = g.data
  BY <1>1 DEF IInv, TypeOK, Progress
<1>3. f \in [data : Blocks, disk : Blocks, mode : Modes]
  BY <1>1, <1>2 DEF IInv, TypeOK
<1>4. inode'[writer[w].temp] = f /\ writer'[w] = [writer[w] EXCEPT !.pc = "close"]
  BY <1>1 DEF IInv, TypeOK, Goto
<1>5. writer'[w].pc = "close" /\ writer'[w].want = writer[w].want /\ writer'[w].temp = writer[w].temp
  BY <1>4 DEF IInv, TypeOK
<1>6. inode'[writer'[w].temp].data = g.data /\ inode'[writer'[w].temp].disk = g.disk
  BY <1>2, <1>4, <1>5
<1> HIDE DEF g, f
<1>7. Progress(w)'
  BY <1>2, <1>5, <1>6 DEF Progress
<1> QED
  BY <1>1, <1>3, <1>7, OwnFile

LEMMA RenameStep ==
  ASSUME IInv, NEW w \in Writers, Rename(w)
  PROVE  IInv'
<1> USE DEF Steps, Staging, Over
<1> DEFINE t == writer[w].temp
<1>1. /\ writer[w].pc = "rename" /\ name' = t
      /\ writer' = [writer EXCEPT ![w].pc = "return", ![w].temp = None]
      /\ UNCHANGED <<inode, settled, orphans, reader>>
  BY DEF Rename, At
<1>2. t \in Inodes /\ t # None /\ Whole(t)
  BY <1>1 DEF IInv, TypeOK, Progress, Whole
<1>3. TypeOK'
  BY <1>1, <1>2 DEF IInv, TypeOK
<1>4. Seen' \subseteq Seen \cup {t}
  BY <1>1 DEF Seen
<1>5. SeenIsWhole'
  BY <1>1, <1>2, <1>4 DEF IInv, SeenIsWhole, Whole
<1>6. /\ writer'[w].pc = "return" /\ writer'[w].temp = None
      /\ \A u \in Writers : u # w => writer'[u] = writer[u]
  BY <1>1 DEF IInv, TypeOK
<1>7. TempsApart'
  BY <1>2, <1>4, <1>6 DEF IInv, TempsApart
<1>8. \A u \in Writers : Progress(u)'
  BY <1>1, <1>6, ZenonT(40) DEF IInv, Progress
<1>9. \A r \in Readers : ReadSoFar(r)'
  BY <1>1 DEF IInv, ReadSoFar
<1> QED
  BY <1>3, <1>5, <1>7, <1>8, <1>9 DEF IInv

\* The disk takes in the blocks of a file.
LEMMA FlushStep ==
  ASSUME IInv, NEW i \in Inodes, Flush(i)
  PROVE  IInv'
<1> USE DEF Steps, Staging
<1>1. inode' = [inode EXCEPT ![i].disk = inode[i].data] /\ UNCHANGED <<name, settled, orphans, reader, writer>>
  BY DEF Flush, DirOnly
<1>2. TypeOK'
  BY <1>1 DEF IInv, TypeOK
<1>3. \A j \in Inodes : inode'[j].data = inode[j].data /\ (inode'[j].disk = inode[j].disk \/ inode'[j].disk = inode[j].data)
  BY <1>1 DEF IInv, TypeOK
<1>4. Seen' = Seen /\ Seen \subseteq Inodes
  BY <1>1 DEF Seen, IInv, TypeOK
<1>5. SeenIsWhole'
  BY <1>3, <1>4 DEF IInv, SeenIsWhole, Whole
<1>6. TempsApart'
  BY <1>1, <1>4 DEF IInv, TempsApart
<1>7. ASSUME NEW u \in Writers
      PROVE  Progress(u)'
  <2>1. Progress(u) /\ (writer[u].pc \in Staging => writer[u].temp \in Inodes)
    BY DEF IInv, TypeOK
  <2> QED
    BY <1>1, <1>3, <2>1 DEF Progress
<1>8. ASSUME NEW r \in Readers
      PROVE  ReadSoFar(r)'
  <2>1. ReadSoFar(r) /\ (reader[r].open # None => reader[r].open \in Inodes)
    BY DEF IInv, TypeOK
  <2> QED
    BY <1>1, <1>3, <2>1 DEF ReadSoFar
<1> QED
  BY <1>2, <1>5, <1>6, <1>7, <1>8 DEF IInv

LEMMA SettleNameStep ==
  ASSUME IInv, SettleName
  PROVE  IInv'
<1>1. settled' = name /\ UNCHANGED <<inode, name, writer, orphans, reader>>
  BY DEF SettleName
<1>2. TypeOK'
  BY <1>1 DEF IInv, TypeOK
<1>3. Seen' \subseteq Seen
  BY <1>1 DEF Seen
<1>4. SeenIsWhole' /\ TempsApart'
  BY <1>1, <1>3 DEF IInv, SeenIsWhole, Whole, TempsApart
<1>5. (\A u \in Writers : Progress(u)') /\ (\A r \in Readers : ReadSoFar(r)')
  BY <1>1 DEF IInv, Progress, ReadSoFar
<1> QED
  BY <1>2, <1>4, <1>5 DEF IInv

LEMMA PowerLossStep ==
  ASSUME IInv, PowerLoss
  PROVE  IInv'
<1> USE DEF Steps, Staging, Over
<1>1. /\ name' = settled /\ UNCHANGED <<settled, orphans>>
      /\ inode' = [i \in Inodes |-> [inode[i] EXCEPT !.data = inode[i].disk]]
      /\ writer' = [w \in Writers |-> Quiet(writer[w].want)]
      /\ reader' = [r \in Readers |-> [open |-> None, got |-> <<>>]]
  BY DEF PowerLoss, Killed
<1>2. \A u \in Writers : writer'[u].pc = "idle" /\ writer'[u].temp = None
  BY <1>1 DEF Quiet
<1>3. \A r \in Readers : reader'[r].open = None /\ reader'[r].got = <<>>
  BY <1>1
<1>4. \A i \in Inodes : inode'[i].data = inode[i].disk /\ inode'[i].disk = inode[i].disk
  BY <1>1 DEF IInv, TypeOK
<1>5. TypeOK'
  <2>1. inode' \in [Inodes -> [data : Blocks, disk : Blocks, mode : Modes]]
    BY <1>1 DEF IInv, TypeOK
  <2>2. writer' \in [Writers -> [pc : Steps \cup Over \cup {"return", "cleanup"},
                               want : Contents, perm : Modes, temp : Inodes \cup {None}]]
    BY <1>1 DEF IInv, TypeOK, Quiet, Modes
  <2>3. <<>> \in Seq(Contents \cup {None})
    OBVIOUS
  <2>4. reader' \in [Readers -> [open : Inodes \cup {None}, got : Seq(Contents \cup {None})]]
    BY <1>1, <2>3
  <2> QED
    BY <1>1, <1>2, <2>1, <2>2, <2>4 DEF IInv, TypeOK
<1>6. Seen' \subseteq Seen /\ Seen \subseteq Inodes
  BY <1>1, <1>3 DEF Seen, IInv, TypeOK
<1>7. SeenIsWhole'
  BY <1>4, <1>6 DEF IInv, SeenIsWhole, Whole
<1>8. TempsApart' /\ \A u \in Writers : Progress(u)'
  BY <1>2 DEF TempsApart, Progress
<1>9. \A r \in Readers : ReadSoFar(r)'
  BY <1>3 DEF ReadSoFar
<1> QED
  BY <1>5, <1>7, <1>8, <1>9 DEF IInv

LEMMA ReaderSteps ==
  ASSUME IInv, NEW r \in Readers, OpenForRead(r) \/ ReadBlock(r)
  PROVE  IInv'
<1>1. UNCHANGED <<inode, name, settled, writer, orphans>>
  BY DEF OpenForRead, ReadBlock
<1>2. \A q \in Readers : q # r => reader'[q] = reader[q]
  BY DEF IInv, TypeOK, OpenForRead, ReadBlock
<1>3. /\ reader' \in [Readers -> [open : Inodes \cup {None}, got : Seq(Contents \cup {None})]]
      /\ reader'[r].open \in Seen \cup {None}
      /\ ReadSoFar(r)'
  <2>1. CASE OpenForRead(r)
    <3>1. reader'[r] = [open |-> name, got |-> <<>>] /\ name # None
      BY <2>1 DEF OpenForRead, IInv, TypeOK
    <3>2. <<>> \in Seq(Contents \cup {None}) /\ Len(<<>>) = 0
      OBVIOUS
    <3>3. reader' \in [Readers -> [open : Inodes \cup {None}, got : Seq(Contents \cup {None})]]
      BY <2>1, <3>2 DEF OpenForRead, IInv, TypeOK
    <3>4. ReadSoFar(r)'
      BY <3>1, <3>2 DEF ReadSoFar
    <3> QED
      BY <3>1, <3>3, <3>4 DEF Seen
  <2>2. CASE ReadBlock(r)
    <3> DEFINE got == reader[r].got
               i == reader[r].open
    <3>1. i \in Inodes /\ i \in Seen /\ i # None /\ got \in Seq(Contents \cup {None}) /\ Len(got) \in 0..2
      BY <2>2 DEF ReadBlock, IInv, TypeOK, ReadSoFar, Seen
    <3>2. inode[i].data[1] \in Contents \cup {None} /\ inode[i].data[2] \in Contents \cup {None}
      <4>1. inode[i].data \in Blocks
        BY <3>1 DEF IInv, TypeOK
      <4> QED
        BY <4>1, BlocksType
    <3>3. CASE Len(got) = 2
      <4>1. reader' = [reader EXCEPT ![r].got = <<>>, ![r].open = None]
        BY <2>2, <3>3 DEF ReadBlock
      <4>2. reader'[r].open = None /\ reader'[r].got = <<>>
        BY <4>1 DEF IInv, TypeOK
      <4>3. <<>> \in Seq(Contents \cup {None})
        OBVIOUS
      <4>4. reader' \in [Readers -> [open : Inodes \cup {None}, got : Seq(Contents \cup {None})]]
        BY <4>1, <4>3 DEF IInv, TypeOK
      <4> QED
        BY <4>2, <4>4 DEF ReadSoFar
    <3>4. CASE Len(got) = 0 \/ Len(got) = 1
      <4> DEFINE b == inode[i].data[Len(got) + 1]
      <4>0. ~(Len(got) + 1 > 2) /\ (Len(got) + 1 = 1 \/ Len(got) + 1 = 2)
        <5>1. \A n : n = 0 \/ n = 1 => ~(n + 1 > 2) /\ (n + 1 = 1 \/ n + 1 = 2)
          OBVIOUS
        <5> QED
          BY <3>4, <5>1
      <4>1. reader' = [reader EXCEPT ![r].got = Append(got, b), ![r].open = i]
        BY <2>2, <4>0 DEF ReadBlock
      <4>2. b \in Contents \cup {None}
        <5>1. CASE Len(got) + 1 = 1
          BY <3>2, <5>1
        <5>2. CASE Len(got) + 1 = 2
          BY <3>2, <5>2
        <5> QED
          BY <4>0, <5>1, <5>2
      <4>3. /\ Append(got, b) \in Seq(Contents \cup {None})
            /\ Len(Append(got, b)) = Len(got) + 1
            /\ \A k \in 1..Len(got) : Append(got, b)[k] = got[k]
            /\ Append(got, b)[Len(got) + 1] = b
        BY <3>1, <4>2
      <4>4. reader' \in [Readers -> [open : Inodes \cup {None}, got : Seq(Contents \cup {None})]]
        <5>1. i \in Inodes \cup {None}
          BY <3>1
        <5>2. Append(got, b) \in Seq(Contents \cup {None})
          BY <4>3
        <5> DEFINE more == Append(got, b)
                   rec  == [reader[r] EXCEPT !.got = more, !.open = i]
        <5>3. reader' = [reader EXCEPT ![r] = rec]
          BY <4>1 DEF IInv, TypeOK
        <5> HIDE DEF more, b, got
        <5>4. rec \in [open : Inodes \cup {None}, got : Seq(Contents \cup {None})]
          BY <5>1, <5>2 DEF IInv, TypeOK, more
        <5> QED
          BY <5>3, <5>4 DEF IInv, TypeOK
      <4>5. reader'[r].open = i /\ reader'[r].got = Append(got, b)
        BY <4>1 DEF IInv, TypeOK
      <4>6. Len(got) = 1 => got[1] = inode[i].data[1]
        BY SMTT(30) DEF IInv, ReadSoFar
      <4>7. ReadSoFar(r)'
        BY <1>1, <3>1, <3>4, <4>3, <4>5, <4>6, SMTT(20) DEF ReadSoFar
      <4> QED
        BY <3>1, <4>4, <4>5, <4>7
    <3> QED
      BY <3>1, <3>3, <3>4
  <2> QED
    BY <2>1, <2>2
<1>4. TypeOK'
  BY <1>1, <1>3 DEF IInv, TypeOK
<1>5. Seen' \subseteq Seen
  BY <1>1, <1>2, <1>3 DEF Seen
<1>6. SeenIsWhole' /\ TempsApart'
  BY <1>1, <1>5 DEF IInv, SeenIsWhole, Whole, TempsApart
<1>7. \A u \in Writers : Progress(u)'
  BY <1>1 DEF IInv, Progress
<1>8. \A q \in Readers : ReadSoFar(q)'
  BY <1>1, <1>2, <1>3, ZenonT(40) DEF IInv, ReadSoFar
<1> QED
  BY <1>4, <1>6, <1>7, <1>8 DEF IInv

LEMMA InitStep == Init => IInv
<1> SUFFICES ASSUME Init PROVE IInv
  OBVIOUS
<1>1. PICK v \in Contents :
        /\ inode = [i \in Inodes |-> [data |-> Full(v), disk |-> Full(v), mode |-> "user"]]
        /\ writer = [w \in Writers |-> Quiet(v)]
  BY DEF Init
<1>2. /\ name \in Inodes \cup {None} /\ settled = name /\ orphans = {}
      /\ reader = [r \in Readers |-> [open |-> None, got |-> <<>>]]
  BY DEF Init
<1>3. Full(v) \in Blocks /\ <<>> \in Seq(Contents \cup {None})
  BY BlocksType DEF Full
<1>4. TypeOK
  BY <1>1, <1>2, <1>3 DEF TypeOK, Quiet, Modes, Steps, Over, Staging
<1>5. Seen \subseteq Inodes /\ \A i \in Inodes : Whole(i)
  BY <1>1, <1>2 DEF Seen, Whole
<1>6. \A w \in Writers : writer[w].temp = None /\ writer[w].pc = "idle"
  BY <1>1 DEF Quiet
<1>7. TempsApart /\ \A w \in Writers : Progress(w)
  BY <1>6 DEF TempsApart, Progress
<1>8. \A r \in Readers : ReadSoFar(r)
  BY <1>2 DEF ReadSoFar
<1> QED
  BY <1>4, <1>5, <1>7, <1>8 DEF IInv, SeenIsWhole

LEMMA NextStep == IInv /\ [Next]_vars => IInv'
<1> SUFFICES ASSUME IInv, [Next]_vars PROVE IInv'
  OBVIOUS
<1>1. ASSUME NEW w \in Writers, Call(w) \/ CallStep(w) \/ Kill(w)
      PROVE  IInv'
  BY <1>1, QuietSteps, CreateStep, WriteStep, SyncStep, ChmodStep, RenameStep DEF CallStep
<1>2. CASE UNCHANGED vars
  BY <1>2 DEF vars, IInv, TypeOK, SeenIsWhole, Seen, Whole, TempsApart, Progress, ReadSoFar
<1> QED
  BY <1>1, <1>2, FlushStep, SettleNameStep, PowerLossStep, ReaderSteps DEF Next

THEOREM Invariance == Spec => []IInv
BY InitStep, NextStep, PTL DEF Spec

\* The variables keep their types; a call past CreateTemp owns a staging file.
THEOREM TypeCorrect == Spec => []TypeOK
BY Invariance, PTL DEF IInv

\* However calls, kills, power losses and readers interleave: a program that
\* reads the target to the end has read one whole content.
THEOREM WholeReads == Spec => []ReadsAreWhole
<1>1. IInv => ReadsAreWhole
  <2> SUFFICES ASSUME IInv, NEW r \in Readers, Len(reader[r].got) = 2
               PROVE  \E v \in Contents : reader[r].got = Full(v)
    BY DEF ReadsAreWhole
  <2> DEFINE got == reader[r].got
  <2>1. got[1] = inode[reader[r].open].data[1] /\ got[2] = inode[reader[r].open].data[2]
    BY DEF IInv, ReadSoFar
  <2>2. got \in Seq(Contents \cup {None}) /\ reader[r].open # None
    <3>1. got \in Seq(Contents \cup {None})
      BY DEF IInv, TypeOK
    <3>2. got # <<>>
      OBVIOUS
    <3> QED
      BY <3>1, <3>2 DEF IInv, ReadSoFar
  <2>3. PICK v \in Contents : inode[reader[r].open].data = Full(v)
    BY <2>2 DEF IInv, SeenIsWhole, Seen, Whole
  <2>4. got[1] = v /\ got[2] = v
    BY <2>1, <2>3 DEF Full
  <2>5. got = <<v, v>>
    BY <2>2, <2>4
  <2> QED
    BY <2>5 DEF Full
<1> QED
  BY <1>1, Invariance, PTL

\* No call that has returned, with success or an error, leaves a staging file.
THEOREM NothingStaged == Spec => []NothingStagedAfterReturn
<1>1. IInv => NothingStagedAfterReturn
  BY DEF IInv, Progress, NothingStagedAfterReturn, Staging, Steps, Over
<1> QED
  BY <1>1, Invariance, PTL

(***************************************************************************)
(* The refinement.                                                         *)
(***************************************************************************)
AbsCall == [w \in Writers |-> [state |-> CallState(writer[w].pc), value |-> Full(writer[w].want)]]

ContentKept == /\ ContentAt(name, "data")' = ContentAt(name, "data")
               /\ ContentAt(settled, "disk")' = ContentAt(settled, "disk")

\* What the target holds does not change with a step that keeps the files
\* that are referred to.
LEMMA KeepContent ==
  ASSUME IInv, UNCHANGED <<name, settled>>,
         \A i \in Seen : inode'[i].data = inode[i].data /\ inode'[i].disk = inode[i].disk
  PROVE  ContentKept
BY DEF ContentKept, ContentAt, Seen

\* The calls seen from outside, when one of them moves.
LEMMA MoveOne ==
  ASSUME IInv, NEW w \in Writers,
         \A u \in Writers : u # w => writer'[u] = writer[u],
         writer'[w].want = writer[w].want
  PROVE  AbsCall' = [AbsCall EXCEPT ![w].state = CallState(writer'[w].pc)]
BY DEF AbsCall

\* A step that keeps what the target holds and how the calls look.
LEMMA Stutters ==
  ASSUME IInv, NEW w \in Writers, ContentKept,
         \A u \in Writers : u # w => writer'[u] = writer[u],
         writer'[w].want = writer[w].want,
         CallState(writer'[w].pc) = CallState(writer[w].pc)
  PROVE  AbstractStep
<1>1. AbsCall' = AbsCall
  BY DEF AbsCall
<1> QED
  BY <1>1 DEF AbstractStep, File!avars, ContentKept, AbsCall

\* The steps that look like nothing from outside.
LEMMA InnerSteps ==
  ASSUME IInv, IInv', NEW w \in Writers,
         Stat(w) \/ Create(w) \/ Write(w) \/ Sync(w) \/ Chmod(w) \/ Close(w)
  PROVE  AbstractStep
<1>1. UNCHANGED <<name, settled>>
  BY DEF Stat, Create, Write, Sync, Chmod, Close, DirOnly
<1>2. \A i \in Seen : inode'[i].data = inode[i].data /\ inode'[i].disk = inode[i].disk
  <2>0. Seen \subseteq Inodes /\ (writer[w].temp # None => writer[w].temp \in Inodes \ Seen)
    BY DEF IInv, TypeOK, Seen, TempsApart
  <2>1. CASE Create(w)
    <3>1. PICK i \in Free :
            inode' = [inode EXCEPT ![i] = [data |-> Empty, disk |-> Empty, mode |-> "0600"]]
      BY <2>1 DEF Create
    <3>2. i \notin Seen
      BY DEF Free, Seen
    <3> QED
      BY <2>0, <3>1, <3>2 DEF IInv, TypeOK
  <2>2. CASE Write(w) \/ Sync(w) \/ Chmod(w)
    <3>1. writer[w].pc \in Staging
      BY <2>2 DEF Write, Sync, Chmod, At, Staging, Steps
    <3>2. writer[w].temp # None
      BY <3>1 DEF IInv, TypeOK
    <3>3. \A i \in Inodes : i # writer[w].temp => inode'[i] = inode[i]
      BY <2>2 DEF Write, Sync, Chmod, IInv, TypeOK
    <3> QED
      BY <2>0, <3>2, <3>3
  <2>3. CASE Stat(w) \/ Close(w)
    BY <2>3 DEF Stat, Close
  <2> QED
    BY <2>1, <2>2, <2>3
<1>3. ContentKept
  BY <1>1, <1>2, KeepContent
<1>4. /\ \A u \in Writers : u # w => writer'[u] = writer[u]
      /\ writer'[w].want = writer[w].want
      /\ writer[w].pc \in Steps
      /\ writer'[w].pc \in Steps
  <2> USE DEF IInv, TypeOK, At, Goto, Steps
  <2>1. CASE Stat(w)
    BY <2>1 DEF Stat
  <2>2. CASE Create(w)
    <3>1. PICK i \in Free : writer' = [writer EXCEPT ![w].pc = "write", ![w].temp = i]
      BY <2>2 DEF Create
    <3>2. writer[w].pc = "create"
      BY <2>2 DEF Create
    <3> QED
      BY <3>1, <3>2
  <2>3. CASE Write(w)
    BY <2>3 DEF Write
  <2>4. CASE Sync(w) \/ Chmod(w) \/ Close(w)
    BY <2>4 DEF Sync, Chmod, Close
  <2> QED
    BY <2>1, <2>2, <2>3, <2>4
<1>5. CallState(writer'[w].pc) = CallState(writer[w].pc)
  BY <1>4 DEF CallState
<1> QED
  BY <1>3, <1>4, <1>5, Stutters

\* The steps that move a call as seen from outside.
LEMMA OuterSteps ==
  ASSUME IInv, NEW w \in Writers,
         Call(w) \/ Rename(w) \/ Return(w) \/ Fail(w) \/ Cleanup(w) \/ Kill(w)
  PROVE  AbstractStep
<1> USE DEF Steps, Over
<1>1. CASE Call(w)
  <2>1. PICK v \in Contents, m \in CallerModes :
                writer' = [writer EXCEPT ![w] = [Quiet(v) EXCEPT !.pc = "stat", !.perm = m]]
    BY <1>1 DEF Call
  <2>2. CallState(writer[w].pc) \notin {"open", "landed"}
    BY <1>1 DEF Call, CallState
  <2>3. /\ writer'[w].pc = "stat" /\ writer'[w].want = v
        /\ \A u \in Writers : u # w => writer'[u] = writer[u]
    BY <2>1 DEF IInv, TypeOK, Quiet
  <2>4. AbsCall' = [AbsCall EXCEPT ![w] = [state |-> "open", value |-> Full(v)]]
    BY <2>3 DEF AbsCall, CallState
  <2>5. ContentKept
    BY <1>1 DEF Call, DirOnly, ContentKept, ContentAt
  <2>6. File!Open(w, Full(v))
    BY <2>2, <2>4, <2>5 DEF File!Open, AbsCall, ContentKept
  <2> QED
    BY <2>6 DEF AbstractStep, File!ANext
<1>2. CASE Rename(w)
  <2>1. /\ writer[w].pc = "rename" /\ name' = writer[w].temp
        /\ UNCHANGED <<inode, settled>>
        /\ writer'[w].pc = "return" /\ writer'[w].want = writer[w].want
        /\ \A u \in Writers : u # w => writer'[u] = writer[u]
    BY <1>2 DEF Rename, At, IInv, TypeOK
  <2>2. name' # None /\ inode'[name'].data = Full(writer[w].want)
    BY <2>1 DEF IInv, TypeOK, Progress, Staging
  <2>3. AbsCall' = [AbsCall EXCEPT ![w].state = "landed"] /\ AbsCall[w].state = "open"
        /\ AbsCall[w].value = Full(writer[w].want)
    BY <2>1, MoveOne DEF AbsCall, CallState
  <2>4. ContentAt(name, "data")' = Full(writer[w].want)
        /\ ContentAt(settled, "disk")' = ContentAt(settled, "disk")
    BY <2>1, <2>2 DEF ContentAt
  <2>5. File!Land(w)
    BY <2>3, <2>4 DEF File!Land, File!Move, AbsCall
  <2> QED
    BY <2>5 DEF AbstractStep, File!ANext
<1>3. CASE Return(w)
  <2>1. /\ writer[w].pc = "return" /\ writer'[w].pc = "ok" /\ writer'[w].want = writer[w].want
        /\ \A u \in Writers : u # w => writer'[u] = writer[u]
    BY <1>3 DEF Return, At, Goto, IInv, TypeOK
  <2>2. AbsCall' = [AbsCall EXCEPT ![w].state = "ok"] /\ AbsCall[w].state = "landed"
    BY <2>1, MoveOne DEF AbsCall, CallState
  <2>3. ContentKept
    BY <1>3 DEF Return, DirOnly, ContentKept, ContentAt
  <2>4. File!Succeed(w)
    BY <2>2, <2>3 DEF File!Succeed, File!Move, AbsCall, ContentKept
  <2> QED
    BY <2>4 DEF AbstractStep, File!ANext
<1>4. CASE Fail(w) \/ Cleanup(w)
  <2>1. /\ writer[w].pc \in Steps \cup {"cleanup"} /\ writer'[w].pc \in {"failed", "cleanup"}
        /\ writer'[w].want = writer[w].want
        /\ \A u \in Writers : u # w => writer'[u] = writer[u]
    BY <1>4 DEF Fail, Cleanup, At, Goto, IInv, TypeOK
  <2>2. ContentKept
    BY <1>4 DEF Fail, Cleanup, DirOnly, ContentKept, ContentAt
  <2>3. CASE writer'[w].pc = "cleanup"
    <3>1. CallState(writer'[w].pc) = CallState(writer[w].pc)
      BY <2>1, <2>3 DEF CallState
    <3> QED
      BY <2>1, <2>2, <3>1, Stutters
  <2>4. CASE writer'[w].pc = "failed"
    <3>1. AbsCall' = [AbsCall EXCEPT ![w].state = "error"] /\ AbsCall[w].state = "open"
      BY <2>1, <2>4, MoveOne DEF AbsCall, CallState
    <3>2. File!Refuse(w)
      BY <2>2, <3>1 DEF File!Refuse, File!Move, AbsCall, ContentKept
    <3> QED
      BY <3>2 DEF AbstractStep, File!ANext
  <2> QED
    BY <2>1, <2>3, <2>4
<1>5. CASE Kill(w)
  <2>1. /\ writer'[w].pc = "idle" /\ writer'[w].want = writer[w].want
        /\ \A u \in Writers : u # w => writer'[u] = writer[u]
    BY <1>5 DEF Kill, Killed, Quiet, IInv, TypeOK
  <2>2. AbsCall' = [AbsCall EXCEPT ![w].state = "idle"]
    BY <2>1, MoveOne DEF CallState
  <2>3. ContentKept
    BY <1>5 DEF Kill, ContentKept, ContentAt
  <2>4. File!Die(w)
    BY <2>2, <2>3 DEF File!Die, File!Move, AbsCall, ContentKept
  <2> QED
    BY <2>4 DEF AbstractStep, File!ANext
<1> QED
  BY <1>1, <1>2, <1>3, <1>4, <1>5

LEMMA DiskSteps ==
  ASSUME IInv, (\E i \in Inodes : Flush(i)) \/ SettleName \/ PowerLoss
  PROVE  AbstractStep
<1>1. CASE \E i \in Inodes : Flush(i)
  <2>1. UNCHANGED <<name, settled, writer>>
    BY <1>1 DEF Flush, DirOnly
  <2>2. \A i \in Seen : inode'[i].data = inode[i].data /\ inode'[i].disk = inode[i].disk
    <3>1. PICK j \in Inodes : inode' = [inode EXCEPT ![j].disk = inode[j].data]
      BY <1>1 DEF Flush
    <3>2. Seen \subseteq Inodes /\ \A i \in Seen : inode[i].data = inode[i].disk
      BY DEF IInv, TypeOK, Seen, SeenIsWhole, Whole
    <3> QED
      BY <3>1, <3>2 DEF IInv, TypeOK
  <2>3. ContentKept
    BY <2>1, <2>2, KeepContent
  <2> QED
    BY <2>1, <2>3 DEF AbstractStep, File!avars, ContentKept
<1>2. CASE SettleName
  <2>1. settled' = name /\ UNCHANGED <<inode, name, writer>>
    BY <1>2 DEF SettleName
  <2>2. name # None => inode[name].data = inode[name].disk
    BY DEF IInv, SeenIsWhole, Seen, Whole
  <2>3. ContentAt(settled, "disk")' = ContentAt(name, "data") /\ ContentAt(name, "data")' = ContentAt(name, "data")
    BY <2>1, <2>2 DEF ContentAt
  <2>4. File!Settle
    BY <2>1, <2>3 DEF File!Settle
  <2> QED
    BY <2>4 DEF AbstractStep, File!ANext
<1>3. CASE PowerLoss
  <2>1. /\ name' = settled /\ settled' = settled
        /\ inode' = [i \in Inodes |-> [inode[i] EXCEPT !.data = inode[i].disk]]
        /\ writer' = [w \in Writers |-> Quiet(writer[w].want)]
    BY <1>3 DEF PowerLoss, Killed
  <2>2. settled # None => inode'[settled].data = inode[settled].disk /\ inode'[settled].disk = inode[settled].disk
    BY <2>1 DEF IInv, TypeOK
  <2>3. ContentAt(name, "data")' = ContentAt(settled, "disk") /\ ContentAt(settled, "disk")' = ContentAt(settled, "disk")
    BY <2>1, <2>2 DEF ContentAt
  <2>4. AbsCall' = [w \in Writers |-> [AbsCall[w] EXCEPT !.state = "idle"]]
    BY <2>1 DEF AbsCall, Quiet, CallState, Steps
  <2>5. File!PowerLoss
    BY <2>3, <2>4 DEF File!PowerLoss, AbsCall
  <2> QED
    BY <2>5 DEF AbstractStep, File!ANext
<1> QED
  BY <1>1, <1>2, <1>3

\* Readers are not part of what the file promises.
LEMMA ReadersStutter ==
  ASSUME NEW r \in Readers, OpenForRead(r) \/ ReadBlock(r)
  PROVE  AbstractStep
BY DEF OpenForRead, ReadBlock, AbstractStep, File!avars, ContentAt

LEMMA InitRefines == Init /\ IInv => File!AInit
<1> SUFFICES ASSUME Init, IInv PROVE File!AInit
  OBVIOUS
<1>1. settled = name /\ \A w \in Writers : writer[w].pc = "idle" /\ writer[w].want \in Contents
  BY DEF Init, Quiet, IInv, TypeOK
<1>2. name # None => \E v \in Contents : inode[name].data = Full(v) /\ inode[name].disk = Full(v)
  BY DEF IInv, SeenIsWhole, Seen, Whole
<1>3. ContentAt(name, "data") \in {Full(v) : v \in Contents} \cup {None}
      /\ ContentAt(settled, "disk") = ContentAt(name, "data")
  BY <1>1, <1>2 DEF ContentAt
<1>4. AbsCall \in [Writers -> File!Calls] /\ \A w \in Writers : AbsCall[w].state = "idle"
  BY <1>1 DEF AbsCall, CallState, Steps, File!Calls, File!States
<1> QED
  BY <1>3, <1>4 DEF File!AInit, AbsCall

\* The staged-and-renamed target is the file internal/fsx promises: replaced as
\* a whole at one instant of the call or not at all, through any interleaving
\* of calls, errors, kills, write-backs and power losses.
THEOREM Refinement == Spec => IsAtomicFile
<1>1. ASSUME IInv, IInv', [Next]_vars
      PROVE  [File!ANext]_(File!avars)
  <2>0. SUFFICES AbstractStep
    BY DEF AbstractStep
  <2>1. ASSUME NEW w \in Writers, Call(w) \/ CallStep(w) \/ Kill(w)
        PROVE  AbstractStep
    BY <1>1, <2>1, InnerSteps, OuterSteps DEF CallStep
  <2>2. CASE UNCHANGED vars
    BY <2>2 DEF vars, AbstractStep, File!avars, ContentAt
  <2>3. CASE Next
    <3>1. CASE \E r \in Readers : OpenForRead(r) \/ ReadBlock(r)
      BY <3>1, ReadersStutter
    <3>2. CASE (\E i \in Inodes : Flush(i)) \/ SettleName \/ PowerLoss
      BY <1>1, <3>2, DiskSteps
    <3> QED
      BY <2>1, <2>3, <3>1, <3>2 DEF Next
  <2> QED
    BY <1>1, <2>2, <2>3
<1> QED
  BY <1>1, InitStep, InitRefines, Invariance, PTL DEF Spec, IsAtomicFile, File!ASpec

(***************************************************************************)
(* The mode of the target.                                                 *)
(***************************************************************************)
\* Where the target's mode stands, C: the mode of a target that was there before
\* the calls, or the callers' modes when there was none.
ModeProgress(C, w) ==
    /\ writer[w].pc = "stat" => writer[w].perm \in CallerModes
    /\ writer[w].pc \in Steps \ {"stat"} => writer[w].perm \in C
    /\ writer[w].pc \in {"close", "rename"} => inode[writer[w].temp].mode \in C

Held(C) == name # None => inode[name].mode \in C

ModeInv(C) ==
    /\ C = CallerModes \/ (C = {"user"} /\ name # None /\ settled # None)
    /\ Held(C)
    /\ settled # None => inode[settled].mode \in C
    /\ \A w \in Writers : ModeProgress(C, w)

\* A step that keeps the mode of the target and of the staged files.
LEMMA ModesKept ==
  ASSUME NEW C, IInv, ModeInv(C), NEW w \in Writers, UNCHANGED <<name, settled>>,
         \A i \in Inodes : (i \in Seen \/ \E u \in Writers \ {w} : writer[u].temp = i)
                            => inode'[i].mode = inode[i].mode,
         \A u \in Writers : u # w => writer'[u] = writer[u],
         ModeProgress(C, w)'
  PROVE  ModeInv(C)'
<1>1. Held(C)'
  BY DEF ModeInv, Held, Seen, IInv, TypeOK
<1>2. settled # None => inode'[settled].mode = inode[settled].mode
  BY DEF Seen, IInv, TypeOK
<1>3. ASSUME NEW u \in Writers, u # w
      PROVE  ModeProgress(C, u)'
  <2>1. writer[u].pc \in {"close", "rename"} => writer[u].temp \in Inodes
    BY DEF IInv, TypeOK, Staging, Steps
  <2> QED
    BY <1>1, <1>3, <2>1 DEF ModeInv, ModeProgress
<1> QED
  BY <1>1, <1>2, <1>3 DEF ModeInv

LEMMA ModeCallSteps ==
  ASSUME NEW C, IInv, ModeInv(C), NEW w \in Writers,
         \/ Call(w) \/ Stat(w) \/ Close(w) \/ Return(w) \/ Fail(w) \/ Cleanup(w) \/ Kill(w)
         \/ Create(w) \/ Write(w) \/ Sync(w) \/ Chmod(w)
  PROVE  ModeInv(C)'
<1> USE DEF Steps, Staging, Over
<1>0. /\ writer[w].pc \in Staging => writer[w].temp \in Inodes
      /\ writer[w].temp # None => writer[w].temp \notin Seen /\ \A u \in Writers : u # w => writer[u].temp # writer[w].temp
      /\ ModeProgress(C, w)
  BY DEF IInv, TypeOK, TempsApart, ModeInv
<1>1. CASE Call(w) \/ Stat(w) \/ Close(w) \/ Return(w) \/ Fail(w) \/ Cleanup(w) \/ Kill(w)
  <2>1. UNCHANGED <<name, settled, inode>>
    BY <1>1 DEF Call, Stat, Close, Return, Fail, Cleanup, Kill, DirOnly
  <2>2. /\ \A u \in Writers : u # w => writer'[u] = writer[u]
        /\ ModeProgress(C, w)'
    <3> USE DEF IInv, TypeOK, At, Goto, ModeProgress
    <3>1. CASE Call(w)
      <4>1. PICK v \in Contents, m \in CallerModes :
               writer' = [writer EXCEPT ![w] = [Quiet(v) EXCEPT !.pc = "stat", !.perm = m]]
        BY <3>1 DEF Call
      <4>2. writer'[w].pc = "stat" /\ writer'[w].perm = m
        BY <4>1 DEF Quiet
      <4> QED
        BY <4>1, <4>2
    <3>2. CASE Stat(w)
      <4>1. name = None => C = CallerModes
        BY DEF ModeInv
      <4>2. name # None => inode[name].mode \in C
        BY DEF ModeInv, Held
      <4>3. /\ writer[w].pc = "stat" /\ writer'[w].pc = "create"
            /\ writer'[w].perm = IF name = None THEN writer[w].perm ELSE inode[name].mode
            /\ \A u \in Writers : u # w => writer'[u] = writer[u]
        BY <3>2 DEF Stat
      <4> QED
        BY <1>0, <4>1, <4>2, <4>3
    <3>3. CASE Close(w)
      BY <1>0, <2>1, <3>3 DEF Close
    <3>4. CASE Return(w)
      BY <2>1, <3>4 DEF Return
    <3>5. CASE Fail(w)
      BY <2>1, <3>5 DEF Fail
    <3>6. CASE Cleanup(w)
      BY <2>1, <3>6 DEF Cleanup
    <3>7. CASE Kill(w)
      BY <2>1, <3>7 DEF Kill, Killed, Quiet
    <3> QED
      BY <1>1, <3>1, <3>2, <3>3, <3>4, <3>5, <3>6, <3>7
  <2> QED
    BY <2>1, <2>2, ModesKept
<1>2. CASE Create(w)
  <2>1. PICK i \in Free :
          /\ inode' = [inode EXCEPT ![i] = [data |-> Empty, disk |-> Empty, mode |-> "0600"]]
          /\ writer' = [writer EXCEPT ![w].pc = "write", ![w].temp = i]
    BY <1>2 DEF Create
  <2>2. UNCHANGED <<name, settled>> /\ writer[w].pc = "create"
    BY <1>2 DEF Create, At, DirOnly
  <2>3. i \notin Seen /\ \A u \in Writers : writer[u].temp # i
    BY DEF Free, Seen
  <2>4. \A j \in Inodes : j # i => inode'[j] = inode[j]
    BY <2>1 DEF IInv, TypeOK
  <2>5. /\ writer'[w].pc = "write" /\ writer'[w].perm = writer[w].perm
        /\ \A u \in Writers : u # w => writer'[u] = writer[u]
    BY <2>1 DEF IInv, TypeOK
  <2>6. ModeProgress(C, w)'
    BY <1>0, <2>2, <2>5 DEF ModeProgress
  <2> QED
    BY <2>2, <2>3, <2>4, <2>5, <2>6, ModesKept
<1>3. CASE Write(w) \/ Sync(w) \/ Chmod(w)
  <2>1. UNCHANGED <<name, settled>> /\ writer[w].pc \in {"write", "write_rest", "sync", "chmod"}
    BY <1>3 DEF Write, Sync, Chmod, At, DirOnly
  <2>2. /\ writer'[w].pc \in {"write_rest", "sync", "chmod", "close"} /\ writer'[w].perm = writer[w].perm
        /\ writer'[w].temp = writer[w].temp
        /\ \A u \in Writers : u # w => writer'[u] = writer[u]
    BY <1>3 DEF Write, Sync, Chmod, Goto, IInv, TypeOK
  <2>3. \A j \in Inodes : j # writer[w].temp => inode'[j] = inode[j]
    BY <1>3 DEF Write, Sync, Chmod, IInv, TypeOK
  <2>4. writer'[w].pc = "close" => inode'[writer[w].temp].mode = writer[w].perm
    BY <1>0, <1>3, <2>1 DEF Write, Sync, Chmod, Goto, IInv, TypeOK
  <2>5. ModeProgress(C, w)'
    BY <1>0, <2>1, <2>2, <2>4 DEF ModeProgress
  <2>6. \A i \in Inodes : (i \in Seen \/ \E u \in Writers \ {w} : writer[u].temp = i)
                            => inode'[i].mode = inode[i].mode
    BY <1>0, <2>1, <2>3 DEF IInv, TypeOK
  <2> QED
    BY <2>1, <2>2, <2>5, <2>6, ModesKept
<1> QED
  BY <1>1, <1>2, <1>3

LEMMA ModeRename ==
  ASSUME NEW C, IInv, ModeInv(C), NEW w \in Writers, Rename(w)
  PROVE  ModeInv(C)'
<1> USE DEF Steps, Staging
<1>1. /\ writer[w].pc = "rename" /\ name' = writer[w].temp /\ UNCHANGED <<inode, settled>>
      /\ writer'[w].pc = "return"
      /\ \A u \in Writers : u # w => writer'[u] = writer[u]
  BY DEF Rename, At, IInv, TypeOK
<1>2. name' # None /\ inode'[name'].mode \in C
  BY <1>1 DEF IInv, TypeOK, ModeInv, ModeProgress
<1>3. \A u \in Writers : ModeProgress(C, u)'
  BY <1>1 DEF ModeInv, ModeProgress
<1> QED
  BY <1>1, <1>2, <1>3 DEF ModeInv, Held

LEMMA ModeElsewhere ==
  ASSUME NEW C, IInv, ModeInv(C),
         (\E i \in Inodes : Flush(i)) \/ SettleName \/ (\E r \in Readers : OpenForRead(r) \/ ReadBlock(r))
  PROVE  ModeInv(C)'
<1>1. /\ UNCHANGED <<name, writer>> /\ settled' \in {settled, name}
      /\ \A j \in Inodes : inode'[j].mode = inode[j].mode
  <2>1. CASE \E i \in Inodes : Flush(i)
    BY <2>1, SMTT(30) DEF Flush, DirOnly, IInv, TypeOK
  <2>2. CASE SettleName \/ \E r \in Readers : OpenForRead(r) \/ ReadBlock(r)
    BY <2>2, Zenon DEF SettleName, OpenForRead, ReadBlock
  <2> QED
    BY <2>1, <2>2
<1>2. Held(C)'
  BY <1>1 DEF ModeInv, Held, IInv, TypeOK
<1>3. settled' # None => inode'[settled'].mode \in C
  BY <1>1 DEF ModeInv, Held, IInv, TypeOK
<1>4. ASSUME NEW u \in Writers
      PROVE  ModeProgress(C, u)'
  <2>1. writer[u].pc \in {"close", "rename"} => writer[u].temp \in Inodes
    BY DEF IInv, TypeOK, Staging, Steps
  <2> QED
    BY <1>1, <2>1 DEF ModeInv, ModeProgress
<1>5. name # None /\ settled # None => name' # None /\ settled' # None
  BY <1>1
<1> QED
  BY <1>2, <1>3, <1>4, <1>5 DEF ModeInv

LEMMA ModePowerLoss ==
  ASSUME NEW C, IInv, ModeInv(C), PowerLoss
  PROVE  ModeInv(C)'
<1>1. /\ name' = settled /\ settled' = settled
      /\ inode' = [i \in Inodes |-> [inode[i] EXCEPT !.data = inode[i].disk]]
      /\ writer' = [w \in Writers |-> Quiet(writer[w].want)]
  BY DEF PowerLoss, Killed
<1>2. settled # None => inode'[settled].mode \in C
  BY <1>1 DEF ModeInv, IInv, TypeOK
<1>3. \A u \in Writers : ModeProgress(C, u)'
  BY <1>1 DEF ModeProgress, Quiet, Steps
<1> QED
  BY <1>1, <1>2, <1>3 DEF ModeInv, Held

\* The mode of a target that was there before the calls is kept, whatever modes
\* the callers pass, whoever replaces the target between a call's Stat and its
\* rename, and across power losses; other modes are the callers' throughout.
THEOREM ModeTheorem == Spec => ModeIsKept
<1> DEFINE Inv == \E C : ModeInv(C)
<1>1. Init /\ IInv => Inv
  <2> SUFFICES ASSUME Init, IInv PROVE Inv
    OBVIOUS
  <2>1. /\ settled = name /\ \A w \in Writers : writer[w].pc = "idle"
        /\ name # None => inode[name].mode = "user"
    BY DEF Init, IInv, TypeOK, Quiet
  <2>2. CASE name = None
    <3>1. ModeInv(CallerModes)
      BY <2>1, <2>2 DEF ModeInv, Held, ModeProgress, Steps
    <3> QED
      BY <3>1
  <2>3. CASE name # None
    <3>1. ModeInv({"user"})
      BY <2>1, <2>3 DEF ModeInv, Held, ModeProgress, Steps
    <3> QED
      BY <3>1
  <2> QED
    BY <2>2, <2>3
<1>2. ASSUME NEW C, IInv, ModeInv(C), [Next]_vars
      PROVE  ModeInv(C)'
  <2>1. ASSUME NEW w \in Writers, Call(w) \/ CallStep(w) \/ Kill(w)
        PROVE  ModeInv(C)'
    BY <1>2, <2>1, ModeCallSteps, ModeRename DEF CallStep
  <2>2. ASSUME (\E i \in Inodes : Flush(i)) \/ SettleName \/ (\E r \in Readers : OpenForRead(r) \/ ReadBlock(r))
        PROVE  ModeInv(C)'
    BY <1>2, <2>2, ModeElsewhere
  <2>3. CASE UNCHANGED vars
    BY <1>2, <2>3 DEF vars, ModeInv, Held, ModeProgress
  <2> QED
    BY <1>2, <2>1, <2>2, <2>3, ModePowerLoss DEF Next
<1>3. ASSUME NEW C, ModeInv(C), ModeInv(C)', name # None, name' # None
      PROVE  \/ inode'[name'].mode = inode[name].mode
             \/ {inode[name].mode, inode'[name'].mode} \subseteq CallerModes
  BY <1>3 DEF ModeInv, Held
<1>4. ASSUME IInv, Inv, [Next]_vars
      PROVE  /\ Inv'
             /\ name # None /\ name' # None =>
                  \/ inode'[name'].mode = inode[name].mode
                  \/ {inode[name].mode, inode'[name'].mode} \subseteq CallerModes
  <2>1. PICK C : ModeInv(C)
    BY <1>4
  <2>2. ModeInv(C)'
    BY <1>2, <1>4, <2>1
  <2>3. Inv'
    BY <2>2
  <2> QED
    BY <1>3, <2>1, <2>2, <2>3
<1> HIDE DEF Inv
<1> QED
  BY <1>1, <1>4, InitStep, Invariance, PTL DEF Spec, ModeIsKept
=============================================================================

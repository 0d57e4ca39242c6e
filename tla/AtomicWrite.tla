----------------------------- MODULE AtomicWrite -----------------------------
(***************************************************************************)
(* internal/fsx/atomic.go: a target is replaced by staging the whole new   *)
(* content in a sibling file and renaming the sibling over the target.     *)
(*                                                                         *)
(* The file system is modelled by inodes.  A content is two blocks, so a   *)
(* half-written file and a read that straddles a replacement are visible.  *)
(* What is written reaches the disk at any time (Flush), at the latest at  *)
(* Sync; a rename reaches the disk at any time (SettleName).  Metadata is  *)
(* journaled in order, so a mode set before a rename is durable with it.   *)
(*                                                                         *)
(* writeFileAtomic (for a path) and writeFileAtomicRoot (for a name under  *)
(* an os.Root) take the same steps and are one model.                      *)
(***************************************************************************)
EXTENDS Naturals, Sequences, FiniteSets

CONSTANTS
    Writers,    \* concurrent callers of WriteFileAtomic on one target
    Readers,    \* programs that read the target
    Contents,   \* contents a caller writes, or the target had
    CallerModes, \* modes callers pass: a literal, or the source's (CopyFileAtomic)
    Inodes,     \* files the directory can hold at once
    MaxOrphans, \* staging files killed callers may leave
    None        \* no inode, an unwritten block

ASSUME FileAssumption == None \notin Inodes \cup Contents /\ MaxOrphans \in Nat

\* The mode of a target that was there before, the callers', CreateTemp's.
Modes == {"user", "0600"} \cup CallerModes

VARIABLES
    inode,      \* inode[i]: its blocks, the blocks on disk, its mode
    name,       \* the inode the target path names, or None
    settled,    \* ... on disk
    writer,     \* writer[w]: program counter and local variables of a call
    orphans,    \* staging files no running call owns
    reader      \* reader[r]: the inode it opened and the blocks it has read

vars == <<inode, name, settled, writer, orphans, reader>>

Full(v) == <<v, v>>
Empty   == <<None, None>>
Blocks  == (Contents \cup {None}) \X (Contents \cup {None})

Steps   == {"stat", "create", "write", "write_rest", "sync", "chmod", "close", "rename"}
Staging == Steps \ {"stat", "create"}
Over    == {"idle", "ok", "failed"}

\* No call; perm is set by the next one.
Quiet(v) == [pc |-> "idle", want |-> v, perm |-> "user", temp |-> None]

TypeOK ==
    /\ inode \in [Inodes -> [data : Blocks, disk : Blocks, mode : Modes]]
    /\ name \in Inodes \cup {None}
    /\ settled \in Inodes \cup {None}
    /\ writer \in [Writers -> [pc : Steps \cup Over \cup {"return", "cleanup"},
                               want : Contents, perm : Modes, temp : Inodes \cup {None}]]
    /\ \A w \in Writers : writer[w].pc \in Staging => writer[w].temp # None
    /\ orphans \subseteq Inodes
    /\ reader \in [Readers -> [open : Inodes \cup {None}, got : Seq(Contents \cup {None})]]

\* Inodes no name and no open file refers to.
Free == Inodes \ ({name, settled} \cup orphans
                    \cup {writer[w].temp : w \in Writers} \cup {reader[r].open : r \in Readers})

Init ==
    /\ \E v \in Contents :
         /\ inode = [i \in Inodes |-> [data |-> Full(v), disk |-> Full(v), mode |-> "user"]]
         /\ writer = [w \in Writers |-> Quiet(v)]
    /\ name \in Inodes \cup {None}
    /\ settled = name
    /\ orphans = {}
    /\ reader = [r \in Readers |-> [open |-> None, got |-> <<>>]]

(***************************************************************************)
(* One call.                                                               *)
(***************************************************************************)
At(w, pc)   == writer[w].pc = pc
Goto(w, pc) == writer' = [writer EXCEPT ![w].pc = pc]
DirOnly     == UNCHANGED <<name, settled, orphans, reader>>

Call(w) ==
    /\ writer[w].pc \in Over
    /\ \E v \in Contents, m \in CallerModes :
         writer' = [writer EXCEPT ![w] = [Quiet(v) EXCEPT !.pc = "stat", !.perm = m]]
    /\ DirOnly /\ UNCHANGED inode

\* Mutation: the caller's mode is applied to an existing target.
StatIgnored(w) ==
    /\ At(w, "stat") /\ Goto(w, "create")
    /\ DirOnly /\ UNCHANGED inode

\* An existing target keeps its mode.
Stat(w) ==
    /\ At(w, "stat")
    /\ writer' = [writer EXCEPT ![w].pc = "create",
                                ![w].perm = IF name = None THEN @ ELSE inode[name].mode]
    /\ DirOnly /\ UNCHANGED inode

\* Mutation: the target itself is opened and truncated.
CreateInPlace(w) ==
    /\ At(w, "create") /\ name # None
    /\ inode' = [inode EXCEPT ![name].data = Empty]
    /\ writer' = [writer EXCEPT ![w].pc = "write", ![w].temp = name]
    /\ DirOnly

\* CreateTemp, or createRootTemp: a new name, so a new inode.
Create(w) ==
    /\ At(w, "create")
    /\ \E i \in Free :
         /\ inode' = [inode EXCEPT ![i] = [data |-> Empty, disk |-> Empty, mode |-> "0600"]]
         /\ writer' = [writer EXCEPT ![w].pc = "write", ![w].temp = i]
    /\ DirOnly

Write(w) ==
    /\ \/ /\ At(w, "write") /\ Goto(w, "write_rest")
          /\ inode' = [inode EXCEPT ![writer[w].temp].data = <<writer[w].want, @[2]>>]
       \/ /\ At(w, "write_rest") /\ Goto(w, "sync")
          /\ inode' = [inode EXCEPT ![writer[w].temp].data = <<@[1], writer[w].want>>]
    /\ DirOnly

\* Mutation: the staged content is not flushed.
SyncSkipped(w) ==
    /\ At(w, "sync") /\ Goto(w, "chmod")
    /\ DirOnly /\ UNCHANGED inode

Sync(w) ==
    /\ At(w, "sync") /\ Goto(w, "chmod")
    /\ inode' = [inode EXCEPT ![writer[w].temp].disk = inode[writer[w].temp].data]
    /\ DirOnly

Chmod(w) ==
    /\ At(w, "chmod") /\ Goto(w, "close")
    /\ inode' = [inode EXCEPT ![writer[w].temp].mode = writer[w].perm]
    /\ DirOnly

Close(w) ==
    /\ At(w, "close") /\ Goto(w, "rename")
    /\ DirOnly /\ UNCHANGED inode

Rename(w) ==
    /\ At(w, "rename")
    /\ name' = writer[w].temp
    /\ writer' = [writer EXCEPT ![w].pc = "return", ![w].temp = None]
    /\ UNCHANGED <<inode, settled, orphans, reader>>

Return(w) ==
    /\ At(w, "return") /\ Goto(w, "ok")
    /\ DirOnly /\ UNCHANGED inode

\* Mutation: the error of CreateTemp is not looked at.
FailUnchecked(w) ==
    /\ writer[w].pc \in Steps
    /\ Goto(w, IF At(w, "create") THEN "write" ELSE "cleanup")
    /\ DirOnly /\ UNCHANGED inode

\* A step returns an error; the deferred clean-up runs once a file is staged.
Fail(w) ==
    /\ writer[w].pc \in Steps
    /\ Goto(w, IF writer[w].temp = None THEN "failed" ELSE "cleanup")
    /\ DirOnly /\ UNCHANGED inode

\* Mutation: the staging file is left behind.
CleanupForgotten(w) ==
    /\ At(w, "cleanup") /\ Goto(w, "failed")
    /\ DirOnly /\ UNCHANGED inode

Cleanup(w) ==
    /\ At(w, "cleanup")
    /\ writer' = [writer EXCEPT ![w].pc = "failed", ![w].temp = None]
    /\ DirOnly /\ UNCHANGED inode

(***************************************************************************)
(* The environment: killed processes, the disk, readers.                   *)
(***************************************************************************)
Killed(W) == [w \in Writers |-> IF w \in W THEN Quiet(writer[w].want) ELSE writer[w]]

Kill(w) ==
    /\ writer[w].pc \notin Over
    /\ Cardinality(orphans) < MaxOrphans
    /\ writer' = Killed({w})
    /\ orphans' = orphans \cup ({writer[w].temp} \ {None})
    /\ UNCHANGED <<inode, name, settled, reader>>

Flush(i) ==
    /\ i \notin Free
    /\ inode' = [inode EXCEPT ![i].disk = inode[i].data]
    /\ DirOnly /\ UNCHANGED writer

SettleName ==
    /\ settled' = name
    /\ UNCHANGED <<inode, name, writer, orphans, reader>>

\* A staging file's name is not on disk yet: it goes with the power.
PowerLoss ==
    /\ name' = settled
    /\ inode' = [i \in Inodes |-> [inode[i] EXCEPT !.data = inode[i].disk]]
    /\ writer' = Killed(Writers)
    /\ reader' = [r \in Readers |-> [open |-> None, got |-> <<>>]]
    /\ UNCHANGED <<settled, orphans>>

OpenForRead(r) ==
    /\ name # None /\ reader[r].open = None
    /\ reader' = [reader EXCEPT ![r] = [open |-> name, got |-> <<>>]]
    /\ UNCHANGED <<inode, name, settled, writer, orphans>>

ReadBlock(r) ==
    LET n == Len(reader[r].got) + 1 IN
    /\ reader[r].open # None
    /\ reader' = [reader EXCEPT ![r].got = IF n > 2 THEN <<>> ELSE Append(@, inode[reader[r].open].data[n]),
                                ![r].open = IF n > 2 THEN None ELSE @]
    /\ UNCHANGED <<inode, name, settled, writer, orphans>>

CallStep(w) == \/ Stat(w) \/ Create(w) \/ Write(w) \/ Sync(w) \/ Chmod(w) \/ Close(w)
               \/ Rename(w) \/ Return(w) \/ Fail(w) \/ Cleanup(w)

Next ==
    \/ \E w \in Writers : Call(w) \/ CallStep(w) \/ Kill(w)
    \/ \E i \in Inodes : Flush(i)
    \/ SettleName
    \/ PowerLoss
    \/ \E r \in Readers : OpenForRead(r) \/ ReadBlock(r)

Spec == Init /\ [][Next]_vars

(***************************************************************************)
(* The promise: the target is an AtomicFile.                               *)
(***************************************************************************)
ContentAt(i, part) == IF i = None THEN None ELSE inode[i][part]
CallState(pc) == IF pc \in Steps \cup {"cleanup"} THEN "open"
                 ELSE IF pc = "return" THEN "landed"
                 ELSE IF pc = "failed" THEN "error" ELSE pc

File == INSTANCE AtomicFile WITH
            Contents <- {Full(v) : v \in Contents},
            content  <- ContentAt(name, "data"),
            stable   <- ContentAt(settled, "disk"),
            call     <- [w \in Writers |-> [state |-> CallState(writer[w].pc),
                                            value |-> Full(writer[w].want)]]

\* The target is only ever observed as its old self or its new self: each
\* change of what it holds is one caller's whole content or, on a power loss,
\* an earlier whole content; a call that returned an error changed nothing
\* (docs/fix.md, "Per file: atomic").
IsAtomicFile == File!ASpec

\* A program that opens the target and reads it to the end, in steps, while
\* callers replace it, are killed or fail, reads one whole content.
ReadsAreWhole ==
    \A r \in Readers : Len(reader[r].got) = 2 => reader[r].got \in {Full(v) : v \in Contents}

\* A target that was there before the calls keeps its permission mode, whatever
\* modes the callers pass and whoever replaces it between a call's Stat and its
\* rename.  A mode changes only from one caller's to another's: on a target that
\* concurrent calls created, each having found none.
ModeIsKept ==
    [][name # None /\ name' # None =>
          \/ inode'[name'].mode = inode[name].mode
          \/ {inode[name].mode, inode'[name'].mode} \subseteq CallerModes]_vars

\* What atomic.go says of WriteFileAtomic, "The caller-provided mode is applied
\* before replacement", and of CopyFileAtomic, "The source permission bits are
\* preserved": what replaces the target has a mode some caller passed.
CallerModeApplied ==
    [][\A w \in Writers : Rename(w) => inode'[name'].mode \in CallerModes]_vars

\* A call that has returned, with success or any error, has left no staging
\* file: only a killed process leaves one.
NothingStagedAfterReturn ==
    \A w \in Writers : writer[w].pc \in Over => writer[w].temp = None
=============================================================================

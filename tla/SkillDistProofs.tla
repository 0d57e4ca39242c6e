--------------------------- MODULE SkillDistProofs ---------------------------
(***************************************************************************)
(* Proofs about SkillDist for every set of runs, trees and user entries,   *)
(* and every bound on edits, faults, crashes and overlapping commands: its *)
(* type invariant, StagedIsBackedUp, CompleteInstallUndoable,              *)
(* NoDriftMeansUninstallable, RestoredExactly and, while the user leaves   *)
(* the destinations of commands at work alone, NoTreeLost.                 *)
(*                                                                         *)
(* The inductive invariant follows one run through its command: which      *)
(* operation each step belongs to (StepOK), what its plan may hold         *)
(* (PlanOK, FromOK), when its staging siblings are empty (StagingOK) and   *)
(* when its backup holds the planned entry (BackupOK).  LogOK says that a  *)
(* receipt is about a run that will not change any more.                   *)
(* TruthOK says that what a completed action recorded is the exact symlink,*)
(* or like what the receipt being restored recorded.  Custody says where a *)
(* copy of every directory in a command's hands is.                        *)
(***************************************************************************)
EXTENDS SkillDist, SequenceTheorems, TLAPS

Ended == {"complete", "incomplete"}

InstallPcs ==
    {"displace", "inspect", "verify", "link", "confirm", "clean", "drop",
     "undo_link", "undo_look", "undo_discard", "undo_rename", "undo_check"}
UninstallPcs == {"unlink", "gone"}
RestorePcs   == {"restage", "take", "taken", "forget", "publish", "recheck",
                 "clear", "put_back"}

\* The steps of an install during which a replaced destination is backed up.
Kept == {"displace", "inspect"} \cup Inspected

\* The entry a directory's or a link's evidence stands for.
EntryOf(ev) == IF IsLink(ev) THEN Link(ev.lexical) ELSE Dir(ev.digest)

\* A planned run has a plan; an install plan is made of what may be replaced;
\* a no_op keeps a link.
PlanOK(r) ==
    /\ pc[r] # "idle" => job[r] \in Jobs
    /\ job[r].op = "install" =>
          \A d \in Dest : LET p == job[r].plan[d]
                          IN  p.kind = InstallKind(p.before) /\ p.before.kind # "unsupported"
    /\ job[r] \in Jobs =>
          \A d \in Dest : LET p == job[r].plan[d]
                          IN  p.kind = "no_op" => p.before.lexical \in Paths

\* A restore plan names a run that ended, which has every preimage to restore.
FromOK(r) ==
    job[r].op = "restore" =>
        /\ job[r].from \in Runs
        /\ pc[job[r].from] \in Ended
        /\ \A d \in Dest :
              /\ job[r].plan[d].kind \in
                    {"no_op", "remove_managed_symlink", "restore_preimage"}
              /\ job[r].plan[d].kind = "restore_preimage" =>
                    Preimage(job[r].from, d) # None

\* Every step belongs to one operation.
StepOK(r) ==
    /\ pc[r] \in InstallPcs   => job[r].op = "install"
    /\ pc[r] \in UninstallPcs => job[r].op = "uninstall"
    /\ pc[r] \in RestorePcs   => job[r].op = "restore" /\ Kind(r) # "no_op"
    /\ pc[r] = "publish"      => Kind(r) # "remove_managed_symlink"

\* Staging siblings are empty until their destination's turn comes.
StagingOK(r) ==
    /\ at[r] = "claude" => staged[r]["agents"] = Absent
    /\ pc[r] \in {"idle", "approved", "action"} => staged[r][at[r]] = Absent

\* Replacing a destination, the run has it in its backup until it may say so
\* in the receipt, and from then on.
BackupOK(r) ==
    /\ pc[r] \in {"displace", "inspect"} => Before(r).kind # "absent"
    /\ (pc[r] \in Kept /\ Kind(r) = "replace_with_symlink") =>
          backup[r][at[r]] = EntryOf(Before(r))
    /\ \A d \in Dest :
          /\ job[r].op = "install"
          /\ result[r][d].outcome = "complete"
          /\ job[r].plan[d].kind = "replace_with_symlink"
          => backup[r][d] = EntryOf(job[r].plan[d].before)

\* Nothing is complete before the run starts.
FreshOK(r) ==
    pc[r] = "idle" => \A d \in Dest : result[r][d].outcome # "complete"

StagedOK(r) ==
    pc[r] \in Inspected =>
        staged[r][at[r]] \in {Absent, Dir(Damaged), backup[r][at[r]]}

RunOK(r) ==
    /\ PlanOK(r) /\ FromOK(r) /\ FreshOK(r) /\ StepOK(r)
    /\ StagingOK(r) /\ BackupOK(r) /\ StagedOK(r)

\* A receipt is about a run that ended, and its verdict is the run's.
LogOK ==
    \A i \in DOMAIN log :
        /\ pc[log[i].id] \in Ended
        /\ log[i].complete => AllComplete(log[i].id)

IInv == TypeOK /\ LogOK /\ \A r \in Runs : RunOK(r)

(***************************************************************************)
(* Entries and evidence.                                                   *)
(***************************************************************************)

\* The named entries are entries, and each kind is told apart by its type.
LEMMA EntryKinds ==
    /\ Absent \in Entries /\ File \in Entries /\ Dir(Damaged) \in Entries
    /\ \A t \in Trees : Dir(t) \in Entries
    /\ \A p \in Paths : Link(p) \in Entries
  BY DEF Entries, Absent, File, Dir, Link, Directories, Links

\* What an entry's fields may be, and that they determine it.
LEMMA EntryFields ==
    ASSUME NEW e \in Entries
    PROVE  /\ e.type \in {"absent", "file", "directory", "symlink"}
           /\ e.tree \in Trees \cup {Damaged, None}
           /\ e.target \in Paths \cup {None}
           /\ e.type = "absent" => e = Absent
           /\ e.type = "directory" => e = Dir(e.tree)
           /\ e.type = "symlink" => e = Link(e.target) /\ e.target \in Paths
  BY DEF Entries, Absent, File, Dir, Link, Directories, Links

\* Observing an entry yields evidence.
LEMMA InventoryType ==
    ASSUME dest \in [Dest -> Entries],
           tree \in [{Src} \cup Elsewhere -> Trees \cup {None}],
           NEW source, NEW e \in Entries
    PROVE  Inventory(dest, tree, source, e) \in Evidence
<1>1. ASSUME NEW p \in Paths PROVE Hop(dest, p) \in Paths
  <2>1. CASE p \in Dest /\ dest[p].type = "symlink"
    BY <2>1, EntryFields DEF Hop
  <2>2. CASE ~(p \in Dest /\ dest[p].type = "symlink")
    BY <2>2 DEF Hop
  <2> QED BY <2>1, <2>2
<1>2. ASSUME NEW p \in Paths PROVE Canonical(dest, tree, p) \in Paths \cup {None}
  <2> DEFINE q == Hop(dest, Hop(dest, Hop(dest, p)))
  <2>1. q \in Paths BY <1>1
  <2> HIDE DEF q
  <2>2. Canonical(dest, tree, p) =
          CASE q \in Dest -> IF dest[q].type \in {"directory", "file"} THEN q ELSE None
            [] q \in {Src} \cup Elsewhere -> IF tree[q] # None THEN q ELSE None
            [] OTHER -> None
    BY DEF Canonical, q
  <2> QED BY <2>1, <2>2
<1>3. ASSUME NEW p \in Paths \cup {None}
      PROVE  DigestAt(dest, tree, p) \in Trees \cup {Damaged, None}
  BY EntryFields DEF DigestAt
<1>4. CASE e.type = "symlink"
  BY <1>2, <1>3, <1>4, EntryFields DEF Inventory, Evidence, Kinds
<1>5. CASE e.type # "symlink"
  BY <1>5, EntryFields DEF Inventory, Evidence, Kinds
<1> QED BY <1>4, <1>5

\* What an observation tells about the entry.
LEMMA InventoryFields ==
    ASSUME NEW source, NEW e \in Entries
    PROVE  LET ev == Inventory(dest, tree, source, e)
           IN  /\ ev.lexical = e.target
               /\ IsLink(ev) <=> e.type = "symlink"
               /\ ev.kind = "directory" <=> e.type = "directory"
               /\ ev.kind = "absent" <=> e.type = "absent"
               /\ ev.kind = "directory" => ev.digest = e.tree
               /\ ev.kind = "correct_symlink" => ev.lexical = Src
  BY EntryFields DEF Inventory, IsLink

(***************************************************************************)
(* Planning.                                                               *)
(***************************************************************************)

\* Whatever a preview may plan is a job that PlanOK and FromOK describe.
LEMMA PlannedJobsOK ==
    ASSUME IInv, NEW j \in PlannedJobs
    PROVE  /\ j \in Jobs
           /\ j.op = "install" =>
                \A d \in Dest : /\ j.plan[d].kind = InstallKind(j.plan[d].before)
                              /\ j.plan[d].before.kind # "unsupported"
           /\ \A d \in Dest : j.plan[d].kind = "no_op" => j.plan[d].before.lexical \in Paths
           /\ j.op = "restore" =>
                /\ j.from \in Runs
                /\ pc[j.from] \in Ended
                /\ \A d \in Dest :
                      /\ j.plan[d].kind \in
                            {"no_op", "remove_managed_symlink", "restore_preimage"}
                      /\ j.plan[d].kind = "restore_preimage" => Preimage(j.from, d) # None
<1> USE DEF IInv
<1>types. /\ dest \in [Dest -> Entries] /\ log \in Seq(Receipts)
          /\ tree \in [{Src} \cup Elsewhere -> Trees \cup {None}] /\ tree[Src] \in Trees
  BY DEF TypeOK
<1>inv. ASSUME NEW source \in Trees, NEW d \in Dest
        PROVE  Inventory(dest, tree, source, dest[d]) \in Evidence
  BY <1>types, InventoryType
<1>logged. ASSUME NEW i \in DOMAIN log
           PROVE  log[i].id \in Runs /\ pc[log[i].id] \in Ended /\ job[log[i].id] \in Jobs
  <2>1. log[i] \in Receipts BY <1>types
  <2>2. log[i].id \in Runs BY <2>1 DEF Receipts
  <2>3. pc[log[i].id] \in Ended BY DEF LogOK
  <2> QED BY <2>2, <2>3 DEF RunOK, PlanOK, Ended
<1>1. CASE j \in InstallJobs
  <2> DEFINE inv == InventoryAll(dest, tree, tree[Src])
  <2>1. j = [op |-> "install", source |-> tree[Src], from |-> None,
             plan |-> [d \in Dest |-> [kind |-> InstallKind(inv[d]), before |-> inv[d]]]]
    BY <1>1 DEF InstallJobs
  <2>2. \A d \in Dest : inv[d].kind # "unsupported"
    BY <1>1 DEF InstallJobs
  <2>3. \A d \in Dest : inv[d] \in Evidence
    BY <1>inv, <1>types DEF InventoryAll
  <2>4. \A d \in Dest : InstallKind(inv[d]) \in ActionKinds
    BY DEF InstallKind, ActionKinds
  <2>5. \A d \in Dest : InstallKind(inv[d]) = "no_op" => inv[d].lexical \in Paths
    BY <1>types, InventoryFields DEF InstallKind, InventoryAll, Paths
  <2> HIDE DEF inv
  <2>6. j \in Jobs
    BY <1>types, <2>1, <2>3, <2>4 DEF Jobs, Plan, Operations
  <2> QED BY <2>1, <2>2, <2>5, <2>6
<1>2. CASE j \in UninstallJobs
  <2>1. PICK id \in Runs :
          /\ IsLatestInstall(id)
          /\ j = [op |-> "uninstall", source |-> job[id].source, from |-> id,
                  plan |-> [d \in Dest |->
                    [kind |-> "remove_managed_symlink",
                     before |-> Inventory(dest, tree, job[id].source, dest[d])]]]
    BY <1>2 DEF UninstallJobs
  <2>2. job[id] \in Jobs
    BY <2>1, <1>logged DEF IsLatestInstall, CompleteInstalls
  <2>3. job[id].source \in Trees BY <2>2 DEF Jobs
  <2>4. j \in Jobs
    BY <2>1, <2>3, <1>inv DEF Jobs, Plan, Operations, ActionKinds
  <2> QED BY <2>1, <2>4
<1>3. CASE j \in RestoreJobs
  <2> DEFINE now(id, d) == Inventory(dest, tree, job[id].source, dest[d])
             kind(id, d) == RestoreKind(job[id].plan[d].kind, job[id].plan[d].before, now(id, d))
  <2>1. PICK id \in Runs :
          /\ \E i \in DOMAIN log : log[i] = [id |-> id, complete |-> TRUE]
          /\ RestorePlanOK(id)
          /\ j = [op |-> "restore", source |-> job[id].source, from |-> id,
                  plan |-> [d \in Dest |-> [kind |-> kind(id, d), before |-> now(id, d)]]]
    BY <1>3 DEF RestoreJobs
  <2>2. job[id] \in Jobs /\ pc[id] \in Ended
    BY <2>1, <1>logged
  <2>3. job[id].source \in Trees BY <2>2 DEF Jobs
  <2>4. \A d \in Dest : kind(id, d) \in {"no_op", "remove_managed_symlink", "restore_preimage"}
    BY DEF RestoreKind
  <2>5. \A d \in Dest : kind(id, d) = "no_op" => now(id, d).lexical \in Paths
    BY <2>2 DEF RestoreKind, RunOK, PlanOK
  <2>6. \A d \in Dest : kind(id, d) = "restore_preimage" => Preimage(id, d) # None
    BY <2>1 DEF RestoreKind, RestorePlanOK
  <2>7. \A d \in Dest : now(id, d) \in Evidence
    BY <1>inv, <2>3
  <2> HIDE DEF now, kind
  <2>8. j \in Jobs
    BY <2>1, <2>3, <2>4, <2>7 DEF Jobs, Plan, Operations, ActionKinds
  <2> QED BY <2>1, <2>2, <2>4, <2>5, <2>6, <2>8
<1> QED BY <1>1, <1>2, <1>3 DEF PlannedJobs

(***************************************************************************)
(* What the two ways to end a step leave alone.                            *)
(***************************************************************************)

\* Run r acts, and every other run's state stays as it is.
OnlyRun(r) ==
    /\ pc[r] \notin Finished
    /\ \A q \in Runs \ {r} :
          /\ pc'[q] = pc[q] /\ at'[q] = at[q] /\ job'[q] = job[q]
          /\ result'[q] = result[q]
          /\ \A d \in Dest : staged'[q][d] = staged[q][d] /\ backup'[q][d] = backup[q][d]

\* Of all staging siblings, only the one in run r's hand may change.
OwnStaging(r) ==
    /\ staged' \in [Runs -> [Dest -> Entries]]
    /\ \A q \in Runs, d \in Dest : (q # r \/ d # at[r]) => staged'[q][d] = staged[q][d]

ProcsTyped ==
    /\ pc'     \in [Runs -> Steps]
    /\ at'     \in [Runs -> Dest]
    /\ job'    \in [Runs -> Jobs \cup {NoJob}]
    /\ result' \in [Runs -> [Dest -> ActionResults]]

\* The runs that do not act keep their part of the invariant.
LEMMA OthersOK ==
    ASSUME IInv, NEW r \in Runs, OnlyRun(r), NEW q \in Runs \ {r}
    PROVE  RunOK(q)'
<1>1. RunOK(q) /\ at[q] \in Dest BY DEF IInv, TypeOK
<1>2. /\ pc'[q] = pc[q] /\ at'[q] = at[q] /\ job'[q] = job[q]
      /\ result'[q] = result[q]
      /\ \A d \in Dest : staged'[q][d] = staged[q][d] /\ backup'[q][d] = backup[q][d]
  BY DEF OnlyRun
<1>3. FromOK(q)'
  <2> SUFFICES ASSUME job[q].op = "restore" PROVE FromOK(q)'
    BY <1>2 DEF FromOK
  <2>1. job[q].from \in Runs \ {r} /\ pc[job[q].from] \in Ended
    BY <1>1 DEF RunOK, FromOK, OnlyRun, Ended, Finished
  <2> QED BY <1>1, <1>2, <2>1 DEF RunOK, FromOK, OnlyRun, Preimage
<1>4. StagingOK(q)'
  BY <1>1, <1>2 DEF RunOK, StagingOK, Dest
<1> QED
  BY <1>1, <1>2, <1>3, <1>4
     DEF RunOK, PlanOK, FreshOK, StepOK, BackupOK, StagedOK, Before, Kind

\* A run that acts after its preview keeps its plan.
LEMMA PlanKept ==
    ASSUME IInv, NEW r \in Runs, OnlyRun(r), pc[r] # "idle", job' = job
    PROVE  PlanOK(r)' /\ FromOK(r)'
<1>1. RunOK(r) BY DEF IInv
<1>2. FromOK(r)'
  <2> SUFFICES ASSUME job[r].op = "restore" PROVE FromOK(r)'
    BY DEF FromOK
  <2>1. job[r].from \in Runs \ {r} /\ pc[job[r].from] \in Ended
    BY <1>1 DEF RunOK, FromOK, OnlyRun, Ended, Finished
  <2> QED BY <1>1, <2>1 DEF RunOK, FromOK, OnlyRun, Preimage
<1> QED BY <1>1, <1>2 DEF RunOK, PlanOK

\* The end of a destination's action.
LEMMA FinishOK ==
    ASSUME IInv, NEW r \in Runs, pc[r] \in Working,
           NEW outcome \in Outcomes, NEW after \in Evidence \cup {None},
           Finish(r, outcome, after), OwnStaging(r), backup' = backup,
           /\ outcome = "complete" /\ job[r].op = "install"
           /\ Kind(r) = "replace_with_symlink"
           => backup[r][at[r]] = EntryOf(Before(r))
    PROVE  OnlyRun(r) /\ ProcsTyped /\ RunOK(r)'
<1>1. RunOK(r) /\ TypeOK /\ at[r] \in Dest BY DEF IInv, TypeOK
<1>2. pc[r] # "idle" /\ pc[r] \notin Finished BY DEF Working, Finished
<1>3. [outcome |-> outcome, after |-> after] \in ActionResults BY DEF ActionResults
<1>4. ProcsTyped
  BY <1>1, <1>3 DEF TypeOK, Finish, Goto, ProcsTyped, Steps, Working, Dest
<1>5. OnlyRun(r)
  BY <1>1, <1>2 DEF TypeOK, OnlyRun, OwnStaging, Finish, Goto
<1>6. /\ pc'[r] \in {"action", "append"} /\ job' = job
      /\ at'[r] # at[r] => at'[r] = "agents"
      /\ at'[r] = "agents" \/ pc'[r] = "append"
      /\ pc'[r] = "action" => at[r] = "claude"
      /\ \A d \in Dest : result'[r][d] = IF d = at[r] THEN [outcome |-> outcome, after |-> after]
                                                   ELSE result[r][d]
  BY <1>1 DEF TypeOK, Finish, Goto, Dest
<1>7. PlanOK(r)' /\ FromOK(r)' BY <1>2, <1>5, <1>6, PlanKept
<1>8. StepOK(r)' /\ StagedOK(r)' /\ FreshOK(r)'
  BY <1>6 DEF FreshOK, StepOK, StagedOK, InstallPcs, UninstallPcs, RestorePcs, Inspected
<1>9. StagingOK(r)'
  BY <1>1, <1>6 DEF RunOK, StagingOK, OwnStaging, Dest
<1>10. BackupOK(r)'
  <2>1. pc'[r] \notin Kept BY <1>6 DEF Kept, Inspected
  <2>2. ASSUME NEW d \in Dest, job[r].op = "install", result'[r][d].outcome = "complete",
               job[r].plan[d].kind = "replace_with_symlink"
        PROVE  backup[r][d] = EntryOf(job[r].plan[d].before)
    BY <1>1, <1>6, <2>2 DEF RunOK, BackupOK, Before, Kind
  <2> QED BY <1>6, <2>1, <2>2 DEF BackupOK, Kept
<1> QED BY <1>4, <1>5, <1>7, <1>8, <1>9, <1>10 DEF RunOK

\* A step within a destination's action: to one of the operation's own steps.
Onward(r, to) ==
    /\ to \in Working \ {"action"}
    /\ to \in InstallPcs   => job[r].op = "install"
    /\ to \in UninstallPcs => job[r].op = "uninstall"
    /\ to \in RestorePcs   => job[r].op = "restore" /\ Kind(r) # "no_op"
    /\ to = "publish"      => Kind(r) # "remove_managed_symlink"
    /\ to \in Kept => pc[r] \in Kept
    /\ to \in {"displace", "inspect"} => pc[r] \in {"displace", "inspect"}

LEMMA GoOK ==
    ASSUME IInv, NEW r \in Runs, pc[r] \in Working, NEW to, Onward(r, to),
           Goto(r, to), at' = at, job' = job,
           result' \in [Runs -> [Dest -> ActionResults]],
           \A q \in Runs \ {r} : result'[q] = result[q],
           \A d \in Dest : result'[r][d].outcome = result[r][d].outcome,
           OwnStaging(r), backup' = backup,
           to \in Inspected =>
              staged'[r][at[r]] \in {Absent, Dir(Damaged), backup[r][at[r]]}
    PROVE  OnlyRun(r) /\ ProcsTyped /\ RunOK(r)'
<1>1. RunOK(r) /\ TypeOK /\ at[r] \in Dest BY DEF IInv, TypeOK
<1>2. pc[r] # "idle" /\ pc[r] \notin Finished BY DEF Working, Finished
<1>3. pc'[r] = to BY <1>1 DEF TypeOK, Goto
<1>4. ProcsTyped
  BY <1>1 DEF TypeOK, Goto, ProcsTyped, Steps, Onward
<1>5. OnlyRun(r)
  BY <1>1, <1>2 DEF TypeOK, OnlyRun, OwnStaging, Goto
<1>6. PlanOK(r)' /\ FromOK(r)' BY <1>2, <1>5, PlanKept
<1>7. StepOK(r)' /\ FreshOK(r)'
  BY <1>1, <1>3 DEF RunOK, FreshOK, StepOK, Onward, Kind, Working
<1>8. StagingOK(r)'
  BY <1>1, <1>3 DEF RunOK, StagingOK, OwnStaging, Dest, Onward, Working
<1>9. BackupOK(r)' /\ StagedOK(r)'
  BY <1>1, <1>3 DEF RunOK, BackupOK, StagedOK, Onward, Before, Kind
<1> QED BY <1>4, <1>5, <1>6, <1>7, <1>8, <1>9 DEF RunOK

\* What every step of a command leaves typed.
LEMMA StepTyped ==
    ASSUME TypeOK, ProcsTyped, dest' \in [Dest -> Entries], staged' \in [Runs -> [Dest -> Entries]],
           backup' = backup, tree' = tree, log' = log, torn' = torn, Sound \/ Faulty
    PROVE  TypeOK'
<1>1. edits' \in 0..MaxEdits /\ faults' \in 0..MaxFaults /\ crashes' \in 0..MaxCrashes
  BY SkillAssumption DEF TypeOK, Sound, Faulty, env
<1> QED BY <1>1 DEF TypeOK, ProcsTyped

\* A step of a command that ends in one of those ways, and the file system
\* calls that come with it, keep the invariant for the run.
LEMMA CommandStep ==
    ASSUME IInv, NEW r \in Runs, pc[r] \in Working,
           UNCHANGED <<tree, backup, log, torn>>, Sound \/ Faulty,
           dest' \in [Dest -> Entries], OwnStaging(r),
           \/ \E to \in Working :
                 /\ Step(r, to) /\ Onward(r, to)
                 /\ to \in Inspected =>
                      staged'[r][at[r]] \in {Absent, Dir(Damaged), backup[r][at[r]]}
           \/ \E outcome \in Outcomes, after \in Evidence \cup {None} :
                 /\ Finish(r, outcome, after)
                 /\ /\ outcome = "complete" /\ job[r].op = "install"
                    /\ Kind(r) = "replace_with_symlink"
                    => backup[r][at[r]] = EntryOf(Before(r))
    PROVE  TypeOK' /\ log' = log /\ OnlyRun(r) /\ RunOK(r)'
<1>1. TypeOK BY DEF IInv
<1>2. OnlyRun(r) /\ ProcsTyped /\ RunOK(r)'
  <2>1. ASSUME NEW to \in Working, Step(r, to), Onward(r, to),
               to \in Inspected =>
                  staged'[r][at[r]] \in {Absent, Dir(Damaged), backup[r][at[r]]}
        PROVE  OnlyRun(r) /\ ProcsTyped /\ RunOK(r)'
    BY <1>1, <2>1, GoOK DEF Step, TypeOK
  <2>2. ASSUME NEW outcome \in Outcomes, NEW after \in Evidence \cup {None},
               Finish(r, outcome, after),
               /\ outcome = "complete" /\ job[r].op = "install"
               /\ Kind(r) = "replace_with_symlink"
               => backup[r][at[r]] = EntryOf(Before(r))
        PROVE  OnlyRun(r) /\ ProcsTyped /\ RunOK(r)'
    BY <2>2, FinishOK
  <2> QED BY <2>1, <2>2
<1> QED BY <1>1, <1>2, StepTyped DEF OwnStaging

\* The two things a step does with staging siblings: nothing, or put an entry
\* where its own is.
LEMMA StagingKept ==
    ASSUME TypeOK, NEW r \in Runs, staged' = staged PROVE OwnStaging(r)
BY DEF TypeOK, OwnStaging

LEMMA StagingSet ==
    ASSUME TypeOK, NEW r \in Runs, NEW e \in Entries,
           staged' = [staged EXCEPT ![r][at[r]] = e]
    PROVE  OwnStaging(r) /\ staged'[r][at[r]] = e
BY DEF TypeOK, OwnStaging

\* Recording the evidence of the action in hand changes nothing else.
LEMMA AfterSet ==
    ASSUME TypeOK, NEW r \in Runs, NEW ev \in Evidence,
           result' = [result EXCEPT ![r][at[r]].after = ev]
    PROVE  /\ result' \in [Runs -> [Dest -> ActionResults]]
           /\ \A q \in Runs \ {r} : result'[q] = result[q]
           /\ \A d \in Dest : result'[r][d].outcome = result[r][d].outcome
<1> DEFINE old == result[r][at[r]]
           new == [old EXCEPT !.after = ev]
<1>1. result \in [Runs -> [Dest -> ActionResults]] /\ at[r] \in Dest BY DEF TypeOK
<1>2. old \in ActionResults BY <1>1
<1>3. new \in ActionResults /\ new.outcome = old.outcome
  BY <1>2 DEF ActionResults
<1>4. result' = [result EXCEPT ![r] = [result[r] EXCEPT ![at[r]] = new]]
  BY <1>1
<1> HIDE DEF new
<1> QED BY <1>1, <1>3, <1>4

\* What every step of a run starts from.
LEMMA Acting ==
    ASSUME IInv, NEW r \in Runs
    PROVE  /\ TypeOK /\ RunOK(r) /\ StepOK(r) /\ at[r] \in Dest
           /\ Here(r) \in Entries /\ staged[r][at[r]] \in Entries
           /\ \A e \in Entries : [dest EXCEPT ![at[r]] = e] \in [Dest -> Entries]
           /\ dest \in [Dest -> Entries]
BY DEF IInv, TypeOK, RunOK, Here

(***************************************************************************)
(* Every step of an install.                                               *)
(***************************************************************************)

LEMMA DisplaceOK ==
    ASSUME IInv, NEW r \in Runs, Displace(r)
    PROVE  TypeOK' /\ log' = log /\ OnlyRun(r) /\ RunOK(r)'
<1>1. pc[r] = "displace" /\ UNCHANGED <<tree, backup, log, torn>> /\ (Sound \/ Faulty)
  BY DEF Displace
<1>2. dest' \in [Dest -> Entries] /\ OwnStaging(r)
  BY Acting, EntryKinds, StagingKept, StagingSet DEF Displace
<1>3. Onward(r, "inspect")
  BY <1>1, Acting DEF StepOK, Onward, Working, InstallPcs, UninstallPcs, RestorePcs, Kept, Inspected
<1> QED BY <1>1, <1>2, <1>3, CommandStep DEF Displace, Working, Outcomes, Inspected

\* What is staged passes the inspection only if it is what was backed up.
LEMMA InspectOK ==
    ASSUME IInv, NEW r \in Runs, Inspect(r)
    PROVE  TypeOK' /\ log' = log /\ OnlyRun(r) /\ RunOK(r)'
<1>1. TypeOK /\ RunOK(r) /\ at[r] \in Dest /\ pc[r] = "inspect" /\ staged[r][at[r]] \in Entries
  BY DEF IInv, TypeOK, Inspect
<1>2. /\ UNCHANGED <<dest, tree, backup, staged, log, torn>> /\ (Sound \/ Faulty) /\ OwnStaging(r)
  BY <1>1 DEF TypeOK, Inspect, OwnStaging, files, store
<1>3. StagedAsPlanned(r) => staged[r][at[r]] = backup[r][at[r]]
  <2> SUFFICES ASSUME StagedAsPlanned(r) PROVE staged[r][at[r]] = backup[r][at[r]]
    OBVIOUS
  <2> DEFINE e == staged[r][at[r]]
             ev == Inventory(dest, tree, job[r].source, e)
  <2>1. /\ ev.lexical = e.target
        /\ IsLink(ev) <=> e.type = "symlink"
        /\ ev.kind = "directory" <=> e.type = "directory"
        /\ ev.kind = "directory" => ev.digest = e.tree
    BY <1>1, InventoryFields
  <2>2. SameStagedEvidence(Before(r), ev, backup[r][at[r]]) BY DEF StagedAsPlanned
  <2>3. /\ e.type = "directory" => e = Dir(e.tree)
        /\ e.type = "symlink" => e = Link(e.target)
    BY <1>1, EntryFields
  <2>4. job[r].op = "install" /\ Before(r).kind # "absent" /\ Before(r).kind # "unsupported"
    BY <1>1 DEF RunOK, StepOK, PlanOK, BackupOK, Before, InstallPcs
  <2>5. Before(r) \in Evidence
    BY <1>1 DEF RunOK, PlanOK, Before, Jobs, Plan
  <2> HIDE DEF e, ev
  <2>6. CASE IsLink(Before(r))
    BY <2>1, <2>2, <2>3, <2>6 DEF SameStagedEvidence, IsLink, e
  <2>7. CASE ~IsLink(Before(r))
    <3>1. Before(r).kind = "directory" /\ Before(r) = ev
      BY <2>2, <2>4, <2>5, <2>7 DEF SameStagedEvidence, IsLink, Evidence, Kinds
    <3>2. Kind(r) = "replace_with_symlink"
      BY <1>1, <2>4, <3>1 DEF RunOK, PlanOK, Before, Kind, InstallKind
    <3>3. backup[r][at[r]] = Dir(Before(r).digest)
      BY <1>1, <3>1, <3>2 DEF RunOK, BackupOK, Kept, EntryOf, IsLink
    <3> QED BY <2>1, <2>3, <3>1, <3>3 DEF e
  <2> QED BY <2>6, <2>7
<1>4. OnlyRun(r) /\ ProcsTyped /\ RunOK(r)'
  <2>1. Onward(r, "verify") /\ Onward(r, "undo_look")
    BY <1>1 DEF RunOK, StepOK, Onward, Working, InstallPcs, UninstallPcs, RestorePcs, Kept, Inspected
  <2>2. CASE Step(r, "verify") /\ StagedAsPlanned(r)
    BY <1>1, <1>2, <1>3, <2>1, <2>2, GoOK DEF Step, Working, TypeOK
  <2>3. CASE Step(r, "undo_look")
    BY <1>1, <1>2, <2>1, <2>3, GoOK DEF Step, Working, Inspected, TypeOK
  <2> QED BY <2>2, <2>3 DEF Inspect
<1> QED BY <1>1, <1>2, <1>4, StepTyped DEF TypeOK

LEMMA VerifySourceOK ==
    ASSUME IInv, NEW r \in Runs, VerifySource(r)
    PROVE  TypeOK' /\ log' = log /\ OnlyRun(r) /\ RunOK(r)'
<1>1. pc[r] = "verify" /\ UNCHANGED <<tree, backup, staged, log, torn>> /\ (Sound \/ Faulty)
  BY DEF VerifySource, files, store
<1>2. dest' \in [Dest -> Entries] /\ OwnStaging(r)
  BY <1>1, Acting, EntryKinds, StagingKept DEF VerifySource, files
<1>3. Onward(r, "link") /\ Onward(r, "undo_look")
  BY <1>1, Acting DEF StepOK, Onward, Working, InstallPcs, UninstallPcs, RestorePcs, Kept, Inspected
<1>4. staged'[r][at[r]] \in {Absent, Dir(Damaged), backup[r][at[r]]}
  BY <1>1, Acting DEF RunOK, StagedOK, Inspected
<1> QED BY <1>1, <1>2, <1>3, <1>4, Acting, CommandStep DEF VerifySource, Working, Outcomes, Inspected

LEMMA MakeLinkOK ==
    ASSUME IInv, NEW r \in Runs, MakeLink(r)
    PROVE  TypeOK' /\ log' = log /\ OnlyRun(r) /\ RunOK(r)'
<1>1. pc[r] = "link" /\ UNCHANGED <<tree, backup, staged, log, torn>> /\ (Sound \/ Faulty)
  BY DEF MakeLink, files, store
<1>2. dest' \in [Dest -> Entries] /\ OwnStaging(r)
  BY <1>1, Acting, EntryKinds, StagingKept DEF MakeLink, files, Paths
<1>3. Onward(r, "confirm") /\ Onward(r, "undo_look")
  BY <1>1, Acting DEF StepOK, Onward, Working, InstallPcs, UninstallPcs, RestorePcs, Kept, Inspected
<1>4. staged'[r][at[r]] \in {Absent, Dir(Damaged), backup[r][at[r]]}
  BY <1>1, Acting DEF RunOK, StagedOK, Inspected
<1> QED BY <1>1, <1>2, <1>3, <1>4, Acting, CommandStep DEF MakeLink, Working, Outcomes, Inspected

LEMMA DropOK ==
    ASSUME IInv, NEW r \in Runs, Drop(r)
    PROVE  TypeOK' /\ log' = log /\ OnlyRun(r) /\ RunOK(r)'
<1>1. pc[r] = "drop" /\ UNCHANGED <<tree, backup, staged, log, torn>> /\ (Sound \/ Faulty)
  BY DEF Drop, files, store
<1>2. dest' \in [Dest -> Entries] /\ OwnStaging(r)
  BY <1>1, Acting, EntryKinds, StagingKept DEF Drop, files
<1>3. Onward(r, "undo_link")
  BY <1>1, Acting DEF StepOK, Onward, Working, InstallPcs, UninstallPcs, RestorePcs, Kept, Inspected
<1>4. staged'[r][at[r]] \in {Absent, Dir(Damaged), backup[r][at[r]]}
  BY <1>1, Acting DEF RunOK, StagedOK, Inspected
<1> QED BY <1>1, <1>2, <1>3, <1>4, Acting, CommandStep DEF Drop, Working, Outcomes, Inspected

LEMMA UndoLinkOK ==
    ASSUME IInv, NEW r \in Runs, UndoLink(r)
    PROVE  TypeOK' /\ log' = log /\ OnlyRun(r) /\ RunOK(r)'
<1>1. pc[r] = "undo_link" /\ UNCHANGED <<tree, backup, staged, log, torn>> /\ (Sound \/ Faulty)
  BY DEF UndoLink, files, store
<1>2. dest' \in [Dest -> Entries] /\ OwnStaging(r)
  BY <1>1, Acting, EntryKinds, StagingKept DEF UndoLink, files
<1>3. Onward(r, "undo_look")
  BY <1>1, Acting DEF StepOK, Onward, Working, InstallPcs, UninstallPcs, RestorePcs, Kept, Inspected
<1> QED BY <1>1, <1>2, <1>3, Acting, CommandStep DEF UndoLink, Working, Outcomes, Inspected

LEMMA UndoLookOK ==
    ASSUME IInv, NEW r \in Runs, UndoLook(r)
    PROVE  TypeOK' /\ log' = log /\ OnlyRun(r) /\ RunOK(r)'
<1>1. pc[r] = "undo_look" /\ UNCHANGED <<tree, backup, staged, log, torn>> /\ (Sound \/ Faulty)
  BY DEF UndoLook, files, store
<1>2. dest' \in [Dest -> Entries] /\ OwnStaging(r)
  BY <1>1, Acting, EntryKinds, StagingKept DEF UndoLook, files
<1>3. Onward(r, "undo_rename") /\ Onward(r, "undo_discard")
  BY <1>1, Acting DEF StepOK, Onward, Working, InstallPcs, UninstallPcs, RestorePcs, Kept, Inspected
<1> QED BY <1>1, <1>2, <1>3, Acting, CommandStep DEF UndoLook, Working, Outcomes, Inspected

LEMMA UndoCheckOK ==
    ASSUME IInv, NEW r \in Runs, UndoCheck(r)
    PROVE  TypeOK' /\ log' = log /\ OnlyRun(r) /\ RunOK(r)'
<1>1. pc[r] = "undo_check" /\ UNCHANGED <<tree, backup, staged, log, torn>> /\ (Sound \/ Faulty)
  BY DEF UndoCheck, files, store
<1>2. dest' \in [Dest -> Entries] /\ OwnStaging(r)
  BY <1>1, Acting, EntryKinds, StagingKept DEF UndoCheck, files
<1> QED BY <1>1, <1>2, Acting, CommandStep DEF UndoCheck, Working, Outcomes, Inspected

LEMMA ConfirmOK ==
    ASSUME IInv, NEW r \in Runs, Confirm(r)
    PROVE  TypeOK' /\ log' = log /\ OnlyRun(r) /\ RunOK(r)'
<1>1. /\ pc[r] = "confirm" /\ UNCHANGED <<dest, tree, backup, staged, log, torn>>
      /\ (Sound \/ Faulty) /\ UNCHANGED <<at, job>>
  BY DEF Confirm, files, store
<1>2. /\ result' \in [Runs -> [Dest -> ActionResults]]
      /\ \A q \in Runs \ {r} : result'[q] = result[q]
      /\ \A d \in Dest : result'[r][d].outcome = result[r][d].outcome
  <2>1. CASE UNCHANGED result BY <2>1, Acting DEF TypeOK
  <2>2. CASE result' = [result EXCEPT ![r][at[r]].after = Observed(r, at[r])]
    <3>1. job[r] \in Jobs BY <1>1, Acting DEF RunOK, PlanOK
    <3>2. job[r].source \in Trees BY <3>1 DEF Jobs
    <3>3. Observed(r, at[r]) \in Evidence
      BY <3>2, Acting, InventoryType DEF Observed, TypeOK
    <3> QED BY <2>2, <3>3, Acting, AfterSet
  <2> QED BY <2>1, <2>2 DEF Confirm
<1>3. Onward(r, "clean") /\ Onward(r, "drop")
  BY <1>1, Acting DEF StepOK, Onward, Working, InstallPcs, UninstallPcs, RestorePcs, Kept, Inspected
<1>4. OwnStaging(r) /\ staged'[r][at[r]] \in {Absent, Dir(Damaged), backup[r][at[r]]}
  BY <1>1, Acting, StagingKept DEF RunOK, StagedOK, Inspected
<1>5. Goto(r, "clean") \/ Goto(r, "drop") BY DEF Confirm
<1>6. OnlyRun(r) /\ ProcsTyped /\ RunOK(r)'
  BY <1>1, <1>2, <1>3, <1>4, <1>5, GoOK DEF Working
<1> QED BY <1>1, <1>6, Acting, StepTyped DEF TypeOK

LEMMA CleanOK ==
    ASSUME IInv, NEW r \in Runs, Clean(r)
    PROVE  TypeOK' /\ log' = log /\ OnlyRun(r) /\ RunOK(r)'
<1> DEFINE e == staged[r][at[r]]
<1>1. pc[r] = "clean" /\ UNCHANGED <<dest, tree, backup, log, torn>> /\ (Sound \/ Faulty)
  BY DEF Clean, files
<1>2. /\ Remains(e) \subseteq Entries
      /\ \A rest \in Remains(e) : rest \in {Absent, Dir(Damaged), backup[r][at[r]]}
  BY <1>1, Acting, EntryKinds DEF Remains, RunOK, StagedOK, Inspected
<1>3. Onward(r, "undo_link")
  BY <1>1, Acting DEF StepOK, Onward, Working, InstallPcs, UninstallPcs, RestorePcs, Kept, Inspected
<1>4. result[r][at[r]].after \in Evidence \cup {None}
  BY Acting DEF TypeOK, ActionResults
<1>5. Kind(r) = "replace_with_symlink" => backup[r][at[r]] = EntryOf(Before(r))
  BY <1>1, Acting, SMTT(30) DEF RunOK, BackupOK, Kept, Inspected
<1>6. CASE Finish(r, "complete", result[r][at[r]].after) /\ staged' = [staged EXCEPT ![r][at[r]] = Absent]
  BY <1>1, <1>4, <1>5, <1>6, Acting, EntryKinds, StagingSet, CommandStep, Zenon DEF Working, Outcomes
<1>7. CASE /\ Step(r, "undo_link")
           /\ \E rest \in Remains(e) : staged' = [staged EXCEPT ![r][at[r]] = rest]
  <2>1. PICK rest \in Remains(e) : staged' = [staged EXCEPT ![r][at[r]] = rest]
    BY <1>7
  <2>2. OwnStaging(r) /\ staged'[r][at[r]] \in {Absent, Dir(Damaged), backup[r][at[r]]}
    BY <1>2, <2>1, Acting, StagingSet
  <2> QED BY <1>1, <1>3, <1>7, <2>2, Acting, CommandStep, Zenon DEF Working
<1> QED BY <1>6, <1>7 DEF Clean

LEMMA UndoDiscardOK ==
    ASSUME IInv, NEW r \in Runs, UndoDiscard(r)
    PROVE  TypeOK' /\ log' = log /\ OnlyRun(r) /\ RunOK(r)'
<1> DEFINE e == staged[r][at[r]]
<1>1. /\ pc[r] = "undo_discard" /\ UNCHANGED <<dest, tree, backup, log, torn>>
      /\ (Sound \/ Faulty) /\ Finish(r, "failed", None)
  BY DEF UndoDiscard, files
<1>2. OwnStaging(r)
  <2>1. Remains(e) \subseteq Entries
    BY Acting, EntryKinds DEF Remains
  <2> QED BY <2>1, Acting, EntryKinds, StagingSet DEF UndoDiscard
<1> QED BY <1>1, <1>2, Acting, CommandStep DEF Working, Outcomes

LEMMA UndoRenameOK ==
    ASSUME IInv, NEW r \in Runs, UndoRename(r)
    PROVE  TypeOK' /\ log' = log /\ OnlyRun(r) /\ RunOK(r)'
<1>1. pc[r] = "undo_rename" /\ UNCHANGED <<tree, backup, log, torn>> /\ (Sound \/ Faulty)
  BY DEF UndoRename, files
<1>2. dest' \in [Dest -> Entries] /\ OwnStaging(r)
  BY Acting, EntryKinds, StagingKept, StagingSet DEF UndoRename, files
<1>3. Onward(r, "undo_check")
  BY <1>1, Acting DEF StepOK, Onward, Working, InstallPcs, UninstallPcs, RestorePcs, Kept, Inspected
<1> QED BY <1>1, <1>2, <1>3, Acting, CommandStep DEF UndoRename, Working, Outcomes, Inspected

(***************************************************************************)
(* Every step of an uninstall.                                             *)
(***************************************************************************)

LEMMA CheckLinkOK ==
    ASSUME IInv, NEW r \in Runs, CheckLink(r)
    PROVE  TypeOK' /\ log' = log /\ OnlyRun(r) /\ RunOK(r)'
<1>1. /\ pc[r] = "action" /\ job[r].op = "uninstall" /\ (Sound \/ Faulty)
      /\ UNCHANGED <<dest, tree, backup, staged, log, torn>>
  BY DEF CheckLink, files, store
<1>2. Onward(r, "unlink")
  BY <1>1 DEF Onward, Working, InstallPcs, UninstallPcs, RestorePcs, Kept, Inspected
<1> QED BY <1>1, <1>2, Acting, StagingKept, CommandStep DEF CheckLink, Working, Outcomes, Inspected

LEMMA UnlinkOK ==
    ASSUME IInv, NEW r \in Runs, Unlink(r)
    PROVE  TypeOK' /\ log' = log /\ OnlyRun(r) /\ RunOK(r)'
<1>1. pc[r] = "unlink" /\ UNCHANGED <<tree, backup, staged, log, torn>> /\ (Sound \/ Faulty)
  BY DEF Unlink, files, store
<1>2. dest' \in [Dest -> Entries] /\ OwnStaging(r)
  BY <1>1, Acting, EntryKinds, StagingKept DEF Unlink, files
<1>3. Onward(r, "gone")
  BY <1>1, Acting DEF StepOK, Onward, Working, InstallPcs, UninstallPcs, RestorePcs, Kept, Inspected
<1> QED BY <1>1, <1>2, <1>3, Acting, CommandStep DEF Unlink, Working, Outcomes, Inspected

LEMMA GoneOK ==
    ASSUME IInv, NEW r \in Runs, Gone(r)
    PROVE  TypeOK' /\ log' = log /\ OnlyRun(r) /\ RunOK(r)'
<1>1. /\ pc[r] = "gone" /\ (Sound \/ Faulty)
      /\ UNCHANGED <<dest, tree, backup, staged, log, torn>>
  BY DEF Gone, files, store
<1>2. job[r].op # "install" /\ AbsentEvidence \in Evidence
  BY <1>1, Acting DEF StepOK, UninstallPcs, AbsentEvidence, Evidence, Kinds
<1> QED BY <1>1, <1>2, Acting, StagingKept, CommandStep DEF Gone, Working, Outcomes

(***************************************************************************)
(* Every step of a restore.                                                *)
(***************************************************************************)

LEMMA RestageOK ==
    ASSUME IInv, NEW r \in Runs, Restage(r)
    PROVE  TypeOK' /\ log' = log /\ OnlyRun(r) /\ RunOK(r)'
<1>1. pc[r] = "restage" /\ UNCHANGED <<tree, backup, staged, log, torn>> /\ (Sound \/ Faulty)
  BY DEF Restage, files, store
<1>2. dest' \in [Dest -> Entries] /\ OwnStaging(r)
  BY <1>1, Acting, EntryKinds, StagingKept DEF Restage, files
<1>3. Onward(r, "take")
  BY <1>1, Acting DEF StepOK, Onward, Working, InstallPcs, UninstallPcs, RestorePcs, Kept, Inspected
<1> QED BY <1>1, <1>2, <1>3, Acting, CommandStep DEF Restage, Working, Outcomes, Inspected

LEMMA TakeOK ==
    ASSUME IInv, NEW r \in Runs, Take(r)
    PROVE  TypeOK' /\ log' = log /\ OnlyRun(r) /\ RunOK(r)'
<1>1. pc[r] = "take" /\ UNCHANGED <<tree, backup, log, torn>> /\ (Sound \/ Faulty)
  BY DEF Take, files
<1>2. dest' \in [Dest -> Entries] /\ OwnStaging(r)
  BY Acting, EntryKinds, StagingKept, StagingSet DEF Take, files
<1>3. Onward(r, "taken")
  BY <1>1, Acting DEF StepOK, Onward, Working, InstallPcs, UninstallPcs, RestorePcs, Kept, Inspected
<1> QED BY <1>1, <1>2, <1>3, Acting, CommandStep DEF Take, Working, Outcomes, Inspected

LEMMA TakenOK ==
    ASSUME IInv, NEW r \in Runs, Taken(r)
    PROVE  TypeOK' /\ log' = log /\ OnlyRun(r) /\ RunOK(r)'
<1>1. /\ pc[r] = "taken" /\ (Sound \/ Faulty)
      /\ UNCHANGED <<dest, tree, backup, staged, log, torn>>
  BY DEF Taken, files, store
<1>2. /\ Onward(r, "forget")
      /\ Kind(r) # "remove_managed_symlink" => Onward(r, "publish")
  BY <1>1, Acting DEF StepOK, Onward, Working, InstallPcs, UninstallPcs, RestorePcs, Kept, Inspected
<1> QED BY <1>1, <1>2, Acting, StagingKept, CommandStep DEF Taken, Working, Outcomes, Inspected

LEMMA ForgetOK ==
    ASSUME IInv, NEW r \in Runs, Forget(r)
    PROVE  TypeOK' /\ log' = log /\ OnlyRun(r) /\ RunOK(r)'
<1>1. pc[r] = "forget" /\ UNCHANGED <<dest, tree, backup, log, torn>> /\ (Sound \/ Faulty)
  BY DEF Forget, files
<1>2. OwnStaging(r)
  BY Acting, EntryKinds, StagingKept, StagingSet DEF Forget
<1>3. job[r].op # "install" /\ AbsentEvidence \in Evidence \cup {None}
  BY <1>1, Acting DEF StepOK, RestorePcs, AbsentEvidence, Evidence, Kinds, TypeOK, ActionResults
<1>4. Onward(r, "put_back")
  BY <1>1, Acting DEF StepOK, Onward, Working, InstallPcs, UninstallPcs, RestorePcs, Kept, Inspected
<1> QED BY <1>1, <1>2, <1>3, <1>4, Acting, CommandStep DEF Forget, Working, Outcomes, Inspected

LEMMA PublishOK ==
    ASSUME IInv, NEW r \in Runs, Publish(r)
    PROVE  TypeOK' /\ log' = log /\ OnlyRun(r) /\ RunOK(r)'
<1>1. pc[r] = "publish" /\ UNCHANGED <<tree, backup, staged, log, torn>> /\ (Sound \/ Faulty)
  BY DEF Publish, store
<1>2. PreimageEntry(r) \in Entries
  <2>1. /\ job[r].op = "restore" /\ Kind(r) = "restore_preimage" /\ job[r].from \in Runs
        /\ Preimage(job[r].from, at[r]) # None /\ pc[job[r].from] \in Ended
    BY <1>1, Acting DEF RunOK, FromOK, StepOK, Kind, RestorePcs
  <2>2. job[job[r].from] \in Jobs /\ PlanOK(job[r].from)
    BY <2>1 DEF IInv, RunOK, PlanOK, Ended
  <2> DEFINE id == job[r].from
             p  == job[id].plan[at[r]]
  <2>3. backup[id][at[r]] \in Entries \cup {None}
    BY <2>1, Acting DEF TypeOK
  <2>4. p.kind = "no_op" => p.before.lexical \in Paths
    BY <2>2, Acting DEF PlanOK
  <2>5. PreimageEntry(r) = IF backup[id][at[r]] # None THEN backup[id][at[r]]
                           ELSE IF p.kind = "no_op" THEN Link(p.before.lexical) ELSE None
    BY DEF PreimageEntry, Preimage
  <2>6. PreimageEntry(r) # None
    BY <2>1 DEF PreimageEntry
  <2> HIDE DEF id, p
  <2> QED BY <2>3, <2>4, <2>5, <2>6, EntryKinds
<1>3. dest' \in [Dest -> Entries]
  BY <1>2, Acting DEF Publish
<1>4. Onward(r, "recheck") /\ Onward(r, "put_back")
  BY <1>1, Acting DEF StepOK, Onward, Working, InstallPcs, UninstallPcs, RestorePcs, Kept, Inspected
<1> QED BY <1>1, <1>3, <1>4, Acting, StagingKept, CommandStep DEF Publish, Working, Inspected

LEMMA RecheckOK ==
    ASSUME IInv, NEW r \in Runs, Recheck(r)
    PROVE  TypeOK' /\ log' = log /\ OnlyRun(r) /\ RunOK(r)'
<1> DEFINE pre == PreimageEvidence(r)
<1>1. /\ pc[r] = "recheck" /\ UNCHANGED <<dest, tree, backup, staged, log, torn>>
      /\ (Sound \/ Faulty) /\ UNCHANGED <<at, job>>
  BY DEF Recheck, files, store
<1>2. /\ result' \in [Runs -> [Dest -> ActionResults]]
      /\ \A q \in Runs \ {r} : result'[q] = result[q]
      /\ \A d \in Dest : result'[r][d].outcome = result[r][d].outcome
  <2>1. CASE UNCHANGED result BY <2>1, Acting DEF TypeOK
  <2>2. CASE /\ Restored(dest, tree, at[r], pre)
             /\ result' = [result EXCEPT ![r][at[r]].after = RestoredEvidence(dest, tree, at[r], pre)]
    <3>1. RestoredEvidence(dest, tree, at[r], pre) \in Evidence
      <4>1. job[r].op = "restore" /\ job[r].from \in Runs /\ pc[job[r].from] \in Ended
        BY <1>1, Acting DEF RunOK, FromOK, StepOK, RestorePcs
      <4>2. job[job[r].from] \in Jobs
        BY <4>1 DEF IInv, RunOK, PlanOK, Ended
      <4>3. pre \in Evidence
        BY <4>2, Acting DEF PreimageEvidence, Jobs, Plan
      <4> HIDE DEF pre
      <4>4. Inventory(dest, tree, pre.digest, dest[at[r]]) \in Evidence
        BY Acting, InventoryType DEF TypeOK
      <4> QED BY <4>3, <4>4 DEF RestoredEvidence, Evidence
    <3> HIDE DEF pre
    <3> QED BY <2>2, <3>1, Acting, AfterSet
  <2> QED BY <2>1, <2>2 DEF Recheck
<1>3. Onward(r, "clear") /\ Onward(r, "put_back")
  BY <1>1, Acting DEF StepOK, Onward, Working, InstallPcs, UninstallPcs, RestorePcs, Kept, Inspected
<1>4. Goto(r, "clear") \/ Goto(r, "put_back") BY DEF Recheck
<1>5. OwnStaging(r) BY <1>1, Acting, StagingKept
<1>6. OnlyRun(r) /\ ProcsTyped /\ RunOK(r)'
  BY <1>1, <1>2, <1>3, <1>4, <1>5, GoOK DEF Working, Inspected
<1> QED BY <1>1, <1>6, Acting, StepTyped DEF TypeOK

LEMMA ClearOK ==
    ASSUME IInv, NEW r \in Runs, Clear(r)
    PROVE  TypeOK' /\ log' = log /\ OnlyRun(r) /\ RunOK(r)'
<1>1. pc[r] = "clear" /\ UNCHANGED <<dest, tree, backup, log, torn>> /\ (Sound \/ Faulty)
  BY DEF Clear, files
<1>2. OwnStaging(r)
  BY Acting, EntryKinds, StagingKept, StagingSet DEF Clear
<1>3. job[r].op # "install" /\ result[r][at[r]].after \in Evidence \cup {None}
  BY <1>1, Acting DEF StepOK, RestorePcs, AbsentEvidence, Evidence, Kinds, TypeOK, ActionResults
<1> QED BY <1>1, <1>2, <1>3, Acting, CommandStep DEF Clear, Working, Outcomes, Inspected

LEMMA PutBackOK ==
    ASSUME IInv, NEW r \in Runs, PutBack(r)
    PROVE  TypeOK' /\ log' = log /\ OnlyRun(r) /\ RunOK(r)'
<1>1. pc[r] = "put_back" /\ UNCHANGED <<tree, backup, log, torn>> /\ (Sound \/ Faulty)
  BY DEF PutBack
<1>2. dest' \in [Dest -> Entries] /\ OwnStaging(r)
  BY Acting, EntryKinds, StagingKept, StagingSet DEF PutBack
<1> QED BY <1>1, <1>2, CommandStep, Zenon DEF PutBack, Working, Outcomes

(***************************************************************************)
(* The steps every operation has, and those that are no command's.         *)
(***************************************************************************)

LEMMA NoOpOK ==
    ASSUME IInv, NEW r \in Runs, NoOp(r)
    PROVE  TypeOK' /\ log' = log /\ OnlyRun(r) /\ RunOK(r)'
<1>1. /\ pc[r] = "action" /\ Kind(r) = "no_op" /\ Sound /\ Finish(r, "complete", Before(r))
      /\ UNCHANGED <<dest, tree, backup, staged, log, torn>>
  BY DEF NoOp, files, store
<1>2. job[r] \in Jobs
  BY <1>1, Acting DEF RunOK, PlanOK
<1>3. Before(r) \in Evidence
  BY <1>2, Acting DEF Before, Jobs, Plan
<1> QED BY <1>1, <1>3, Acting, StagingKept, CommandStep DEF Working, Outcomes

\* A backup that succeeds holds the entry the plan observed.
LEMMA BackUpOK ==
    ASSUME IInv, NEW r \in Runs, BackUp(r)
    PROVE  TypeOK' /\ log' = log /\ OnlyRun(r) /\ RunOK(r)'
<1>1. /\ pc[r] = "action" /\ Kind(r) # "no_op" /\ job[r].op # "uninstall"
      /\ UNCHANGED <<dest, tree, staged, log, torn>> /\ (Sound \/ Faulty)
  BY DEF BackUp, files
<1>2. job[r] \in Jobs BY <1>1, Acting DEF RunOK, PlanOK
<1>3. job[r].op \in {"install", "restore"} BY <1>1, <1>2 DEF Jobs, Operations
<1>4. CASE Finish(r, "failed", None) /\ UNCHANGED backup
  BY <1>1, <1>4, Acting, StagingKept, CommandStep DEF Working, Outcomes
<1>5. CASE /\ BackupMatches(r) /\ backup' = [backup EXCEPT ![r][at[r]] = BackupOf(r)]
           /\ Goto(r, AfterBackup(r)) /\ UNCHANGED <<at, job, result>>
  <2> DEFINE to == AfterBackup(r)
  <2>1. /\ backup' \in [Runs -> [Dest -> Entries \cup {None}]]
        /\ backup'[r][at[r]] = BackupOf(r)
        /\ \A q \in Runs, d \in Dest : (q # r \/ d # at[r]) => backup'[q][d] = backup[q][d]
    <3>1. BackupOf(r) \in Entries \cup {None} BY Acting DEF BackupOf
    <3> QED BY <1>5, <3>1, Acting DEF TypeOK
  <2>2. /\ to \in {"displace", "verify", "restage", "forget", "publish"}
        /\ to \in {"displace", "verify"} => job[r].op = "install"
        /\ to \notin {"displace", "verify"} => job[r].op = "restore"
        /\ to = "displace" => Before(r).kind # "absent"
        /\ to = "verify" => Before(r).kind = "absent"
        /\ to = "publish" => Kind(r) # "remove_managed_symlink"
    BY <1>3 DEF AfterBackup
  <2>3. pc'[r] = to BY <1>5, Acting DEF Goto, TypeOK
  <2>4. ProcsTyped
    BY <1>5, <2>2, Acting DEF TypeOK, Goto, ProcsTyped, Steps, Working
  <2>5. OnlyRun(r)
    BY <1>1, <1>5, <2>1, Acting DEF TypeOK, OnlyRun, Goto, Finished
  <2> HIDE DEF to
  <2>6. PlanOK(r)' /\ FromOK(r)' BY <1>1, <1>5, <2>5, PlanKept
  <2>7. StepOK(r)' /\ FreshOK(r)'
    BY <1>1, <1>5, <2>2, <2>3 DEF FreshOK, StepOK, InstallPcs, UninstallPcs, RestorePcs, Kind
  <2>8. StagingOK(r)' /\ StagedOK(r)'
    BY <1>1, <1>5, <2>2, <2>3, Acting DEF RunOK, StagingOK, StagedOK, Inspected
  <2>9. Kind(r) = "replace_with_symlink" /\ job[r].op = "install"
        => BackupOf(r) = EntryOf(Before(r)) /\ Before(r).kind # "absent"
    <3> SUFFICES ASSUME Kind(r) = "replace_with_symlink", job[r].op = "install"
                 PROVE  BackupOf(r) = EntryOf(Before(r)) /\ Before(r).kind # "absent"
      OBVIOUS
    <3>1. /\ Before(r).kind # "absent" /\ Before(r).kind # "unsupported"
          /\ Before(r).kind # "correct_symlink"
      BY Acting DEF RunOK, PlanOK, Before, Kind, InstallKind
    <3>2. Before(r) \in Evidence BY <1>2, Acting DEF Before, Jobs, Plan
    <3>3. CASE Before(r).kind = "directory"
      BY <1>5, <3>3 DEF BackupMatches, BackupOf, EntryOf, IsLink
    <3>4. CASE Before(r).kind = "divergent_symlink"
      BY <1>5, <3>4 DEF BackupMatches, BackupOf, EntryOf, IsLink
    <3> QED BY <3>1, <3>2, <3>3, <3>4 DEF Evidence, Kinds
  <2>10. BackupOK(r)'
    <3>1. Before(r)' = Before(r) /\ Kind(r)' = Kind(r) BY <1>5 DEF Before, Kind
    <3>2. pc'[r] \in {"displace", "inspect"} => Before(r).kind # "absent"
      BY <2>2, <2>3
    <3>3. (pc'[r] \in Kept /\ Kind(r) = "replace_with_symlink") =>
             backup'[r][at[r]] = EntryOf(Before(r))
      BY <2>1, <2>2, <2>3, <2>9 DEF Kept, Inspected
    <3>4. ASSUME NEW d \in Dest, job[r].op = "install", result[r][d].outcome = "complete",
                 job[r].plan[d].kind = "replace_with_symlink"
          PROVE  backup'[r][d] = EntryOf(job[r].plan[d].before)
      <4>1. CASE d = at[r]
        BY <2>1, <2>9, <3>4, <4>1 DEF Before, Kind
      <4>2. CASE d # at[r]
        BY <2>1, <3>4, <4>2, Acting DEF RunOK, BackupOK
      <4> QED BY <4>1, <4>2
    <3> QED BY <1>5, <3>1, <3>2, <3>3, <3>4 DEF BackupOK
  <2>11. TypeOK'
    <3>1. edits' \in 0..MaxEdits /\ faults' \in 0..MaxFaults /\ crashes' \in 0..MaxCrashes
      BY <1>1, Acting, SkillAssumption DEF TypeOK, Sound, Faulty, env
    <3> QED BY <1>1, <2>1, <2>4, <3>1, Acting DEF TypeOK, ProcsTyped
  <2> QED BY <1>1, <2>5, <2>6, <2>7, <2>8, <2>10, <2>11 DEF RunOK
<1> QED BY <1>4, <1>5 DEF BackUp

LEMMA BeginOK ==
    ASSUME IInv, NEW r \in Runs, Begin(r)
    PROVE  TypeOK' /\ log' = log /\ OnlyRun(r) /\ RunOK(r)'
<1>1. /\ pc[r] = "approved" /\ (Sound \/ Faulty)
      /\ UNCHANGED <<dest, tree, backup, staged, log, torn, at, job, result>>
      /\ \E to \in {"action", "refused"} : Goto(r, to)
  BY DEF Begin, files, store
<1>2. pc'[r] \in {"action", "refused"} /\ ProcsTyped
  BY <1>1, Acting DEF TypeOK, Goto, ProcsTyped, Steps, Working, Finished
<1>3. OnlyRun(r)
  BY <1>1, Acting DEF TypeOK, OnlyRun, Goto, Finished
<1>4. PlanOK(r)' /\ FromOK(r)' BY <1>1, <1>3, PlanKept
<1>5. StepOK(r)' /\ StagedOK(r)' /\ StagingOK(r)' /\ BackupOK(r)' /\ FreshOK(r)'
  BY <1>1, <1>2, Acting
     DEF RunOK, FreshOK, StepOK, StagedOK, StagingOK, BackupOK, InstallPcs, UninstallPcs, RestorePcs,
         Kept, Inspected
<1> QED BY <1>1, <1>2, <1>3, <1>4, <1>5, Acting, StepTyped DEF RunOK, TypeOK

LEMMA PreviewOK ==
    ASSUME IInv, NEW r \in Runs, Preview(r)
    PROVE  TypeOK' /\ log' = log /\ OnlyRun(r) /\ RunOK(r)'
<1>1. PICK j \in PlannedJobs : job' = [job EXCEPT ![r] = j]
  BY DEF Preview
<1>2. /\ pc[r] = "idle" /\ Sound /\ Goto(r, "approved")
      /\ UNCHANGED <<dest, tree, backup, staged, log, torn, at, result>>
  BY DEF Preview, files, store
<1>3. j \in Jobs BY <1>1, PlannedJobsOK
<1>4. /\ ProcsTyped /\ pc'[r] = "approved" /\ job'[r] = j
      /\ \A q \in Runs \ {r} : pc'[q] = pc[q] /\ job'[q] = job[q]
  BY <1>1, <1>2, <1>3, Acting DEF TypeOK, Goto, ProcsTyped, Steps
<1>5. OnlyRun(r) BY <1>2, <1>4 DEF OnlyRun, Finished
<1>6. PlanOK(r)' BY <1>1, <1>3, <1>4, PlannedJobsOK DEF PlanOK
<1>7. FromOK(r)'
  <2> SUFFICES ASSUME j.op = "restore" PROVE FromOK(r)'
    BY <1>4 DEF FromOK
  <2>1. /\ j.from \in Runs /\ pc[j.from] \in Ended
        /\ \A d \in Dest :
              /\ j.plan[d].kind \in {"no_op", "remove_managed_symlink", "restore_preimage"}
              /\ j.plan[d].kind = "restore_preimage" => Preimage(j.from, d) # None
    BY <1>1, PlannedJobsOK
  <2>2. j.from # r BY <1>2, <2>1 DEF Ended
  <2> QED BY <1>2, <1>4, <2>1, <2>2 DEF FromOK, Preimage
<1>8. StepOK(r)' /\ StagedOK(r)' /\ StagingOK(r)'
  BY <1>2, <1>4, Acting
     DEF RunOK, StepOK, StagedOK, StagingOK, InstallPcs, UninstallPcs, RestorePcs, Inspected
<1>9. BackupOK(r)'
  <2>1. \A d \in Dest : result[r][d].outcome # "complete"
    BY <1>2, Acting DEF RunOK, FreshOK
  <2> QED BY <1>2, <1>4, <2>1 DEF BackupOK, Kept, Inspected
<1>10. FreshOK(r)' BY <1>4 DEF FreshOK
<1> QED BY <1>2, <1>4, <1>5, <1>6, <1>7, <1>8, <1>9, <1>10, Acting, StepTyped DEF RunOK, TypeOK

\* The receipt is the last thing a run does, and tells its results as they are.
LEMMA WriteReceiptOK ==
    ASSUME IInv, NEW r \in Runs, WriteReceipt(r)
    PROVE  /\ TypeOK' /\ OnlyRun(r) /\ RunOK(r)'
           /\ result' = result /\ pc'[r] \in Ended
           /\ \A i \in DOMAIN log' :
                 \/ i \in DOMAIN log /\ log'[i] = log[i]
                 \/ log'[i] = [id |-> r, complete |-> AllComplete(r)]
<1> DEFINE line == [id |-> r, complete |-> AllComplete(r)]
<1>1. /\ pc[r] = "append" /\ (Sound \/ Faulty) /\ torn' \in BOOLEAN
      /\ UNCHANGED <<dest, tree, backup, staged, at, job, result>>
      /\ Goto(r, "complete") \/ Goto(r, "incomplete")
      /\ log' = log \/ log' = Append(log, line)
  BY Acting DEF WriteReceipt, files, TypeOK
<1>2. pc'[r] \in Ended /\ ProcsTyped
  BY <1>1, Acting DEF TypeOK, Goto, ProcsTyped, Steps, Finished, Ended
<1>3. OnlyRun(r)
  BY <1>1, Acting DEF TypeOK, OnlyRun, Goto, Finished
<1>4. PlanOK(r)' /\ FromOK(r)' BY <1>1, <1>3, PlanKept
<1>5. /\ StepOK(r)' /\ StagedOK(r)' /\ StagingOK(r)' /\ BackupOK(r)' /\ FreshOK(r)'
  BY <1>1, <1>2, Acting
     DEF RunOK, FreshOK, StepOK, StagedOK, StagingOK, BackupOK, InstallPcs, UninstallPcs,
         RestorePcs, Kept, Inspected, Ended
<1>6. AllComplete(r) \in BOOLEAN BY DEF AllComplete
<1>7. line \in Receipts BY <1>6 DEF Receipts
<1> HIDE DEF line
<1>8. log' \in Seq(Receipts) /\ \A i \in DOMAIN log' : \/ i \in DOMAIN log /\ log'[i] = log[i]
                                                   \/ log'[i] = line
  <2>1. log \in Seq(Receipts) BY Acting DEF TypeOK
  <2>2. CASE log' = log BY <2>1, <2>2
  <2>3. CASE log' = Append(log, line) BY <1>7, <2>1, <2>3
  <2> QED BY <1>1, <2>2, <2>3
<1>9. edits' \in 0..MaxEdits /\ faults' \in 0..MaxFaults /\ crashes' \in 0..MaxCrashes
  BY <1>1, Acting, SkillAssumption DEF TypeOK, Sound, Faulty, env
<1>10. TypeOK'
  BY <1>1, <1>2, <1>8, <1>9, Acting DEF TypeOK, ProcsTyped
<1> QED BY <1>1, <1>2, <1>3, <1>4, <1>5, <1>8, <1>10 DEF RunOK, line

LEMMA CrashOK ==
    ASSUME IInv, NEW r \in Runs, Crash(r)
    PROVE  TypeOK' /\ log' = log /\ OnlyRun(r) /\ RunOK(r)'
<1>1. /\ pc[r] \in Working /\ crashes < MaxCrashes /\ crashes' = crashes + 1 /\ torn' \in BOOLEAN
      /\ UNCHANGED <<dest, tree, backup, staged, log, at, job, result, edits, faults>>
      /\ Goto(r, "crashed")
  BY Acting DEF Crash, files, TypeOK
<1>2. pc'[r] = "crashed" /\ ProcsTyped
  BY <1>1, Acting DEF TypeOK, Goto, ProcsTyped, Steps, Finished
<1>3. OnlyRun(r)
  BY <1>1, Acting DEF TypeOK, OnlyRun, Goto, Finished, Working
<1>4. PlanOK(r)' /\ FromOK(r)' BY <1>1, <1>3, PlanKept DEF Working
<1>5. StepOK(r)' /\ StagedOK(r)' /\ StagingOK(r)' /\ BackupOK(r)' /\ FreshOK(r)'
  BY <1>1, <1>2, Acting
     DEF RunOK, FreshOK, StepOK, StagedOK, StagingOK, BackupOK, InstallPcs, UninstallPcs,
         RestorePcs, Kept, Inspected
<1>6. crashes' \in 0..MaxCrashes
  BY <1>1, Acting, SkillAssumption DEF TypeOK
<1>7. TypeOK'
  BY <1>1, <1>2, <1>6, Acting DEF TypeOK, ProcsTyped
<1> QED BY <1>1, <1>3, <1>4, <1>5, <1>7 DEF RunOK

\* The user's edits are no run's.
LEMMA EditOK ==
    ASSUME IInv, EditDestination \/ EditTree
    PROVE  TypeOK' /\ UNCHANGED <<store, procs>>
<1>1. /\ edits < MaxEdits /\ edits' = edits + 1 /\ UNCHANGED <<store, procs, faults, crashes>>
  BY DEF EditDestination, EditTree, MayEdit
<1>2. dest' \in [Dest -> Entries]
  BY SkillAssumption DEF EditDestination, EditTree, IInv, TypeOK
<1>3. tree' \in [{Src} \cup Elsewhere -> Trees \cup {None}] /\ tree'[Src] \in Trees
  BY SMTT(30) DEF EditDestination, EditTree, IInv, TypeOK
<1> QED BY <1>1, <1>2, <1>3, SkillAssumption DEF store, procs, IInv, TypeOK

(***************************************************************************)
(* The invariant.                                                          *)
(***************************************************************************)

LEMMA InitInv == Init => IInv
<1> SUFFICES ASSUME Init PROVE IInv
  OBVIOUS
<1> USE DEF Init
<1>1. TypeOK
  <2>1. Pending \in ActionResults BY DEF Pending, ActionResults, Outcomes
  <2>2. dest \in [Dest -> Entries] BY SkillAssumption
  <2>3. staged \in [Runs -> [Dest -> Entries]] BY EntryKinds
  <2>4. result \in [Runs -> [Dest -> ActionResults]] BY <2>1
  <2>5. job \in [Runs -> Jobs \cup {NoJob}] OBVIOUS
  <2>6. pc \in [Runs -> Steps] /\ at \in [Runs -> Dest] BY DEF Steps, Dest
  <2>7. edits \in 0..MaxEdits /\ faults \in 0..MaxFaults /\ crashes \in 0..MaxCrashes
    BY SkillAssumption
  <2>8. log \in Seq(Receipts) /\ backup \in [Runs -> [Dest -> Entries \cup {None}]]
    OBVIOUS
  <2> QED BY <2>2, <2>3, <2>4, <2>5, <2>6, <2>7, <2>8 DEF TypeOK
<1>2. LogOK BY DEF LogOK
<1>3. ASSUME NEW r \in Runs PROVE RunOK(r)
  <2>1. NoJob \notin Jobs BY DEF NoJob, Jobs, Operations
  <2>2. /\ pc[r] = "idle" /\ job[r] = NoJob /\ at[r] = "claude" /\ staged[r]["agents"] = Absent
        /\ staged[r]["claude"] = Absent
        /\ \A d \in Dest : result[r][d].outcome = "pending"
    BY DEF Dest, Pending
  <2>3. NoJob.op = "none" BY DEF NoJob
  <2> QED
    BY <2>1, <2>2, <2>3
       DEF RunOK, PlanOK, FromOK, FreshOK, StepOK, StagedOK, StagingOK, BackupOK, InstallPcs,
           UninstallPcs, RestorePcs, Kept, Inspected
<1> QED BY <1>1, <1>2, <1>3 DEF IInv

\* Every step but the receipt's leaves the log alone.
LEMMA RunStepOK ==
    ASSUME IInv, NEW r \in Runs, Preview(r) \/ RunStep(r) \/ Crash(r), ~WriteReceipt(r)
    PROVE  TypeOK' /\ log' = log /\ OnlyRun(r) /\ RunOK(r)'
<1>1. CASE Preview(r) \/ Begin(r) \/ NoOp(r) \/ BackUp(r) \/ Crash(r)
  BY <1>1, PreviewOK, BeginOK, NoOpOK, BackUpOK, CrashOK
<1>2. CASE InstallStep(r)
  BY <1>2, DisplaceOK, InspectOK, VerifySourceOK, MakeLinkOK, ConfirmOK, CleanOK, DropOK,
     UndoLinkOK, UndoLookOK, UndoDiscardOK, UndoRenameOK, UndoCheckOK DEF InstallStep
<1>3. CASE UninstallStep(r)
  BY <1>3, CheckLinkOK, UnlinkOK, GoneOK DEF UninstallStep
<1>4. CASE RestoreStep(r)
  BY <1>4, RestageOK, TakeOK, TakenOK, ForgetOK, PublishOK, RecheckOK, ClearOK, PutBackOK
     DEF RestoreStep
<1> QED BY <1>1, <1>2, <1>3, <1>4 DEF RunStep

\* Receipts are about runs that ended, so no step touches their results.
LEMMA LogKept ==
    ASSUME IInv, NEW r \in Runs, OnlyRun(r), NEW i \in DOMAIN log
    PROVE  /\ pc'[log[i].id] \in Ended
           /\ log[i].complete => \A d \in Dest : result'[log[i].id][d].outcome = "complete"
<1>1. log[i] \in Receipts BY DEF IInv, TypeOK
<1>2. log[i].id \in Runs BY <1>1 DEF Receipts
<1>3. pc[log[i].id] \in Ended /\ (log[i].complete => AllComplete(log[i].id))
  BY DEF IInv, LogOK
<1>4. log[i].id \in Runs \ {r} BY <1>2, <1>3 DEF OnlyRun, Ended, Finished
<1> QED BY <1>3, <1>4 DEF OnlyRun, AllComplete

LEMMA NextInv == IInv /\ [Next]_vars => IInv'
<1> SUFFICES ASSUME IInv, [Next]_vars PROVE IInv'
  OBVIOUS
<1>1. ASSUME NEW r \in Runs, Preview(r) \/ RunStep(r) \/ Crash(r), ~WriteReceipt(r)
      PROVE  IInv'
  <2>1. TypeOK' /\ log' = log /\ OnlyRun(r) /\ RunOK(r)'
    BY <1>1, RunStepOK
  <2>2. \A q \in Runs : RunOK(q)'
    BY <2>1, OthersOK
  <2>3. LogOK'
    BY <2>1, LogKept DEF LogOK, AllComplete
  <2> QED BY <2>1, <2>2, <2>3 DEF IInv
<1>2. ASSUME NEW r \in Runs, WriteReceipt(r) PROVE IInv'
  <2>1. TypeOK' /\ OnlyRun(r) /\ RunOK(r)' /\ result' = result /\ pc'[r] \in Ended
    BY <1>2, WriteReceiptOK
  <2>2. \A q \in Runs : RunOK(q)'
    BY <2>1, OthersOK
  <2>3. ASSUME NEW i \in DOMAIN log'
        PROVE  /\ pc'[log'[i].id] \in Ended
               /\ log'[i].complete =>
                    \A d \in Dest : result'[log'[i].id][d].outcome = "complete"
    <3>1. CASE i \in DOMAIN log /\ log'[i] = log[i]
      BY <2>1, <3>1, LogKept
    <3>2. CASE log'[i] = [id |-> r, complete |-> AllComplete(r)]
      BY <2>1, <3>2 DEF AllComplete
    <3> QED BY <1>2, <3>1, <3>2, WriteReceiptOK
  <2>4. LogOK' BY <2>3 DEF LogOK, AllComplete
  <2> QED BY <2>1, <2>2, <2>4 DEF IInv
<1>3. CASE EditDestination \/ EditTree
  <2>1. TypeOK' /\ UNCHANGED <<store, procs>> BY <1>3, EditOK
  <2>2. UNCHANGED <<backup, staged, log, torn, pc, at, job, result>>
    BY <2>1 DEF store, procs
  <2>3. LogOK' BY <2>2, SMTT(30) DEF IInv, LogOK, AllComplete
  <2>4. \A r \in Runs : RunOK(r)'
    BY <2>2, SMTT(20) DEF IInv, RunOK, PlanOK, FromOK, FreshOK, StepOK, StagedOK, StagingOK, BackupOK,
                Preimage, Before, Kind
  <2> QED BY <2>1, <2>3, <2>4 DEF IInv
<1>4. CASE UNCHANGED vars
  <2>1. UNCHANGED files /\ UNCHANGED store /\ UNCHANGED procs /\ UNCHANGED env
    BY <1>4 DEF vars, files, store, procs, env
  <2>2. UNCHANGED <<backup, staged, log, torn, pc, at, job, result>>
    BY <2>1 DEF store, procs
  <2>3. TypeOK' BY <2>1 DEF IInv, TypeOK, files, store, procs, env
  <2>4. LogOK' BY <2>2, SMTT(30) DEF IInv, LogOK, AllComplete
  <2>5. \A r \in Runs : RunOK(r)'
    BY <2>2, SMTT(20) DEF IInv, RunOK, PlanOK, FromOK, FreshOK, StepOK, StagedOK, StagingOK, BackupOK,
                Preimage, Before, Kind
  <2> QED BY <2>3, <2>4, <2>5 DEF IInv
<1> QED BY <1>1, <1>2, <1>3, <1>4 DEF Next, RunStep

\* The invariant holds in every reachable state, whatever the runs, the trees
\* and the bounds.
THEOREM Invariance == Spec => []IInv
<1>1. Init => IInv BY InitInv
<1>2. IInv /\ [Next]_vars => IInv' BY NextInv
<1> QED BY <1>1, <1>2, PTL DEF Spec

\* Type correctness: in particular a restore never publishes "nothing", it has
\* every preimage its plan needs (verifyReceiptPreimageBackups).
THEOREM TypeCorrect == Spec => []TypeOK
<1>1. IInv => TypeOK BY DEF IInv
<1> QED BY <1>1, Invariance, PTL

\* From the inspection of the staged entry to the end of publishSymlink, what
\* is staged is in the backup as well.
THEOREM StagedBackedUp == Spec => []StagedIsBackedUp
<1>1. IInv => StagedIsBackedUp
  BY DEF IInv, RunOK, StagedOK, StagedIsBackedUp
<1> QED BY <1>1, Invariance, PTL

\* A complete install receipt has in the store the entry its plan observed at
\* every destination it replaced.
THEOREM InstallsUndoable == Spec => []CompleteInstallUndoable
<1>1. IInv => CompleteInstallUndoable
  <2> SUFFICES ASSUME IInv, NEW i \in CompleteInstalls PROVE Undoable(log[i].id)
    BY DEF CompleteInstallUndoable
  <2> DEFINE id == log[i].id
  <2>1. log[i].complete /\ job[id].op = "install" /\ i \in DOMAIN log
    BY DEF CompleteInstalls
  <2>2. log[i] \in Receipts BY <2>1 DEF IInv, TypeOK
  <2>3. id \in Runs /\ AllComplete(id) BY <2>1, <2>2 DEF IInv, LogOK, Receipts
  <2> HIDE DEF id
  <2>4. ASSUME NEW d \in Dest, job[id].plan[d].kind = "replace_with_symlink"
        PROVE  backup[id][d] = EntryOf(job[id].plan[d].before)
    BY <2>1, <2>3, <2>4 DEF IInv, RunOK, BackupOK, AllComplete
  <2> QED BY <2>4 DEF Undoable, EntryOf, id
<1> QED BY <1>1, Invariance, PTL

(***************************************************************************)
(* What a completed action recorded is what was there.                     *)
(***************************************************************************)

\* Evidence of nothing, or of a directory, names no target; that of the exact
\* symlink names the source and its digest.
Honest(ev, source) ==
    /\ ev.kind \in {"absent", "directory"} => ev.lexical = None
    /\ ev.kind = "correct_symlink" => ev.lexical = Src /\ ev.digest = source

\* ev is the exact symlink.
Managed(ev, source) == ev.kind = "correct_symlink" /\ ev.lexical = Src /\ ev.digest = source

\* What the receipt that run r restores recorded at d, and evidence like it.
Recorded(r, d) == job[job[r].from].plan[d].before
Matches(rec, ev) ==
    /\ ev.kind = rec.kind /\ ev.lexical = rec.lexical
    /\ rec.kind = "directory" => ev.digest = rec.digest

\* What run r may record as the outcome of its completed action at d.
Good(r, d, ev) ==
    /\ job[r].op = "install" => Managed(ev, job[r].source)
    /\ job[r].op = "restore" => Matches(Recorded(r, d), ev)

TruthOK(r) ==
    /\ job[r] \in Jobs => \A d \in Dest : Honest(job[r].plan[d].before, job[r].source)
    /\ job[r].op = "restore" =>
          \A d \in Dest : LET rec == job[job[r].from].plan[d]
                          IN  job[r].plan[d].kind = RestoreKind(rec.kind, rec.before, job[r].plan[d].before)
    /\ pc[r] = "forget" => Kind(r) = "remove_managed_symlink"
    /\ pc[r] \in {"clean", "clear"} => Good(r, at[r], result[r][at[r]].after)
    /\ \A d \in Dest : result[r][d].outcome = "complete" => Good(r, d, result[r][d].after)

Truthful == \A r \in Runs : TruthOK(r)

\* An observation is honest (inventoryDestination).
LEMMA InventoryHonest ==
    ASSUME NEW source, NEW e \in Entries
    PROVE  Honest(Inventory(dest, tree, source, e), source)
  BY EntryFields DEF Honest, Inventory, Absent, Dir

\* So is whatever a preview plans.
LEMMA PlannedHonest ==
    ASSUME IInv, NEW j \in PlannedJobs
    PROVE  /\ \A d \in Dest : Honest(j.plan[d].before, j.source)
           /\ j.op = "restore" =>
                \A d \in Dest : LET rec == job[j.from].plan[d]
                                IN  j.plan[d].kind = RestoreKind(rec.kind, rec.before, j.plan[d].before)
<1>1. \A source : \A d \in Dest : Honest(Inventory(dest, tree, source, dest[d]), source)
  BY InventoryHonest DEF IInv, TypeOK
<1>2. CASE j \in InstallJobs
  <2>1. j = [op |-> "install", source |-> tree[Src], from |-> None,
             plan |-> [d \in Dest |-> [kind |-> InstallKind(InventoryAll(dest, tree, tree[Src])[d]),
                                      before |-> InventoryAll(dest, tree, tree[Src])[d]]]]
    BY <1>2 DEF InstallJobs
  <2>2. j.op = "install" /\ j.source = tree[Src]
        /\ \A d \in Dest : j.plan[d].before = Inventory(dest, tree, tree[Src], dest[d])
    BY <2>1 DEF InventoryAll
  <2>3. QED
    BY <1>1, <2>2
<1>3. CASE j \in UninstallJobs
  <2>1. PICK id \in Runs :
          j = [op |-> "uninstall", source |-> job[id].source, from |-> id,
               plan |-> [d \in Dest |->
                          [kind   |-> "remove_managed_symlink",
                           before |-> Inventory(dest, tree, job[id].source, dest[d])]]]
    BY <1>3 DEF UninstallJobs
  <2>2. j.op = "uninstall" /\ j.source = job[id].source
        /\ \A d \in Dest : j.plan[d].before = Inventory(dest, tree, job[id].source, dest[d])
    BY <2>1
  <2>3. QED
    BY <1>1, <2>2
<1>4. CASE j \in RestoreJobs
  <2>1. PICK id \in Runs :
          j = [op |-> "restore", source |-> job[id].source, from |-> id,
               plan |-> [d \in Dest |->
                  LET now == Inventory(dest, tree, job[id].source, dest[d])
                      rec == job[id].plan[d]
                  IN  [kind |-> RestoreKind(rec.kind, rec.before, now), before |-> now]]]
    BY <1>4 DEF RestoreJobs
  <2>2. /\ j.from = id /\ j.source = job[id].source
        /\ \A d \in Dest : /\ j.plan[d].before = Inventory(dest, tree, job[id].source, dest[d])
                           /\ j.plan[d].kind = RestoreKind(job[id].plan[d].kind, job[id].plan[d].before,
                                                           j.plan[d].before)
    BY <2>1
  <2>3. QED
    BY <1>1, <2>2
<1>5. QED
  BY <1>2, <1>3, <1>4 DEF PlannedJobs

\* The three ways a step of a command bears on what is recorded: not at all, by
\* ending the action, or by noting what it saw when it verified the entry.
Quiet(r) ==
    /\ result' = result /\ at' = at /\ pc'[r] \notin {"clean", "clear"}
    /\ pc'[r] = "forget" => Kind(r) = "remove_managed_symlink"
Ends(r) ==
    \E outcome \in Outcomes, after \in Evidence \cup {None} :
        Finish(r, outcome, after) /\ (outcome = "complete" => Good(r, at[r], after))
Notes(r) ==
    /\ at' = at /\ pc'[r] \in {"clean", "clear"}
    /\ \E ev \in Evidence : /\ result' = [result EXCEPT ![r][at[r]].after = ev]
                            /\ Good(r, at[r], ev)
Bears(r) == job' = job /\ (Quiet(r) \/ Ends(r) \/ Notes(r))

LEMMA StepBears ==
    ASSUME TypeOK, NEW r \in Runs, NEW to, Step(r, to), to \notin {"clean", "clear"},
           to = "forget" => Kind(r) = "remove_managed_symlink"
    PROVE  Bears(r)
BY DEF TypeOK, Step, Goto, Bears, Quiet

LEMMA FailBears ==
    ASSUME NEW r \in Runs, NEW outcome \in {"failed", "rolled_back"}, Finish(r, outcome, None)
    PROVE  Bears(r)
<1>1. outcome \in Outcomes /\ None \in Evidence \cup {None} /\ outcome # "complete"
  BY DEF Outcomes
<1>2. QED
  BY <1>1 DEF Bears, Ends, Finish

LEMMA CompleteBears ==
    ASSUME NEW r \in Runs, NEW after \in Evidence \cup {None}, Finish(r, "complete", after),
           Good(r, at[r], after)
    PROVE  Bears(r)
<1>1. "complete" \in Outcomes
  BY DEF Outcomes
<1>2. QED
  BY <1>1 DEF Bears, Ends, Finish

LEMMA NoOpBears ==
    ASSUME IInv, Truthful, NEW r \in Runs, NoOp(r)
    PROVE  Bears(r)
<1>1. pc[r] = "action" /\ Kind(r) = "no_op" /\ Finish(r, "complete", Before(r))
  BY DEF NoOp
<1>2. job[r] \in Jobs /\ RunOK(r) /\ TruthOK(r) /\ at[r] \in Dest
  BY <1>1, Acting DEF RunOK, PlanOK, Truthful
<1>3. Before(r) \in Evidence
  BY <1>2 DEF Before, Jobs, Plan
<1>4. job[r].op = "install" => Managed(Before(r), job[r].source)
  BY <1>1, <1>2, SMTT(30) DEF RunOK, PlanOK, TruthOK, Honest, Managed, Before, Kind, InstallKind
<1>5. job[r].op = "restore" => Matches(Recorded(r, at[r]), Before(r))
  BY <1>1, <1>2, Zenon DEF TruthOK, RestoreKind, Matches, Recorded, Before, Kind
<1>6. QED
  BY <1>1, <1>3, <1>4, <1>5, CompleteBears DEF Good

LEMMA BackUpBears ==
    ASSUME IInv, NEW r \in Runs, BackUp(r)
    PROVE  Bears(r)
<1>1. CASE Finish(r, "failed", None)
  BY <1>1, FailBears
<1>2. CASE Goto(r, AfterBackup(r)) /\ UNCHANGED <<at, job, result>>
  <2>1. /\ AfterBackup(r) \notin {"clean", "clear"}
        /\ AfterBackup(r) = "forget" => Kind(r) = "remove_managed_symlink"
    BY DEF AfterBackup
  <2>2. QED
    BY <1>2, <2>1, Acting, StepBears DEF Step
<1>3. QED
  BY <1>1, <1>2 DEF BackUp

\* Published: what Confirm notes is the exact symlink.
LEMMA ConfirmBears ==
    ASSUME IInv, NEW r \in Runs, Confirm(r)
    PROVE  Bears(r)
<1>1. pc[r] = "confirm" /\ UNCHANGED <<at, job>> /\ job[r].op = "install" /\ job[r] \in Jobs
  BY Acting DEF Confirm, StepOK, InstallPcs, RunOK, PlanOK
<1>2. CASE Goto(r, "drop") /\ UNCHANGED result
  BY <1>1, <1>2, Acting, StepBears DEF Step
<1>3. CASE Published(r) /\ Goto(r, "clean") /\ result' = [result EXCEPT ![r][at[r]].after = Observed(r, at[r])]
  <2>1. job[r].source \in Trees
    BY <1>1 DEF Jobs
  <2>2. Observed(r, at[r]) \in Evidence /\ Honest(Observed(r, at[r]), job[r].source)
    BY <2>1, Acting, InventoryType, InventoryHonest DEF Observed, TypeOK
  <2>3. Good(r, at[r], Observed(r, at[r]))
    BY <1>1, <1>3, <2>2 DEF Good, Managed, Published, Honest
  <2>4. pc'[r] = "clean"
    BY <1>3, Acting DEF Goto, TypeOK
  <2>5. QED
    BY <1>1, <1>3, <2>2, <2>3, <2>4 DEF Bears, Notes
<1>4. QED
  BY <1>2, <1>3 DEF Confirm

\* verifyRestoredPreimage: what Recheck notes is like what was recorded.
LEMMA RecheckBears ==
    ASSUME IInv, Truthful, NEW r \in Runs, Recheck(r)
    PROVE  Bears(r)
<1> DEFINE pre == PreimageEvidence(r)
           ev  == RestoredEvidence(dest, tree, at[r], pre)
<1>1. pc[r] = "recheck" /\ UNCHANGED <<at, job>> /\ job[r].op = "restore" /\ job[r].from \in Runs
      /\ pc[job[r].from] \in Ended
  BY Acting DEF Recheck, StepOK, RestorePcs, RunOK, FromOK
<1>2. job[job[r].from] \in Jobs /\ TruthOK(job[r].from)
  BY <1>1, SMTT(30) DEF IInv, RunOK, PlanOK, Ended, Truthful
<1>3. pre = Recorded(r, at[r]) /\ pre \in Evidence /\ (pre.kind = "directory" => pre.lexical = None)
  BY <1>2, Acting, Zenon DEF PreimageEvidence, Recorded, Jobs, Plan, TruthOK, Honest
<1>d. Restored(dest, tree, at[r], pre) /\ pre.kind = "directory" => dest[at[r]] = Dir(pre.digest)
  <2> HIDE DEF pre
  <2>1. QED
    BY DEF Restored, IsLink
<1>4. CASE Goto(r, "put_back") /\ UNCHANGED result
  BY <1>1, <1>4, Acting, StepBears DEF Step
<1>5. CASE Restored(dest, tree, at[r], pre) /\ Goto(r, "clear") /\ result' = [result EXCEPT ![r][at[r]].after = ev]
  <2> HIDE DEF pre
  <2>1. Inventory(dest, tree, pre.digest, dest[at[r]]) \in Evidence
    BY <1>3, Acting, InventoryType DEF TypeOK
  <2>2. ev \in Evidence /\ ev.kind = pre.kind
        /\ ev.lexical = dest[at[r]].target
        /\ (dest[at[r]].type = "directory" => ev.digest = dest[at[r]].tree)
    <3>1. Inventory(dest, tree, pre.digest, dest[at[r]]).lexical = dest[at[r]].target
          /\ (dest[at[r]].type = "directory" =>
                Inventory(dest, tree, pre.digest, dest[at[r]]).digest = dest[at[r]].tree)
      BY DEF Inventory
    <3>2. QED
      BY <1>3, <2>1, <3>1 DEF RestoredEvidence, Evidence
  <2>3. Matches(pre, ev)
    <3>1. CASE pre.kind = "directory"
      <4>1. dest[at[r]] = Dir(pre.digest)
        BY <1>5, <3>1, <1>d DEF Restored
      <4>2. dest[at[r]].target = None /\ dest[at[r]].tree = pre.digest /\ dest[at[r]].type = "directory"
        BY <4>1 DEF Dir
      <4>3. QED
        BY <1>3, <2>2, <3>1, <4>2 DEF Matches
    <3>2. CASE pre.kind # "directory"
      <4>1. dest[at[r]] = Link(pre.lexical)
        BY <1>5, <3>2 DEF Restored
      <4>2. dest[at[r]].target = pre.lexical
        BY <4>1 DEF Link
      <4>3. QED
        BY <2>2, <3>2, <4>2 DEF Matches
    <3>3. QED
      BY <3>1, <3>2
  <2>4. Good(r, at[r], ev)
    BY <1>1, <1>3, <2>3 DEF Good
  <2>5. pc'[r] = "clear"
    BY <1>5, Acting DEF Goto, TypeOK
  <2> HIDE DEF ev
  <2>6. QED
    BY <1>1, <1>5, <2>2, <2>4, <2>5 DEF Bears, Notes
<1>6. QED
  BY <1>4, <1>5 DEF Recheck

\* Forgetting is for what was recorded as absent.
LEMMA ForgetBears ==
    ASSUME IInv, Truthful, NEW r \in Runs, Forget(r)
    PROVE  Bears(r)
<1>1. pc[r] = "forget" /\ job[r].op = "restore" /\ job[r].from \in Runs /\ pc[job[r].from] \in Ended
  BY Acting DEF Forget, StepOK, RestorePcs, RunOK, FromOK
<1>2. job[job[r].from] \in Jobs /\ TruthOK(job[r].from) /\ TruthOK(r)
  BY <1>1 DEF IInv, RunOK, PlanOK, Ended, Truthful
<1>3. CASE Step(r, "put_back")
  BY <1>3, Acting, StepBears
<1>4. CASE Finish(r, "complete", AbsentEvidence)
  <2>1. Recorded(r, at[r]).kind = "absent"
    BY <1>1, <1>2, Acting, Zenon DEF TruthOK, Kind, RestoreKind, Recorded
  <2>2. Recorded(r, at[r]).lexical = None
    BY <1>2, <2>1, Acting, Zenon DEF TruthOK, Honest, Recorded
  <2>3. Good(r, at[r], AbsentEvidence)
    BY <1>1, <2>1, <2>2 DEF Good, Matches, AbsentEvidence
  <2>4. AbsentEvidence \in Evidence
    BY DEF AbsentEvidence, Evidence, Kinds
  <2>5. QED
    BY <1>4, <2>3, <2>4, CompleteBears, SMTT(30)
<1>5. QED
  BY <1>3, <1>4 DEF Forget

LEMMA InstallBears ==
    ASSUME IInv, Truthful, NEW r \in Runs, InstallStep(r)
    PROVE  Bears(r)
<1>0. TypeOK /\ TruthOK(r)
  BY Acting DEF Truthful
<1>1. CASE Displace(r) \/ Inspect(r) \/ VerifySource(r) \/ MakeLink(r) \/ Drop(r) \/ UndoLink(r)
  BY <1>0, <1>1, StepBears, FailBears
     DEF Displace, Inspect, VerifySource, MakeLink, Drop, UndoLink
<1>2. CASE UndoLook(r) \/ UndoDiscard(r) \/ UndoRename(r) \/ UndoCheck(r)
  BY <1>0, <1>2, StepBears, FailBears DEF UndoLook, UndoDiscard, UndoRename, UndoCheck
<1>3. CASE Confirm(r)
  BY <1>3, ConfirmBears
<1>4. CASE Clean(r)
  <2>1. CASE Finish(r, "complete", result[r][at[r]].after)
    <3>1. result[r][at[r]].after \in Evidence \cup {None}
      BY Acting DEF TypeOK, ActionResults
    <3>2. Good(r, at[r], result[r][at[r]].after)
      BY <1>0, <1>4 DEF Clean, TruthOK
    <3>3. QED
      BY <2>1, <3>1, <3>2, CompleteBears
  <2>2. CASE Step(r, "undo_link")
    BY <1>0, <2>2, StepBears
  <2>3. QED
    BY <1>4, <2>1, <2>2 DEF Clean
<1>5. QED
  BY <1>1, <1>2, <1>3, <1>4 DEF InstallStep

LEMMA UninstallBears ==
    ASSUME IInv, NEW r \in Runs, UninstallStep(r)
    PROVE  Bears(r)
<1>1. CASE CheckLink(r) \/ Unlink(r)
  BY <1>1, Acting, StepBears, FailBears DEF CheckLink, Unlink
<1>2. CASE Gone(r)
  <2>1. AbsentEvidence \in Evidence
    BY DEF AbsentEvidence, Evidence, Kinds
  <2>2. job[r].op = "uninstall"
    BY <1>2, Acting DEF Gone, StepOK, UninstallPcs
  <2>3. Good(r, at[r], AbsentEvidence)
    BY <2>2 DEF Good
  <2>4. QED
    BY <1>2, <2>1, <2>3, CompleteBears, FailBears DEF Gone
<1>3. QED
  BY <1>1, <1>2 DEF UninstallStep

LEMMA RestoreBears ==
    ASSUME IInv, Truthful, NEW r \in Runs, RestoreStep(r)
    PROVE  Bears(r)
<1>0. TypeOK /\ TruthOK(r)
  BY Acting DEF Truthful
<1>1. CASE Restage(r) \/ Take(r) \/ Taken(r) \/ Publish(r) \/ PutBack(r)
  BY <1>0, <1>1, StepBears, FailBears DEF Restage, Take, Taken, Publish, PutBack
<1>2. CASE Forget(r) \/ Recheck(r)
  BY <1>2, ForgetBears, RecheckBears
<1>3. CASE Clear(r)
  <2>1. CASE Finish(r, "complete", result[r][at[r]].after)
    <3>1. result[r][at[r]].after \in Evidence \cup {None}
      BY Acting DEF TypeOK, ActionResults
    <3>2. Good(r, at[r], result[r][at[r]].after)
      BY <1>0, <1>3 DEF Clear, TruthOK
    <3>3. QED
      BY <2>1, <3>1, <3>2, CompleteBears
  <2>2. QED
    BY <1>3, <2>1, FailBears DEF Clear
<1>4. QED
  BY <1>1, <1>2, <1>3 DEF RestoreStep

LEMMA ActsBear ==
    ASSUME IInv, Truthful, NEW r \in Runs, RunStep(r) \/ Crash(r)
    PROVE  Bears(r)
<1>1. CASE Begin(r) \/ WriteReceipt(r) \/ Crash(r)
  <2>1. UNCHANGED <<at, job, result>> /\ pc'[r] \notin {"clean", "clear", "forget"}
    BY <1>1, Acting DEF Begin, WriteReceipt, Crash, Goto, TypeOK
  <2>2. QED
    BY <2>1 DEF Bears, Quiet
<1>2. QED
  BY <1>1, NoOpBears, BackUpBears, InstallBears, UninstallBears, RestoreBears DEF RunStep

\* A run that ends an action, notes or does neither keeps TruthOK.
LEMMA BearsTrue ==
    ASSUME IInv, Truthful, NEW r \in Runs, OnlyRun(r), Bears(r), pc[r] # "idle"
    PROVE  TruthOK(r)'
<1>1. /\ TypeOK /\ RunOK(r) /\ TruthOK(r) /\ at[r] \in Dest /\ job' = job
      /\ result \in [Runs -> [Dest -> ActionResults]]
  BY Acting DEF Truthful, Bears, TypeOK
<1>2. \A d, ev : Good(r, d, ev) =>
          /\ job'[r].op = "install" => Managed(ev, job'[r].source)
          /\ job'[r].op = "restore" => Matches(job'[job'[r].from].plan[d].before, ev)
  BY <1>1 DEF Good, Recorded
<1>3. (job[r] \in Jobs => \A d \in Dest : Honest(job[r].plan[d].before, job[r].source))'
  BY <1>1 DEF TruthOK
<1>4. (job[r].op = "restore" =>
          \A d \in Dest : LET rec == job[job[r].from].plan[d]
                          IN  job[r].plan[d].kind = RestoreKind(rec.kind, rec.before, job[r].plan[d].before))'
  BY <1>1 DEF TruthOK
<1>5. CASE Quiet(r)
  <2>1. (pc[r] = "forget" => Kind(r) = "remove_managed_symlink")'
    BY <1>1, <1>5 DEF Quiet, Kind
  <2>2. (\A d \in Dest : result[r][d].outcome = "complete" => Good(r, d, result[r][d].after))'
    BY <1>1, <1>2, <1>5 DEF Quiet, TruthOK, Good, Recorded
  <2>3. (pc[r] \in {"clean", "clear"} => Good(r, at[r], result[r][at[r]].after))'
    BY <1>5 DEF Quiet
  <2>4. QED
    BY <1>3, <1>4, <2>1, <2>2, <2>3 DEF TruthOK
<1>6. CASE Ends(r)
  <2>1. PICK outcome \in Outcomes, after \in Evidence \cup {None} :
          Finish(r, outcome, after) /\ (outcome = "complete" => Good(r, at[r], after))
    BY <1>6 DEF Ends
  <2>2. pc'[r] \in {"action", "append"}
    BY <1>1, <2>1 DEF Finish, Goto, TypeOK
  <2>3. \A d \in Dest : result'[r][d] = IF d = at[r] THEN [outcome |-> outcome, after |-> after] ELSE result[r][d]
    BY <1>1, <2>1 DEF Finish
  <2>4. (\A d \in Dest : result[r][d].outcome = "complete" => Good(r, d, result[r][d].after))'
    BY <1>1, <1>2, <2>1, <2>3 DEF TruthOK, Good, Recorded
  <2>5. (pc[r] \in {"clean", "clear"} => Good(r, at[r], result[r][at[r]].after))'
    BY <2>2
  <2>6. (pc[r] = "forget" => Kind(r) = "remove_managed_symlink")'
    BY <2>2
  <2>7. QED
    BY <1>3, <1>4, <2>4, <2>5, <2>6 DEF TruthOK
<1>7. CASE Notes(r)
  <2>1. PICK ev \in Evidence : result' = [result EXCEPT ![r][at[r]].after = ev] /\ Good(r, at[r], ev)
    BY <1>7 DEF Notes
  <2>2. at' = at /\ pc'[r] # "forget"
    BY <1>7 DEF Notes
  <2> DEFINE old == result[r][at[r]]
             new == [old EXCEPT !.after = ev]
  <2>3. old \in ActionResults
    BY <1>1
  <2>4. new.after = ev /\ new.outcome = old.outcome
    BY <2>3 DEF ActionResults
  <2>5. result' = [result EXCEPT ![r] = [result[r] EXCEPT ![at[r]] = new]]
    BY <1>1, <2>1
  <2> HIDE DEF new
  <2>6. \A d \in Dest : result'[r][d] = IF d = at[r] THEN new ELSE result[r][d]
    BY <1>1, <2>5
  <2>7. (\A d \in Dest : result[r][d].outcome = "complete" => Good(r, d, result[r][d].after))'
    BY <1>1, <1>2, <2>1, <2>4, <2>6 DEF TruthOK, Good, Recorded
  <2>8. (pc[r] \in {"clean", "clear"} => Good(r, at[r], result[r][at[r]].after))'
    BY <1>1, <1>2, <2>1, <2>2, <2>4, <2>6 DEF Good, Recorded
  <2>9. (pc[r] = "forget" => Kind(r) = "remove_managed_symlink")'
    BY <2>2
  <2>10. QED
    BY <1>3, <1>4, <2>7, <2>8, <2>9 DEF TruthOK
<1>8. QED
  BY <1>5, <1>6, <1>7 DEF Bears

\* The runs that do not act, and the receipts they restore from, stay.
LEMMA OthersTrue ==
    ASSUME IInv, Truthful, NEW r \in Runs, OnlyRun(r), NEW q \in Runs \ {r}
    PROVE  TruthOK(q)'
<1>1. RunOK(q) /\ TruthOK(q)
  BY DEF IInv, Truthful
<1>2. pc'[q] = pc[q] /\ at'[q] = at[q] /\ job'[q] = job[q] /\ result'[q] = result[q]
  BY DEF OnlyRun
<1>3. job[q].op = "restore" => job'[job[q].from] = job[job[q].from]
  BY <1>1, <1>2 DEF RunOK, FromOK, OnlyRun, Ended, Finished
<1>4. \A d, ev : Good(q, d, ev)' = Good(q, d, ev)
  BY <1>2, <1>3 DEF Good, Recorded
<1>5. (job[q].op = "restore" =>
          \A d \in Dest : LET rec == job[job[q].from].plan[d]
                          IN  job[q].plan[d].kind = RestoreKind(rec.kind, rec.before, job[q].plan[d].before))'
  BY <1>1, <1>2, <1>3 DEF TruthOK
<1>6. QED
  BY <1>1, <1>2, <1>4, <1>5 DEF TruthOK, Kind

\* A preview: nothing is complete yet.
LEMMA PreviewTrue ==
    ASSUME IInv, Truthful, NEW r \in Runs, Preview(r)
    PROVE  TruthOK(r)'
<1>1. PICK j \in PlannedJobs : job' = [job EXCEPT ![r] = j]
  BY DEF Preview
<1>2. pc[r] = "idle" /\ pc'[r] = "approved" /\ UNCHANGED <<at, result>> /\ job'[r] = j
      /\ \A q \in Runs \ {r} : job'[q] = job[q]
  BY <1>1, Acting DEF Preview, Goto, TypeOK
<1>3. \A d \in Dest : result[r][d].outcome # "complete"
  BY <1>2, Acting DEF RunOK, FreshOK
<1>4. j.op = "restore" => j.from \in Runs \ {r}
  BY <1>1, <1>2, PlannedJobsOK DEF Ended
<1>5. QED
  BY <1>1, <1>2, <1>3, <1>4, PlannedHonest DEF TruthOK

LEMMA InitTrue == Init => Truthful
<1> SUFFICES ASSUME Init, NEW r \in Runs PROVE TruthOK(r)
  BY DEF Truthful
<1>1. NoJob \notin Jobs /\ NoJob.op = "none"
  BY DEF NoJob, Jobs, Operations
<1>2. job[r] = NoJob /\ pc[r] = "idle" /\ \A d \in Dest : result[r][d].outcome = "pending"
  BY DEF Init, Pending
<1>3. QED
  BY <1>1, <1>2 DEF TruthOK

LEMMA NextTrue == IInv /\ Truthful /\ [Next]_vars => Truthful'
<1> SUFFICES ASSUME IInv, Truthful, [Next]_vars PROVE Truthful'
  OBVIOUS
<1>1. ASSUME NEW r \in Runs, Preview(r) \/ RunStep(r) \/ Crash(r) PROVE Truthful'
  <2>1. OnlyRun(r)
    BY <1>1, RunStepOK, WriteReceiptOK
  <2>2. CASE Preview(r)
    BY <2>1, <2>2, PreviewTrue, OthersTrue DEF Truthful
  <2>3. CASE RunStep(r) \/ Crash(r)
    <3>1. Bears(r)
      BY <2>3, ActsBear
    <3>2. pc[r] # "idle"
      BY <2>3, Zenon DEF RunStep, Crash, Begin, NoOp, BackUp, WriteReceipt, InstallStep, UninstallStep, RestoreStep,
                  Displace, Inspect, VerifySource, MakeLink, Confirm, Clean, Drop, UndoLink, UndoLook,
                  UndoDiscard, UndoRename, UndoCheck, CheckLink, Unlink, Gone, Restage, Take, Taken,
                  Forget, Publish, Recheck, Clear, PutBack, Working
    <3>3. QED
      BY <2>1, <3>1, <3>2, BearsTrue, OthersTrue DEF Truthful
  <2>4. QED
    BY <1>1, <2>2, <2>3
<1>2. CASE EditDestination \/ EditTree \/ UNCHANGED vars
  <2>1. UNCHANGED <<pc, at, job, result>>
    BY <1>2, EditOK DEF vars, procs
  <2>2. QED
    BY <2>1 DEF Truthful, TruthOK, Good, Recorded, Kind
<1>3. QED
  BY <1>1, <1>2 DEF Next

\* A run with a complete receipt has what it recorded of every destination right.
LEMMA CompleteIsGood ==
    ASSUME IInv, Truthful, NEW i \in DOMAIN log, log[i].complete
    PROVE  /\ log[i].id \in Runs
           /\ \A d \in Dest : /\ result[log[i].id][d].outcome = "complete"
                              /\ Good(log[i].id, d, result[log[i].id][d].after)
<1>1. log[i] \in Receipts
  BY DEF IInv, TypeOK
<1>2. log[i].id \in Runs /\ AllComplete(log[i].id)
  BY <1>1 DEF Receipts, IInv, LogOK
<1>3. QED
  BY <1>2 DEF AllComplete, Truthful, TruthOK

\* skill status and skill uninstall judge the same evidence the same way: with
\* no drift against a complete install receipt, uninstall is not refused.
THEOREM NoDriftUninstallable == Spec => []NoDriftMeansUninstallable
<1>1. IInv /\ Truthful => NoDriftMeansUninstallable
  <2> SUFFICES ASSUME IInv, Truthful, NEW i \in CompleteInstalls, ~Drifted(log[i].id), NEW d \in Dest
               PROVE  LET id  == log[i].id
                          now == Inventory(dest, tree, job[id].source, dest[d])
                      IN  /\ now.kind = "correct_symlink"
                          /\ result[id][d].outcome = "complete"
                          /\ result[id][d].after = now
                          /\ now.lexical = Src /\ now.digest = job[id].source
    BY DEF NoDriftMeansUninstallable, Uninstallable
  <2> DEFINE id == log[i].id
  <2>1. i \in DOMAIN log /\ log[i].complete /\ job[id].op = "install"
    BY DEF CompleteInstalls
  <2>2. result[id][d].outcome = "complete" /\ Managed(result[id][d].after, job[id].source)
    BY <2>1, CompleteIsGood DEF Good
  <2>3. job[id].source = tree[Src] /\ result[id][d].after = Inventory(dest, tree, tree[Src], dest[d])
    BY DEF Drifted
  <2>4. QED
    BY <2>2, <2>3 DEF Managed
<1>2. Init => Truthful
  BY InitTrue
<1>3. IInv /\ Truthful /\ [Next]_vars => Truthful'
  BY NextTrue
<1>4. QED
  BY <1>1, <1>2, <1>3, Invariance, PTL DEF Spec

\* A restore whose receipt is complete left at each destination the preimage the
\* original receipt recorded there.
THEOREM RestoresExactly == Spec => []RestoredExactly
<1>1. IInv /\ Truthful => RestoredExactly
  <2> SUFFICES ASSUME IInv, Truthful, NEW i \in DOMAIN log, log[i].complete, job[log[i].id].op = "restore",
                      NEW d \in Dest
               PROVE  Matches(Recorded(log[i].id, d), result[log[i].id][d].after)
    BY Zenon DEF RestoredExactly, Matches, Recorded
  <2>1. QED
    BY CompleteIsGood, SMTT(30) DEF Good
<1>2. Init => Truthful
  BY InitTrue
<1>3. IInv /\ Truthful /\ [Next]_vars => Truthful'
  BY NextTrue
<1>4. QED
  BY <1>1, <1>2, <1>3, Invariance, PTL DEF Spec

(***************************************************************************)
(* Nobody's directory is lost: while the user keeps his hands off the      *)
(* destinations of commands at work, any number of overlapping commands,   *)
(* I/O errors and crashes leave a copy of every directory somewhere.       *)
(***************************************************************************)

Backed(d, t) == \E q \in Runs : backup[q][d] = Dir(t)

\* A run has its backup of a destination ahead of it until it comes to that.
FreshBackup(r) ==
    /\ pc[r] \in {"idle", "approved", "action"} => backup[r][at[r]] = None
    /\ at[r] = "claude" => backup[r]["agents"] = None

\* A restore plan found links or nothing.
NoDirectory(r) ==
    job[r].op = "restore" => \A d \in Dest : job[r].plan[d].before.kind # "directory"

StagedBacked(r) ==
    \A d \in Dest, t \in Trees : staged[r][d] = Dir(t) => Backed(d, t)

\* The directory p observed has content t.
Saw(p, t) == p.before.kind = "directory" /\ p.before.digest = t

\* A directory at a destination of a command at work is in some backup, or is
\* the one the command's plan observed and its own Backup will keep.
Expected(r) ==
    pc[r] \in Working =>
        \A d \in Dest, t \in Trees : dest[d] = Dir(t) => Backed(d, t) \/ Saw(job[r].plan[d], t)

CustodyOK(r) == FreshBackup(r) /\ NoDirectory(r) /\ StagedBacked(r) /\ Expected(r)
Custody      == \A r \in Runs : CustodyOK(r)

\* Directories with different content are different entries, and no directory
\* is a link, a file, half removed or nothing.
LEMMA DirsDiffer ==
    /\ \A t \in Trees : /\ Dir(t) # Absent /\ Dir(t) # None /\ Dir(t) # Dir(Damaged)
                        /\ ~Removable(Dir(t)) /\ \A p : Dir(t) # Link(p)
    /\ \A t, u : Dir(t) = Dir(u) => t = u
<1>1. \A t \in Trees : /\ Dir(t).type = "directory" /\ Dir(t).tree = t
  BY DEF Dir
<1>2. Dir(Damaged).tree = Damaged /\ Absent.type = "absent" /\ \A p : Link(p).type = "symlink"
  BY DEF Dir, Absent, Link
<1>3. \A t \in Trees : Dir(t) # None
  BY EntryKinds, SkillAssumption
<1> QED
  BY <1>1, <1>2, <1>3, EvidenceAssumption DEF Removable, Dir

\* What a run's step does with entries: it puts e where it works and f into the
\* staging sibling there, and a directory only moves or has a backup.
Handed(r) ==
    \A d \in Dest, t \in Trees :
        /\ dest[d] = Dir(t) => dest'[d] = Dir(t) \/ Backed(d, t)
        /\ dest'[d] = Dir(t) =>
              \/ dest[d] = Dir(t) \/ Backed(d, t)
              \/ \E q \in Runs : staged[q][d] = Dir(t)
        /\ \A q \in Runs : staged'[q][d] = Dir(t) => staged[q][d] = Dir(t) \/ Backed(d, t)

Passes(r, e, f) ==
    \A t \in Trees :
        /\ Here(r) = Dir(t) => e = Dir(t) \/ Backed(at[r], t)
        /\ e = Dir(t) => Here(r) = Dir(t) \/ staged[r][at[r]] = Dir(t) \/ Backed(at[r], t)
        /\ f = Dir(t) => staged[r][at[r]] = Dir(t) \/ Backed(at[r], t)

LEMMA HandedBy ==
    ASSUME TypeOK, NEW r \in Runs, NEW e, NEW f,
           dest' = [dest EXCEPT ![at[r]] = e],
           staged' = [staged EXCEPT ![r][at[r]] = f],
           Passes(r, e, f)
    PROVE  Handed(r)
<1>1. dest \in [Dest -> Entries] /\ staged \in [Runs -> [Dest -> Entries]] /\ at[r] \in Dest
  BY DEF TypeOK
<1>2. \A d \in Dest : dest'[d] = IF d = at[r] THEN e ELSE dest[d]
  BY <1>1
<1>3. \A q \in Runs, d \in Dest : staged'[q][d] = IF q = r /\ d = at[r] THEN f ELSE staged[q][d]
  BY <1>1
<1> SUFFICES ASSUME NEW d \in Dest, NEW t \in Trees
             PROVE  /\ dest[d] = Dir(t) => dest'[d] = Dir(t) \/ Backed(d, t)
                    /\ dest'[d] = Dir(t) =>
                          \/ dest[d] = Dir(t) \/ Backed(d, t)
                          \/ \E q \in Runs : staged[q][d] = Dir(t)
                    /\ \A q \in Runs : staged'[q][d] = Dir(t) => staged[q][d] = Dir(t) \/ Backed(d, t)
  BY DEF Handed
<1>4. CASE d = at[r]
  BY <1>2, <1>3, <1>4 DEF Here, Passes
<1>5. CASE d # at[r]
  BY <1>2, <1>3, <1>5
<1> QED
  BY <1>4, <1>5

\* A step that replaces one of the two, or neither.
LEMMA HandedDest ==
    ASSUME TypeOK, NEW r \in Runs, NEW e, dest' = [dest EXCEPT ![at[r]] = e], staged' = staged,
           Passes(r, e, staged[r][at[r]])
    PROVE  Handed(r)
<1>1. staged' = [staged EXCEPT ![r][at[r]] = staged[r][at[r]]]
  BY DEF TypeOK
<1> QED
  BY <1>1, HandedBy

LEMMA HandedStaged ==
    ASSUME TypeOK, NEW r \in Runs, NEW f, staged' = [staged EXCEPT ![r][at[r]] = f], dest' = dest,
           Passes(r, Here(r), f)
    PROVE  Handed(r)
<1>1. dest' = [dest EXCEPT ![at[r]] = Here(r)]
  BY DEF TypeOK, Here
<1> QED
  BY <1>1, HandedBy

LEMMA HandedNothing ==
    ASSUME NEW r \in Runs, dest' = dest, staged' = staged
    PROVE  Handed(r)
  BY DEF Handed

\* What a command renames away, whatever is there by then, is in a backup: its
\* own, if its plan observed it.
LEMMA DisplacedIsBacked ==
    ASSUME IInv, Custody, NEW r \in Runs, pc[r] \in {"displace", "take"},
           NEW t \in Trees, Here(r) = Dir(t)
    PROVE  Backed(at[r], t)
<1>1. TypeOK /\ RunOK(r) /\ at[r] \in Dest /\ CustodyOK(r)
  BY Acting DEF Custody
<1>2. pc[r] \in Working
  BY DEF Working
<1>3. CASE Backed(at[r], t)
  BY <1>3
<1>4. CASE Saw(job[r].plan[at[r]], t)
  <2>1. Before(r).kind = "directory" /\ Before(r).digest = t
    BY <1>4 DEF Saw, Before
  <2>2. job[r].op = "install" /\ pc[r] = "displace"
    BY <1>1, <2>1 DEF RunOK, StepOK, InstallPcs, RestorePcs, CustodyOK, NoDirectory, Before
  <2>3. Kind(r) = "replace_with_symlink"
    BY <1>1, <2>1, <2>2 DEF RunOK, PlanOK, InstallKind, Before, Kind
  <2>4. backup[r][at[r]] = Dir(t)
    BY <1>1, <2>1, <2>2, <2>3 DEF RunOK, BackupOK, Kept, EntryOf, IsLink
  <2> QED
    BY <2>4 DEF Backed
<1> QED
  BY <1>1, <1>2, <1>3, <1>4 DEF CustodyOK, Expected, Here

\* Every step of an install ...
LEMMA InstallHands ==
    ASSUME IInv, Custody, NEW r \in Runs, InstallStep(r)
    PROVE  Handed(r)
<1>0. TypeOK /\ at[r] \in Dest /\ StagedBacked(r) /\ Here(r) \in Entries
      /\ \A t \in Trees : staged[r][at[r]] = Dir(t) => Backed(at[r], t)
  BY Acting DEF Custody, CustodyOK, StagedBacked
<1>1. CASE \/ Inspect(r) \/ VerifySource(r) \/ Confirm(r) \/ UndoLook(r) \/ UndoCheck(r)
  <2>1. dest' = dest /\ staged' = staged
    BY <1>1 DEF Inspect, VerifySource, Confirm, UndoLook, UndoCheck, files, store
  <2> QED
    BY <2>1, HandedNothing
<1>2. CASE Displace(r)
  <2>1. CASE /\ staged' = [staged EXCEPT ![r][at[r]] = Here(r)]
             /\ dest' = [dest EXCEPT ![at[r]] = Absent]
    <3>1. \A t \in Trees : Here(r) = Dir(t) => Backed(at[r], t)
      BY <1>2, DisplacedIsBacked DEF Displace
    <3>2. Passes(r, Absent, Here(r))
      BY <3>1, DirsDiffer DEF Passes
    <3> QED
      BY <1>0, <2>1, <3>2, HandedBy
  <2> QED
    BY <1>2, <2>1, HandedNothing DEF Displace
<1>3. CASE MakeLink(r) \/ Drop(r) \/ UndoLink(r)
  <2>1. CASE dest' = [dest EXCEPT ![at[r]] = Link(Src)] /\ Here(r) = Absent /\ staged' = staged
    <3>1. Passes(r, Link(Src), staged[r][at[r]])
      BY <2>1, DirsDiffer DEF Passes
    <3> QED
      BY <1>0, <2>1, <3>1, HandedDest
  <2>2. CASE /\ dest' = [dest EXCEPT ![at[r]] = Absent] /\ staged' = staged
             /\ Here(r) = Absent \/ Removable(Here(r))
    <3>1. Passes(r, Absent, staged[r][at[r]])
      BY <2>2, DirsDiffer DEF Passes
    <3> QED
      BY <1>0, <2>2, <3>1, HandedDest
  <2>3. CASE dest' = dest /\ staged' = staged
    BY <2>3, HandedNothing
  <2> QED
    BY <1>3, <2>1, <2>2, <2>3 DEF MakeLink, Drop, UndoLink, store
<1>4. CASE Clean(r) \/ UndoDiscard(r)
  <2> DEFINE e == staged[r][at[r]]
  <2>1. PICK rest \in {Absent} \cup Remains(e) : staged' = [staged EXCEPT ![r][at[r]] = rest]
    BY <1>4 DEF Clean, UndoDiscard
  <2>2. rest = e \/ rest = Absent \/ rest = Dir(Damaged)
    BY <2>1 DEF Remains
  <2>3. dest' = dest
    BY <1>4 DEF Clean, UndoDiscard, files
  <2>4. dest' = [dest EXCEPT ![at[r]] = Here(r)]
    BY <1>0, <2>3 DEF TypeOK, Here
  <2>5. Passes(r, Here(r), rest)
    BY <2>2, DirsDiffer DEF Passes
  <2> QED
    BY <1>0, <2>1, <2>4, <2>5, HandedBy
<1>5. CASE UndoRename(r)
  <2> DEFINE e == staged[r][at[r]]
  <2>1. CASE /\ RenameLands(e, Here(r))
             /\ dest'   = [dest EXCEPT ![at[r]] = e]
             /\ staged' = [staged EXCEPT ![r][at[r]] = Absent]
    <3>1. \A t \in Trees : Here(r) # Dir(t)
      BY <2>1, DirsDiffer DEF RenameLands
    <3>2. Passes(r, e, Absent)
      BY <3>1, DirsDiffer DEF Passes
    <3> QED
      BY <1>0, <2>1, <3>2, HandedBy
  <2> QED
    BY <1>5, <2>1, HandedNothing DEF UndoRename
<1> QED
  BY <1>1, <1>2, <1>3, <1>4, <1>5 DEF InstallStep

\* ... an uninstall ...
LEMMA UninstallHands ==
    ASSUME IInv, Custody, NEW r \in Runs, UninstallStep(r)
    PROVE  Handed(r)
<1>0. TypeOK
  BY Acting
<1>1. CASE dest' = dest /\ staged' = staged
  BY <1>1, HandedNothing
<1>2. CASE dest' = [dest EXCEPT ![at[r]] = Absent] /\ Removable(Here(r)) /\ staged' = staged
  <2>1. Passes(r, Absent, staged[r][at[r]])
    BY <1>2, DirsDiffer DEF Passes
  <2> QED
    BY <1>0, <1>2, <2>1, HandedDest
<1> QED
  BY <1>1, <1>2 DEF UninstallStep, CheckLink, Unlink, Gone, files, store

\* What a restore publishes is a link or comes from the backup it restores.
LEMMA PreimageBacked ==
    ASSUME IInv, NEW r \in Runs, pc[r] = "publish", NEW t \in Trees, PreimageEntry(r) = Dir(t)
    PROVE  Backed(at[r], t)
<1>1. RunOK(r) /\ at[r] \in Dest /\ job[r].op = "restore"
  BY Acting DEF StepOK, RestorePcs
<1>2. job[r].from \in Runs /\ PreimageEntry(r) # None
  BY <1>1, DirsDiffer DEF RunOK, FromOK
<1>3. backup[job[r].from][at[r]] = Dir(t)
  BY <1>2, DirsDiffer DEF PreimageEntry, Preimage
<1> QED
  BY <1>2, <1>3 DEF Backed

\* ... and a restore.
LEMMA RestoreHands ==
    ASSUME IInv, Custody, NEW r \in Runs, RestoreStep(r)
    PROVE  Handed(r)
<1>0. TypeOK /\ at[r] \in Dest
      /\ \A t \in Trees : staged[r][at[r]] = Dir(t) => Backed(at[r], t)
  BY Acting DEF Custody, CustodyOK, StagedBacked
<1>1. CASE dest' = dest /\ staged' = staged
  BY <1>1, HandedNothing
<1>2. CASE Take(r)
  <2>1. CASE /\ staged' = [staged EXCEPT ![r][at[r]] = Here(r)]
             /\ dest' = [dest EXCEPT ![at[r]] = Absent]
    <3>1. \A t \in Trees : Here(r) = Dir(t) => Backed(at[r], t)
      BY <1>2, DisplacedIsBacked DEF Take
    <3>2. Passes(r, Absent, Here(r))
      BY <3>1, DirsDiffer DEF Passes
    <3> QED
      BY <1>0, <2>1, <3>2, HandedBy
  <2> QED
    BY <1>1, <1>2, <2>1 DEF Take
<1>3. CASE Publish(r)
  <2>1. CASE Here(r) = Absent /\ dest' = [dest EXCEPT ![at[r]] = PreimageEntry(r)] /\ staged' = staged
    <3>1. \A t \in Trees : PreimageEntry(r) = Dir(t) => Backed(at[r], t)
      BY <1>3, PreimageBacked DEF Publish
    <3>2. Passes(r, PreimageEntry(r), staged[r][at[r]])
      BY <2>1, <3>1, DirsDiffer DEF Passes
    <3> QED
      BY <1>0, <2>1, <3>2, HandedDest
  <2> QED
    BY <1>1, <1>3, <2>1 DEF Publish, store
<1>4. CASE Forget(r) \/ Clear(r)
  <2>1. CASE staged' = [staged EXCEPT ![r][at[r]] = Absent] /\ dest' = dest
    <3>1. Passes(r, Here(r), Absent)
      BY DirsDiffer DEF Passes
    <3> QED
      BY <1>0, <2>1, <3>1, HandedStaged
  <2> QED
    BY <1>1, <1>4, <2>1 DEF Forget, Clear, files
<1>5. CASE PutBack(r)
  <2>1. CASE /\ Here(r) = Absent
             /\ dest'   = [dest EXCEPT ![at[r]] = staged[r][at[r]]]
             /\ staged' = [staged EXCEPT ![r][at[r]] = Absent]
    <3>1. Passes(r, staged[r][at[r]], Absent)
      BY <2>1, DirsDiffer DEF Passes
    <3> QED
      BY <1>0, <2>1, <3>1, HandedBy
  <2> QED
    BY <1>1, <1>5, <2>1 DEF PutBack
<1> QED
  BY <1>1, <1>2, <1>3, <1>4, <1>5 DEF RestoreStep, Restage, Taken, Recheck, files, store

LEMMA ActsHand ==
    ASSUME IInv, Custody, NEW r \in Runs, Preview(r) \/ RunStep(r) \/ Crash(r)
    PROVE  Handed(r)
<1>1. CASE Preview(r) \/ Begin(r) \/ NoOp(r) \/ BackUp(r) \/ WriteReceipt(r) \/ Crash(r)
  <2>1. dest' = dest /\ staged' = staged
    BY <1>1 DEF Preview, Begin, NoOp, BackUp, WriteReceipt, Crash, files, store
  <2> QED
    BY <2>1, HandedNothing
<1> QED
  BY <1>1, InstallHands, UninstallHands, RestoreHands DEF RunStep

\* A plan's evidence is of what is there when it is made, and a restore is only
\* planned over links and nothing (currentRestorableStateMatches).
LEMMA PlannedSaw ==
    ASSUME IInv, NEW j \in PlannedJobs
    PROVE  /\ \A d \in Dest, t \in Trees : dest[d] = Dir(t) => Saw(j.plan[d], t)
           /\ j.op = "restore" => \A d \in Dest : j.plan[d].before.kind # "directory"
<1>1. ASSUME NEW source, NEW d \in Dest, NEW t \in Trees, dest[d] = Dir(t)
      PROVE  LET ev == Inventory(dest, tree, source, dest[d])
             IN  ev.kind = "directory" /\ ev.digest = t
  BY <1>1 DEF Inventory, Dir
<1>2. CASE j \in InstallJobs
  <2>1. j = [op |-> "install", source |-> tree[Src], from |-> None,
             plan |-> [d \in Dest |-> [kind |-> InstallKind(InventoryAll(dest, tree, tree[Src])[d]),
                                      before |-> InventoryAll(dest, tree, tree[Src])[d]]]]
    BY <1>2 DEF InstallJobs
  <2>2. j.op = "install"
        /\ \A d \in Dest : j.plan[d].before = Inventory(dest, tree, tree[Src], dest[d])
    BY <2>1 DEF InventoryAll
  <2> QED
    BY <1>1, <2>2 DEF Saw
<1>3. CASE j \in UninstallJobs
  <2>1. PICK id \in Runs :
          j = [op |-> "uninstall", source |-> job[id].source, from |-> id,
               plan |-> [d \in Dest |->
                          [kind   |-> "remove_managed_symlink",
                           before |-> Inventory(dest, tree, job[id].source, dest[d])]]]
    BY <1>3 DEF UninstallJobs
  <2>2. j.op = "uninstall"
        /\ \A d \in Dest : j.plan[d].before = Inventory(dest, tree, job[id].source, dest[d])
    BY <2>1
  <2> QED
    BY <1>1, <2>2 DEF Saw
<1>4. CASE j \in RestoreJobs
  <2>1. PICK id \in Runs :
          /\ RestorePlanOK(id)
          /\ j = [op |-> "restore", source |-> job[id].source, from |-> id,
                  plan |-> [d \in Dest |->
                     LET now == Inventory(dest, tree, job[id].source, dest[d])
                         rec == job[id].plan[d]
                     IN  [kind |-> RestoreKind(rec.kind, rec.before, now), before |-> now]]]
    BY <1>4 DEF RestoreJobs
  <2>2. \A d \in Dest : j.plan[d].before = Inventory(dest, tree, job[id].source, dest[d])
    BY <2>1
  <2>3. \A d \in Dest : j.plan[d].before.kind # "directory"
    BY <2>1, <2>2 DEF RestorePlanOK, Restorable, IsLink
  <2> QED
    BY <1>1, <2>2, <2>3 DEF Saw
<1> QED
  BY <1>2, <1>3, <1>4 DEF PlannedJobs

\* The order of a run's turns: it comes to a destination from its approval or
\* from the other one.
Turns(r) ==
    /\ pc'[r] \notin {"idle", "approved"}
    /\ \/ at'[r] = at[r] /\ (pc'[r] = "action" => pc[r] = "approved")
       \/ at[r] = "claude" /\ at'[r] = "agents"

LEMMA FinishTurns ==
    ASSUME TypeOK, NEW r \in Runs, NEW outcome, NEW after, Finish(r, outcome, after)
    PROVE  Turns(r)
  BY DEF Finish, Goto, Turns, TypeOK

LEMMA StepTurns ==
    ASSUME TypeOK, NEW r \in Runs, NEW to, Goto(r, to), at' = at,
           to \notin {"idle", "approved", "action"}
    PROVE  Turns(r)
  BY DEF Goto, Turns, TypeOK

LEMMA ActsTurn ==
    ASSUME IInv, NEW r \in Runs, RunStep(r) \/ Crash(r)
    PROVE  Turns(r)
<1>0. TypeOK
  BY Acting
<1>1. CASE Begin(r) \/ Crash(r) \/ WriteReceipt(r)
  BY <1>0, <1>1 DEF Begin, Crash, WriteReceipt, Goto, Turns, TypeOK
<1>2. CASE NoOp(r) \/ BackUp(r)
  <2>1. AfterBackup(r) \notin {"idle", "approved", "action"}
    BY DEF AfterBackup
  <2> QED
    BY <1>0, <1>2, <2>1, FinishTurns, StepTurns DEF NoOp, BackUp
<1>3. CASE Displace(r) \/ Inspect(r) \/ VerifySource(r) \/ MakeLink(r)
  BY <1>0, <1>3, FinishTurns, StepTurns DEF Displace, Inspect, VerifySource, MakeLink, Step
<1>4. CASE Confirm(r) \/ Clean(r) \/ Drop(r) \/ UndoLink(r)
  BY <1>0, <1>4, FinishTurns, StepTurns DEF Confirm, Clean, Drop, UndoLink, Step
<1>5. CASE UndoLook(r) \/ UndoDiscard(r) \/ UndoRename(r) \/ UndoCheck(r)
  BY <1>0, <1>5, FinishTurns, StepTurns DEF UndoLook, UndoDiscard, UndoRename, UndoCheck, Step
<1>6. CASE UninstallStep(r)
  BY <1>0, <1>6, FinishTurns, StepTurns DEF UninstallStep, CheckLink, Unlink, Gone, Step
<1>7. CASE Restage(r) \/ Take(r) \/ Taken(r) \/ Forget(r)
  BY <1>0, <1>7, FinishTurns, StepTurns DEF Restage, Take, Taken, Forget, Step
<1>8. CASE Publish(r) \/ Recheck(r) \/ Clear(r) \/ PutBack(r)
  BY <1>0, <1>8, FinishTurns, StepTurns DEF Publish, Recheck, Clear, PutBack, Step
<1> QED
  BY <1>1, <1>2, <1>3, <1>4, <1>5, <1>6, <1>7, <1>8 DEF RunStep, InstallStep, RestoreStep

\* Only a run that comes to a destination writes a backup, over nothing.
BacksUp(r) ==
    /\ \A q \in Runs, d \in Dest : (q # r \/ d # at[r]) => backup'[q][d] = backup[q][d]
    /\ backup' # backup => pc[r] = "action" /\ pc'[r] # "action"

LEMMA ActsBackUp ==
    ASSUME IInv, NEW r \in Runs, Preview(r) \/ RunStep(r) \/ Crash(r)
    PROVE  BacksUp(r)
<1>1. CASE backup' = backup
  BY <1>1 DEF BacksUp
<1>2. CASE BackUp(r)
  <2>1. CASE /\ backup' = [backup EXCEPT ![r][at[r]] = BackupOf(r)]
             /\ Goto(r, AfterBackup(r))
    BY <1>2, <2>1, Acting DEF BacksUp, BackUp, AfterBackup, Goto, TypeOK
  <2> QED
    BY <1>1, <1>2, <2>1 DEF BackUp
<1>3. CASE Preview(r) \/ Begin(r) \/ NoOp(r) \/ WriteReceipt(r) \/ Crash(r)
  BY <1>1, <1>3 DEF Preview, Begin, NoOp, WriteReceipt, Crash, store
<1>4. CASE InstallStep(r)
  BY <1>1, <1>4 DEF InstallStep, Displace, Inspect, VerifySource, MakeLink, Confirm, Clean, Drop,
        UndoLink, UndoLook, UndoDiscard, UndoRename, UndoCheck, store
<1>5. CASE UninstallStep(r) \/ RestoreStep(r)
  BY <1>1, <1>5 DEF UninstallStep, CheckLink, Unlink, Gone, RestoreStep, Restage, Take, Taken,
        Forget, Publish, Recheck, Clear, PutBack, store
<1> QED
  BY <1>2, <1>3, <1>4, <1>5 DEF RunStep

LEMMA BackedStays ==
    ASSUME IInv, Custody, NEW r \in Runs, BacksUp(r), NEW d \in Dest, NEW t \in Trees, Backed(d, t)
    PROVE  Backed(d, t)'
<1>1. PICK q \in Runs : backup[q][d] = Dir(t)
  BY DEF Backed
<1>2. backup'[q][d] = Dir(t)
  <2>1. CASE backup' # backup /\ q = r /\ d = at[r]
    <3>1. backup[r][at[r]] = None
      BY <2>1 DEF BacksUp, Custody, CustodyOK, FreshBackup
    <3> QED
      BY <1>1, <2>1, <3>1, DirsDiffer
  <2> QED
    BY <1>1, <2>1 DEF BacksUp
<1> QED
  BY <1>2 DEF Backed

\* A run's step keeps custody ...
LEMMA ActsKeepCustody ==
    ASSUME IInv, Custody, NEW r \in Runs, Preview(r) \/ RunStep(r) \/ Crash(r), OnlyRun(r)
    PROVE  Custody'
<1>1. Handed(r) /\ BacksUp(r) /\ TypeOK /\ at[r] \in Dest /\ CustodyOK(r)
  BY ActsHand, ActsBackUp, Acting DEF Custody
<1>2. \A d \in Dest, t \in Trees : Backed(d, t) => Backed(d, t)'
  BY <1>1, BackedStays
<1>3. ASSUME NEW q \in Runs PROVE StagedBacked(q)'
  BY <1>1, <1>2 DEF Handed, StagedBacked, Custody, CustodyOK
<1>4. ASSUME NEW d \in Dest, NEW t \in Trees, dest'[d] = Dir(t)
      PROVE  dest[d] = Dir(t) \/ Backed(d, t)'
  BY <1>1, <1>2, <1>4 DEF Handed, Custody, CustodyOK, StagedBacked
<1>5. ASSUME NEW q \in Runs \ {r} PROVE FreshBackup(q)' /\ NoDirectory(q)' /\ Expected(q)'
  <2>1. CustodyOK(q) /\ at[q] \in Dest /\ "agents" \in Dest
    BY <1>1 DEF Custody, TypeOK, Dest
  <2>2. pc'[q] = pc[q] /\ at'[q] = at[q] /\ job'[q] = job[q]
        /\ \A d \in Dest : backup'[q][d] = backup[q][d]
    BY DEF OnlyRun
  <2>3. FreshBackup(q)'
    BY <2>1, <2>2 DEF CustodyOK, FreshBackup
  <2>4. NoDirectory(q)'
    BY <2>1, <2>2 DEF CustodyOK, NoDirectory
  <2>5. Expected(q)'
    BY <1>2, <1>4, <2>1, <2>2 DEF CustodyOK, Expected
  <2> QED
    BY <2>3, <2>4, <2>5
<1>6. CASE Preview(r)
  <2>1. PICK j \in PlannedJobs : job' = [job EXCEPT ![r] = j]
    BY <1>6 DEF Preview
  <2>2. pc[r] = "idle" /\ pc'[r] = "approved" /\ at' = at /\ backup' = backup /\ job'[r] = j
    BY <1>1, <1>6, <2>1 DEF Preview, Goto, TypeOK, store
  <2>3. FreshBackup(r)'
    BY <1>1, <2>2 DEF CustodyOK, FreshBackup
  <2>4. NoDirectory(r)'
    BY <2>2, PlannedSaw DEF NoDirectory
  <2>5. Expected(r)'
    BY <2>2 DEF Expected, Working
  <2> QED
    BY <1>3, <1>5, <2>3, <2>4, <2>5 DEF Custody, CustodyOK
<1>7. CASE RunStep(r) \/ Crash(r)
  <2>1. Turns(r) /\ "agents" \in Dest
    BY <1>7, ActsTurn DEF Dest
  <2>2. job' = job
    BY <1>7, Zenon DEF RunStep, Crash, Begin, NoOp, BackUp, WriteReceipt, InstallStep, UninstallStep, RestoreStep,
                Displace, Inspect, VerifySource, MakeLink, Confirm, Clean, Drop, UndoLink, UndoLook,
                UndoDiscard, UndoRename, UndoCheck, CheckLink, Unlink, Gone, Restage, Take, Taken,
                Forget, Publish, Recheck, Clear, PutBack, Step, Finish
  <2>3. FreshBackup(r)'
    <3>1. CASE at'[r] = at[r] /\ (pc'[r] = "action" => pc[r] = "approved")
      BY <1>1, <2>1, <3>1 DEF CustodyOK, FreshBackup, Turns, BacksUp
    <3>2. CASE at[r] = "claude" /\ at'[r] = "agents"
      BY <1>1, <2>1, <3>2 DEF CustodyOK, FreshBackup, BacksUp
    <3> QED
      BY <2>1, <3>1, <3>2 DEF Turns
  <2>4. NoDirectory(r)'
    BY <1>1, <2>2 DEF CustodyOK, NoDirectory
  <2>5. Expected(r)'
    <3>1. CASE pc[r] \in Working
      BY <1>1, <1>2, <1>4, <2>2, <3>1 DEF CustodyOK, Expected
    <3>2. CASE Begin(r)
      <4>1. pc'[r] \in Working => job[r] \in PlannedJobs
        BY <1>1, <3>2 DEF Begin, Goto, TypeOK, Working
      <4>2. dest' = dest
        BY <3>2 DEF Begin, files
      <4>3. pc'[r] \in Working => \A d \in Dest, t \in Trees : dest[d] = Dir(t) => Saw(job[r].plan[d], t)
        BY <4>1, PlannedSaw, SMTT(30)
      <4> QED
        BY <2>2, <4>2, <4>3 DEF Expected
    <3>3. pc[r] \in Working \/ Begin(r)
      BY <1>7, Zenon DEF RunStep, Crash, NoOp, BackUp, WriteReceipt, InstallStep, UninstallStep, RestoreStep,
                  Displace, Inspect, VerifySource, MakeLink, Confirm, Clean, Drop, UndoLink, UndoLook,
                  UndoDiscard, UndoRename, UndoCheck, CheckLink, Unlink, Gone, Restage, Take, Taken,
                  Forget, Publish, Recheck, Clear, PutBack, Working
    <3> QED
      BY <3>1, <3>2, <3>3
  <2> QED
    BY <1>3, <1>5, <2>3, <2>4, <2>5 DEF Custody, CustodyOK
<1> QED
  BY <1>6, <1>7

\* ... and so does an edit that leaves the destinations of commands at work alone.
LEMMA EditKeepsCustody ==
    ASSUME ~EditsWhileActive, Custody, EditDestination \/ EditTree \/ UNCHANGED vars
    PROVE  Custody'
<1>1. UNCHANGED <<pc, at, job, backup, staged>>
  BY DEF EditDestination, EditTree, MayEdit, vars, store, procs
<1>2. dest' = dest \/ Active = {}
  BY DEF EditDestination, EditTree, MayEdit, vars, files
<1> SUFFICES ASSUME NEW r \in Runs PROVE CustodyOK(r)'
  BY DEF Custody
<1>3. CustodyOK(r)
  BY DEF Custody
<1>4. FreshBackup(r)' /\ NoDirectory(r)'
  BY <1>1, <1>3 DEF CustodyOK, FreshBackup, NoDirectory
<1>5. StagedBacked(r)'
  BY <1>1, <1>3 DEF CustodyOK, StagedBacked, Backed
<1>6. Expected(r)'
  BY <1>1, <1>2, <1>3 DEF CustodyOK, Expected, Backed, Active
<1> QED
  BY <1>4, <1>5, <1>6 DEF CustodyOK

LEMMA InitCustody == Init => Custody
<1> SUFFICES ASSUME Init, NEW r \in Runs PROVE CustodyOK(r)
  BY DEF Custody
<1>1. /\ pc[r] = "idle" /\ at[r] = "claude" /\ job[r] = NoJob
      /\ \A d \in Dest : backup[r][d] = None /\ staged[r][d] = Absent
  BY DEF Init
<1>2. FreshBackup(r) /\ NoDirectory(r) /\ Expected(r)
  BY <1>1 DEF FreshBackup, NoDirectory, Expected, NoJob, Working, Dest
<1>3. StagedBacked(r)
  BY <1>1, DirsDiffer DEF StagedBacked
<1> QED
  BY <1>2, <1>3 DEF CustodyOK

\* While the user edits no destination of a command at work, no step of any
\* command, I/O error or crash takes the last copy of a directory: publishSymlink,
\* removeReceiptedSymlink and restoreDestination displace only what a backup holds,
\* even when they displace what another command put there.
THEOREM NoTreeIsLost ==
    ASSUME ~EditsWhileActive
    PROVE  Spec => NoTreeLost
<1>1. Init => Custody
  BY InitCustody
<1>2. IInv /\ Custody /\ [Next]_vars => Custody'
  <2> SUFFICES ASSUME IInv, Custody, [Next]_vars PROVE Custody'
    OBVIOUS
  <2>1. ASSUME NEW r \in Runs, Preview(r) \/ RunStep(r) \/ Crash(r) PROVE Custody'
    BY <2>1, RunStepOK, WriteReceiptOK, ActsKeepCustody
  <2>2. CASE EditDestination \/ EditTree \/ UNCHANGED vars
    BY <2>2, EditKeepsCustody
  <2> QED
    BY <2>1, <2>2 DEF Next
<1>3. IInv /\ Custody /\ [Next]_vars
        => [edits' = edits => \A d \in Dest, t \in Trees : Held(d, t) => Held(d, t)']_vars
  <2> SUFFICES ASSUME IInv, Custody, Next, edits' = edits, NEW d \in Dest, NEW t \in Trees, Held(d, t)
               PROVE  Held(d, t)'
    OBVIOUS
  <2>1. PICK r \in Runs : Preview(r) \/ RunStep(r) \/ Crash(r)
    <3>1. ~EditDestination /\ ~EditTree
      BY Acting DEF EditDestination, EditTree, MayEdit, IInv, TypeOK
    <3> QED
      BY <3>1 DEF Next
  <2>2. Handed(r) /\ BacksUp(r)
    BY <2>1, ActsHand, ActsBackUp
  <2>3. dest'[d] = Dir(t) \/ Backed(d, t)
    BY <2>2 DEF Held, Handed, Backed, Custody, CustodyOK, StagedBacked
  <2>4. Backed(d, t) => Backed(d, t)'
    BY <2>2, BackedStays
  <2> QED
    BY <2>3, <2>4 DEF Held, Backed
<1> QED
  BY <1>1, <1>2, <1>3, Invariance, PTL DEF Spec, NoTreeLost
=============================================================================

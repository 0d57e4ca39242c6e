------------------------------ MODULE SkillDist ------------------------------
(***************************************************************************)
(* `rootline skill install | uninstall | restore`: approved commands that  *)
(* replace what the user has at the two managed destinations by symlinks   *)
(* to the skill source, and undo it from receipts and backups              *)
(* (internal/skilldist/service.go and store.go).                           *)
(*                                                                         *)
(* A run is one command: the preview that produced the approved plan and   *)
(* the execution that re-plans, compares and acts.  Its file-system calls  *)
(* are separate actions, so several runs, the user's own edits, I/O errors *)
(* and a crash may come between any two of them.  A run's identity is its  *)
(* receipt ID, hence the name of its backup directory and of its staging   *)
(* siblings: no other run, and no user, touches those.                     *)
(***************************************************************************)
EXTENDS SkillEvidence

CONSTANTS
    Runs,        \* command executions
    InitialDest, \* entries a destination may hold before the first command
    UserEntries, \* entries a user may put at a destination
    Ops,         \* operations the runs may perform
    MaxEdits,    \* bound on the user's edits
    MaxFaults,   \* bound on I/O errors
    MaxCrashes,  \* bound on crashes
    MaxActive,   \* bound on commands executing at the same time
    EditsWhileActive  \* may the user edit while a command executes?

Operations == {"install", "uninstall", "restore"}

ASSUME SkillAssumption ==
    /\ None \notin Runs \cup Entries
    /\ InitialDest \subseteq Entries
    /\ UserEntries \subseteq Entries
    /\ Ops \subseteq Operations
    /\ MaxEdits \in Nat /\ MaxFaults \in Nat /\ MaxCrashes \in Nat /\ MaxActive \in Nat
    /\ EditsWhileActive \in BOOLEAN

VARIABLES
    dest,    \* [Dest -> Entries], the managed destinations
    tree,    \* content of the source and of Elsewhere; None when missing
    backup,  \* [Runs -> [Dest -> entry or None]], backups/<receipt id>/<destination>
    staged,  \* [Runs -> [Dest -> Entries]], the run's staging sibling
    log,     \* receipts.jsonl, in order
    torn,    \* the log ends in a line that does not parse
    pc,      \* [Runs -> Steps], the next call of the run
    at,      \* [Runs -> Dest], the destination the run is working on
    job,     \* [Runs -> Jobs], operation and approved plan
    result,  \* [Runs -> [Dest -> ActionResults]], what became of each action
    edits, faults, crashes

files == <<dest, tree>>
store == <<backup, staged, log, torn>>
procs == <<pc, at, job, result>>
env   == <<edits, faults, crashes>>
vars  == <<files, store, procs, env>>

(***************************************************************************)
(* Types.                                                                  *)
(***************************************************************************)
Working ==
    {"action", "displace", "inspect", "verify", "link", "confirm", "clean",
     "drop", "undo_link", "undo_look", "undo_discard", "undo_rename", "undo_check",
     "unlink", "gone",
     "restage", "take", "taken", "forget", "publish", "recheck", "clear", "put_back",
     "append"}
Finished == {"refused", "complete", "incomplete", "crashed"}
Steps    == Working \cup Finished \cup {"idle", "approved"}

Plan == [kind : ActionKinds, before : Evidence]
Jobs == [op : Operations, source : Trees, from : Runs \cup {None},
         plan : [Dest -> Plan]]
NoJob == [op |-> "none"]

Outcomes      == {"pending", "complete", "failed", "rolled_back"}
ActionResults == [outcome : Outcomes, after : Evidence \cup {None}]
Pending       == [outcome |-> "pending", after |-> None]

\* A receipt; its source, actions and backups are job[id], result[id] and
\* backup[id], which no longer change once the receipt is written.
Receipts == [id : Runs, complete : BOOLEAN]

TypeOK ==
    /\ dest    \in [Dest -> Entries]
    /\ tree    \in [{Src} \cup Elsewhere -> Trees \cup {None}]
    /\ tree[Src] \in Trees
    /\ backup  \in [Runs -> [Dest -> Entries \cup {None}]]
    /\ staged  \in [Runs -> [Dest -> Entries]]
    /\ log     \in Seq(Receipts)
    /\ torn    \in BOOLEAN
    /\ pc      \in [Runs -> Steps]
    /\ at      \in [Runs -> Dest]
    /\ job     \in [Runs -> Jobs \cup {NoJob}]
    /\ result  \in [Runs -> [Dest -> ActionResults]]
    /\ edits \in 0..MaxEdits /\ faults \in 0..MaxFaults /\ crashes \in 0..MaxCrashes

Init ==
    /\ dest    \in [Dest -> InitialDest]
    /\ tree    \in [{Src} \cup Elsewhere -> Trees]
    /\ backup  = [r \in Runs |-> [d \in Dest |-> None]]
    /\ staged  = [r \in Runs |-> [d \in Dest |-> Absent]]
    /\ log     = << >>
    /\ torn    = FALSE
    /\ pc      = [r \in Runs |-> "idle"]
    /\ at      = [r \in Runs |-> "claude"]
    /\ job     = [r \in Runs |-> NoJob]
    /\ result  = [r \in Runs |-> [d \in Dest |-> Pending]]
    /\ edits = 0 /\ faults = 0 /\ crashes = 0

(***************************************************************************)
(* Planning.                                                               *)
(***************************************************************************)
Here(r)    == dest[at[r]]
Before(r)  == job[r].plan[at[r]].before
Kind(r)    == job[r].plan[at[r]].kind
Active     == {r \in Runs : pc[r] \in Working}

\* installPlan: an unsupported entry at either destination refuses the plan.
InstallJobs ==
    LET inv == InventoryAll(dest, tree, tree[Src])
    IN  IF \E d \in Dest : inv[d].kind = "unsupported" THEN {}
        ELSE {[op |-> "install", source |-> tree[Src], from |-> None,
               plan |-> [d \in Dest |-> [kind   |-> InstallKind(inv[d]),
                                         before |-> inv[d]]]]}

\* latestCompleteInstallReceipt: positions of the log holding such a receipt.
CompleteInstalls == {i \in DOMAIN log : log[i].complete /\ job[log[i].id].op = "install"}

IsLatestInstall(id) ==
    \E i \in CompleteInstalls :
        /\ log[i].id = id
        /\ \A j \in CompleteInstalls : j <= i

\* BuildUninstallPlan against the receipt id.
Uninstallable(id) ==
    \A d \in Dest :
        LET now == Inventory(dest, tree, job[id].source, dest[d])
        IN  /\ now.kind = "correct_symlink"
            /\ result[id][d].outcome = "complete"
            /\ result[id][d].after = now
            /\ now.lexical = Src /\ now.digest = job[id].source

UninstallJobs ==
    {[op |-> "uninstall", source |-> job[id].source, from |-> id,
      plan |-> [d \in Dest |-> [kind   |-> "remove_managed_symlink",
                                before |-> Inventory(dest, tree, job[id].source, dest[d])]]] :
     id \in {x \in Runs : ~torn /\ IsLatestInstall(x) /\ Uninstallable(x)}}

\* verifyReceiptPreimageBackups: what will be put back at d, None when the
\* receipt has neither a backup nor the evidence of an untouched link.
Preimage(id, d) ==
    LET p == job[id].plan[d]
    IN  IF backup[id][d] # None THEN backup[id][d]
        ELSE IF p.kind = "no_op" THEN Link(p.before.lexical)
        ELSE None

\* BuildRestorePlan against the complete receipt id, of any operation.
RestorePlanOK(id) ==
    \A d \in Dest :
        /\ job[id].plan[d].before.kind # "absent" => Preimage(id, d) # None
        /\ result[id][d].outcome = "complete"
        /\ Restorable(result[id][d].after, Inventory(dest, tree, job[id].source, dest[d]))

RestoreJobs ==
    {[op |-> "restore", source |-> job[id].source, from |-> id,
      plan |-> [d \in Dest |->
                  LET now == Inventory(dest, tree, job[id].source, dest[d])
                      rec == job[id].plan[d]
                  IN  [kind   |-> RestoreKind(rec.kind, rec.before, now),
                       before |-> now]]] :
     id \in {x \in Runs : /\ ~torn
                          /\ \E i \in DOMAIN log : log[i] = [id |-> x, complete |-> TRUE]
                          /\ RestorePlanOK(x)}}

PlannedJobs == {j \in InstallJobs \cup UninstallJobs \cup RestoreJobs : j.op \in Ops}

(***************************************************************************)
(* Step helpers.                                                           *)
(***************************************************************************)
Goto(r, to) == pc' = [pc EXCEPT ![r] = to]

\* An I/O error, while the bound allows one; every other step is free of it.
Faulty == faults < MaxFaults /\ faults' = faults + 1 /\ UNCHANGED <<edits, crashes>>
Sound  == UNCHANGED env

\* The action at the current destination ends: the next one, or the receipt.
Finish(r, outcome, after) ==
    /\ result' = [result EXCEPT ![r][at[r]] = [outcome |-> outcome, after |-> after]]
    /\ IF outcome = "complete" /\ at[r] = "claude"
       THEN at' = [at EXCEPT ![r] = "agents"] /\ Goto(r, "action")
       ELSE at' = at /\ Goto(r, "append")
    /\ UNCHANGED job

Step(r, to) == Goto(r, to) /\ UNCHANGED <<at, job, result>>

Observed(r, d) == Inventory(dest, tree, job[r].source, dest[d])

(***************************************************************************)
(* Preview and approval.                                                   *)
(***************************************************************************)

\* The preview: plan and print the digest; the user approves what it binds.
Preview(r) ==
    /\ pc[r] = "idle"
    /\ \E j \in PlannedJobs : job' = [job EXCEPT ![r] = j]
    /\ Goto(r, "approved")
    /\ UNCHANGED <<files, store, at, result>> /\ Sound

\* Install/Uninstall/Restore with an approval: plan again, refuse unless the
\* plan is still the approved one, reserve the receipt ID.
Begin(r) ==
    /\ pc[r] = "approved"
    /\ Cardinality(Active) < MaxActive
    /\ \/ Goto(r, IF job[r] \in PlannedJobs THEN "action" ELSE "refused") /\ Sound
       \/ job[r] \in PlannedJobs /\ Goto(r, "refused") /\ Faulty
    /\ UNCHANGED <<files, store, at, job, result>>

(***************************************************************************)
(* The loop over the plan's actions.                                       *)
(***************************************************************************)

\* A no_op action is recorded as complete without touching anything.
NoOp(r) ==
    /\ pc[r] = "action" /\ Kind(r) = "no_op"
    /\ Finish(r, "complete", Before(r))
    /\ UNCHANGED <<files, store>> /\ Sound

\* Store.Backup of the current entry, against the evidence in the plan.
BackupMatches(r) ==
    LET e == Here(r)
    IN  CASE Before(r).kind = "absent"    -> e = Absent
          [] Before(r).kind = "directory" -> e = Dir(Before(r).digest)
          [] OTHER                        -> e = Link(Before(r).lexical)

\* Mutation: the directory is verified but never copied.
BackupOfLinksOnly(r) == IF IsLink(Before(r)) THEN Here(r) ELSE None

\* What Backup keeps: nothing for an absent preimage.
BackupOf(r) == IF Before(r).kind = "absent" THEN None ELSE Here(r)

AfterBackup(r) ==
    IF job[r].op = "install"
    THEN IF Before(r).kind # "absent" THEN "displace" ELSE "verify"
    ELSE IF Before(r).kind # "absent" THEN "restage"
         ELSE IF Kind(r) = "remove_managed_symlink" THEN "forget" ELSE "publish"

BackUp(r) ==
    /\ pc[r] = "action" /\ Kind(r) # "no_op" /\ job[r].op # "uninstall"
    /\ \/ /\ BackupMatches(r)
          /\ backup' = [backup EXCEPT ![r][at[r]] = BackupOf(r)]
          /\ Goto(r, AfterBackup(r))
          /\ UNCHANGED <<at, job, result>> /\ Sound
       \/ /\ ~BackupMatches(r)
          /\ Finish(r, "failed", None)
          /\ UNCHANGED backup /\ Sound
       \/ /\ BackupMatches(r)
          /\ Finish(r, "failed", None)
          /\ UNCHANGED backup /\ Faulty
    /\ UNCHANGED <<files, staged, log, torn>>

(***************************************************************************)
(* Install: publishSymlink.                                                *)
(***************************************************************************)

\* os.Rename of the destination to the staging sibling moves whatever is
\* there now.
Displace(r) ==
    /\ pc[r] = "displace"
    /\ \/ /\ Here(r) # Absent
          /\ staged' = [staged EXCEPT ![r][at[r]] = Here(r)]
          /\ dest'   = [dest EXCEPT ![at[r]] = Absent]
          /\ Step(r, "inspect") /\ Sound
       \/ /\ Here(r) = Absent /\ Finish(r, "failed", None)
          /\ UNCHANGED <<dest, staged>> /\ Sound
       \/ /\ Here(r) # Absent /\ Finish(r, "failed", None)
          /\ UNCHANGED <<dest, staged>> /\ Faulty
    /\ UNCHANGED <<tree, backup, log, torn>>

\* Mutation: the renamed entry is trusted.
StagedUnchecked(r) == TRUE

\* The staged entry must carry the evidence the plan and the backup hold.
StagedAsPlanned(r) ==
    LET e == staged[r][at[r]]
    IN  SameStagedEvidence(Before(r), Inventory(dest, tree, job[r].source, e),
                           backup[r][at[r]])

Inspect(r) ==
    /\ pc[r] = "inspect"
    /\ \/ Step(r, IF StagedAsPlanned(r) THEN "verify" ELSE "undo_look") /\ Sound
       \/ Step(r, "undo_look") /\ Faulty
    /\ UNCHANGED <<files, store>>

\* verifySourceDigest before the symlink is created.
VerifySource(r) ==
    /\ pc[r] = "verify"
    /\ \/ /\ Step(r, IF tree[Src] = job[r].source THEN "link" ELSE "undo_look")
          /\ Sound
       \/ Step(r, "undo_look") /\ Faulty
    /\ UNCHANGED <<files, store>>

\* os.Symlink fails when the destination exists.
MakeLink(r) ==
    /\ pc[r] = "link"
    /\ \/ /\ Here(r) = Absent
          /\ dest' = [dest EXCEPT ![at[r]] = Link(Src)]
          /\ Step(r, "confirm") /\ Sound
       \/ Here(r) # Absent /\ Step(r, "undo_look") /\ UNCHANGED dest /\ Sound
       \/ Here(r) = Absent /\ Step(r, "undo_look") /\ UNCHANGED dest /\ Faulty
    /\ UNCHANGED <<tree, store>>

\* verifySourceDigest again, then the destination must be the exact symlink.
Published(r) ==
    /\ tree[Src] = job[r].source
    /\ Observed(r, at[r]).kind = "correct_symlink"

Confirm(r) ==
    /\ pc[r] = "confirm"
    /\ \/ /\ Published(r) /\ Goto(r, "clean") /\ Sound
          /\ result' = [result EXCEPT ![r][at[r]].after = Observed(r, at[r])]
       \/ ~Published(r) /\ Goto(r, "drop") /\ Sound  /\ UNCHANGED result
       \/ Published(r)  /\ Goto(r, "drop") /\ Faulty /\ UNCHANGED result
    /\ UNCHANGED <<files, store, at, job>>

\* What a failing os.RemoveAll may leave: half a tree.
Remains(e) == {e} \cup (IF e.type = "directory" THEN {Dir(Damaged)} ELSE {})

\* os.RemoveAll of the staged preimage.
Clean(r) ==
    LET e == staged[r][at[r]]
    IN  /\ pc[r] = "clean"
        /\ \/ /\ staged' = [staged EXCEPT ![r][at[r]] = Absent]
              /\ Finish(r, "complete", result[r][at[r]].after) /\ Sound
           \/ /\ e # Absent
              /\ \E rest \in Remains(e) :
                    staged' = [staged EXCEPT ![r][at[r]] = rest]
              /\ Step(r, "undo_link") /\ Faulty
        /\ UNCHANGED <<files, backup, log, torn>>

(***************************************************************************)
(* Install: rollbackAfterFailure and restoreStaged.                        *)
(***************************************************************************)

\* os.Remove takes a file or a symlink, never a directory with content.
Removable(e) == e.type \in {"file", "symlink"}

\* The failed confirmation removes the destination, whatever the outcome...
Drop(r) ==
    /\ pc[r] = "drop"
    /\ \/ /\ Removable(Here(r))
          /\ dest' = [dest EXCEPT ![at[r]] = Absent]
          /\ Step(r, "undo_link") /\ Sound
       \/ ~Removable(Here(r)) /\ Step(r, "undo_link") /\ UNCHANGED dest /\ Sound
       \/ Removable(Here(r)) /\ Step(r, "undo_link") /\ UNCHANGED dest /\ Faulty
    /\ UNCHANGED <<tree, store>>

\* ... and the rollback removes it again; only "not there" is no error.
UndoLink(r) ==
    /\ pc[r] = "undo_link"
    /\ \/ /\ Here(r) = Absent \/ Removable(Here(r))
          /\ dest' = [dest EXCEPT ![at[r]] = Absent]
          /\ Step(r, "undo_look") /\ Sound
       \/ Here(r).type = "directory" /\ Finish(r, "failed", None) /\ UNCHANGED dest /\ Sound
       \/ Removable(Here(r)) /\ Finish(r, "failed", None) /\ UNCHANGED dest /\ Faulty
    /\ UNCHANGED <<tree, store>>

\* Lstat of the destination: with nothing staged it is the verdict, otherwise
\* it decides between putting the staged preimage back and discarding it.
UndoLook(r) ==
    /\ pc[r] = "undo_look"
    /\ \/ /\ staged[r][at[r]] = Absent
          /\ Finish(r, IF Here(r) = Absent THEN "rolled_back" ELSE "failed", None) /\ Sound
       \/ /\ staged[r][at[r]] # Absent
          /\ Step(r, IF Here(r) = Absent THEN "undo_rename" ELSE "undo_discard")
          /\ Sound
       \/ Finish(r, "failed", None) /\ Faulty
    /\ UNCHANGED <<files, store>>

\* Something occupies the destination and the backup verifies: RemoveAll of
\* the staged preimage, its error ignored.
UndoDiscard(r) ==
    LET e == staged[r][at[r]]
    IN  /\ pc[r] = "undo_discard"
        /\ Finish(r, "failed", None)
        /\ \/ staged' = [staged EXCEPT ![r][at[r]] = Absent] /\ Sound
           \/ /\ \E rest \in Remains(e) :
                    staged' = [staged EXCEPT ![r][at[r]] = rest]
              /\ Faulty
        /\ UNCHANGED <<files, backup, log, torn>>

\* os.Rename onto the destination replaces a file or symlink that appeared
\* there unless a directory is involved.
RenameLands(from, onto) ==
    onto = Absent \/ (Removable(from) /\ Removable(onto))

UndoRename(r) ==
    LET e == staged[r][at[r]]
    IN  /\ pc[r] = "undo_rename"
        /\ \/ /\ RenameLands(e, Here(r))
              /\ dest'   = [dest EXCEPT ![at[r]] = e]
              /\ staged' = [staged EXCEPT ![r][at[r]] = Absent]
              /\ Step(r, "undo_check") /\ Sound
           \/ /\ ~RenameLands(e, Here(r)) /\ Finish(r, "failed", None)
              /\ UNCHANGED <<dest, staged>> /\ Sound
           \/ /\ RenameLands(e, Here(r)) /\ Finish(r, "failed", None)
              /\ UNCHANGED <<dest, staged>> /\ Faulty
        /\ UNCHANGED <<tree, backup, log, torn>>

UndoCheck(r) ==
    /\ pc[r] = "undo_check"
    /\ Finish(r, IF Restored(dest, tree, at[r], Before(r)) THEN "rolled_back" ELSE "failed",
              None)
    /\ UNCHANGED <<files, store>> /\ Sound

(***************************************************************************)
(* Uninstall: removeReceiptedSymlink.                                      *)
(***************************************************************************)

\* The destination must still be the planned symlink...
CheckLink(r) ==
    LET ok == Here(r) = Link(Before(r).lexical)
    IN  /\ pc[r] = "action" /\ job[r].op = "uninstall"
        /\ \/ ok /\ Step(r, "unlink") /\ Sound
           \/ ~ok /\ Finish(r, "failed", None) /\ Sound
           \/ ok /\ Finish(r, "failed", None) /\ Faulty
        /\ UNCHANGED <<files, store>>

\* ... but os.Remove removes what is there by then.
Unlink(r) ==
    /\ pc[r] = "unlink"
    /\ \/ /\ Removable(Here(r))
          /\ dest' = [dest EXCEPT ![at[r]] = Absent]
          /\ Step(r, "gone") /\ Sound
       \/ ~Removable(Here(r)) /\ Finish(r, "failed", None) /\ UNCHANGED dest /\ Sound
       \/ Removable(Here(r)) /\ Finish(r, "failed", None) /\ UNCHANGED dest /\ Faulty
    /\ UNCHANGED <<tree, store>>

\* The final Lstat.
AbsentEvidence == [kind |-> "absent", lexical |-> None, canonical |-> None, digest |-> None]

Gone(r) ==
    /\ pc[r] = "gone"
    /\ \/ Here(r) = Absent /\ Finish(r, "complete", AbsentEvidence) /\ Sound
       \/ Here(r) # Absent /\ Finish(r, "failed", None) /\ Sound
       \/ Here(r) = Absent /\ Finish(r, "failed", None) /\ Faulty
    /\ UNCHANGED <<files, store>>

(***************************************************************************)
(* Restore: restoreDestination.                                            *)
(***************************************************************************)

\* Mutation: the current entry's evidence stands in for the preimage's.
CurrentEvidence(r) == Before(r)

\* The evidence and the entry recorded by the receipt being restored.
PreimageEvidence(r) == job[job[r].from].plan[at[r]].before
PreimageEntry(r)    == Preimage(job[r].from, at[r])

\* stageReceiptedSymlink: check the link, rename it away, look again.
Restage(r) ==
    LET ok == Here(r) = Link(Before(r).lexical)
    IN  /\ pc[r] = "restage"
        /\ \/ ok /\ Step(r, "take") /\ Sound
           \/ ~ok /\ Finish(r, "failed", None) /\ Sound
           \/ ok /\ Finish(r, "failed", None) /\ Faulty
        /\ UNCHANGED <<files, store>>

Take(r) ==
    /\ pc[r] = "take"
    /\ \/ /\ Here(r) # Absent
          /\ staged' = [staged EXCEPT ![r][at[r]] = Here(r)]
          /\ dest'   = [dest EXCEPT ![at[r]] = Absent]
          /\ Step(r, "taken") /\ Sound
       \/ /\ Here(r) = Absent /\ Finish(r, "failed", None)
          /\ UNCHANGED <<dest, staged>> /\ Sound
       \/ /\ Here(r) # Absent /\ Finish(r, "failed", None)
          /\ UNCHANGED <<dest, staged>> /\ Faulty
    /\ UNCHANGED <<tree, backup, log, torn>>

Taken(r) ==
    /\ pc[r] = "taken"
    /\ \/ /\ Here(r) = Absent /\ Sound
          /\ Step(r, IF Kind(r) = "remove_managed_symlink" THEN "forget" ELSE "publish")
       \/ Here(r) # Absent /\ Finish(r, "failed", None) /\ Sound
       \/ Here(r) = Absent /\ Finish(r, "failed", None) /\ Faulty
    /\ UNCHANGED <<files, store>>

\* The preimage was absent: drop the staged link, if there was one.
Forget(r) ==
    LET e == staged[r][at[r]]
    IN  /\ pc[r] = "forget"
        /\ \/ /\ e = Absent \/ Removable(e)
              /\ staged' = [staged EXCEPT ![r][at[r]] = Absent]
              /\ Finish(r, "complete", AbsentEvidence) /\ Sound
           \/ e.type = "directory" /\ Step(r, "put_back") /\ UNCHANGED staged /\ Sound
           \/ Removable(e) /\ Step(r, "put_back") /\ UNCHANGED staged /\ Faulty
        /\ UNCHANGED <<files, backup, log, torn>>

\* Store.RestoreBackup: a verified candidate, published without replacing.
Publish(r) ==
    /\ pc[r] = "publish"
    /\ \/ /\ Here(r) = Absent
          /\ dest' = [dest EXCEPT ![at[r]] = PreimageEntry(r)]
          /\ Step(r, "recheck") /\ Sound
       \/ Here(r) # Absent /\ Step(r, "put_back") /\ UNCHANGED dest /\ Sound
       \/ Here(r) = Absent /\ Step(r, "put_back") /\ UNCHANGED dest /\ Faulty
    /\ UNCHANGED <<tree, store>>

\* verifyRestoredPreimage of what was published.
Recheck(r) ==
    LET ok == Restored(dest, tree, at[r], PreimageEvidence(r))
    IN  /\ pc[r] = "recheck"
        /\ \/ /\ ok /\ Goto(r, "clear") /\ Sound
              /\ result' = [result EXCEPT ![r][at[r]].after =
                                RestoredEvidence(dest, tree, at[r], PreimageEvidence(r))]
           \/ ~ok /\ Goto(r, "put_back") /\ Sound /\ UNCHANGED result
           \/ ok /\ Goto(r, "put_back") /\ Faulty /\ UNCHANGED result
        /\ UNCHANGED <<files, store, at, job>>

\* os.Remove of the staged link.
Clear(r) ==
    LET e == staged[r][at[r]]
    IN  /\ pc[r] = "clear"
        /\ \/ /\ e = Absent \/ Removable(e)
              /\ staged' = [staged EXCEPT ![r][at[r]] = Absent]
              /\ Finish(r, "complete", result[r][at[r]].after) /\ Sound
           \/ e.type = "directory" /\ Finish(r, "failed", None) /\ UNCHANGED staged /\ Sound
           \/ Removable(e) /\ Finish(r, "failed", None) /\ UNCHANGED staged /\ Faulty
        /\ UNCHANGED <<files, backup, log, torn>>

\* restoreStagedCurrent, without replacing, and rollbackCurrentDestination
\* when the destination was absent to begin with.
PutBack(r) ==
    LET e == staged[r][at[r]]
    IN  /\ pc[r] = "put_back"
        /\ \/ /\ Here(r) = Absent
              /\ dest'   = [dest EXCEPT ![at[r]] = e]
              /\ staged' = [staged EXCEPT ![r][at[r]] = Absent]
              /\ Finish(r, "rolled_back", None) /\ Sound
           \/ /\ Here(r) # Absent /\ Finish(r, "failed", None)
              /\ UNCHANGED <<dest, staged>> /\ Sound
           \/ /\ Here(r) = Absent /\ Finish(r, "failed", None)
              /\ UNCHANGED <<dest, staged>> /\ Faulty
        /\ UNCHANGED <<tree, backup, log, torn>>

(***************************************************************************)
(* The receipt, crashes and the user.                                      *)
(***************************************************************************)
AllComplete(r) == \A d \in Dest : result[r][d].outcome = "complete"

\* Store.Append: refuses an unreadable log; a failed write may leave a torn
\* line, a failed sync a whole one.  The command is complete only when its
\* receipt is on disk.
WriteReceipt(r) ==
    /\ pc[r] = "append"
    /\ LET line == [id |-> r, complete |-> AllComplete(r)]
       IN  \/ /\ ~torn /\ log' = Append(log, line) /\ UNCHANGED torn
              /\ Goto(r, IF AllComplete(r) THEN "complete" ELSE "incomplete") /\ Sound
           \/ torn /\ Goto(r, "incomplete") /\ UNCHANGED <<log, torn>> /\ Sound
           \/ /\ ~torn /\ Goto(r, "incomplete") /\ Faulty
              /\ \/ log' = Append(log, line) /\ torn' = FALSE
                 \/ log' = log /\ torn' \in BOOLEAN
    /\ UNCHANGED <<files, backup, staged, at, job, result>>

\* The process dies; what is on disk stays.
Crash(r) ==
    /\ pc[r] \in Working /\ crashes < MaxCrashes
    /\ crashes' = crashes + 1
    /\ Goto(r, "crashed")
    /\ torn' \in IF pc[r] = "append" THEN {torn, TRUE} ELSE {torn}
    /\ UNCHANGED <<files, backup, staged, log, at, job, result, edits, faults>>

MayEdit ==
    /\ edits < MaxEdits /\ edits' = edits + 1
    /\ Active = {} \/ EditsWhileActive
    /\ UNCHANGED <<store, procs, faults, crashes>>

EditDestination ==
    /\ \E d \in Dest : \E e \in UserEntries \ {dest[d]} : dest' = [dest EXCEPT ![d] = e]
    /\ UNCHANGED tree /\ MayEdit

EditTree ==
    /\ \E p \in {Src} \cup Elsewhere : \E t \in Trees \ {tree[p]} :
            tree' = [tree EXCEPT ![p] = t]
    /\ UNCHANGED dest /\ MayEdit

(***************************************************************************)
(* The specification.                                                      *)
(***************************************************************************)
InstallStep(r) ==
    \/ Displace(r) \/ Inspect(r) \/ VerifySource(r) \/ MakeLink(r) \/ Confirm(r) \/ Clean(r)
    \/ Drop(r) \/ UndoLink(r) \/ UndoLook(r) \/ UndoDiscard(r) \/ UndoRename(r) \/ UndoCheck(r)

UninstallStep(r) == CheckLink(r) \/ Unlink(r) \/ Gone(r)

RestoreStep(r) ==
    \/ Restage(r) \/ Take(r) \/ Taken(r) \/ Forget(r) \/ Publish(r) \/ Recheck(r)
    \/ Clear(r) \/ PutBack(r)

RunStep(r) ==
    \/ Begin(r) \/ NoOp(r) \/ BackUp(r) \/ WriteReceipt(r)
    \/ InstallStep(r) \/ UninstallStep(r) \/ RestoreStep(r)

Next ==
    \/ \E r \in Runs : Preview(r) \/ RunStep(r) \/ Crash(r)
    \/ EditDestination \/ EditTree

Spec == Init /\ [][Next]_vars

\* A started command keeps executing: nothing in it waits.
FairSpec == Spec /\ \A r \in Runs : WF_vars(RunStep(r) /\ pc[r] \in Working)

(***************************************************************************)
(* Properties.                                                             *)
(***************************************************************************)

\* Between the inspection and the end of an install, whatever is staged is
\* also in the run's backup, unless it has been half removed: rolling back,
\* discarding and cleaning up never depend on the staged copy alone
\* (service.go: publishSymlink's evidence check guards everything after it).
Inspected == {"verify", "link", "confirm", "clean", "drop", "undo_link"}

StagedIsBackedUp ==
    \A r \in Runs :
        pc[r] \in Inspected =>
            staged[r][at[r]] \in {Absent, Dir(Damaged), backup[r][at[r]]}

\* A complete install receipt is enough to undo the install: for every
\* replaced destination the store holds the very entry the approved plan
\* observed (plan evidence, backup and receipt agree).
Undoable(id) ==
    \A d \in Dest :
        LET p == job[id].plan[d]
        IN  p.kind = "replace_with_symlink" =>
                backup[id][d] = IF IsLink(p.before) THEN Link(p.before.lexical)
                                                    ELSE Dir(p.before.digest)

CompleteInstallUndoable ==
    \A i \in CompleteInstalls : Undoable(log[i].id)

\* The last copy of a directory the user had at a destination disappears only
\* by the user's own hand: commands keep it in place, staged or in a backup.
Held(d, t) ==
    \/ dest[d] = Dir(t)
    \/ \E r \in Runs : staged[r][d] = Dir(t) \/ backup[r][d] = Dir(t)

NoTreeLost ==
    [][edits' = edits => \A d \in Dest, t \in Trees : Held(d, t) => Held(d, t)']_vars

\* Mutation: drift looks at the source only.
DriftedSource(id) == job[id].source # tree[Src]

\* skill status: does the newest receipt still describe the destinations?
Drifted(id) ==
    \/ job[id].source # tree[Src]
    \/ \E d \in Dest : result[id][d].after # Inventory(dest, tree, tree[Src], dest[d])

\* When status reports no drift against a complete install receipt, uninstall
\* is not refused: the two commands judge the same evidence the same way.
NoDriftMeansUninstallable ==
    \A i \in CompleteInstalls :
        (i = Len(log) /\ ~Drifted(log[i].id)) => Uninstallable(log[i].id)

\* A restore that reports complete left, at the moment it verified each
\* destination, the preimage the original receipt recorded there
\* (RestoreBackup, verifyRestoredPreimage and the receipt agree).
RestoredExactly ==
    \A i \in DOMAIN log :
        (log[i].complete /\ job[log[i].id].op = "restore") =>
            \A d \in Dest :
                LET rec == job[job[log[i].id].from].plan[d].before
                    aft == result[log[i].id][d].after
                IN  /\ aft.kind = rec.kind
                    /\ aft.lexical = rec.lexical
                    /\ rec.kind = "directory" => aft.digest = rec.digest

\* With nothing in its way, an approved install or uninstall ends complete,
\* whatever the destinations held (ADR 0008: also when one links to the other).
InstallConverges ==
    \A r \in Runs :
        (pc[r] = "action" /\ job[r].op # "restore") ~> (pc[r] = "complete")

\* With nothing in its way, an approved restore ends complete.
RestoreConverges ==
    \A r \in Runs :
        (pc[r] = "action" /\ job[r].op = "restore") ~> (pc[r] = "complete")
=============================================================================

---------------------------- MODULE RepairApply ----------------------------
(***************************************************************************)
(* `rootline repair apply`: internal/fix/repair.go, ApplyRepair.           *)
(*                                                                         *)
(* A run gates the report's paths on containment, reads every document it  *)
(* may touch, applies the proposals one path at a time, re-validates each  *)
(* file it wrote and restores the ones that fail.  Between two file-system *)
(* calls another program may edit or delete a document; a write or restore *)
(* may fail; the process may be killed; and the same report may be run     *)
(* again, as a preview or for real.  WriteFileAtomic is one step, which    *)
(* AtomicWrite justifies.                                                  *)
(***************************************************************************)
EXTENDS RepairDocs, FiniteSets

CONSTANTS
    Escaping,       \* paths ContainPath refuses, or cannot resolve
    Unresolvable,   \* ... those it cannot resolve (a link to itself, no permission)
    Reports,        \* reports: sequences of proposals
    InitialDisks,   \* functions from Paths to Docs
    Edits,          \* what another program may leave: documents, or None
    Allowed,        \* Allowed[f]: the values the schema accepts, None if optional
    FillMissing,    \* --fill-missing
    MaxRuns,        \* bound: runs of the report
    MaxMishaps      \* bound: failed calls, edits and kills

\* A repair of a field names it; the empty name would be a field like any other.
ASSUME RepairAssumption ==
    /\ Unresolvable \subseteq Escaping /\ Escaping \subseteq Paths
    /\ Reports \subseteq Seq(Proposals)
    /\ \A r \in Reports : \A n \in DOMAIN r :
          r[n].type \in {"correct", "add", "set"} => r[n].field \in Fields
    /\ InitialDisks \subseteq [Paths -> Docs]
    /\ Edits \subseteq Docs \cup {None}
    /\ \A d \in InitialDisks : \A p \in Paths : Real(d[p])
    /\ \A doc \in Edits \ {None} : Real(doc)
    /\ Allowed \in [Fields -> SUBSET (Values \cup {None})]
    /\ FillMissing \in BOOLEAN
    /\ MaxRuns \in Nat /\ MaxMishaps \in Nat

VARIABLES
    disk,       \* disk[p]: the document, or None
    report,     \* the report
    run,        \* the run: phase, position, pending write
    target,     \* target[p]: the run's repairTarget for p
    ledger,     \* the run's RepairResult
    previous,   \* how the previous run ended, and its ledger
    start,      \* history: the disk before the first run
    edited,     \* history: documents another program changed
    ours,       \* history: documents holding a write of rootline
    mishaps

vars == <<disk, report, run, target, ledger, previous, start, edited, ours, mishaps>>

(***************************************************************************)
(* State.  An entry of the ledger is <<n, p>>: proposal n on path p; n is  *)
(* 0 for the read pass and Last + 1 for a failed restore.                  *)
(***************************************************************************)
Last    == Len(report)
Entries == (0..Last + 1) \X Paths
Phases  == {"idle", "read", "apply", "write", "check", "restore", "done"}

Unread == [loaded |-> FALSE, fm |-> [f \in Fields |-> None], original |-> None,
           content |-> None, written |-> FALSE]
NoLedger == [changed |-> {}, skipped |-> {}, rejected |-> {}, errors |-> {}, rolledBack |-> {}]
Idle     == [phase |-> "idle", number |-> 0, dry |-> FALSE, n |-> 1, j |-> 1, todo |-> {},
             at |-> None, fm |-> [f \in Fields |-> None], content |-> None]

Ledgers == [changed : SUBSET Entries, skipped : SUBSET Entries, rejected : SUBSET Entries,
            errors : SUBSET Entries, rolledBack : SUBSET Paths]

Runs == [phase : Phases, number : 0..MaxRuns, dry : BOOLEAN, n : 1..Last + 1, j : Nat \ {0},
         todo : SUBSET Paths, at : Paths \cup {None},
         fm : Frontmatter, content : Docs \cup {None}]
Targets == [loaded : BOOLEAN, fm : Frontmatter, original : Docs \cup {None},
            content : Docs \cup {None}, written : BOOLEAN]

TypeOK ==
    /\ disk \in [Paths -> Docs \cup {None}]
    /\ report \in Reports
    /\ run \in Runs
    /\ target \in [Paths -> Targets]
    /\ ledger \in Ledgers
    /\ previous \in [outcome : {"none", "done", "killed"}, dry : BOOLEAN, ledger : Ledgers]
    /\ start \in [Paths -> Docs]
    /\ edited \subseteq Paths /\ ours \subseteq Paths
    /\ mishaps \in 0..MaxMishaps

Init ==
    /\ start \in InitialDisks
    /\ disk = start
    /\ report \in Reports
    /\ run = Idle
    /\ target = [p \in Paths |-> Unread]
    /\ ledger = NoLedger
    /\ previous = [outcome |-> "none", dry |-> FALSE, ledger |-> NoLedger]
    /\ edited = {} /\ ours = {} /\ mishaps = 0

Valid(doc) == \A f \in Fields : doc.fm[f] \in Allowed[f]

Mishap == mishaps < MaxMishaps /\ mishaps' = mishaps + 1
Well   == mishaps' = mishaps
Hist   == UNCHANGED <<report, previous, start>>

Note(kind, entries) == ledger' = [ledger EXCEPT ![kind] = @ \cup entries]

(***************************************************************************)
(* Begin: the containment pass.  A proposal naming an escaping path is     *)
(* discarded whole; only paths of the other proposals are read.  A path    *)
(* that escapes is rejected, one that cannot be resolved is an error.      *)
(***************************************************************************)
Contained(p) == Names(p) \cap Escaping = {}
Applicable   == UNION {Names(report[n]) : n \in {k \in 1..Last : Contained(report[k])}}

Refused    == {e \in (1..Last) \X Paths : e[2] \in Names(report[e[1]]) \cap (Escaping \ Unresolvable)}
Unresolved == {0} \X UNION {Names(report[n]) \cap Unresolvable : n \in 1..Last}

Begin ==
    /\ run.phase \in {"idle", "done"} /\ run.number < MaxRuns
    /\ \E dry \in BOOLEAN :
         run' = [Idle EXCEPT !.number = run.number + 1, !.dry = dry, !.todo = Applicable,
                             !.phase = IF Last = 0 THEN "done"
                                       ELSE IF Applicable = {} THEN "apply" ELSE "read"]
    /\ target' = [p \in Paths |-> Unread]
    /\ ledger' = [NoLedger EXCEPT !.rejected = Refused, !.errors = Unresolved]
    /\ previous' = IF run.phase = "done"
                   THEN [outcome |-> "done", dry |-> run.dry, ledger |-> ledger] ELSE previous
    /\ Well /\ UNCHANGED <<disk, report, start, edited, ours>>

(***************************************************************************)
(* The read pass, in map order: any order.  A path that is gone, is a      *)
(* directory, has no extractor or schema, does not parse, is an error.     *)
(***************************************************************************)
ReadDone(p) ==
    run' = [run EXCEPT !.todo = @ \ {p}, !.phase = IF run.todo = {p} THEN "apply" ELSE @]

Read(p) ==
    /\ run.phase = "read" /\ p \in run.todo /\ disk[p] # None
    /\ target' = [target EXCEPT ![p] = [Unread EXCEPT !.loaded = TRUE, !.fm = disk[p].fm,
                                                      !.original = disk[p]]]
    /\ ReadDone(p)
    /\ Hist /\ Well /\ UNCHANGED <<disk, ledger, edited, ours>>

\* Mutation: the read failure is not reported.
SilentReadFails(p) ==
    /\ run.phase = "read" /\ p \in run.todo
    /\ IF disk[p] = None THEN Well ELSE Mishap
    /\ ReadDone(p)
    /\ Hist /\ UNCHANGED <<disk, target, ledger, edited, ours>>

ReadFails(p) ==
    /\ run.phase = "read" /\ p \in run.todo
    /\ IF disk[p] = None THEN Well ELSE Mishap
    /\ Note("errors", {<<0, p>>})
    /\ ReadDone(p)
    /\ Hist /\ UNCHANGED <<disk, target, edited, ours>>

(***************************************************************************)
(* The apply pass.                                                         *)
(***************************************************************************)
Current == report[run.n]
Path    == Current.paths[run.j]
Content(t) == IF t.content = None THEN t.original ELSE t.content    \* currentContent

Applying == run.phase = "apply" /\ run.n <= Last

\* Mutation: a handler's error return moves past the following proposal, too.
NextTwice    == [run EXCEPT !.phase = "apply", !.n = run.n + 2, !.j = 1]

NextProposal == [run EXCEPT !.phase = "apply", !.n = run.n + 1, !.j = 1]
NextPath     == IF run.j < Len(Current.paths) THEN [run EXCEPT !.phase = "apply", !.j = run.j + 1]
                ELSE NextProposal

\* A proposal that is not applied at all: it escapes, its value is the
\* engine's own choice, or its surface is not repair.
EngineChosen(p) == p.type = "add" /\ p.engine /\ ~FillMissing

Dispose ==
    LET entries == {<<run.n, p>> : p \in Names(Current)} IN
    /\ Applying /\ run.j = 1
    /\ \/ ~Contained(Current) /\ UNCHANGED ledger
       \/ /\ Contained(Current) /\ EngineChosen(Current)
          /\ Note("skipped", entries)
       \/ /\ Contained(Current) /\ Current.type = "schema"
          /\ Note("rejected", entries)
       \/ /\ Names(Current) = {} /\ UNCHANGED ledger
    /\ run' = NextProposal
    /\ Hist /\ Well /\ UNCHANGED <<disk, target, edited, ours>>

Applied == /\ Applying /\ Contained(Current) /\ Names(Current) # {}
           /\ ~EngineChosen(Current) /\ Current.type # "schema"

\* A path whose read failed has no target: its error is on the ledger.
NoTarget ==
    /\ Applied /\ ~target[Path].loaded
    /\ run' = NextPath
    /\ Hist /\ Well /\ UNCHANGED <<disk, target, ledger, edited, ours>>

FieldTypes == {"correct", "add", "set"}
IsField    == Current.type \in FieldTypes
FieldFits  == Verdict(Current, target[Path].fm[Current.field])

\* The document a handler starts from: a link is looked up in the file, a
\* section in the preflight snapshot, a preview in its own composition.
Base == IF run.dry \/ Current.type = "section" THEN Content(target[Path]) ELSE disk[Path]

\* Nothing to do, or a conflict.
Skip ==
    /\ Applied /\ target[Path].loaded
    /\ \/ /\ IsField /\ FieldFits = "skip"
          /\ Note("skipped", {<<run.n, Path>>})
       \/ /\ IsField /\ FieldFits = "reject"
          /\ Note("rejected", {<<run.n, Path>>})
       \/ /\ Current.type = "link" /\ Base # None
          /\ ReplaceOnce(Base.links, Current.from, Current.to) = Base.links
          /\ Note("skipped", {<<run.n, Path>>})
    /\ run' = NextPath
    /\ Hist /\ Well /\ UNCHANGED <<disk, target, edited, ours>>

\* The handler goes on to change the document.
Changes ==
    /\ Applied /\ target[Path].loaded
    /\ CASE IsField -> FieldFits = "change"
         [] Current.type = "section" -> TRUE
         [] OTHER -> Base # None => ReplaceOnce(Base.links, Current.from, Current.to) # Base.links

\* The record's frontmatter with the proposal's field.
Candidate == IF IsField THEN [target[Path].fm EXCEPT ![Current.field] = Current.to]
             ELSE target[Path].fm

\* The rewritten document: the record's frontmatter in place of the file's.
Rewritten == IF IsField THEN RewriteFrontmatter(Base, Candidate) ELSE Effect(Current, Base)

\* The rewrite fails: the file is gone, the heading is missing, or nothing
\* would change, which only the run looks at: a preview lists the change.
NoRewrite ==
    Base # None => \/ Current.type = "section" /\ SetSection(Base.section, Current) = None
                   \/ IsField /\ ~run.dry /\ Rewritten = Base

\* Mutation: CorrectValue and AddField edit the record in place, too.
RecordFirst == IF IsField THEN [target EXCEPT ![Path].fm = Candidate] ELSE target

\* SetField changes the record before the file is read.
TouchedRecord == IF Current.type = "set" THEN [target EXCEPT ![Path].fm = Candidate] ELSE target

Refuse ==
    /\ Changes /\ NoRewrite
    /\ target' = TouchedRecord
    /\ Note("errors", {<<run.n, Path>>})
    /\ run' = NextProposal
    /\ Hist /\ Well /\ UNCHANGED <<disk, edited, ours>>

\* Mutation: a preview composes section edits from the original document.
PreviewOriginal ==
    /\ Changes /\ ~NoRewrite /\ run.dry
    /\ target' = [target EXCEPT ![Path].fm = Candidate]
    /\ Note("changed", {<<run.n, Path>>})
    /\ run' = NextPath
    /\ Hist /\ Well /\ UNCHANGED <<disk, edited, ours>>

Preview ==
    /\ Changes /\ ~NoRewrite /\ run.dry
    /\ target' = [target EXCEPT ![Path].fm = Candidate, ![Path].content = Rewritten]
    /\ Note("changed", {<<run.n, Path>>})
    /\ run' = NextPath
    /\ Hist /\ Well /\ UNCHANGED <<disk, edited, ours>>

Rewrite ==
    /\ Changes /\ ~NoRewrite /\ ~run.dry
    /\ target' = TouchedRecord
    /\ run' = [run EXCEPT !.phase = "write", !.fm = Candidate, !.content = Rewritten]
    /\ Hist /\ Well /\ UNCHANGED <<disk, ledger, edited, ours>>

Write ==
    /\ run.phase = "write"
    /\ disk' = [disk EXCEPT ![Path] = run.content]
    /\ target' = [target EXCEPT ![Path].fm = run.fm, ![Path].content = run.content,
                                ![Path].written = TRUE]
    /\ Note("changed", {<<run.n, Path>>})
    /\ ours' = ours \cup {Path}
    /\ run' = NextPath
    /\ Hist /\ Well /\ UNCHANGED edited

\* WriteFileAtomic fails: the handler returns, and with it the proposal.
WriteFails ==
    /\ run.phase = "write" /\ Mishap
    /\ Note("errors", {<<run.n, Path>>})
    /\ run' = NextProposal
    /\ Hist /\ UNCHANGED <<disk, target, edited, ours>>

(***************************************************************************)
(* The post-validation pass.                                               *)
(***************************************************************************)
\* Mutation: any error on the ledger disables the pass.
UncheckedIfClean == IF ledger.errors = {} THEN {p \in Paths : target[p].written} ELSE {}

Unchecked == {p \in Paths : target[p].written}

EndApply ==
    /\ run.phase = "apply" /\ run.n > Last
    /\ run' = IF run.dry \/ Unchecked = {} THEN [run EXCEPT !.phase = "done"]
              ELSE [run EXCEPT !.phase = "check", !.todo = Unchecked]
    /\ Hist /\ Well /\ UNCHANGED <<disk, target, ledger, edited, ours>>

Checked(p) == [run EXCEPT !.todo = @ \ {p}, !.at = None,
                          !.phase = IF run.todo = {p} THEN "done" ELSE "check"]

\* validateWrittenTarget reads the file back; it rejects a file that is gone
\* and, by mishap, one whose schema no longer resolves.
Check(p) ==
    /\ run.phase = "check" /\ p \in run.todo
    /\ \/ disk[p] # None /\ Valid(disk[p]) /\ Well /\ run' = Checked(p)
       \/ /\ IF disk[p] = None \/ ~Valid(disk[p]) THEN Well ELSE Mishap
          /\ run' = [run EXCEPT !.phase = "restore", !.at = p]
    /\ Hist /\ UNCHANGED <<disk, target, ledger, edited, ours>>

\* retractChanges
Retracted(p) == {e \in ledger.changed : e[2] # p}

\* Mutation: the changes of a restored file stay on the ledger.
NotRetracted(p) == ledger.changed

Restore ==
    LET p == run.at IN
    /\ run.phase = "restore"
    /\ disk' = [disk EXCEPT ![p] = target[p].original]
    /\ ledger' = [ledger EXCEPT !.rolledBack = @ \cup {p}, !.changed = Retracted(p)]
    /\ ours' = ours \ {p}
    /\ run' = Checked(p)
    /\ Hist /\ Well /\ UNCHANGED <<target, edited>>

RestoreFails ==
    LET p == run.at IN
    /\ run.phase = "restore" /\ Mishap
    /\ Note("errors", {<<Last + 1, p>>})
    /\ run' = Checked(p)
    /\ Hist /\ UNCHANGED <<disk, target, edited, ours>>

\* seal
Complete == ledger.errors = {} /\ ledger.rolledBack = {}

(***************************************************************************)
(* The environment.                                                        *)
(***************************************************************************)
Kill ==
    /\ run.phase \notin {"idle", "done"} /\ Mishap
    /\ run' = [Idle EXCEPT !.number = run.number]
    /\ previous' = [outcome |-> "killed", dry |-> run.dry, ledger |-> NoLedger]
    /\ ledger' = NoLedger
    /\ target' = [p \in Paths |-> Unread]
    /\ UNCHANGED <<disk, report, start, edited, ours>>

Edit(p) ==
    /\ Mishap
    /\ \E doc \in Edits \ {disk[p]} : disk' = [disk EXCEPT ![p] = doc]
    /\ edited' = edited \cup {p}
    /\ Hist /\ UNCHANGED <<run, target, ledger, ours>>

Next ==
    \/ Begin \/ Dispose \/ NoTarget \/ Skip \/ Refuse \/ Preview \/ Rewrite
    \/ Write \/ WriteFails \/ EndApply \/ Restore \/ RestoreFails \/ Kill
    \/ \E p \in Paths : Read(p) \/ ReadFails(p) \/ Check(p) \/ Edit(p)

Spec == Init /\ [][Next]_vars

(***************************************************************************)
(* Properties of a finished run.                                           *)
(***************************************************************************)
Done == run.phase = "done"

\* doc with the proposals of the given entries for p, in report order.
Replay(doc, entries, p) ==
    LET after[n \in 0..Last] ==
          IF n = 0 THEN doc
          ELSE IF <<n, p>> \in entries THEN Effect(report[n], after[n-1]) ELSE after[n-1]
    IN  after[Last]

\* A set_field on p that returned an error.
SetFailed(p) == \E n \in 1..Last : report[n].type = "set" /\ <<n, p>> \in ledger.errors

Accounts(p) == (IF run.dry THEN Content(target[p]) ELSE disk[p])
                  = Replay(target[p].original, ledger.changed, p)

\* Every report proposal.Analyze makes names a path of a repair once
\* (proposal.go:435-709 build each list from one path).
EachPathOnce ==
    \A r \in Reports : \A n \in DOMAIN r : \A j, k \in DOMAIN r[n].paths :
        r[n].paths[j] = r[n].paths[k] => j = k

\* A preview can tell what the field repairs of p make of it: they find where
\* its frontmatter ends.
RepairsField(p) == \E n \in 1..Last : report[n].type \in FieldTypes /\ p \in Names(report[n])
Rewritable(p)   == RepairsField(p) => target[p].original.sealed

\* The ledger is an exact account of what happened: a document nobody else
\* edited is what the run read with the changes of changed[], in order, and
\* nothing else; so a reverted document is back to its original and a failed
\* proposal has left no trace.  In a preview the same holds of the composed
\* content, where the frontmatter can be rewritten.  (A failed set_field is an
\* exception, see LedgerIsExact; PreviewGates shows the preview's.)
LedgerAccounts ==
    Done => \A p \in Paths \ edited :
        target[p].loaded /\ ~SetFailed(p) /\ (run.dry => Rewritable(p)) => Accounts(p)

\* ... without the first exception.  docs/fix.md, "Atomicity contract": "an exact
\* account of what happened"; it fails, because applyRepairSetField changes the
\* record before the write that fails.
LedgerIsExact ==
    Done => \A p \in Paths \ edited :
        target[p].loaded /\ (run.dry => Rewritable(p)) => Accounts(p)

\* No run leaves a document it wrote in a state the schema refuses: whatever
\* else went wrong, it is valid, or restored and reported in rolled_back[], or
\* its restore failed and is an error.
WrittenIsValid ==
    Done /\ ~run.dry => \A p \in Paths \ edited : target[p].written =>
        \/ Valid(disk[p])
        \/ p \in ledger.rolledBack /\ disk[p] = target[p].original
        \/ <<Last + 1, p>> \in ledger.errors

\* Proposal n was discarded, and the path it escapes by is on the ledger.
Denied(n) == \E q \in Names(report[n]) \cap Escaping :
                <<n, q>> \in ledger.rejected \/ <<0, q>> \in ledger.errors

\* What became of proposal n on path p.
Answered(n, p) ==
    \/ <<n, p>> \in ledger.changed \cup ledger.skipped \cup ledger.rejected
    \/ ~Contained(report[n]) /\ Denied(n)
    \/ \E q \in Names(report[n]) : <<n, q>> \in ledger.errors
    \/ <<0, p>> \in ledger.errors
    \/ p \in ledger.rolledBack

\* A run answers for every path of every proposal: nothing it was asked to do
\* is missing from the result, so complete means carried through.
NothingDropped ==
    Done => \A n \in 1..Last : \A p \in Names(report[n]) : Answered(n, p)

\* The run was previewed, and nothing intervened.
Previewed == Done /\ ~run.dry /\ previous.outcome = "done" /\ previous.dry /\ mishaps = 0

\* A preview lists the changes, skips and refusals the run it previews then
\* makes, the later reverts aside, where every frontmatter it is to change can
\* be rewritten.
PreviewAgrees ==
    Previewed /\ (\A p \in Paths : target[p].loaded => Rewritable(p)) =>
        /\ ledger.changed = {e \in previous.ledger.changed : e[2] \notin ledger.rolledBack}
        /\ ledger.skipped = previous.ledger.skipped
        /\ ledger.rejected = previous.ledger.rejected
        /\ ledger.errors = previous.ledger.errors

\* A preview is "usable as a CI precondition check" (docs/fix.md): one that
\* reports no error is followed by a run that reports none.  It fails on a
\* document that ends with its frontmatter: the preview does not look whether
\* the rewrite changes anything, the run does (repair.go:520-531, 543).
PreviewGates == Previewed /\ previous.ledger.errors = {} => ledger.errors = {}

\* A report whose every proposal fits the documents it was made for, which can
\* be rewritten, and says what they shall hold rather than what to add.
AllEntries == {e \in (1..Last) \X Paths : e[2] \in Names(report[e[1]])}
Before(n, p) == Replay(start[p], {e \in AllEntries : e[1] < n}, p)
Declarative ==
    \A n \in 1..Last : LET r == report[n] IN
        /\ Contained(r) /\ Names(r) # {} /\ ~EngineChosen(r)
        /\ r.type \in FieldTypes
        /\ \A p \in Names(r) : start[p].sealed
        /\ \A p \in Names(r) : Verdict(r, Before(n, p).fm[r.field]) # "reject"

\* Recovering from a killed run is a re-run: it ends with the documents an
\* undisturbed run makes of the ones the report was made for.
RerunRecovers ==
    Done /\ ~run.dry /\ previous.outcome = "killed" /\ run.number = 2 /\ mishaps = 1 /\ Declarative
      /\ (\A p \in Applicable : Valid(Replay(start[p], AllEntries, p)))
      => \A p \in Paths : disk[p] = Replay(start[p], AllEntries, p)

\* Rootline never leaves a file its own schema refuses (README.md): when a run
\* says complete, the documents rootline has written are valid.  It fails after
\* a kill between a write and the validation pass: the re-run skips what is
\* already correct, writes nothing and so validates nothing.
CompleteMeansValid ==
    Done /\ ~run.dry /\ Complete => \A p \in ours \ edited : Valid(disk[p])
=============================================================================

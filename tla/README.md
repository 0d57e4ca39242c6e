# Verification of rootline

rootline keeps structured Markdown documents under hierarchical schemas
(`.stem` files). This directory holds TLA+ modules about the parts of it whose
correctness depends on the order of steps, what it writes, what it restores
and what survives a failure, and about the commands that judge a corpus, whose
answers must agree. TLC checks them on small instances; TLAPS proves
the most important results for every instance.

    tlc -config MCSkillDisturbed.cfg MCSkillDist     # one run; PROJECT.json lists all
    tlapm AtomicWriteProofs.tla                    # the proofs of one module

`PROJECT.json` is the index: components, runs, the source lines each
definition translates (`map`), the hazards of the code and the property that
covers each, and the theorems.

## 1. The system

| Component | State | Operations | What is hard | What makes it correct |
|---|---|---|---|---|
| **skilldist** (`internal/skilldist`, `cmd skill`) | two managed destinations, staging siblings, backups, `receipts.jsonl` | preview and execute install / uninstall / restore | two renames per action, no lock between commands, rollback, the evidence is read before it is used, kills, user edits | nothing of the user's is lost; what is recorded complete can be undone; a receipt restores exactly what it saved |
| **fsx** | a file, its temporary siblings, the volatile and the durable image | `WriteFileAtomic`, `AtomicTarget.Write`, `CopyFileAtomic` | overlapping writers and readers, error paths, kill, power loss | a reader, and the disk after a crash, see an old or a new content, never a mixture |
| **repair apply** (`internal/fix/repair.go`) | documents, targets read, a ledger of applied / skipped / rejected / rolled-back entries | read, apply proposals, write, post-validate, restore | another program editing, failed writes and restores, kill, rerun, preview | what was written is valid or restored; the ledger tells the truth; the preview is what apply does |
| **fix engine, cmd fix** (`internal/fix/fix.go`) | documents, the in-memory records of one run | scan, propose, apply one proposal at a time, report; fix named files in place | one record rewritten by many proposals, detectors that range over maps, the first failure ends the run, plain writes, reruns | a field becomes what precedence says; the report tells the disk; nothing is invented; reruns come to rest |
| **cmd set** | documents | set fields of a file | one write per field | post-validation covers every write |
| **stem hierarchy** (`internal/rules`: discovery, cache, state, merge, resolver, compatibility, health) | `.stem` files in a tree; cached and prospective images of it | walk up, walk down, merge, compare child with parent, overlay | the chain on disk and the chain of a snapshot; overrides attribute by attribute | a healthy hierarchy never loses a parent's guarantee; the prospective verdict is the real one |
| **validation** (`internal/rules/validate.go`, `structural.go`, links; `cmd validate`) | none | records and directories against the effective schema | severities, conditional requirements | errors iff the schema says so |
| **schema propose / apply** | stems, a batch of writes | plan, deduplicate, evaluate prospectively, execute, post-validate | best-effort batch, duplicate targets, edits between plan and write, rehearsal | what was evaluated is what is written; complete means healthy |
| **proposal** | none | detect what to repair from the rules a record breaks, its text, its siblings | detectors that see the same field | one answer per field, in any order |
| **infer, analyze** | none | derive reports from records | heuristics | advisory |
| **migrate** | stems, documents, a log | rename, split, scaffold, diff | many documents in one command | no half-migrated corpus goes unreported |
| **index** | a slice of result slots, a cache of scopes | walk, parallel extraction, collection | workers and shared slots, a tree that changes, cancellation | every document owed, in order, or an error |
| **link resolver, graph, cmd graph** | none | resolve links, build the graph, cycles, members, broken links | two cycle algorithms, two users of one resolver | reported cycles are real; graph and validate agree |
| **preflight, root marker** (`cmd preflight`, `discovery.go`) | single files | find the boundary, offer and write a marker | two walks before a command that walks again | no document is judged from beyond a declared boundary |
| **derive** | none | aggregates of index files | order of the pipeline | agree with their definition |
| **query, tree, stats, output** | none | filters, order, rendering | sort order | agree with their definition |
| **extract, stemyaml** | none | Markdown and YAML parsers | text | conversions, seen from outside as "read" or "cannot be read" |
| **templates, new, init, hooks** | single files | create | exists-then-write | never overwrite silently |
| **main, auto-update, gitenv, installers** | none of their own | start the updater beside the command | the update itself is an external module | out of scope |

Interactions. Every command calls discovery and the resolver to find the
effective schema of a path, extraction and the index to read records, and
validation to judge them. The writers are three: `fsx` (used by repair, the
fix engine, schema apply and the receipts of skilldist), plain `os.WriteFile`
(`cmd/fix.go`, `cmd/new.go`, `cmd/hooks.go`, the root marker), and the renames
of skilldist. `schema apply` asks stem health for a verdict on stems that do
not exist yet (the overlay of `stem_state.go`) and then writes them through
`fsx`. `graph`, `validate` and `fix --all` start from the same scan, after a
preflight of their own. `repair` and `set` validate again after writing and restore the
original when it is invalid. No component takes a lock; the concurrency that
matters is between rootline processes, and between rootline and an editor.

## 2. Modules

| Module | Models | Extends |
|---|---|---|
| `SkillEvidence` | what skilldist observes of an entry, and the plan it derives: pure operators | - |
| `SkillDist` | the commands, one action per file-system call, with edits, faults, crashes | `SkillEvidence` |
| `SkillDistProofs` | seven theorems about it | `SkillDist` |
| `AtomicFile` | abstract: what an atomic replacement promises | - |
| `AtomicWrite` | `writeFileAtomic`: inodes, names, blocks, fsync, kill, power loss | instantiates `AtomicFile` |
| `AtomicWriteProofs` | six theorems, the refinement among them | `AtomicWrite` |
| `Induction` | induction over the naturals, stated with sets: three lemmas the proofs share | - |
| `RepairDocs` | documents, proposals, and what each handler does to a document: pure operators | - |
| `RepairApply` | `ApplyRepair` and its reruns | `RepairDocs` |
| `RepairApplyProofs` | six theorems about it | `RepairApply`, `Induction` |
| `StemRules` | what a `.stem` says: parse, merge, compatibility, validation of records and directories: pure operators | - |
| `StemHierarchy` | the `.stem` files of a tree: walks, chains, the prospective snapshot, stem health: pure operators | `StemRules` |
| `SchemaApply` | runs of `schema apply` over a tree that others change | `StemHierarchy` |
| `SchemaApplyProofs` | six theorems about it, and one about narrowing | `SchemaApply`, `Induction` |
| `RecordScan` | `index.Scan`: the walk, the workers, the collection, and a tree that changes meanwhile | - |
| `Preflight` | the walks up and down, the boundary they find, the marker | `RecordScan` |
| `LinkResolve` | where a link leads, and what is checked of it: pure operators | - |
| `LinkGraph` | `DetectCycles` and `CycleMembers`, one edge a step | - |
| `LinkGraphProofs` | what the two searches compute: an invariant of each, and a lemma per step | `LinkGraph`, `Induction` |
| `GraphCommand` | `graph --check`, phase by phase | `Preflight`, `LinkResolve`, `LinkGraph` |
| `ValidateCommand` | `validate --all` and `validate <file>...` | `GraphCommand` |
| `ReadSession` | those commands one after the other on one tree | `ValidateCommand` |
| `ReadSessionProofs` | six theorems about it | `ReadSession`, `LinkGraphProofs` |
| `FixRules` | what `fix` finds in a scan and proposes: pure operators | - |
| `FixCommand` | `fix --all` and `fix <file>...`, run again and again | `FixRules` |
| `FixCommandProofs` | three theorems about it | `FixCommand` |
| `MC*` | constants for TLC | their module |

Beside a definition there may stand another with the same parameters that
nothing uses (`AsFound` beside `Canonical`): the same code with one plausible
mistake in it. `mutants` of PROJECT.json lists them with the property that each
violates.

### SkillDist

A run `r` is one command; its identity is the receipt ID, which names its
backup directory and its staging siblings. `pc[r]` is the file-system call it
makes next, `job[r]` the operation and the approved plan, `result[r]` the
outcome of each action, `dest` and `tree` the disk, `backup`, `staged`, `log`
and `torn` the store.

`Preview` is the plan the user approves; `Begin` computes it again, compares,
reserves the receipt and starts. Per destination, `NoOp` or `BackUp` comes
first. Install continues with `publishSymlink` call by call: `Displace` (rename
to the sibling), `Inspect`, `VerifySource`, `MakeLink`, `Confirm`, `Clean`, and
on any failure its roll-back `Drop`, `UndoLink`, `UndoLook`, `UndoDiscard`,
`UndoRename`, `UndoCheck`. Uninstall is `CheckLink`, `Unlink`, `Gone`; restore is
`Restage` to `PutBack`. `WriteReceipt` ends a command. Each call has its failing
outcome (`MaxFaults`) and the branch the code takes after it. `EditDestination`
and `EditTree` (the user) and `Crash` may come between any two calls.

### AtomicWrite

A writer follows `writeFileAtomic` call by call: `Stat` of the target's mode,
`Create` of the staging file, `Write` of two blocks, `Sync`, `Chmod`, `Close`,
`Rename`, `Return`; `Fail` at any of them leads to `Cleanup`. Names lead to
inodes; an inode has a volatile and a durable content, moved by `Flush`, and a mode:
of a file found by `Stat` that file's, else the one its caller passes, and callers
pass different ones (`CallerModes`); the
name moves to the disk by `SettleName`; `PowerLoss` keeps what is durable and
ends every call. A reader opens an inode (`OpenForRead`) and reads it block by
block (`ReadBlock`) across renames. `AtomicFile` has none of this: one content,
replaced in one step of a call, falling back to a stable one when the power
fails. `AtomicWrite` implements it under the mapping at the end of the module.

### RepairApply

`run` is the phase and position, `target[p]` the `repairTarget` of a document,
`ledger` the `RepairResult`. `Begin` is the containment pass; `Read` and
`ReadFails` the read pass; `Skip`, `Refuse`, `Preview`, `Rewrite` dispose of one
proposal on one path (the handlers themselves are operators of `RepairDocs`);
`Write` and `WriteFails` are its write; `Check` is post-validation, `Restore` and
`RestoreFails` the restore. A document that ends with the closing `---` of its
frontmatter and no line break is not `sealed`: its fields are read, but
`RewriteFrontmatter` does not find where they end, so a run refuses the change
("rewrite produced no changes") that its preview lists. `Edit` is another program, `Kill` the end of the
process. `WriteFileAtomic` is one step, which `AtomicWrite` justifies.

### StemRules and StemHierarchy

A `.stem` file is absent, unparsable, or a record of what it says (`Stems`);
`ParseStem` gives the parsed form or `Bad`. `MergeStemFiles` folds a chain,
`Incompatible` is `CheckFieldCompatibility`, `Rejected` and `StructureFails` are
the verdicts of `Validate` and `ValidateDirectory`. A directory is the sequence
of names that leads to it. `WalkUp` is what resolves a record; `Chain` is the
chain of a `StemState`, which skips a malformed file where `WalkUp` stops.
`DiscoverStemState` takes the snapshot, `Overlay` puts a proposed file in it,
`BlockingStemHealth` is the verdict of the gate.

### SchemaApply

`request` is the report with its flags, `phase` the place in the run, `writes`
the plan, `queue` the targets still to write, `ledger` the result, `files` the
tree. A proposals report is planned one proposal a step: `Decline` (left to an
agent, refused by policy, invalid), `Keep` (the target exists and there is no
`--force`), `Accept`, `TargetFails`; `seen` is `virtualTargets`. An analyze
report is `Resolve`, then `Infer`. Both go on with `EndPlan` (proposals only),
`Gate`, `Preflight`, `Write` and `WriteFails` per target, `Validate`. `Edit` is
another program, `Kill` the end of the process. A run starts from whatever the
run before it left.

### RecordScan, Preflight, LinkResolve, LinkGraph

A tree is constant data (`tree`: what is ignored, out of scope, unreadable,
where `.stem` files begin); `stems` are the `.stem` files as they are now, `gone`
the documents deleted meanwhile. `scan` is the walk and its list, `hold[w]` the
slot worker `w` is filling. `WalkDir` and `WalkFile` are the callback of
`filepath.WalkDir`, `EndWalk` the start of the pool, `Send`, `Take`, `Extract` and
`Leave` the channel, `Collect` the loop over the slots, `Retry` the ungoverned second
scan of `scanGoverned`. `Cancel`, `Delete` and `EditStem` may come between any two.

`Boundary` is what `boundaryPreflight` finds by the walk up and, only without
one, the scan down; `Admit` and `Declare` are its outcomes. `ResolveTarget` is the
resolver every command shares; `CheckLinks` what validate makes of it; `Prepared`
what graph makes of it before it builds the graph. The two recursive algorithms of
`graph.go` keep their frames on a sequence: `dfs` takes roots and edges in lexical
order, `scc` its roots in the order of a Go map, which is any.

### GraphCommand, ValidateCommand, ReadSession

`cmd` is the command in progress and its phase, `report` the answers of those that
have ended. Each phase resolves schemas anew, as the code does: `Ensure`,
`FilterStyles`, `Enrich`, `FilterWhere`, `CollectIssues`, `Prepare`, `FilterTypes`, `OptIn`,
`BuildGraph`, `Decide` for graph; `Health`, `AllScanned`, `CheckBoundary`, `Derive`,
`FilterAll`, `ValidateRecord`, `ValidateDirectories`, `DetectDrift` for validate of a tree;
`NameFiles`, `ValidateFile`, `FilesDone` for named files. `Derive` computes what a schema
derives of each record (`DeriveAll`) and aggregates in index files (`AggregateAll`) into
`cmd.derived`, which `ValidateRecord` reads; `ValidateFile` derives nothing.

### FixRules, FixCommand

A document is its frontmatter, what its text says of a field, its migration links,
and whether `RewriteFrontmatter` finds the end of its block. `Report` is the data
proposals of `runFixAll`: the detectors of `Analyze` per group of records with one
schema, then the aggregates. Proposals apply in the order of their `turn`; those of
one turn, which the code collects by ranging over maps, in any order. `Plan` is the
scan and the report, `Preview` the dry run, `Defer` a value set aside without
`--fill-missing`. One proposal is two steps: `Rewrite` sets the field in the in-memory
record, reads the file's text and rewrites its whole frontmatter from the record in memory
(`hand`); `Replace` is the rename that puts it over whatever the file holds by then.
`ApplyFails` is their error, `Emit` the envelope. `StartNamed`, `ReadFile`,
`Truncate`, `Fill`, `FillFails`, `EndNamed` are `fix <file>...`, with the two steps of
`os.WriteFile`. `Kill` ends a command anywhere; `Edit` is an author saving a document,
between `Rewrite` and `Replace` too: `overtaken` names the documents whose last save fell
there and is lost.

## 3. Runs

| Run | Question | Bounds |
|---|---|---|
| `skill_disturbed` | do disturbed commands keep the user's trees, back up what they displace, record as complete only what can be undone, and give back exactly what was saved | a constraint explores two overlapping commands with 1 fault or 1 crash, or three commands in sequence with 1 edit by the user between any two calls |
| `skill_converge` | undisturbed, install ends installed and restore ends restored | two commands, no disturbance, weak fairness |
| `skill_late_edits` | finding 1 | one install, 2 edits while it executes |
| `atomic_write` | whole reads, nothing staged after a return, refinement of `AtomicFile`; a target that was there keeps its mode, one that calls create changes its mode only from one caller's to another's | 2 writers, 1 reader, 3 inodes, 2 contents, 2 callers' modes, 1 orphan; a constraint explores callers of different modes, or a reader |
| `repair_apply` | ledger accounts for every entry; what stays written is valid; nothing of another program is dropped; preview agrees; a rerun recovers | 2 runs, 2 mishaps, 2 fields, 3 values; 2 documents, one of which may end with its frontmatter, a path that escapes and one that cannot be resolved |
| `repair_failed_set` | finding 2 | 1 mishap |
| `repair_after_kill` | finding 3 | 1 mishap |
| `schema_apply` | complete means healthy, on the tree as it is; `applied[]` is what is on disk; the first proposal for a target stands; a rehearsal agrees with its run; what is rejected above is rejected below | 10 trees of 4 directories, 1 field, 42 requests, 2 runs, 1 mishap |
| `schema_outside_root` | finding 4 | 2 trees, 1 run, no mishap |
| `read_session` | a scan returns what it owes; reported cycles are cycles, and none goes unreported; `--fail-cycles` by schema fails exactly when it should; graph and validate agree on links, the two modes of validate on documents; what is judged is governed from a declared boundary | 4 documents in 2 directories and one above: all 512 graphs on 3 of them, 4 corpora of links under 32 `links:` blocks (fewer where a second `.stem` lies below), every `.stem` state in every place, any two of 15 faults, 576 ways of deriving, aggregating and demanding one field; 2 workers, 1 mishap |
| `read_derived` | finding 5 | the sessions about the field |
| `fix_session` | `fix --all` makes of a field what precedence says; its report tells the disk; nothing is invented; reruns come to rest | 5 documents of one directory, 2 fields, 280 trees (1120 sessions, with and without `--fill-missing` and `--no-propagate`), 1 failed write, kill or edit, any number of runs |

Why the bounds are enough. Skilldist has exactly two destinations, so they are
not a bound; a command interacts with another through the destinations and the
log only, and three commands give every pair a predecessor. One fault or one
crash reaches every error branch of a command and every place it may stop; a
failed roll-back after a failed step takes two faults and is covered by the
theorems, which hold for every bound. Two writers reach every interleaving of two renames, and the
theorems lift the result to any number; a file created and replaced needs two modes only, the
callers', beside that of a file that was there, and no step of a reader looks at a mode. In repair, two documents, one
escaping path and one that cannot be resolved show every rule about paths (order, sharing, containment), and
two proposals every composition of handlers, because a third sees only the
document the second left. In schema apply, the directories are the top, one
below it and two siblings below that: a chain of three levels lets a middle
level give up what the first one demanded, and the siblings are what an
amendment may break. Declarations are compared field by field, so one field
shows every comparison. Two runs give a rehearsal and its run; one mishap
between any two steps, since the properties that speak of a disturbed tree
exempt only the file that was disturbed.

In `read_session` three nodes hold two overlapping cycles, a cycle reached only
after its root was left, self links and parallel components; two documents of one
directory, an index document and one of the same name in another directory are what
the resolver and the basename index tell apart; two workers and three files give every
order of slots, and one mishap may fall between any two steps. The constraint
`MCMishaps` keeps mishaps to the trees made for scans, so that the other families stay
small. In `fix_session` four siblings reach every threshold of the detectors (two of
three agree, three of four, a majority that is invalid), the index file above them the
aggregates; what one run leaves is there for the next, and runs repeat without bound.

Exemptions. Six properties say less than a reader may expect, because the code does less.
Each omission is named in the statement; where it contradicts what a comment or a document
promises, a configuration shows that the promise fails (finding 5, and the counterexamples
of section 5).

- `ModeIsKept` is about a target that was there before the calls. When two calls find none
  and pass different modes, the mode of the file is that of the last rename, whatever the
  first one made.
- `PreviewAgrees`, and `LedgerAccounts` of a preview, are about documents whose
  frontmatter can be rewritten where the report repairs a field (`Rewritable`); a real
  run's ledger needs no such condition. Without it they fail (`PreviewGates`).
- `ModesAgree` has the rows of a document be the same where no field of it is computed.
  Where one is, a missing field that `--all` derives and an aggregate that only `--all`
  compares may differ; that they are the only ones is part of the property (`SameVerdict`
  has no exemption and fails).
- `RepairsByPriority` has a saved text survive, unless it was saved while the rewrite of that
  document was in hand: then the text is the one scanned, or one saved before.
- `NothingInvented` exempts that document too, whose fields return as they were, and lets
  the empty value through where a text names no member of the enum (`Unmatched`);
  `SignalKept` does not, and fails.

Fairness. `FairSpec` of SkillDist and `Spec` of FixCommand assume weak fairness of
the steps of a command that has started. The code of a command is sequential and
waits for nothing but the file system, so a step that is enabled stays enabled until
it is taken. `Settles` also assumes that someone keeps running `fix --all` (strong
fairness of `Plan` for writing): it says what reruns lead to, not that the program
reruns itself. Users, faults, kills and edits are never forced. Everything else
is safety and assumes no fairness.

`CHECK_DEADLOCK FALSE` where commands and runs finish and the system then really
stops. `read_session` ends in `Over`, which stutters, and `fix_session` never ends: both
are checked for deadlock.

## 4. Proofs

`SkillDistProofs` (from `SkillAssumption` and `EvidenceAssumption`): type
correctness, `StagedIsBackedUp`, `CompleteInstallUndoable`,
`NoDriftMeansUninstallable`, `RestoredExactly` and, without late edits, `NoTreeLost`, for
every set of runs, trees and entries and every bound on edits, faults, crashes and
overlapping commands. `SkillAssumption` has `None`, "no entry" in the store, be no entry. The
inductive invariant is `TypeOK`, `LogOK` (a receipt is of a run that has ended,
and it is complete only if every action was) and `RunOK(r)` for each run: the
plan is well formed (`PlanOK`, `FromOK`), a run that has not started has nothing
in the store (`FreshOK`), and from `BackUp` on the backup of the current
destination is the entry the plan observed (`BackupOK`, `StagingOK`,
`StagedOK`). `CompleteInstallUndoable` alone is not inductive: it says nothing
of the run that is about to write its receipt. A step of one run cannot disturb
`RunOK` of another, because no run touches the siblings, backups or results of
another; that is the lemma `OthersOK`.
`NoDriftMeansUninstallable` and `RestoredExactly` compare what a complete receipt
recorded with the disk and with another receipt; `IInv` says nothing of what an
action records. `TruthOK(r)` adds it: an action of an install records itself complete
only with the exact symlink to the source as its evidence, an action of a restore only
with evidence like the preimage it restores (kind, target, digest of a tree), and
the kinds in a restore's plan are those `RestoreKind` derives from the receipt it
restores from. Every step either records nothing, ends an action or notes an
observation (`Quiet`, `Ends`, `Notes`), and the lemmas go step by step.

`NoTreeIsLost` is `NoTreeLost` under `~EditsWhileActive`, the hypothesis that the run
`skill_late_edits` shows to be needed: the user may edit at any time but while a command
executes. Any number of commands still overlap, without a lock between them, and meet any
number of I/O errors and crashes. The invariant is `Custody`: what is staged anywhere is in some
run's backup (`StagedBacked`); a directory at a destination of a command at work is in some
backup, or is the one its own plan observed (`Expected`), in which case its `BackUp` keeps it
before `Displace` moves anything; a restore is only planned over links and nothing
(`NoDirectory`); and a backup is written once, over nothing (`FreshBackup`). So what a rename
takes away, even if another command put it there after the plan was compared, is in a
backup (`DisplacedIsBacked`), and a backup is never removed.

`AtomicWriteProofs` (from `AtomicWrite`'s assumption on its constants): every
property of the run `atomic_write`, for every number of writers, readers,
inodes and modes.

- `TypeOK` and `ReadsAreWhole` follow from `IInv`, the conjunction of
  `TypeOK`, `SeenIsWhole` (every inode that the name leads to, in memory or
  on disk, or that a reader has open, holds a whole content in both images),
  `TempsApart` (temporary inodes of different writers are different and not
  yet visible), `Progress(w)` (how much of its inode a writer has written and
  synced at each step) and `ReadSoFar(r)`. `ReadsAreWhole` alone is not
  inductive: nothing in it says that the inode about to be renamed is complete,
  which `Progress` adds, nor that no writer still writes a visible inode, which
  `TempsApart` adds.
- `Refinement`: under the mapping, `Call` is `Open`, `Rename` is `Land`,
  `Return` is `Succeed`, a failure and its clean-up are `Refuse`, a kill is
  `Die`, a name reaching the disk is `Settle`, a power loss is `PowerLoss`;
  every other step stutters.
- `ModeTheorem` needs one invariant more, `ModeInv(C)`, for a set `C` of modes that is either
  the callers', or the one of a target that was there before the calls: the file that the
  name leads to has, in memory and on disk, a mode in `C`, and so has every staging file
  after `Chmod`. It holds of one of the two from the start and keeps to it: while the
  target exists no call finds it absent.

`RepairApplyProofs` (from `RepairAssumption` and `DocAssumption`): six theorems,
for every set of documents, every report and schema, and every number of runs,
kills, failures and edits. `RepairAssumption` says that a report is a sequence of
proposals on paths; `DocAssumption` that no value is the mark of an absent one. The
invariants stand on one another:

- `TypeCorrect` from `Typed`: `TypeOK` and `Position` (the run stands at a proposal
  of the report and at one of its paths; a pending write is of a contained proposal).
- `WrittenValid` from `Verified`: while a run post-validates, a written document that
  nobody edited is still to be checked (`run.todo`), or is settled as the property
  says. `WrittenIsValid` alone is about finished runs only.
- `NothingIsDropped` from `Answering`: every path of every proposal that the run has
  passed is answered. A rollback takes entries of `changed[]` back, but answers for
  the document (`AnsweredStays`).
- `LedgerIsAccount` from `Exact`: the content a target has in memory (`Held`), and its
  document outside a write, is `Replay` of the entries of `changed[]` over what was
  read; no entry exists for a proposal the run has not reached (`Fresh`), and the
  content of a pending write is the replay with that entry added (`Pending`). Its
  hypothesis is `EachPathOnce`: no proposal names a document twice. A report
  that does applies one proposal to it twice, which a ledger keyed by proposal and
  path cannot tell from once; no report that `proposal.Analyze` makes does
  (`proposal.go:435-709` build each list of paths from one path). The fold of `Replay` is reasoned about by the lemmas on
  `Replays`, with `IntervalInduction`.
- `PreviewForetells`, which relates two runs. `Step` is one path of the apply pass as a
  function of the report, the place, the documents and the ledger; it does not know
  whether the run writes. `Following` says that, until something intervenes, the pass
  stands where some number of steps lead from the documents the run began with
  (`Leads`), and that the run, and the preview before it, ended where the steps end;
  steps end in one place only (`OneEnd`). What makes a preview step like the run: the
  record, the file and the composed content are one document at every path (`SameDocument`),
  and a field the handler decides to change does change where the frontmatter can be
  rewritten. So the branch that only a real run has (the rewrite produced no changes) is
  taken only for a document that is not `Rewritable`, which the hypothesis excludes
  (`TurnIs`). That needs a repair of a field to name it, which is part of
  `RepairAssumption`.
- `RerunIsRecovery`, which relates a run to the one that was killed before it. A rerun
  starts from documents the killed run has partly repaired, so the two differ all the
  way; what ties them is a comparison of places: a value that the rerun holds in a field at
  proposal `n` is one that an undisturbed run holds there at `n` or later. A proposal
  whose expected value the rerun no longer finds therefore comes too late to matter,
  and the last proposal to set a field is never refused. Where the steps end, both hold
  what that proposal says.

`AtomicWrite` justifies that `Write` is one step.

`SchemaApplyProofs` (from `SchemaApplyAssumption`; `TypeCorrect` also from
`StemHierarchyAssumption` and `MarksAssumption`, the last two from these and
`StemRulesAssumption`): six theorems, for every set of directories, trees, reports, edits
and every bound.

- `AppliedIsWhatHappened` and `NothingIsReplacedWithoutForce`. The invariant adds to the
  two properties `Shape` (the plan is a sequence, the queue part of it), `Untouched`
  (nothing is written or reported before the first write; without it,
  `OnlyWhatItReports` would have to be re-established when writing starts) and `Taken`
  (without `--force`, every target the plan has looked at counts as taken and what it
  accepted was not there, which is what keeps a later proposal and a later write off it).
- `RehearsalAgrees`, which relates two runs. `Outcome(tree, request)` is what a run that
  nothing disturbs answers, written as a function that does not look at the dry flag: the
  plan (`PlanOf`, the one function that follows `PlanNext` from proposal to proposal; that
  it exists is `IntervalInduction`), the gate, the preflight. `Foretold` says, phase by
  phase, that what is left of an undisturbed run leads to that outcome (`Told`), and
  that the run remembered in `last` ended with its own. A failing `Stat` or write counts as
  a disturbance, and so does an edit; the validation after the writes is left out on
  both sides (`WithoutValidation`).
- `TypeCorrect` from `Typed`: every planned write goes to a directory of the tree and
  holds a file that parses. For a report of inferences this is about what the code
  computes: the closest `.stem` above the root exists and lies in the tree (`ClosestIs`, the
  walk has a lowest `.stem` by `GreatestNatural`), and amending it declaration by
  declaration gives a `.stem` (`AmendedIs`).
- `CompleteIsHealthy`. The gate judges a snapshot before the first write, the property
  speaks of the tree after the last; `Passed` connects them. While nothing disturbs
  the run it says: each write is under the root or amends a `.stem` the root
  inherits from and keeps its marker (`Aimed`); from the preflight on, the prospective
  snapshot blocks nothing; from the writes on, every record's walk on the old tree was
  well formed; and what is planned is written or waits. Without the marker the walk from
  the root could end elsewhere after the amendment than in the snapshot. For a
  run that is done, the snapshot is then shown to agree with the tree:
  - the batch, laid over one target at a time, is the old snapshot with each target's
    last content, whatever the order (`LaidOver`, `ProspectiveIs`; that the batch has an
    order is `SortedIs`);
  - the snapshot holds all that the walk from a directory under the root, or from a written
    one, visits (`Near`, `NearIs`), so a walk in it and one in the tree
    coincide (`SameWalk`), and so do the merged rules (`GovernedWithoutErrors`);
  - a walk malformed in the tree (`GovernedResolve`) meets a malformed `.stem` above the
    root; if a write lies below that, the overlay of the write marked it for
    evaluation and the gate would have stopped; if none does, the old tree had the same
    walk and the preflight would have.
- `NarrowingHolds`, from `CompleteMeansHealthy` and types (`HealthyMeansNarrowing`). A
  tree without stem errors among the judged directories narrows level by level: a field
  the level states again passed the compatibility check, so
  its merged declaration rejects what it did; a field the level leaves out is carried
  over. An explicit rule stays in the merge, yet the verdict on its field may
  hide it (a value that violates its own contract is reported once); then the field
  itself rejects the record, which is why the theorem is about a record and not
  about one rule. The walk down the levels is `IntervalInduction`.

  The property needs its condition that every `.stem` in between was judged: below
  a level above the root, a `.stem` that the run only read may have been
  loose before the run, and stays so.

In the same module, from `StemRulesAssumption`, `CompatibleFieldKeepsRejecting`:
a declaration that passes the compatibility check, merged over that of its
ancestors, rejects every value and every absence the ancestors' declaration
rejects, for all fields, texts, sources and severities. It states the step from one
level to the next on its own, without the conditions on the rest of a `.stem`. Three
lemmas carry it: the merged declaration reads the
same value (`CompatibleSourceReadsSame`), never at a lower severity
(`SeverityNeverLowered`), and its type admits no more (`NarrowerTypeFitsLess`).

`LinkGraphProofs` (from `LexicalAssumption`) shows what the two searches of
`graph.go` compute, for any graph, any order of keys and, in `CycleMembers`, any order
of roots. `Reaches` speaks of all sets of nodes closed under links, so no path is ever
built to show that a node is reached.

- `DfsSound`, of `DetectCycles`: the nodes on the stack are distinct and each links to
  the next (`DfsPath`); every other link followed so far leads to a finished node, or to
  one on the stack that shares a reported cycle with its origin (`DfsEdges`); what is reported is a
  canonical cycle; and a group of nodes that reach one another, once it has
  finished, has a reported cycle of its own (`DfsReported`). At the end every node has (`DfsDone`).
- `SccSound`, of `CycleMembers`: the textbook invariant of Tarjan's algorithm. Indices
  rise along the stack and along the frames (`SccOrder`); a node on the stack
  leads to its `low` and a frame to everything above it (`SccDown`, `Lowest`);
  what was popped links to what was popped (`SccDone`), so that what is popped
  together is a whole component (`SccEnd`), a cycle if it has two members or a
  link to itself (`SccMembers`).

`ReadSessionProofs` carries both through whole sessions (from `SessionAssumption`,
`ScanAssumption` and the above): `CyclesAreReal` and `OptedInFails`, for every tree,
every sequence of commands, any number of workers and every mishap. `ScanSound`
says that what a scan returns are documents of a known kind, for which `Pool` follows
the workers: a slot up to `taken` is filled or in some worker's hands. So the graph's
nodes are in `Lexical`, a search starts from a graph that is well formed, and
from there on it is idle or sound (`SearchSound`). Between `BuildGraph` and the next
one nothing changes the graph, and a report keeps to it. `SessionAssumption` has
the keys sorted by the code be those of the documents an extractor is registered
for, and the trees be well typed; `ScanAssumption` has `filepath.WalkDir` visit a
finite list of entries, all at or below `Root`, and the directories above it be those whose
path `Root`'s goes on from.

`DeclaredWhenGoverned` states `GovernedMeansDeclared` of the same sessions. The argument is
about the two walks: when a chain's topmost `.stem` is no declared root, every `.stem` above
the document is ordinary (`PlainToTheTop`), so either `Root` itself has that chain and its
boundary is undeclared, or the topmost one is below `Root` and the walk down sees it, uncovered,
unless a `.stemignore` hides it (`BoundaryCovers`). The invariant `Governed` carries this
through the phases while nothing is edited: `graph` was admitted only past a declared boundary
and has resolved every record's chain; `validate --all` has either that or a notice, and a
notice fails its envelope; of a named file, `validate` has an exclusion, a notice, or a
governed directory whose own boundary is declared. Once the marker has been offered or a
mishap has happened the invariant says no more than the property, which is silent there.

`ScansAreExact` states `ScanExact` of the same sessions, with edits, deletions and
cancellations between the steps of a scan. Its invariant (`Listed`, `Judging`, `Progress`,
`Answers`, `Right`) says at every moment what the walk owes: for the part walked so far,
each directory is judged by one version of the stems that the scan has seen, the kept
files are those owed under that judgement in the order of the walk, and a file that is
missing from the listing is gone. The pool's slots are answers for the kept files one by one,
whoever fills them and in whatever order, so collecting them keeps the order of the walk
(`Kept` and the lemmas on it). `ScanAssumption` says for it that the walk visits an entry
once, and a directory before what it holds.

`GateAndHookAgree` and `GraphAndGateAgree` state `ModesAgree` and `BrokenAgrees`. They compare
the reports of two commands that need not follow one another, so the invariant `Agreed` says of
each command, and of each report once it is made, what the tree says: `validate --all` has the
documents a scan of the tree owes (`Due`, by `ScanExact` with a single version of the stems),
and of each the row `GateRow`, with the field as it is computed over those documents
(`Computed`); validate of a file has `HookRow` and gives a notice only where
there is cause (`Warned`); of every governed document that `--where` keeps, graph has the
issues CheckLinks finds and the links that lead nowhere (`Said`, `Unmet`). `GateRow`, `HookRow`
and the others are functions of the tree, so two reports of one tree agree; the tree is the same
as long as there was no mishap and the stems are those of the beginning, which no later step
restores once they differ (`MarkingStays`: only the marker changes a stem, into a declared
root). The rest is about the two ways of looking: a document governed from `Root` is excluded
by name exactly when the walk leaves it out (`ExcludedFromRoot`), and if its own boundary is
undeclared, so is `Root`'s, which a gate that passes has ruled out (`RootDeclares`).
`SessionAssumption` has an empty `links:` block differ from none at all.

`FixCommandProofs` (from `DocsAssumption`, `ValuesAssumption` and `TreesAssumption`):
three theorems, for every set of documents, fields and values, every schema, every
order of proposals and every number of runs, failures, kills and edits.
`ValuesAssumption` has the value a blocker names (`ParseBlockingInfo`: a strict,
non-empty prefix of the value), and a quoted value, differ from the value itself;
`TreesAssumption` has the trees be documents and schemas; `DocsAssumption` has the scan's
order list every document.

- `FixInventsNothing`. The lemmas go
  detector by detector: what a report proposes for a field the scan found missing is a
  declared default, what the document's text gives, or one that two siblings carry
  (`AnalyzeSourced`, where `SiblingsAgree` counts the siblings behind a majority), or is
  withheld. That is not inductive by itself, since a proposal rewrites the whole
  frontmatter from the in-memory record: `Prudent` adds that what the records of the
  run hold in a field the scan found missing is grounded (`MemoryGrounded`), that the
  proposals still queued are (`QueueSourced`), and that the rewrite in hand holds, field by
  field, what the file or the record does, unless the document was saved meanwhile
  (`HandGrounded`). For named files no invariant is needed
  beyond the shape of the disk: `ApplyFixes` reads the schema alone.
- `RowsTellTrue`, from `Telling`: while a run applies, the record of an undisturbed document
  holds another value than the scan in each field a proposal was applied to and the
  scanned one in every other, and its file holds the record, or, when its block cannot
  be rewritten, only links were added (`Followed`, over what each document is `Coming` to
  when the rewrite in hand has reached its file). That needs, detector by detector,
  that every proposal changes what it is applied to: none proposes the value scanned
  (`AnalyzeChanges` and the lemmas before it).
- `RepairsAsDetermined` states `RepairsByPriority`. Proposals are applied in order of their
  kinds' turns, and the record of a document holds, field by field, what the latest
  one applied to it says. For each field exactly one detector's rule decides which that is; the
  detectors' conditions exclude one another or are ranked by their turns, and two
  values cannot both have the majority of the siblings. So the order in which maps are
  ranged over, which the report inherits, leaves no trace in the documents. Of a document
  its author saved, `SavedText` follows both the text on disk and the one in hand.

Induction. The library's induction theorems take an operator as a parameter, which the
provers used here cannot instantiate. `Induction` states it with sets instead (a
set of numbers that holds the first one and with each its successor holds
them all), from the well-foundedness of the naturals.

Model-checked only:

- liveness (convergence of skilldist, `Settles` of fix): the prover does not do
  fairness;
- of skilldist, `NoTreeLost` when the user edits while commands execute, up to the bounds
  of `skill_disturbed` (with more it fails: finding 1).

`MergeStemFiles` and `Prospective` are recursive functions over the levels and over the
batch, and not folds, because the provers do not unfold the LAMBDA of a fold. A walk
is a sequence of levels, of which those without a `.stem` add nothing to the merge.

## 5. Findings

1. **An entry put at a destination between backup and rename can be removed**
   (`skill_late_edits`). The rename stages whatever is there; if the
   destination is occupied again, the roll-back verifies the backup of the old
   entry and removes the staged one (`service.go:845-852`), its only copy. ADR
   0007 line 14 promises that failures preserve the observed state.
2. **A value whose write failed reaches the disk with the next proposal**
   (`repair_failed_set`). `applyRepairSetField` stores it in the shared record
   before it writes (`repair.go:634`), so the next rewrite of that document
   carries it, though the ledger lists it in `errors` only; `docs/fix.md:263`
   promises an exact account.
3. **Post-validation does not reach a document written by a killed run**
   (`repair_after_kill`). The rerun finds every value already in place, writes
   nothing, validates nothing and reports complete (`repair.go:296`);
   `README.md:156` says that rootline never leaves a file its own schema refuses,
   `docs/fix.md:286` that recovery is a rerun.

4. **The gate of an analyze report does not see the stems beside its root**
   (`schema_outside_root`). When the root of the report has no `.stem` of its own,
   the closest one above it is amended (`schema.go:730-733`). The gate judges the
   stems under the root and the amended one (`stem_state.go:191`); those of the
   other directories below the amended one are not read. They may become
   incompatible with it while the run reports complete. ADR 0001 line 14 gives
   exactly this outcome as the reason for the gate.

5. **The two modes of validate can disagree on computed fields** (`read_derived`). Only
   `--all` derives and aggregates before it validates (`validate.go:365-373`, against
   `validation_boundary.go:39-58`). `docs/validate.md:302-305` says that a file target and
   `--all` reach the same verdict.

Counterexamples beside the runs. These configurations are not among the runs of
PROJECT.json; `tlc -config <cfg> <module>` shows each.

- `MCSkillBackwardLink.cfg` of `MCSkillDist`, against `RestoreConverges`. When claude's
  preimage was a symlink to agents, restore publishes it while agents is still the managed
  symlink, and then compares its canonical target (`service.go:712`) with the one recorded
  at install time, agents' own directory. The restore ends incomplete, agents is never
  processed, and a retry is refused. `docs/skill.md:102` says that restore replaces the
  managed symlink with the preimage recorded for each destination. `skill_converge` starts
  without such a link.
- `MCRepairPreviewGate.cfg` of `MCRepairApply`, against `PreviewGates`. A preview does not
  see that a frontmatter cannot be rewritten. It lists the change (`repair.go:520-531`,
  590-596, 637-642); the run ends with "rewrite produced no changes" (`repair.go:543`, 603,
  650) for a document whose closing `---` ends the file without a line break
  (`fix.go:186-189`). `docs/fix.md:221-223` calls the preview usable as a CI precondition
  check.
- `MCFixSignal.cfg` of `MCFixCommand`, against `SignalKept`. When the text's value is close
  to no member of the enum, `extract_body` proposes the empty one (`proposal.go:522-535`)
  and it is written without `--fill-missing` (`fix.go:453-464`); the comment at
  `fix.go:55-57` says that what would erase the signal of a missing field is not written
  unless asked for.
- `MCAtomicCallerMode.cfg` of `MCAtomicWrite`, against `CallerModeApplied`.
  `atomic.go:52-53` applies the mode of a target it finds; the comments
  (`atomic.go:17-18`, 26-27) say without condition that the caller's, or the source's, is
  applied.

Observations that no run asserts:

- The compatibility check compares type, values, required, source and
  severity, and the two bounds of `structural`. What it does not compare a child
  may loosen and stay healthy: `match`, `required: {match: ...}`, `excludes`, a field
  that becomes an aggregate (an index document need not carry it),
  `links.allowed` and `structural` replaced whole, values on a field whose type
  is not enum, an enum without values, warnings that hide an explicit rule, an unknown
  severity, and any `.stem` between two levels that the run did not judge.
  `OnlyNarrows` of `StemHierarchy` names each as a condition, where `README.md:144` and
  `docs/levels.md:80-88` state narrowing without conditions.
- `schema apply --force` cannot replace a malformed `.stem`: the preflight walks
  the tree as it is and stops on it.
- A `.stem` that appears between the plan's `Stat` and the write is replaced without
  `--force` (`docs/fix.md:440`).
- A rehearsal may say complete where the run then fails its validation: when no
  directory with records is governed (`PreviewAgrees` leaves validation out).
- `ApplyRootMarker` looks for the text `root: true` anywhere in the file, so a comment
  counts as the marker. Of two sibling `.stem` files without a marker only one is marked.

Of fix:

- A failing proposal ends `fix --all` (`internal/fix/fix.go:69`): what was applied stays,
  nothing is reported, and the proposals after it are not tried. `docs/fix.md:257-265`
  describes a best-effort contract, which `repair --apply` has. What fails: a second
  proposal with the same value for the same field (`extract_body` and
  `infer_from_siblings`; `correct_value` and `propagate_aggregate` on an index file),
  and any proposal for a document whose closing `---` is the last line without a
  newline, which the extractor accepts and `RewriteFrontmatter` returns unchanged
  (`internal/fix/fix.go:184-192`). Such a document stops every run of `fix --all`;
  `Settles` has it as its hypothesis.
- A `migrate_value` on a document whose closing `---` is not found counts as applied, since the
  link it adds to the text changes the content (`internal/fix/fix.go:407-434`); the field
  keeps its old value. `RepairsByPriority` states that such a document keeps what was scanned.
- `infer_from_siblings` counts siblings whose value is invalid, and aggregates are computed
  before the corrections of the same run: a second run may find work the first left.
  `fix_test.go:823` asserts that it finds none, for its corpus.
- Detectors range over maps, so proposals of one kind have no fixed order, where the
  comment at `proposal.go:237-239` speaks of a stable one. `RepairsByPriority` shows that
  the documents do not depend on it.
- `fix --all` rewrites the whole frontmatter from what it scanned: an edit of the
  frontmatter meanwhile is undone. One of the text survives, unless it is saved between
  the reading and the rename of a rewrite (`internal/fix/fix.go:471-482`, 417-432): then it
  is lost, and the run may still report success.
- The index file is `README.md` by name in `propagate.go` and `sibling_infer.go`, where the
  rest of the program has it configurable. `docs/fix.md:131` says fix writes
  frontmatter only; `migrate_value` also inserts links in the text. With several
  arguments the preflight looks at the first one only.

Of the commands that read:

- `graph.go:311` asks whether a link's target is a node, not whether the link resolved: a
  link that does not resolve but is spelled like the key of a document makes an edge.
- A link of a type the schema has no rule for is dropped by graph and reported by
  validate; `resolve: false` silences validate only. `BrokenAgrees` names both as
  conditions.
- For `--all`, `.stemignore` files and links that begin with `/` count from the directory
  scanned; for named files from the directory of the topmost `.stem`. When the two differ, a
  file may be excluded by one mode and judged by the other, where `validate.go:99-102` and
  `docs/validate.md:111-116` say that both apply the same exclusions. `ModesAgree` and
  `SameVerdict` have every document governed from the scanned directory as their hypothesis.
- When the scan down meets a malformed `.stem`, validate ends with the parser's error, although
  `preflight.go:145-151` explains why it must report it instead.
- The scan down honours `.stemignore`, the walk up does not: `GovernedMeansDeclared` exempts
  a hidden `.stem`.
- One malformed nested `.stem` makes `validate --all` mark every record as unresolved, and one
  unreadable file ends validate of named files without an envelope.

## 6. Abstractions

- *skilldist*: planning is one step (the inventory of both destinations and the
  source); a tree is its digest; the git cleanliness check and the syntax of
  receipts are left out; nobody but a run touches its siblings and backup; the
  evidence after a failed action is not recorded; the copy that stages a
  restored directory is one step with its publication; a failure to reserve the
  receipt refuses the command.
- *AtomicWrite*: a content has two blocks; name changes reach the disk in
  order; removal of the temporary name succeeds; temporary names are lost on
  power loss; the plain and the rooted writer are one model; the directory is
  not fsynced, so a success may be undone by a power loss, which `AtomicFile`
  states as such.
- *RepairApply*: distinct paths are distinct files; a document is a
  frontmatter, one section and its links; validity is a set of allowed values
  per field; a proposal lists a path once; post-validation visits files in any
  order; the reasons for a failed read are one; the representation contract and
  the wiki links of `MigrateValue` are left out, and so are documents with a byte order
  mark or with carriage returns.

- *StemRules, StemHierarchy*: glob matching happens in the choice of the
  patterns a record matches; `match` as a map of configurations, `derive`, link
  targets and styles, names of index documents, `scope.match`, `.stemignore`, `requires`
  with several fields and the warnings of stem health are left out, and so is the error
  that an aggregate conflicts with its source. Only the types string, enum and
  integer carry values.
- *SchemaApply*: discovery of the tree is one step, as is an edit; directories do
  not come and go; a target that cannot be opened and one that cannot be looked
  at are one failure; siblings are written in any order; a directory comes before those
  below it, which the code's order by path guarantees for names that sort after
  the dot of `.stem`; a target is its directory (aliases are resolved by
  identity in the code). Section, constant and sequence inferences are left
  out. Validation after the writes fails for a malformed chain or for want of
  any; a scan or a derivation that fails is not modelled.

- *RecordScan*: reading and extracting a document is one step, which fails or not;
  `.stemignore` and scopes are sets of files; there are no symbolic links; the `.stem` of a
  directory is absent, plain, a declared root or malformed; `MaxMishaps` bounds
  cancellations, deletions and edits together.
- *Preflight*: the marker is written in one step; whether the user accepts is a choice.
- *LinkResolve*: names differ as the file system says; percent signs and blanks are three
  spellings; an anchor is there or not.
- *GraphCommand, ValidateCommand*: `links:` blocks are inherited whole (StemRules has the
  merge), the health of `.stem` files is that each can be parsed, what a record breaks beside its
  links and the one field is in the tree, drift compares that field. Of derivation: one
  field, one expression over the values of a directory, or of the documents below an index
  file (`descendants`; `children` is left out); a rule on it is `exists`, with the severity of an error.
- *FixRules, FixCommand*: values are names, and fuzzy matching, blocking information, the
  value table and the aggregate expression are functions over them; an aggregate
  is over the documents below an index file; `fix --all` reads and rewrites a text in one
  step and replaces the file in another, which `AtomicWrite` justifies; a document emptied by a plain write has no
  frontmatter, and a partial write is taken to be that; `MaxFaults` bounds
  failed writes, kills and edits together; `correct_link`, `set_section`, `--check-schema` and the
  dry run of named files are left out.

## 7. Plan

Order: what writes first, then what decides what may be written.

1. SkillDist with its proofs - done.
2. AtomicWrite refining AtomicFile, proved - done.
3. RepairApply with its six theorems - done.
4. StemRules and StemHierarchy - done; narrowing proved, for one level and for a chain.
5. SchemaApply with its six theorems - done.
6. RecordScan, Preflight, the link modules, graph and validate - modelled and checked,
   and every safety property of its run proved.
7. The fix engine - done, with three theorems.
8. `cmd set` over RepairDocs.
9. Migrate.

Every safety property of the passing runs is proved, but for `NoTreeLost` of
`skill_disturbed` (section 4). Items 8 and 9 are open.

Not planned, with the reason: parsers and renderers (conversions of text,
no state), inference heuristics (advisory thresholds), the updater (external
module), installers (shell).

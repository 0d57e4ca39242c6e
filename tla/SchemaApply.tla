----------------------------- MODULE SchemaApply -----------------------------
(***************************************************************************)
(* rootline schema apply: cmd/rootline/schema.go, schema_apply_execution.go*)
(* and the planning half of internal/infer.  A run plans every write its   *)
(* report asks for, judges the tree as it would be, checks that the        *)
(* records still resolve, writes one .stem after the other, and validates. *)
(*                                                                         *)
(* Another program may change a .stem between any two steps, a write may   *)
(* fail, a target may not resolve and the process may be killed: together  *)
(* at most MaxMishaps times.                                               *)
(***************************************************************************)
EXTENDS StemHierarchy

CONSTANTS
    Populated,   \* directories that hold records
    Hierarchies, \* what the tree may hold at first
    Requests,    \* the reports and flags a run may be given
    Edits,       \* what another program may leave in a .stem
    Samples,     \* records that the guarantees are tried on
    MaxRuns,     \* bound: runs of the command
    MaxMishaps   \* bound: edits, failures and kills, over all the runs

VARIABLES
    files,    \* the .stem of every directory
    phase,    \* where the run is
    request,  \* its report and flags
    rest,     \* proposals not planned yet
    seen,     \* virtualTargets: whether a target existed, or was accepted since
    writes,   \* the plan: accepted writes, in the order of the report
    queue,    \* targets still to write; before that, the .stem to amend
    ledger,   \* the result: applied, rejected, skipped, errors
    before,   \* history: files when the run started
    foreign,  \* history: .stem files another program changed during the run
    last,     \* history: the run before this one, if nothing disturbed it
    runs, mishaps

vars == <<files, phase, request, rest, seen, writes, queue, ledger, before, foreign, last, runs, mishaps>>
history == <<before, foreign, last, runs>>

File == Stems \cup {Garbage, None}

(***************************************************************************)
(* Reports.  A proposal asks for a .stem in a directory; op, named (the    *)
(* base name is .stem) and agent are what the policy looks at, and a file  *)
(* of None is an empty patch.  The inferences of an analyze report are     *)
(* gathered by field.                                                      *)
(***************************************************************************)
Proposals  == [agent : BOOLEAN, op : {"create_stem", "other"}, named : BOOLEAN, target : Dirs,
               file : File]
Inferences == UNION {[F -> [agent : BOOLEAN, type : Types, values : SUBSET Texts, required : BOOLEAN]]
                        : F \in SUBSET Fields}
ReportsAndFlags == [kind : {"proposals", "analyze"}, root : Dirs, dry : BOOLEAN, force : BOOLEAN,
                    proposals : Seq(Proposals), inferences : Inferences]

ASSUME SchemaApplyAssumption ==
    /\ Populated \subseteq Dirs /\ {MaxRuns, MaxMishaps} \subseteq Nat
    /\ \A tree \in Hierarchies : tree \in [Dirs -> File]
    /\ \A r \in Requests : r \in ReportsAndFlags
    /\ \A file \in Edits : file \in File
    /\ \A r \in Samples : r \in Records

Actionable(r) == \E f \in DOMAIN r.inferences : ~r.inferences[f].agent
ForAgents(r)  == {<<"agent", f>> : f \in {g \in DOMAIN r.inferences : r.inferences[g].agent}}

\* validateProspectiveSchemaPatch.
ValidPatch(file) == Parses(file) /\ InvalidFields(ParseStem(file)) = {}

(***************************************************************************)
(* PlanSchemaInferences on the text of a .stem: a type where none is, then *)
(* the new values of an enum, then required.  What is new is judged by the *)
(* file as it was read, what is there by the file as changed so far.       *)
(***************************************************************************)
Undeclared == [type |-> "", values |-> {}, required |-> FALSE, requiredMatch |-> None, match |-> None,
               excludes |-> None, severity |-> "", source |-> "inherit"]

WithType(d, type) == IF d.type = "" THEN [d EXCEPT !.type = type] ELSE d

WithValues(d, read, values) ==
    IF values \subseteq read.values \/ d.type \notin {"", "enum"} THEN d
    ELSE [d EXCEPT !.type = "enum", !.values = @ \cup values]

WithRequired(d, read, required) ==
    IF required /\ ~ParsedField(read).required THEN [d EXCEPT !.required = TRUE] ELSE d

Amend(read, i) == WithRequired(WithValues(WithType(read, i.type), read, i.values), read, i.required)

Declared(file, f) == IF f \in DOMAIN file.schema THEN file.schema[f] ELSE Undeclared
Changed(file, inferences) ==
    {f \in DOMAIN inferences : /\ ~inferences[f].agent
                               /\ Amend(Declared(file, f), inferences[f]) # Declared(file, f)}

Amended(file, inferences) ==
    LET changed == Changed(file, inferences)
    IN  [file EXCEPT !.schema = [f \in DOMAIN file.schema \cup changed |->
                                    IF f \in changed THEN Amend(Declared(file, f), inferences[f])
                                                     ELSE file.schema[f]]]

(***************************************************************************)
(* sortedSchemaApplyBatch: one item per target, the last content, the      *)
(* actions of all, in the order of the paths.  That puts a directory before*)
(* those below it (unless a name starts with a sign that sorts before the  *)
(* dot of .stem); the order of siblings is left open.                      *)
(***************************************************************************)
Targets(ws)         == {w.target : w \in ToSet(ws)}
Content(ws, target) == ws[Max({i \in DOMAIN ws : ws[i].target = target})].file
\* Mutation: the actions of the whole batch are published with its first item.
AllActions(ws, target) == {<<w.action, w.target>> : w \in ToSet(ws)}
Actions(ws, target) == {<<w.action, target>> : w \in {x \in ToSet(ws) : x.target = target}}
Sorted(targets)     ==
    CHOOSE order \in [1..Cardinality(targets) -> targets] :
        ToSet(order) = targets /\ \A i, j \in DOMAIN order : i < j => Len(order[i]) <= Len(order[j])
\* Mutation: in the order of the report.
AnyOrder(targets) == targets
Ready(targets)      == {d \in targets : ~\E e \in targets : IsStrictPrefix(e, d)}

\* validateProspectiveStemWrites: the tree as the batch would leave it.
\* Mutation: every proposal is judged against the tree on disk by itself.
Isolated(tree, root, ws) == Overlay(DiscoverStemState(tree, root), ws[1].target, ws[1].file)
Prospective(tree, root, ws) ==
    LET order == Sorted(Targets(ws))
        state[n \in 0..Len(order)] ==
            IF n = 0 THEN DiscoverStemState(tree, root)
            ELSE Overlay(state[n - 1], order[n], Content(ws, order[n]))
    IN  state[Len(order)]

\* preflightSchemaApplyRecords: the walk from every directory with a file in
\* it, the .stem included, on the tree as it is.
\* Mutation: a dry run skips the preflight.
UnresolvableIfWritten(root) ==
    {d \in Dirs : /\ Under(d, root) /\ (d \in Populated \/ files[d] # None) /\ ~request.dry
                  /\ WalkUp(Parsed(files), d) = "malformed"}
Unresolvable(root) ==
    {d \in Dirs : /\ Under(d, root) /\ (d \in Populated \/ files[d] # None)
                  /\ WalkUp(Parsed(files), d) = "malformed"}

\* runPostApplyValidation fails on a record whose chain is malformed, and
\* when no record has a chain at all.
ValidationFails(root) ==
    LET walks == {WalkUp(Parsed(files), d) : d \in {e \in Populated : Under(e, root)}}
    IN  "malformed" \in walks \/ walks = {"none"}

(***************************************************************************)
(* A run.                                                                  *)
(***************************************************************************)
NoResult == [applied |-> {}, rejected |-> {}, skipped |-> {}, errors |-> {}]
Skipped(l, what)  == [l EXCEPT !.skipped = @ \cup {what}]
Refused(l, what)  == [l EXCEPT !.rejected = @ \cup {what}]
Failed(l, what)   == [l EXCEPT !.errors = @ \cup {what}]

Init ==
    /\ files \in Hierarchies /\ before = files
    /\ phase = "idle" /\ request = None /\ rest = <<>> /\ seen = <<>> /\ writes = <<>> /\ queue = {}
    /\ ledger = NoResult /\ foreign = {} /\ last = None /\ runs = 0 /\ mishaps = 0

\* An analyze report with nothing to do ends before anything is read.
Start(r) ==
    /\ phase \in {"idle", "done", "killed"} /\ runs < MaxRuns
    /\ phase' = IF r.kind = "proposals" THEN "plan" ELSE IF Actionable(r) THEN "resolve" ELSE "done"
    /\ ledger' = [NoResult EXCEPT !.skipped = IF Actionable(r) THEN {} ELSE ForAgents(r)]
    /\ last' = IF phase = "done" /\ foreign = {} /\ ~\E e \in ledger.errors : e[1] \in {"write", "target"}
               THEN [request |-> request, before |-> before, ledger |-> ledger] ELSE None
    /\ request' = r /\ rest' = r.proposals /\ seen' = <<>> /\ writes' = <<>> /\ queue' = {}
    /\ before' = files /\ foreign' = {} /\ runs' = runs + 1
    /\ UNCHANGED <<files, mishaps>>

(***************************************************************************)
(* Planning one proposal: planSchemaProposalApply.                         *)
(***************************************************************************)
Planning == phase = "plan" /\ rest # <<>>
Proposal == Head(rest)

Answer(result) ==
    /\ Planning /\ rest' = Tail(rest) /\ ledger' = result
    /\ UNCHANGED <<files, phase, request, queue, history>>

Permitted(p)  == p.op = "create_stem" /\ Under(p.target, request.root) /\ p.named
Plannable(p)  == ~p.agent /\ Permitted(p) /\ p.file # None /\ ValidPatch(p.file)

\* Left to an agent; refused by policy; no content, or content that is invalid.
Decline ==
    /\ Planning /\ ~Plannable(Proposal)
    /\ Answer(IF Proposal.agent THEN Skipped(ledger, <<"agent", Proposal.target>>)
              ELSE IF ~Permitted(Proposal) THEN Refused(ledger, <<"policy", Proposal.target>>)
              ELSE Failed(ledger, <<"patch", Proposal.target>>))
    /\ UNCHANGED <<seen, writes, mishaps>>

\* The target is looked at once; after that the plan remembers it.
\* Mutation: the plan forgets the targets it has accepted.
ExistsOnDisk == files[Proposal.target] # None
Exists == IF Proposal.target \in DOMAIN seen THEN seen[Proposal.target]
                                            ELSE files[Proposal.target] # None
Observe(exists) ==
    seen' = [d \in DOMAIN seen \cup {Proposal.target} |-> IF d = Proposal.target THEN exists ELSE seen[d]]

Keep ==
    /\ Planning /\ Plannable(Proposal) /\ Exists /\ ~request.force
    /\ Answer(Refused(ledger, <<"exists", Proposal.target>>))
    /\ Observe(TRUE) /\ UNCHANGED <<writes, mishaps>>

Accept ==
    /\ Planning /\ Plannable(Proposal) /\ (Exists => request.force)
    /\ Answer(ledger) /\ Observe(TRUE)
    /\ writes' = Append(writes, [target |-> Proposal.target, file |-> Proposal.file,
                                action |-> IF Exists THEN "overwrite_stem" ELSE "create_stem"])
    /\ UNCHANGED mishaps

\* The target cannot be opened or looked at.
TargetFails ==
    /\ Planning /\ Plannable(Proposal) /\ mishaps < MaxMishaps
    /\ Answer(Failed(ledger, <<"target", Proposal.target>>))
    /\ mishaps' = mishaps + 1 /\ UNCHANGED <<seen, writes>>

(***************************************************************************)
(* Planning the inferences of an analyze report.  The .stem they amend is  *)
(* the closest one that governs the root; it is read again to amend it.    *)
(***************************************************************************)
Step(next, result) ==
    /\ phase' = next /\ ledger' = result
    /\ UNCHANGED <<files, request, rest, seen, history>>

Resolve ==
    /\ phase = "resolve" /\ UNCHANGED <<writes, mishaps>>
    /\ LET stems == Parsed(files)
       IN  IF WalkUp(stems, request.root) = "ok"
           THEN queue' = {ClosestStem(stems, request.root)} /\ Step("infer", ledger)
           ELSE queue' = {} /\ Step("done", Failed(ledger, <<"resolve", request.root>>))

Infer ==
    /\ phase = "infer" /\ queue' = {} /\ UNCHANGED mishaps
    /\ \E owner \in queue :
          LET file    == files[owner]
              changed == Changed(file, request.inferences)
              amended == Amended(file, request.inferences)
              invalid == {f \in changed : ~ValidDeclaration(amended.schema[f])}
              planned == [ledger EXCEPT !.skipped = ForAgents(request)]
          IN  IF file = None \/ ~Parses(file) \/ invalid # {}
              THEN Step("done", Failed(ledger, <<"infer", owner>>)) /\ UNCHANGED writes
              ELSE IF changed = {} THEN Step("done", planned) /\ UNCHANGED writes
              ELSE /\ Step("gate", planned)
                   /\ writes' = <<[target |-> owner, file |-> amended, action |-> "amend"]>>

(***************************************************************************)
(* The verdict, and the writes it lets through.                            *)
(***************************************************************************)
EndPlan ==
    /\ phase = "plan" /\ rest = <<>>
    /\ Step(IF ledger.errors # {} \/ writes = <<>> THEN "done" ELSE "gate", ledger)
    /\ UNCHANGED <<writes, queue, mishaps>>

Gate ==
    /\ phase = "gate"
    /\ LET blocking == BlockingStemHealth(Prospective(files, request.root, writes))
       IN  Step(IF blocking = {} THEN "preflight" ELSE "done",
                [ledger EXCEPT !.errors = @ \cup {<<"stem health", d>> : d \in blocking}])
    /\ UNCHANGED <<writes, queue, mishaps>>

Preflight ==
    /\ phase = "preflight" /\ UNCHANGED <<writes, mishaps>>
    /\ IF Unresolvable(request.root) = {}
       THEN queue' = Targets(writes) /\ Step("write", ledger)
       ELSE queue' = {} /\ Step("done", Failed(ledger, <<"records", request.root>>))

\* A dry run publishes the actions and writes nothing.
Write(d) ==
    /\ phase = "write" /\ d \in Ready(queue) /\ queue' = queue \ {d}
    /\ ledger' = [ledger EXCEPT !.applied = @ \cup Actions(writes, d)]
    /\ files' = IF request.dry THEN files ELSE [files EXCEPT ![d] = Content(writes, d)]
    /\ UNCHANGED <<phase, request, rest, seen, writes, history, mishaps>>

\* The others are still written.
WriteFails(d) ==
    /\ phase = "write" /\ d \in Ready(queue) /\ queue' = queue \ {d}
    /\ ~request.dry /\ mishaps < MaxMishaps /\ mishaps' = mishaps + 1
    /\ Step("write", Failed(ledger, <<"write", d>>)) /\ UNCHANGED writes

Validate ==
    /\ phase = "write" /\ queue = {}
    /\ Step("done", IF ~request.dry /\ ValidationFails(request.root)
                    THEN Failed(ledger, <<"validation", request.root>>) ELSE ledger)
    /\ UNCHANGED <<writes, queue, mishaps>>

(***************************************************************************)
(* The world around it.                                                    *)
(***************************************************************************)
Active == phase \notin {"idle", "done", "killed"}

Edit(dir, file) ==
    /\ Active /\ mishaps < MaxMishaps /\ files[dir] # file
    /\ files' = [files EXCEPT ![dir] = file]
    /\ foreign' = foreign \cup {dir} /\ mishaps' = mishaps + 1
    /\ UNCHANGED <<phase, request, rest, seen, writes, queue, ledger, before, last, runs>>

Kill ==
    /\ Active /\ mishaps < MaxMishaps /\ mishaps' = mishaps + 1
    /\ Step("killed", ledger) /\ UNCHANGED <<writes, queue>>

Next ==
    \/ \E r \in Requests : Start(r)
    \/ Decline \/ Keep \/ Accept \/ TargetFails \/ Resolve \/ Infer
    \/ EndPlan \/ Gate \/ Preflight \/ Validate
    \/ \E d \in Dirs : Write(d) \/ WriteFails(d)
    \/ \E d \in Dirs, file \in Edits : Edit(d, file)
    \/ Kill

Spec == Init /\ [][Next]_vars

(***************************************************************************)
(* What a run promises.                                                    *)
(***************************************************************************)
\* The state is well formed: everything planned parses, only what was planned
\* is applied, and no .stem is written or given up while the one of a directory
\* above it waits.
TypeOK ==
    /\ phase \in {"idle", "plan", "resolve", "infer", "gate", "preflight", "write", "done", "killed"}
    /\ phase # "idle" => request \in Requests
    /\ \A w \in ToSet(writes) : w.target \in Dirs /\ Parses(w.file)
    /\ phase = "write" => /\ queue \subseteq Targets(writes)
                          /\ \A d \in queue, e \in Targets(writes) : IsStrictPrefix(d, e) => e \in queue
    /\ ledger.applied \subseteq UNION {Actions(writes, d) : d \in Targets(writes)}

AppliedTo      == {a[2] : a \in ledger.applied}
Complete       == phase = "done" /\ ledger.errors = {}
WroteUndisturbed == Complete /\ ~request.dry /\ writes # <<>> /\ foreign = {}
Governed       == {d \in Dirs : Under(d, request.root)} \cup Targets(writes)

\* complete: true of a run that wrote: judged on the whole tree, ancestors that
\* the run only read included, every .stem below the root and every one written
\* is without errors, and every record there finds its chain.  The gate judges
\* a snapshot with the proposals laid over it, before the first write.
CompleteMeansHealthy ==
    WroteUndisturbed =>
        LET state == DiscoverStemState(files, <<>>)
        IN  \A d \in Governed :
               /\ files[d] # None => ~StemErrors(state, d)
               /\ d \in Populated \/ files[d] # None => WalkUp(state.stems, d) # "malformed"

\* applied[] is what happened: a target in it holds its planned content, and
\* every other .stem is as the run found it.  A rehearsal leaves all of them.
OnlyWhatItReports ==
    phase \in {"done", "write"} =>
        \A d \in Dirs \ foreign :
            files[d] = IF ~request.dry /\ d \in AppliedTo THEN Content(writes, d) ELSE before[d]

\* Without --force a .stem that was there stays, however the run ends, and two
\* proposals for one target do not overwrite one another: the second finds the
\* target taken although nothing is written yet.
FirstProposalStands ==
    phase # "idle" /\ request.kind = "proposals" /\ ~request.force =>
        /\ \A d \in Dirs \ foreign : before[d] # None => files[d] = before[d]
        /\ \A i, j \in DOMAIN writes : writes[i].target = writes[j].target => i = j

\* ADR 0001: a dry run and the run it rehearses share their verdict, the actions
\* they report, and what they refuse.  Validation only follows writes.
WithoutValidation(result) == [result EXCEPT !.errors = {e \in @ : e[1] # "validation"}]
PreviewAgrees ==
    /\ phase = "done" /\ foreign = {} /\ ~\E e \in ledger.errors : e[1] \in {"write", "target"}
    /\ last # None /\ last.before = before /\ last.request.kind = request.kind
    /\ last.request = [request EXCEPT !.dry = TRUE]
    => WithoutValidation(ledger) = last.ledger

\* Monotonic narrowing: after a run that says complete, what the rules of a
\* level reject, a record or the shape of a directory, is still rejected where
\* the run wrote or judged, if every .stem in between is one of those, and uses
\* nothing but what the gate compares.
NarrowingKeepsGuarantees ==
    WroteUndisturbed => \A d \in Governed : KeepsGuarantees(Parsed(files), d, Governed, Samples, 0..3)

\* ADR 0001: a .stem that is valid by itself must not be applied with complete:
\* true when it breaks the inheritance of another, so a complete run leaves
\* every .stem that was without errors without errors, wherever it lies.
WholeHierarchyJudged ==
    WroteUndisturbed =>
        \A d \in Dirs :
            /\ before[d] # None
            /\ ~StemErrors(DiscoverStemState(before, <<>>), d)
            => ~StemErrors(DiscoverStemState(files, <<>>), d)
=============================================================================

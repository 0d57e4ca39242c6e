-------------------------- MODULE SchemaApplyProofs --------------------------
(***************************************************************************)
(* What a run of schema apply does to the tree, whatever the tree, the     *)
(* report and the flags, and however often it is disturbed: it reports     *)
(* exactly what it wrote, without --force it replaces nothing, what it     *)
(* plans is readable, and, undisturbed, it answers what its rehearsal did. *)
(* When it says complete, the tree is healthy, and what a level of the     *)
(* hierarchy rejects is still rejected below it.                           *)
(***************************************************************************)
EXTENDS SchemaApply, SequenceTheorems, FiniteSetTheorems, Induction, TLAPS

(***************************************************************************)
(* The inductive invariant.                                                *)
(***************************************************************************)
Result(l) == l = [applied |-> l.applied, rejected |-> l.rejected, skipped |-> l.skipped, errors |-> l.errors]

Shape ==
    /\ files = [d \in Dirs |-> files[d]]
    /\ writes \in Seq(ToSet(writes))
    /\ Result(ledger)
    /\ phase = "write" => queue \subseteq Targets(writes)

\* Until the first write the run has changed nothing and reports nothing.
Untouched ==
    phase \in {"plan", "resolve", "infer", "gate", "preflight"} =>
        ledger.applied = {} /\ \A d \in Dirs \ foreign : files[d] = before[d]

\* Without --force: every target the plan has seen counts as taken, what it
\* accepted was not there, and it accepted each target once.
WithoutForce == phase # "idle" /\ request.kind = "proposals" /\ ~request.force
Taken ==
    WithoutForce =>
        /\ phase \notin {"resolve", "infer"}
        /\ \A d \in DOMAIN seen : seen[d] = TRUE
        /\ \A w \in ToSet(writes) : /\ w.target \in DOMAIN seen
                                    /\ w.target \in Dirs \ foreign => before[w.target] = None

IInv == Shape /\ Untouched /\ OnlyWhatItReports /\ Taken /\ FirstProposalStands

(***************************************************************************)
(* Lemmas.                                                                 *)
(***************************************************************************)
\* Accepting a proposal adds it to the plan (planSchemaProposalApply).
LEMMA AppendAdds ==
    ASSUME NEW s, NEW e, s \in Seq(ToSet(s))
    PROVE  /\ Append(s, e) \in Seq(ToSet(Append(s, e)))
           /\ ToSet(Append(s, e)) = ToSet(s) \cup {e}
           /\ DOMAIN Append(s, e) = DOMAIN s \cup {Len(s) + 1} /\ Len(s) + 1 \notin DOMAIN s
           /\ \A i \in DOMAIN s : Append(s, e)[i] = s[i]
           /\ Append(s, e)[Len(s) + 1] = e
<1> DEFINE t == Append(s, e)
<1>1. /\ t \in Seq(ToSet(s) \cup {e}) /\ Len(s) \in Nat /\ DOMAIN s = 1..Len(s)
      /\ Len(t) = Len(s) + 1 /\ DOMAIN t = 1..(Len(s) + 1)
      /\ \A i \in 1..Len(s) : t[i] = s[i]
      /\ t[Len(s) + 1] = e
  OBVIOUS
<1>2. ToSet(t) = ToSet(s) \cup {e}
  <2>1. 1..(Len(s) + 1) = 1..Len(s) \cup {Len(s) + 1}
    BY <1>1
  <2> QED BY <1>1, <2>1 DEF ToSet
<1> QED BY <1>1, <1>2

\* A target that is written has actions to publish, all of them its own
\* (executeStemWrites).
LEMMA ActionsOfTarget ==
    ASSUME NEW ws, NEW d \in Targets(ws), NEW l
    PROVE  {a[2] : a \in l \cup Actions(ws, d)} = {a[2] : a \in l} \cup {d}
<1>1. PICK w \in ToSet(ws) : w.target = d
  BY DEF Targets
<1>2. <<w.action, d>> \in Actions(ws, d)
  BY <1>1 DEF Actions
<1>3. \A a \in Actions(ws, d) : a[2] = d
  BY DEF Actions
<1> QED BY <1>2, <1>3

\* A step of the plan reports nothing as applied (planSchemaProposalApply).
LEMMA ReportsNothingApplied ==
    ASSUME NEW l, Result(l), NEW what
    PROVE  \A m \in {l, Skipped(l, what), Refused(l, what), Failed(l, what)} :
              Result(m) /\ m.applied = l.applied
BY DEF Result, Skipped, Refused, Failed

Before == {"plan", "resolve", "infer", "gate", "preflight"}

\* What a step before the first write has to show: the plan may grow, nothing
\* else that the promises speak of changes.
LEMMA StepOfThePlan ==
    ASSUME IInv, phase \in Before, phase' \in Before \cup {"write", "done", "killed"},
           UNCHANGED <<files, request, before, foreign>>, ledger'.applied = ledger.applied,
           Shape', Taken',
           WithoutForce => \A i, j \in DOMAIN writes' : writes'[i].target = writes'[j].target => i = j
    PROVE  IInv'
<1>1. ledger'.applied = {} /\ \A d \in Dirs \ foreign' : files'[d] = before'[d]
  BY DEF IInv, Untouched, Before
<1>2. Untouched'
  BY <1>1 DEF Untouched
<1>3. OnlyWhatItReports'
  BY <1>1 DEF OnlyWhatItReports, AppliedTo
<1>4. FirstProposalStands'
  BY <1>1 DEF FirstProposalStands, WithoutForce, Before
<1> QED BY <1>2, <1>3, <1>4 DEF IInv

\* The same when the plan stays as it is.
LEMMA StepWithoutPlanning ==
    ASSUME IInv, phase \in Before, phase' \in (Before \cup {"write", "done", "killed"}) \ {"resolve"},
           phase' = "infer" => phase = "resolve",
           UNCHANGED <<files, request, before, foreign, writes, seen>>,
           Result(ledger'), ledger'.applied = ledger.applied,
           phase' = "write" => queue' \subseteq Targets(writes')
    PROVE  IInv'
<1>1. Shape'
  BY DEF IInv, Shape, Result
<1>2. Taken'
  BY DEF IInv, Taken, WithoutForce, Before
<1>3. WithoutForce => \A i, j \in DOMAIN writes' : writes'[i].target = writes'[j].target => i = j
  BY DEF IInv, FirstProposalStands, WithoutForce
<1> QED BY <1>1, <1>2, <1>3, StepOfThePlan

(***************************************************************************)
(* The invariant holds.                                                    *)
(***************************************************************************)
\* A tree as the command finds it, and nothing reported.
LEMMA InitIInv == Init => IInv
<1> SUFFICES ASSUME Init PROVE IInv
  OBVIOUS
<1>1. files \in [Dirs -> File]
  BY SchemaApplyAssumption DEF Init
<1>2. Shape
  BY <1>1 DEF Init, Shape, Result, NoResult
<1> QED BY <1>2 DEF Init, IInv, Untouched, OnlyWhatItReports, Taken, WithoutForce, FirstProposalStands

\* A run starts with an empty plan and remembers the tree.
LEMMA StartIInv == ASSUME IInv, NEW r \in Requests, Start(r) PROVE IInv'
<1> DEFINE agents == IF Actionable(r) THEN {} ELSE ForAgents(r)
<1>1. /\ writes' = <<>> /\ seen' = <<>> /\ foreign' = {} /\ before' = files' /\ files' = files
      /\ phase' # "write" /\ ledger' = [NoResult EXCEPT !.skipped = agents]
  BY DEF Start
<1>2. Result(ledger') /\ ledger'.applied = {}
  <2> HIDE DEF agents
  <2> QED BY <1>1 DEF NoResult, Result
<1>3. Shape'
  BY <1>1, <1>2 DEF IInv, Shape
<1>4. Untouched' /\ OnlyWhatItReports'
  BY <1>1, <1>2 DEF Untouched, OnlyWhatItReports, AppliedTo
<1>5. Taken' /\ FirstProposalStands'
  BY <1>1 DEF Taken, FirstProposalStands, WithoutForce, ToSet, Start
<1> QED BY <1>3, <1>4, <1>5 DEF IInv

\* A proposal is not accepted: the plan stays, and the target may be remembered
\* as taken.
LEMMA NotAcceptedIInv == ASSUME IInv, Decline \/ Keep \/ TargetFails PROVE IInv'
<1>1. /\ phase = "plan" /\ phase' = phase
      /\ UNCHANGED <<files, request, before, foreign, writes>>
  BY DEF Decline, Keep, TargetFails, Answer, Planning, history
<1>2. Result(ledger') /\ ledger'.applied = ledger.applied
  <2>1. Result(ledger)
    BY DEF IInv, Shape
  <2>2. \E what : ledger' \in {Skipped(ledger, what), Refused(ledger, what), Failed(ledger, what)}
    BY DEF Decline, Keep, TargetFails, Answer
  <2> QED BY <2>1, <2>2, ReportsNothingApplied
<1>3. CASE UNCHANGED seen
  BY <1>1, <1>2, <1>3, StepWithoutPlanning DEF Before
<1>4. CASE Keep
  <2>1. Shape'
    BY <1>1, <1>2 DEF IInv, Shape
  <2>2. DOMAIN seen \subseteq DOMAIN seen'
    BY <1>4 DEF Keep, Observe
  <2>3. (\A d \in DOMAIN seen : seen[d] = TRUE) => \A d \in DOMAIN seen' : seen'[d] = TRUE
    BY <1>4 DEF Keep, Observe
  <2>4. Taken'
    BY <1>1, <2>2, <2>3 DEF IInv, Taken, WithoutForce
  <2>5. WithoutForce => \A i, j \in DOMAIN writes' : writes'[i].target = writes'[j].target => i = j
    BY <1>1 DEF IInv, FirstProposalStands, WithoutForce
  <2> QED BY <1>1, <1>2, <2>1, <2>4, <2>5, StepOfThePlan DEF Before
<1> QED BY <1>3, <1>4 DEF Decline, TargetFails

\* A proposal is accepted: without --force its target was not there and no
\* proposal before it was accepted for it.
LEMMA AcceptIInv == ASSUME IInv, Accept PROVE IInv'
<1> DEFINE w == [target |-> Proposal.target, file |-> Proposal.file,
                 action |-> IF Exists THEN "overwrite_stem" ELSE "create_stem"]
<1>1. /\ phase = "plan" /\ phase' = phase /\ ledger' = ledger
      /\ UNCHANGED <<files, request, before, foreign>>
      /\ writes' = Append(writes, w) /\ (Exists => request.force)
  BY DEF Accept, Answer, Planning, history
<1>2. w.target = Proposal.target
  OBVIOUS
<1> HIDE DEF w
<1>3. /\ writes' \in Seq(ToSet(writes')) /\ ToSet(writes') = ToSet(writes) \cup {w}
      /\ DOMAIN writes' = DOMAIN writes \cup {Len(writes) + 1} /\ Len(writes) + 1 \notin DOMAIN writes
      /\ \A i \in DOMAIN writes : writes'[i] = writes[i]
      /\ writes'[Len(writes) + 1] = w
  BY <1>1, AppendAdds DEF IInv, Shape
<1>4. DOMAIN seen' = DOMAIN seen \cup {w.target} /\ seen'[w.target] = TRUE
  BY <1>2 DEF Accept, Observe
<1>5. \A d \in DOMAIN seen : seen[d] = TRUE => seen'[d] = TRUE
  BY DEF Accept, Observe
<1>6. WithoutForce => /\ w.target \notin DOMAIN seen
                      /\ w.target \in Dirs \ foreign => before[w.target] = None
  <2> SUFFICES ASSUME WithoutForce
               PROVE  /\ w.target \notin DOMAIN seen
                      /\ w.target \in Dirs \ foreign => before[w.target] = None
    OBVIOUS
  <2>1. ~Exists
    BY <1>1 DEF WithoutForce
  <2>2. w.target \notin DOMAIN seen
    BY <1>2, <2>1 DEF Exists, IInv, Taken
  <2>3. files[w.target] = None
    BY <1>2, <2>1, <2>2 DEF Exists
  <2> QED BY <1>1, <2>2, <2>3 DEF IInv, Untouched
<1>7. Shape'
  BY <1>1, <1>3 DEF IInv, Shape
<1>8. Taken'
  BY <1>1, <1>3, <1>4, <1>5, <1>6 DEF IInv, Taken, WithoutForce
<1>9. WithoutForce => \A i, j \in DOMAIN writes' : writes'[i].target = writes'[j].target => i = j
  <2> SUFFICES ASSUME WithoutForce, NEW i \in DOMAIN writes', NEW j \in DOMAIN writes',
                      writes'[i].target = writes'[j].target
               PROVE  i = j
    OBVIOUS
  <2>1. \A k \in DOMAIN writes : writes[k].target \in DOMAIN seen
    BY DEF IInv, Taken, ToSet
  <2>2. \A k \in DOMAIN writes : writes[k].target # w.target
    BY <1>6, <2>1
  <2>3. CASE i \in DOMAIN writes /\ j \in DOMAIN writes
    BY <1>3, <2>3 DEF IInv, FirstProposalStands, WithoutForce
  <2> QED BY <1>3, <2>2, <2>3
<1> QED BY <1>1, <1>7, <1>8, <1>9, StepOfThePlan DEF Before

\* An amendment is planned: only for an analyze report, of which WithoutForce
\* does not speak.
LEMMA InferIInv == ASSUME IInv, Infer PROVE IInv'
<1>1. phase = "infer" /\ UNCHANGED <<files, request, seen, before, foreign>> /\ phase' \in {"done", "gate"}
  BY DEF Infer, Step, history
<1>2. Result(ledger') /\ ledger'.applied = ledger.applied
  <2>1. Result(ledger)
    BY DEF IInv, Shape
  <2> DEFINE planned == [ledger EXCEPT !.skipped = ForAgents(request)]
  <2>2. \E what : ledger' \in {planned, Failed(ledger, what)}
    BY DEF Infer, Step
  <2>3. Result(planned) /\ planned.applied = ledger.applied
    BY <2>1 DEF Result
  <2> HIDE DEF planned
  <2> QED BY <2>1, <2>2, <2>3, ReportsNothingApplied
<1>3. writes' = writes \/ \E w : writes' = <<w>>
  BY DEF Infer
<1>4. writes' \in Seq(ToSet(writes'))
  BY <1>3 DEF ToSet, IInv, Shape
<1>5. Shape'
  BY <1>1, <1>2, <1>4 DEF IInv, Shape
<1>6. ~WithoutForce /\ ~WithoutForce'
  BY <1>1 DEF IInv, Taken, WithoutForce
<1> QED BY <1>1, <1>2, <1>5, <1>6, StepOfThePlan DEF Taken, Before

\* The steps that decide whether anything is written.
LEMMA VerdictIInv == ASSUME IInv, Resolve \/ EndPlan \/ Gate \/ Preflight PROVE IInv'
<1>1. UNCHANGED <<files, request, seen, writes, before, foreign>>
  BY DEF Resolve, EndPlan, Gate, Preflight, Step, history
<1>2. /\ phase \in Before /\ phase' \in (Before \cup {"write", "done", "killed"}) \ {"resolve"}
      /\ phase' = "infer" => phase = "resolve"
      /\ phase' = "write" => queue' \subseteq Targets(writes')
  BY <1>1 DEF Resolve, EndPlan, Gate, Preflight, Step, Before
<1>3. Result(ledger') /\ ledger'.applied = ledger.applied
  <2>1. Result(ledger)
    BY DEF IInv, Shape
  <2>2. PICK what, more :
           ledger' \in {ledger, Failed(ledger, what), [ledger EXCEPT !.errors = @ \cup more]}
    BY DEF Resolve, EndPlan, Gate, Preflight, Step
  <2> DEFINE extended == [ledger EXCEPT !.errors = @ \cup more]
  <2>3. Result(extended) /\ extended.applied = ledger.applied
    BY <2>1 DEF Result
  <2>4. ledger' \in {ledger, Failed(ledger, what), extended}
    BY <2>2
  <2> HIDE DEF extended
  <2> QED BY <2>1, <2>3, <2>4, ReportsNothingApplied
<1> QED BY <1>1, <1>2, <1>3, StepWithoutPlanning

\* A target is written and its actions are published, or a rehearsal publishes
\* them and writes nothing.
LEMMA WriteIInv == ASSUME IInv, NEW d \in Dirs, Write(d) PROVE IInv'
<1>1. /\ phase = "write" /\ phase' = phase /\ d \in queue /\ queue' \subseteq queue
      /\ UNCHANGED <<request, seen, writes, before, foreign>>
      /\ ledger' = [ledger EXCEPT !.applied = @ \cup Actions(writes, d)]
      /\ files' = IF request.dry THEN files ELSE [files EXCEPT ![d] = Content(writes, d)]
  BY DEF Write, history, Ready
<1>2. d \in Targets(writes)
  BY <1>1 DEF IInv, Shape
<1>3. Result(ledger') /\ ledger'.applied = ledger.applied \cup Actions(writes, d)
  BY <1>1 DEF IInv, Shape, Result
<1>4. AppliedTo' = AppliedTo \cup {d}
  <2>1. {a[2] : a \in ledger.applied \cup Actions(writes, d)} = {a[2] : a \in ledger.applied} \cup {d}
    BY <1>2, ActionsOfTarget
  <2> QED BY <1>3, <2>1 DEF AppliedTo
<1>5. files' = [e \in Dirs |-> IF e = d /\ ~request.dry THEN Content(writes, d) ELSE files[e]]
  BY <1>1 DEF IInv, Shape
<1>6. Shape'
  BY <1>1, <1>3, <1>5 DEF IInv, Shape, Targets
<1>7. Untouched'
  BY <1>1 DEF Untouched
<1>8. OnlyWhatItReports'
  BY <1>1, <1>4, <1>5 DEF IInv, OnlyWhatItReports
<1>9. Taken'
  BY <1>1 DEF IInv, Taken, WithoutForce
<1>10. FirstProposalStands'
  <2>1. WithoutForce => (d \in Dirs \ foreign => before[d] = None)
    BY <1>2 DEF IInv, Taken, Targets
  <2> QED BY <1>1, <1>5, <2>1 DEF IInv, FirstProposalStands, WithoutForce
<1> QED BY <1>6, <1>7, <1>8, <1>9, <1>10 DEF IInv

\* A write fails, the tree is validated or the process is killed: nothing in
\* the tree and nothing applied changes.
LEMMA RestIInv ==
    ASSUME IInv, (\E d \in Dirs : WriteFails(d)) \/ Validate \/ Kill
    PROVE  IInv'
<1>1. /\ UNCHANGED <<files, request, seen, writes, before, foreign>>
      /\ \/ phase = "write" /\ phase' \in {"write", "done"}
         \/ phase # "idle" /\ phase' = "killed"
      /\ phase' = "write" => queue' \subseteq queue
  BY DEF WriteFails, Validate, Kill, Active, Step, history
<1>2. Result(ledger') /\ ledger'.applied = ledger.applied
  <2>1. Result(ledger)
    BY DEF IInv, Shape
  <2>2. \E what : ledger' \in {ledger, Failed(ledger, what)}
    BY DEF WriteFails, Validate, Kill, Step
  <2> QED BY <2>1, <2>2, ReportsNothingApplied
<1>3. Shape'
  BY <1>1, <1>2 DEF IInv, Shape, Targets
<1>4. Untouched'
  BY <1>1 DEF Untouched
<1>5. OnlyWhatItReports'
  BY <1>1, <1>2 DEF IInv, OnlyWhatItReports, AppliedTo
<1>6. Taken' /\ FirstProposalStands'
  BY <1>1 DEF IInv, Taken, FirstProposalStands, WithoutForce
<1> QED BY <1>3, <1>4, <1>5, <1>6 DEF IInv

\* Another program changes a .stem: the run answers for the others.
LEMMA EditIInv == ASSUME IInv, NEW d \in Dirs, NEW file \in Edits, Edit(d, file) PROVE IInv'
<1>1. /\ UNCHANGED <<phase, request, seen, writes, queue, ledger, before>>
      /\ foreign' = foreign \cup {d} /\ files' = [files EXCEPT ![d] = file]
  BY DEF Edit
<1>2. files' = [e \in Dirs |-> IF e = d THEN file ELSE files[e]]
  BY <1>1 DEF IInv, Shape
<1>3. \A e \in Dirs \ foreign' : e \in Dirs \ foreign /\ files'[e] = files[e]
  BY <1>1, <1>2
<1>4. Shape'
  BY <1>1, <1>2 DEF IInv, Shape, Targets
<1>5. Untouched' /\ OnlyWhatItReports'
  BY <1>1, <1>3 DEF IInv, Untouched, OnlyWhatItReports, AppliedTo
<1>6. Taken'
  BY <1>1 DEF IInv, Taken, WithoutForce
<1>7. FirstProposalStands'
  BY <1>1, <1>3 DEF IInv, FirstProposalStands
<1> QED BY <1>4, <1>5, <1>6, <1>7 DEF IInv

LEMMA NextIInv == IInv /\ [Next]_vars => IInv'
<1> SUFFICES ASSUME IInv, [Next]_vars PROVE IInv'
  OBVIOUS
<1>1. CASE UNCHANGED vars
  BY <1>1 DEF vars, IInv, Shape, Untouched, OnlyWhatItReports, AppliedTo, Taken, WithoutForce,
              FirstProposalStands, Targets
<1>2. CASE Next
  <2>1. ASSUME NEW r \in Requests, Start(r) PROVE IInv'
    BY <2>1, StartIInv
  <2>2. CASE Decline \/ Keep \/ TargetFails
    BY <2>2, NotAcceptedIInv
  <2>3. CASE Accept
    BY <2>3, AcceptIInv
  <2>4. CASE Infer
    BY <2>4, InferIInv
  <2>5. CASE Resolve \/ EndPlan \/ Gate \/ Preflight
    BY <2>5, VerdictIInv
  <2>6. ASSUME NEW d \in Dirs, Write(d) PROVE IInv'
    BY <2>6, WriteIInv
  <2>7. CASE (\E d \in Dirs : WriteFails(d)) \/ Validate \/ Kill
    BY <2>7, RestIInv
  <2>8. ASSUME NEW d \in Dirs, NEW file \in Edits, Edit(d, file) PROVE IInv'
    BY <2>8, EditIInv
  <2> QED BY <1>2, <2>1, <2>2, <2>3, <2>4, <2>5, <2>6, <2>7, <2>8 DEF Next
<1> QED BY <1>1, <1>2

LEMMA Invariant == Spec => []IInv
BY InitIInv, NextIInv, PTL DEF Spec

(***************************************************************************)
(* What is proved.                                                         *)
(***************************************************************************)
\* applied[] of a finished run, whatever was disturbed while it ran: a target
\* in it holds its planned content, every other .stem is as the run found it,
\* a rehearsal leaves all of them (executeStemWrites).
THEOREM AppliedIsWhatHappened == Spec => []OnlyWhatItReports
<1>1. IInv => OnlyWhatItReports
  BY DEF IInv
<1> QED BY <1>1, Invariant, PTL

\* Without --force a run of a proposals report, however it ends, replaces no
\* .stem, and accepts one proposal per target (planSchemaProposalApply and its
\* virtualTargets).
THEOREM NothingIsReplacedWithoutForce == Spec => []FirstProposalStands
<1>1. IInv => FirstProposalStands
  BY DEF IInv
<1> QED BY <1>1, Invariant, PTL

(***************************************************************************)
(* What narrowing preserves, for all fields, values, selectors, patterns   *)
(* and records: one step of the merge, for one field.  What a whole chain  *)
(* of such steps preserves follows at the end of the module.               *)
(***************************************************************************)
\* The field's declaration is one the guarantee is about: nothing in it limits
\* the records it applies to, and its severity can be compared.
Unconditional(d) == d.requiredMatch = None /\ d.excludes = None /\ Known(d.severity)

RejectsField(d, aggregated, r, f) ==
    FieldVerdict(d, aggregated, r, f) # "ok" /\ Rejecting(d.severity)

\* A source that is compatible reads the same value: it is inherited, or binds
\* the field to what the ancestor binds it to (checkFieldSourceCompatibility).
LEMMA CompatibleSourceReadsSame ==
    ASSUME NEW parent \in Declarations, NEW child \in Declarations, NEW r \in Records, NEW f \in Fields,
           ~SourceIncompatible(parent, child)
    PROVE  FieldValue(r, f, MergeField(parent, child)) = FieldValue(r, f, parent)
<1>1. MergeField(parent, child).source =
         IF child.source = "inherit" THEN parent.source ELSE child.source
  BY DEF MergeField, Declarations
<1>2. CASE child.source = "inherit"
  BY <1>1, <1>2 DEF FieldValue
<1>3. CASE child.source # "inherit"
  <2>1. Selector(child) = Selector(parent)
    BY <1>3 DEF SourceIncompatible
  <2>2. \/ child.source = parent.source
        \/ child.source \notin Selectors /\ parent.source \notin Selectors
    BY <2>1, StemRulesAssumption DEF Selector
  <2> QED BY <1>1, <1>3, <2>2 DEF FieldValue
<1> QED BY <1>2, <1>3

\* A severity is never lowered by the merge (mergeFieldSeverity).
LEMMA SeverityNeverLowered ==
    ASSUME NEW parent \in Declarations, NEW child \in Declarations,
           Known(parent.severity), Known(child.severity), Rejecting(parent.severity)
    PROVE  Rejecting(MergeField(parent, child).severity)
           /\ MergeField(parent, child).severity # "off"
<1>1. MergeField(parent, child).severity =
         IF Looser(child.severity, parent.severity) THEN parent.severity ELSE child.severity
  BY DEF MergeField, Declarations
<1>2. parent.severity = "error"
  BY DEF Known, Strictness, Rejecting, Declarations, Severities
<1>3. child.severity \in {"off", "warn", "error"}
  BY DEF Known, Strictness
<1> QED BY <1>1, <1>2, <1>3 DEF Looser, Known, Strictness, Rejecting

\* A value that does not fit the ancestor's type fits no narrower one
\* (checkFieldTypeCompatibility and checkFieldValuesCompatibility).
LEMMA NarrowerTypeFitsLess ==
    ASSUME NEW parent \in Declarations, NEW child \in Declarations, NEW value \in Data,
           ValidDeclaration(parent), ValidDeclaration(child),
           ~TypeIncompatible(parent, child), ~ValuesIncompatible(parent, child),
           ~FitsType(parent, value)
    PROVE  ~FitsType(MergeField(parent, child), value)
<1>1. /\ MergeField(parent, child).type = child.type
      /\ MergeField(parent, child).values = child.values
  BY DEF MergeField, Declarations
<1>2. parent.type = child.type \/ (parent.type = "string" /\ child.type = "enum")
  BY DEF TypeIncompatible
<1>3. parent.type = "enum" /\ child.type = "enum" => child.values \subseteq parent.values
  BY DEF ValuesIncompatible, ValidDeclaration
<1> QED BY <1>1, <1>2, <1>3 DEF FitsType, ValidDeclaration

\* One field: if the gate finds the child's declaration compatible, a record
\* that the ancestor's declaration rejects is rejected by the merged one.
THEOREM CompatibleFieldKeepsRejecting ==
    ASSUME NEW parent \in Declarations, NEW child \in Declarations,
           NEW r \in Records, NEW f \in Fields, NEW aggregated \in BOOLEAN,
           ValidDeclaration(parent), ValidDeclaration(child), ~Incompatible(parent, child),
           Known(parent.severity), Unconditional(child),
           RejectsField(parent, aggregated, r, f)
    PROVE  RejectsField(MergeField(parent, child), aggregated, r, f)
<1> DEFINE d     == MergeField(parent, child)
           value == FieldValue(r, f, parent)
<1>1. Rejecting(d.severity) /\ d.severity # "off"
  BY SeverityNeverLowered DEF RejectsField, Unconditional
<1>2. FieldValue(r, f, d) = value
  BY CompatibleSourceReadsSame DEF Incompatible
<1>3. d.required = child.required /\ d.excludes = child.excludes
  BY DEF MergeField, Declarations
<1>4. parent.severity # "off"
  BY DEF RejectsField, Rejecting
<1>5. CASE value = Garbage
  BY <1>1, <1>2, <1>5 DEF RejectsField, FieldVerdict
<1>6. CASE value = None
  <2>1. parent.required /\ RequiredCheckApplies(parent, aggregated, r)
    BY <1>4, <1>6, StemRulesAssumption DEF RejectsField, FieldVerdict
  <2>2. d.required
    BY <1>3, <2>1 DEF Incompatible, RequiredIncompatible, Unconditional, Declarations
  <2>3. None \notin r.matches
    BY StemRulesAssumption DEF Records
  <2>4. RequiredCheckApplies(d, aggregated, r)
    BY <1>3, <2>1, <2>3 DEF RequiredCheckApplies, Unconditional
  <2> QED BY <1>1, <1>2, <1>6, <2>2, <2>4, StemRulesAssumption DEF RejectsField, FieldVerdict
<1>7. CASE value \notin {None, Garbage}
  <2>1. value \in Data
    <3>1. r.fm[f] \in Data \cup {None}
      BY DEF Records
    <3>2. parent.source \in Selectors => r.body[parent.source] \in Strings \cup {None, Garbage}
      BY DEF Records
    <3> QED BY <1>7, <3>1, <3>2 DEF FieldValue, Strings
  <2>2. ~FitsType(parent, value)
    BY <1>4, <1>7 DEF RejectsField, FieldVerdict
  <2>3. ~FitsType(d, value)
    BY <2>1, <2>2, NarrowerTypeFitsLess DEF Incompatible
  <2> QED BY <1>1, <1>2, <1>7, <2>3 DEF RejectsField, FieldVerdict
<1> QED BY <1>5, <1>6, <1>7
(***************************************************************************)
(* A rehearsal and its run.  What a run that nothing disturbs answers is a *)
(* function of the tree it starts on and of its request, the dry flag not  *)
(* among what it depends on: PlanOf is the plan after each proposal, the   *)
(* operators after it what the verdict makes of the plan.                  *)
(***************************************************************************)
PlanNow == [seen |-> seen, writes |-> writes, ledger |-> ledger]

\* planSchemaProposalApply on a tree, as a function.
PlanNext(tree, root, force, p, s) ==
    LET permitted == p.op = "create_stem" /\ Under(p.target, root) /\ p.named
        exists    == IF p.target \in DOMAIN s.seen THEN s.seen[p.target] ELSE tree[p.target] # None
        noted     == [d \in DOMAIN s.seen \cup {p.target} |-> IF d = p.target THEN TRUE ELSE s.seen[d]]
    IN  IF p.agent \/ ~permitted \/ p.file = None \/ ~ValidPatch(p.file)
        THEN [seen |-> s.seen, writes |-> s.writes,
              ledger |-> IF p.agent THEN Skipped(s.ledger, <<"agent", p.target>>)
                         ELSE IF ~permitted THEN Refused(s.ledger, <<"policy", p.target>>)
                         ELSE Failed(s.ledger, <<"patch", p.target>>)]
        ELSE IF exists /\ ~force
        THEN [seen |-> noted, writes |-> s.writes, ledger |-> Refused(s.ledger, <<"exists", p.target>>)]
        ELSE [seen |-> noted, ledger |-> s.ledger,
              writes |-> Append(s.writes, [target |-> p.target, file |-> p.file,
                                           action |-> IF exists THEN "overwrite_stem" ELSE "create_stem"])]

\* f[i] is the plan after the first i proposals.
Plans(f, tree, root, force, ps, l) ==
    /\ f[0] = [seen |-> <<>>, writes |-> <<>>, ledger |-> l]
    /\ \A i \in 0..(Len(ps) - 1) : f[i + 1] = PlanNext(tree, root, force, ps[i + 1], f[i])
PlanOf(tree, root, force, ps, l) == CHOOSE f : Plans(f, tree, root, force, ps, l)

First(r) == [NoResult EXCEPT !.skipped = IF Actionable(r) THEN {} ELSE ForAgents(r)]

UnresolvableOn(tree, root) ==
    {d \in Dirs : /\ Under(d, root) /\ (d \in Populated \/ tree[d] # None)
                  /\ WalkUp(Parsed(tree), d) = "malformed"}

Published(ws, l) == [l EXCEPT !.applied = UNION {Actions(ws, d) : d \in Targets(ws)}]

AfterGate(tree, root, ws, l) ==
    IF UnresolvableOn(tree, root) = {} THEN Published(ws, l) ELSE Failed(l, <<"records", root>>)

AfterPlan(tree, root, ws, l) ==
    LET blocking == BlockingStemHealth(Prospective(tree, root, ws))
    IN  IF blocking = {} THEN AfterGate(tree, root, ws, l)
        ELSE [l EXCEPT !.errors = @ \cup {<<"stem health", d>> : d \in blocking}]

AfterProposals(tree, root, s) ==
    IF s.ledger.errors # {} \/ s.writes = <<>> THEN s.ledger
    ELSE AfterPlan(tree, root, s.writes, s.ledger)

AfterInferences(tree, root, inferences, agents, l) ==
    LET owner   == ClosestStem(Parsed(tree), root)
        file    == tree[owner]
        changed == Changed(file, inferences)
        amended == Amended(file, inferences)
        planned == [l EXCEPT !.skipped = agents]
    IN  IF file = None \/ ~Parses(file) \/ {f \in changed : ~ValidDeclaration(amended.schema[f])} # {}
        THEN Failed(l, <<"infer", owner>>)
        ELSE IF changed = {} THEN planned
        ELSE AfterPlan(tree, root, <<[target |-> owner, file |-> amended, action |-> "amend"]>>, planned)

Outcome(tree, r) ==
    IF r.kind = "proposals"
    THEN AfterProposals(tree, r.root, PlanOf(tree, r.root, r.force, r.proposals, First(r))[Len(r.proposals)])
    ELSE IF ~Actionable(r) THEN First(r)
    ELSE IF WalkUp(Parsed(tree), r.root) = "ok"
    THEN AfterInferences(tree, r.root, r.inferences, ForAgents(r), First(r))
    ELSE Failed(First(r), <<"resolve", r.root>>)

(***************************************************************************)
(* The invariant: what is left of the run leads to the outcome.            *)
(***************************************************************************)
Undisturbed == foreign = {} /\ ~\E e \in ledger.errors : e[1] \in {"write", "target"}
Clean(l)    == \A e \in l.errors : e[1] # "validation"

\* Where a run stands in its report: the proposals that are left.
Left(i) ==
    /\ rest \in Seq(Proposals) /\ Len(rest) = Len(request.proposals) - i
    /\ \A j \in 1..Len(rest) : rest[j] = request.proposals[i + j]

OnPlan ==
    phase = "plan" =>
        /\ request.kind = "proposals"
        /\ \E i \in 0..Len(request.proposals) :
              /\ Left(i)
              /\ PlanNow = PlanOf(before, request.root, request.force, request.proposals, First(request))[i]
Inferring == request.kind # "proposals" /\ Actionable(request) /\ ledger = First(request)
OnInferences ==
    /\ phase = "resolve" => Inferring
    /\ phase = "infer" => /\ Inferring /\ WalkUp(Parsed(before), request.root) = "ok"
                          /\ queue = {ClosestStem(Parsed(before), request.root)}
OnVerdict ==
    /\ phase = "gate" => Outcome(before, request) = AfterPlan(before, request.root, writes, ledger)
    /\ phase = "preflight" => Outcome(before, request) = AfterGate(before, request.root, writes, ledger)
OnWrites ==
    phase = "write" =>
        /\ Outcome(before, request) = Published(writes, ledger)
        /\ ledger.applied = UNION {Actions(writes, d) : d \in Targets(writes) \ queue}

\* A result is the outcome, but for what validation adds after writing.
Tells(tree, r, l) == /\ WithoutValidation(l) = Outcome(tree, r)
                     /\ r.dry => l = Outcome(tree, r)
OnEnd == phase = "done" => Tells(before, request, ledger)

Told == OnPlan /\ OnInferences /\ OnVerdict /\ OnWrites /\ OnEnd

Foretold ==
    /\ phase # "idle" => request \in Requests
    /\ phase # "done" => Clean(ledger)
    /\ phase \in Before /\ foreign = {} => files = before
    /\ Undisturbed => Told
    /\ last # None => Tells(last.before, last.request, last.ledger)

(***************************************************************************)
(* Lemmas about the outcome.                                               *)
(***************************************************************************)
LEMMA PlanExists ==
    ASSUME NEW tree, NEW root, NEW force, NEW l, NEW P, NEW ps \in Seq(P)
    PROVE  Plans(PlanOf(tree, root, force, ps, l), tree, root, force, ps, l)
<1> DEFINE Next1(i, s) == PlanNext(tree, root, force, ps[i + 1], s)
           Upto(f, n) == /\ f[0] = [seen |-> <<>>, writes |-> <<>>, ledger |-> l]
                         /\ \A i \in 0..(n - 1) : f[i + 1] = Next1(i, f[i])
           S == {n \in Nat : \E f : Upto(f, n)}
<1>1. 0 \in S
  <2> DEFINE f == [i \in {0} |-> [seen |-> <<>>, writes |-> <<>>, ledger |-> l]]
  <2>1. Upto(f, 0)
    OBVIOUS
  <2> QED BY <2>1
<1>2. ASSUME NEW n \in Nat, n \in S PROVE n + 1 \in S
  <2>1. PICK f : Upto(f, n)
    BY <1>2
  <2> DEFINE g == [j \in 0..(n + 1) |-> IF j = n + 1 THEN Next1(n, f[n]) ELSE f[j]]
  <2> HIDE DEF Next1
  <2>2. g[0] = f[0] /\ g[n + 1] = Next1(n, g[n]) /\ \A i \in 0..n : g[i] = f[i]
    OBVIOUS
  <2> HIDE DEF g
  <2>3. ASSUME NEW i \in 0..((n + 1) - 1) PROVE g[i + 1] = Next1(i, g[i])
    <3>1. CASE i = n
      BY <2>2, <3>1
    <3>2. CASE i # n
      <4>1. i \in 0..(n - 1) /\ i \in 0..n /\ i + 1 \in 0..n
        BY <3>2
      <4> QED BY <2>1, <2>2, <4>1
    <3> QED BY <3>1, <3>2
  <2>4. Upto(g, n + 1)
    BY <2>1, <2>2, <2>3
  <2> HIDE DEF Upto
  <2>5. n + 1 \in Nat /\ \E h : Upto(h, n + 1)
    BY <2>4
  <2> QED BY <2>5
<1> HIDE DEF S
<1>3. Len(ps) \in Nat
  OBVIOUS
<1>4. \A i \in 0..Len(ps) : i \in S
  <2>1. PICK m : m = Len(ps)
    OBVIOUS
  <2>2. m \in Nat /\ 0 \in Nat
    BY <1>3, <2>1
  <2>3. \A i \in 0..m : i < m /\ i \in S => i + 1 \in S
    <3>1. \A i \in 0..m : i \in Nat
      BY <2>2
    <3> QED BY <1>2, <3>1
  <2>4. \A i \in 0..m : i \in S
    BY <1>1, <2>2, <2>3, IntervalInduction
  <2> QED BY <2>1, <2>4
<1>5. Len(ps) \in S
  BY <1>3, <1>4
<1>6. \E f : Plans(f, tree, root, force, ps, l)
  BY <1>5 DEF S, Plans
<1> QED BY <1>6 DEF PlanOf

LEMMA ResultExcept ==
    ASSUME NEW l, Result(l), NEW es
    PROVE  LET m == [l EXCEPT !.errors = es]
           IN  /\ Result(m) /\ m.errors = es
               /\ m.applied = l.applied /\ m.rejected = l.rejected /\ m.skipped = l.skipped
BY DEF Result

LEMMA FailedIs ==
    ASSUME NEW l, Result(l), NEW what
    PROVE  /\ Result(Failed(l, what)) /\ Failed(l, what).errors = l.errors \cup {what}
           /\ Failed(l, what).applied = l.applied
BY DEF Result, Failed

\* Without an error of validation there is nothing to leave out.
LEMMA CleanIs ==
    ASSUME NEW l, Result(l), Clean(l)
    PROVE  WithoutValidation(l) = l
<1> DEFINE es == {e \in l.errors : e[1] # "validation"}
<1>1. es = l.errors
  BY DEF Clean
<1> HIDE DEF es
<1>2. [l EXCEPT !.errors = es] = l
  BY <1>1 DEF Result
<1>3. WithoutValidation(l) = [l EXCEPT !.errors = es]
  BY DEF WithoutValidation, es
<1> QED BY <1>2, <1>3

\* What validation adds is left out.
LEMMA ValidationLeftOut ==
    ASSUME NEW l, Result(l), Clean(l), NEW x
    PROVE  WithoutValidation(Failed(l, <<"validation", x>>)) = l
<1> DEFINE m  == Failed(l, <<"validation", x>>)
           es == {e \in m.errors : e[1] # "validation"}
<1>1. Result(m) /\ m.errors = l.errors \cup {<<"validation", x>>}
      /\ m.applied = l.applied /\ m.rejected = l.rejected /\ m.skipped = l.skipped
  BY DEF Result, Failed
<1> HIDE DEF m
<1>2. es = l.errors
  BY <1>1 DEF Clean
<1>3. WithoutValidation(m) = [m EXCEPT !.errors = es]
  BY DEF WithoutValidation
<1> HIDE DEF es
<1>4. [m EXCEPT !.errors = es] = [applied |-> m.applied, rejected |-> m.rejected, skipped |-> m.skipped,
                                  errors |-> es]
  BY <1>1 DEF Result
<1> QED BY <1>1, <1>2, <1>3, <1>4 DEF m, Result

\* What a finished run leaves to compare.
LEMMA EndTells ==
    ASSUME NEW tree, NEW r, NEW l, Result(l), Clean(l), l = Outcome(tree, r)
    PROVE  Tells(tree, r, l)
BY CleanIs DEF Tells

LEMMA FirstIs == ASSUME NEW r PROVE Result(First(r)) /\ Clean(First(r)) /\ First(r).errors = {}
<1> DEFINE agents == IF Actionable(r) THEN {} ELSE ForAgents(r)
<1>1. First(r) = [NoResult EXCEPT !.skipped = agents]
  BY DEF First
<1> HIDE DEF agents
<1> QED BY <1>1 DEF NoResult, Result, Clean

(***************************************************************************)
(* The steps of a run.                                                     *)
(***************************************************************************)
\* What a step within a run has to show.
LEMMA Onward ==
    ASSUME Foretold, phase # "idle", UNCHANGED <<request, before, last>>,
           foreign \subseteq foreign', ledger.errors \subseteq ledger'.errors,
           phase' # "done" => Clean(ledger'),
           phase' \in Before => phase \in Before /\ UNCHANGED files,
           Undisturbed /\ Undisturbed' => Told'
    PROVE  Foretold'
<1>1. Undisturbed' => Undisturbed
  BY DEF Undisturbed
<1>2. (phase # "idle" => request \in Requests)'
  BY DEF Foretold
<1>3. (phase # "done" => Clean(ledger))'
  BY DEF Clean
<1>4. (phase \in Before /\ foreign = {} => files = before)'
  BY DEF Foretold, Before
<1>5. (last # None => Tells(last.before, last.request, last.ledger))'
  BY DEF Foretold
<1> QED BY <1>1, <1>2, <1>3, <1>4, <1>5 DEF Foretold

LEMMA InitForetold == Init => Foretold
BY DEF Init, Foretold, Clean, NoResult, Told, OnPlan, OnInferences, OnVerdict, OnWrites, OnEnd, Before

\* A proposal leaves the list.
LEMMA NextLeft ==
    ASSUME NEW i \in 0..Len(request.proposals), request.proposals \in Seq(Proposals), Left(i), Planning,
           rest' = Tail(rest), request' = request
    PROVE  /\ i \in 0..(Len(request.proposals) - 1) /\ i + 1 \in 0..Len(request.proposals)
           /\ Proposal = request.proposals[i + 1] /\ Left(i + 1)'
<1>1. rest \in Seq(Proposals) /\ rest # <<>> /\ Len(request.proposals) \in Nat
  BY DEF Left, Planning
<1>2. /\ Len(rest) \in Nat \ {0} /\ Head(rest) = rest[1]
      /\ Tail(rest) \in Seq(Proposals) /\ Len(Tail(rest)) = Len(rest) - 1
      /\ \A j \in 1..Len(Tail(rest)) : Tail(rest)[j] = rest[j + 1]
  BY <1>1, HeadTailProperties
<1>3. Len(rest) = Len(request.proposals) - i /\ \A j \in 1..Len(rest) : rest[j] = request.proposals[i + j]
  BY DEF Left
<1>4. i \in 0..(Len(request.proposals) - 1) /\ i + 1 \in 0..Len(request.proposals)
  BY <1>1, <1>2, <1>3
<1>5. Proposal = request.proposals[i + 1]
  BY <1>2, <1>3 DEF Proposal
<1>6. ASSUME NEW j \in 1..Len(Tail(rest)) PROVE Tail(rest)[j] = request.proposals[(i + 1) + j]
  <2>1. j + 1 \in 1..Len(rest) /\ i + (j + 1) = (i + 1) + j
    BY <1>2, <1>4
  <2> QED BY <1>2, <1>3, <2>1
<1>7. Len(Tail(rest)) = Len(request.proposals) - (i + 1)
  BY <1>1, <1>2, <1>3, <1>4
<1> QED BY <1>2, <1>4, <1>5, <1>6, <1>7 DEF Left

\* A step of planning is the function of the tree as it was.
LEMMA PlanNextIs ==
    ASSUME Decline \/ Keep \/ Accept, files = before
    PROVE  PlanNow' = PlanNext(before, request.root, request.force, Proposal, PlanNow)
<1>1. CASE Decline
  BY <1>1 DEF Decline, Answer, PlanNow, PlanNext, Plannable, Permitted
<1>2. CASE Keep
  BY <1>2 DEF Keep, Answer, Observe, PlanNow, PlanNext, Plannable, Permitted, Exists
<1>3. CASE Accept
  BY <1>3 DEF Accept, Answer, Observe, PlanNow, PlanNext, Plannable, Permitted, Exists
<1> QED BY <1>1, <1>2, <1>3

LEMMA RequestIs ==
    ASSUME NEW r \in Requests
    PROVE  /\ r \in ReportsAndFlags /\ r.proposals \in Seq(Proposals) /\ Len(r.proposals) \in Nat
           /\ r.kind \in {"proposals", "analyze"}
BY SchemaApplyAssumption DEF ReportsAndFlags

LEMMA PlanForetold == ASSUME IInv, Foretold, Decline \/ Keep \/ Accept PROVE Foretold'
<1>1. /\ phase = "plan" /\ phase' = "plan" /\ Planning /\ rest' = Tail(rest)
      /\ UNCHANGED <<files, request, queue, before, foreign, last>>
      /\ ledger' \in {ledger} \cup {Skipped(ledger, <<"agent", Proposal.target>>),
                                    Refused(ledger, <<"policy", Proposal.target>>),
                                    Failed(ledger, <<"patch", Proposal.target>>),
                                    Refused(ledger, <<"exists", Proposal.target>>)}
  BY DEF Decline, Keep, Accept, Answer, Planning, history
<1>2. ledger.errors \subseteq ledger'.errors /\ (Clean(ledger) => Clean(ledger'))
  BY <1>1 DEF IInv, Shape, Result, Skipped, Refused, Failed, Clean
<1>3. Clean(ledger) /\ request \in Requests
  BY <1>1 DEF Foretold
<1>4. Undisturbed /\ Undisturbed' => Told'
  <2> SUFFICES ASSUME Undisturbed PROVE Told'
    OBVIOUS
  <2>1. files = before
    BY <1>1 DEF Foretold, Before, Undisturbed
  <2> DEFINE ps == request.proposals
             f  == PlanOf(before, request.root, request.force, ps, First(request))
  <2>2. request.kind = "proposals" /\ \E i \in 0..Len(ps) : Left(i) /\ PlanNow = f[i]
    BY <1>1 DEF Foretold, Told, OnPlan
  <2>3. PICK i \in 0..Len(ps) : Left(i) /\ PlanNow = f[i]
    BY <2>2
  <2>4. ps \in Seq(Proposals)
    BY <1>3, RequestIs
  <2>5. i \in 0..(Len(ps) - 1) /\ i + 1 \in 0..Len(ps) /\ Proposal = ps[i + 1] /\ Left(i + 1)'
    BY <1>1, <2>3, <2>4, NextLeft
  <2>6. Plans(f, before, request.root, request.force, ps, First(request))
    BY <2>4, PlanExists
  <2>7. PlanNow' = f[i + 1]
    <3>1. PlanNow' = PlanNext(before, request.root, request.force, Proposal, PlanNow)
      BY <2>1, PlanNextIs
    <3>2. f[i + 1] = PlanNext(before, request.root, request.force, ps[i + 1], f[i])
      BY <2>5, <2>6 DEF Plans
    <3> QED BY <2>3, <2>5, <3>1, <3>2
  <2>8. OnPlan'
    <3>1. f = PlanOf(before', request'.root, request'.force, request'.proposals, First(request'))
          /\ Len(request'.proposals) = Len(ps) /\ request'.kind = "proposals"
      BY <1>1, <2>2
    <3> HIDE DEF f
    <3> QED BY <2>5, <2>7, <3>1 DEF OnPlan
  <2> QED BY <1>1, <2>8 DEF Told, OnInferences, OnVerdict, OnWrites, OnEnd
<1> QED BY <1>1, <1>2, <1>3, <1>4, Onward DEF Before

\* A disturbance: of such a run nothing is told.
LEMMA DisturbedForetold ==
    ASSUME IInv, Foretold,
           \/ TargetFails \/ Kill \/ (\E d \in Dirs : WriteFails(d))
           \/ \E d \in Dirs, file \in Edits : Edit(d, file)
    PROVE  Foretold'
<1>1. phase \notin {"idle", "done"} /\ UNCHANGED <<request, before, last>> /\ foreign \subseteq foreign'
  BY DEF TargetFails, Kill, WriteFails, Edit, Answer, Planning, Step, Active, history
<1>2. Clean(ledger)
  BY <1>1 DEF Foretold
<1>3. CASE TargetFails \/ \E d \in Dirs : WriteFails(d)
  <2>1. PICK what, d : /\ what \in {"target", "write"} /\ ledger' = Failed(ledger, <<what, d>>)
                       /\ phase' \in {"plan", "write"} /\ phase' = phase /\ files' = files
    BY <1>3 DEF TargetFails, WriteFails, Answer, Planning, Step
  <2>2. ledger'.errors = ledger.errors \cup {<<what, d>>}
    BY <2>1, FailedIs DEF IInv, Shape
  <2>3. <<what, d>>[1] = what /\ what # "validation"
    BY <2>1
  <2>4. ~Undisturbed' /\ Clean(ledger')
    BY <1>2, <2>1, <2>2, <2>3 DEF Undisturbed, Clean
  <2> QED BY <1>1, <2>1, <2>2, <2>4, Onward
<1>4. CASE Kill
  <2>1. phase' = "killed" /\ ledger' = ledger
    BY <1>4 DEF Kill, Step
  <2>2. Told'
    BY <2>1 DEF Told, OnPlan, OnInferences, OnVerdict, OnWrites, OnEnd
  <2> QED BY <1>1, <1>2, <2>1, <2>2, Onward DEF Before
<1>5. CASE \E d \in Dirs, file \in Edits : Edit(d, file)
  <2>1. phase' = phase /\ ledger' = ledger /\ foreign' # {}
    BY <1>5 DEF Edit
  <2>2. ~Undisturbed'
    BY <2>1 DEF Undisturbed
  <2>3. (phase # "idle" => request \in Requests)' /\ (phase # "done" => Clean(ledger))'
    BY <1>1, <1>2, <2>1 DEF Foretold, Clean
  <2>4. (last # None => Tells(last.before, last.request, last.ledger))'
    BY <1>1 DEF Foretold
  <2> QED BY <2>1, <2>2, <2>3, <2>4 DEF Foretold
<1> QED BY <1>3, <1>4, <1>5

\* A step to the end, with the outcome as its result.
LEMMA EndForetold ==
    ASSUME IInv, Foretold, phase # "idle", UNCHANGED <<request, before, last, foreign>>, phase' = "done",
           ledger.errors \subseteq ledger'.errors, Result(ledger'), Clean(ledger'),
           Undisturbed => ledger' = Outcome(before, request)
    PROVE  Foretold'
<1>1. Undisturbed => Tells(before, request, ledger')
  BY EndTells
<1>2. Undisturbed => Told'
  BY <1>1 DEF Told, OnPlan, OnInferences, OnVerdict, OnWrites, OnEnd
<1> QED BY <1>2, Onward DEF Before

LEMMA ResolveForetold == ASSUME IInv, Foretold, Resolve PROVE Foretold'
<1>1. /\ phase = "resolve" /\ UNCHANGED <<files, request, before, last, foreign>>
      /\ Clean(ledger) /\ Result(ledger)
  BY DEF Resolve, Step, history, Foretold, IInv, Shape
<1>2. Undisturbed => files = before /\ Inferring
  BY <1>1 DEF Foretold, Before, Undisturbed, Told, OnInferences
<1>3. CASE WalkUp(Parsed(files), request.root) = "ok"
  <2>1. phase' = "infer" /\ ledger' = ledger /\ queue' = {ClosestStem(Parsed(files), request.root)}
    BY <1>3 DEF Resolve, Step
  <2>2. Undisturbed => Told'
    BY <1>1, <1>2, <1>3, <2>1 DEF Told, OnPlan, OnInferences, OnVerdict, OnWrites, OnEnd, Inferring
  <2> QED BY <1>1, <2>1, <2>2, Onward DEF Before
<1>4. CASE WalkUp(Parsed(files), request.root) # "ok"
  <2>1. phase' = "done" /\ ledger' = Failed(ledger, <<"resolve", request.root>>)
    BY <1>4 DEF Resolve, Step
  <2>2. Result(ledger') /\ ledger'.errors = ledger.errors \cup {<<"resolve", request.root>>} /\ Clean(ledger')
    BY <1>1, <2>1, FailedIs DEF Clean
  <2>3. Undisturbed => ledger' = Outcome(before, request)
    BY <1>2, <1>4, <2>1 DEF Inferring, Outcome
  <2> QED BY <1>1, <2>1, <2>2, <2>3, EndForetold
<1> QED BY <1>3, <1>4

LEMMA InferForetold == ASSUME IInv, Foretold, Infer PROVE Foretold'
<1>1. /\ phase = "infer" /\ UNCHANGED <<files, request, before, last, foreign>>
      /\ Clean(ledger) /\ Result(ledger)
  BY DEF Infer, Step, history, Foretold, IInv, Shape
<1>2. Undisturbed => /\ files = before /\ Inferring /\ queue = {ClosestStem(Parsed(before), request.root)}
                     /\ WalkUp(Parsed(before), request.root) = "ok"
  BY <1>1 DEF Foretold, Before, Undisturbed, Told, OnInferences
<1>3. PICK owner \in queue :
          LET file    == files[owner]
              changed == Changed(file, request.inferences)
              amended == Amended(file, request.inferences)
              invalid == {f \in changed : ~ValidDeclaration(amended.schema[f])}
              planned == [ledger EXCEPT !.skipped = ForAgents(request)]
          IN  IF file = None \/ ~Parses(file) \/ invalid # {}
              THEN Step("done", Failed(ledger, <<"infer", owner>>)) /\ UNCHANGED writes
              ELSE IF changed = {} THEN Step("done", planned) /\ UNCHANGED writes
              ELSE /\ Step("gate", planned)
                   /\ writes' = <<[target |-> owner, file |-> amended, action |-> "amend"]>>
  BY DEF Infer
<1> DEFINE file    == files[owner]
           changed == Changed(file, request.inferences)
           amended == Amended(file, request.inferences)
           invalid == {f \in changed : ~ValidDeclaration(amended.schema[f])}
           planned == [ledger EXCEPT !.skipped = ForAgents(request)]
           plan    == <<[target |-> owner, file |-> amended, action |-> "amend"]>>
           refused == file = None \/ ~Parses(file) \/ invalid # {}
           next    == IF refused THEN Failed(ledger, <<"infer", owner>>)
                      ELSE IF changed = {} THEN planned
                      ELSE AfterPlan(before, request.root, plan, planned)
<1>4. Result(planned) /\ planned.errors = ledger.errors /\ Clean(planned)
  BY <1>1 DEF Result, Clean
<1>5. Undisturbed => Outcome(before, request) = next
  <2> SUFFICES ASSUME Undisturbed PROVE Outcome(before, request) = next
    OBVIOUS
  <2>1. owner = ClosestStem(Parsed(before), request.root) /\ files = before /\ ledger = First(request)
    BY <1>2 DEF Inferring
  <2>2. Outcome(before, request)
          = AfterInferences(before, request.root, request.inferences, ForAgents(request), First(request))
    BY <1>2 DEF Inferring, Outcome
  <2> QED BY <2>1, <2>2 DEF AfterInferences
<1>6. \/ refused /\ phase' = "done" /\ ledger' = Failed(ledger, <<"infer", owner>>)
      \/ ~refused /\ changed = {} /\ phase' = "done" /\ ledger' = planned
      \/ ~refused /\ changed # {} /\ phase' = "gate" /\ ledger' = planned /\ writes' = plan
  BY <1>3 DEF Step
<1> HIDE DEF refused, changed, planned, plan
<1>7. CASE refused
  <2>1. Result(ledger') /\ ledger'.errors = ledger.errors \cup {<<"infer", owner>>} /\ Clean(ledger')
    BY <1>1, <1>6, <1>7, FailedIs DEF Clean
  <2>2. Undisturbed => ledger' = Outcome(before, request)
    BY <1>5, <1>6, <1>7
  <2> QED BY <1>1, <1>6, <1>7, <2>1, <2>2, EndForetold
<1>8. CASE ~refused /\ changed = {}
  <2>1. Undisturbed => ledger' = Outcome(before, request)
    BY <1>5, <1>6, <1>8
  <2> QED BY <1>1, <1>4, <1>6, <1>8, <2>1, EndForetold
<1>9. CASE ~refused /\ changed # {}
  <2>1. phase' = "gate" /\ ledger' = planned /\ writes' = plan
    BY <1>6, <1>9
  <2>2. Undisturbed => Outcome(before, request) = AfterPlan(before, request.root, plan, planned)
    BY <1>5, <1>9
  <2>3. Undisturbed => Told'
    BY <1>1, <2>1, <2>2 DEF Told, OnPlan, OnInferences, OnVerdict, OnWrites, OnEnd
  <2> QED BY <1>1, <1>4, <2>1, <2>3, Onward DEF Before
<1> QED BY <1>7, <1>8, <1>9

LEMMA EndPlanForetold == ASSUME IInv, Foretold, EndPlan PROVE Foretold'
<1>1. /\ phase = "plan" /\ rest = <<>> /\ UNCHANGED <<files, request, before, last, foreign, ledger, writes>>
      /\ Clean(ledger) /\ Result(ledger)
      /\ phase' = IF ledger.errors # {} \/ writes = <<>> THEN "done" ELSE "gate"
  BY DEF EndPlan, Step, history, Foretold, IInv, Shape
<1>2. Undisturbed => Outcome(before, request) = AfterProposals(before, request.root, PlanNow)
  <2> SUFFICES ASSUME Undisturbed
               PROVE  Outcome(before, request) = AfterProposals(before, request.root, PlanNow)
    OBVIOUS
  <2> DEFINE f == PlanOf(before, request.root, request.force, request.proposals, First(request))
  <2>1. request.kind = "proposals" /\ \E i \in 0..Len(request.proposals) : Left(i) /\ PlanNow = f[i]
    BY <1>1 DEF Foretold, Told, OnPlan
  <2>2. PICK i \in 0..Len(request.proposals) : Left(i) /\ PlanNow = f[i]
    BY <2>1
  <2>3. Len(request.proposals) \in Nat
    BY <1>1, RequestIs DEF Foretold
  <2>4. Len(request.proposals) - i = 0
    BY <1>1, <2>2 DEF Left
  <2>5. i = Len(request.proposals)
    BY <2>3, <2>4
  <2> QED BY <2>1, <2>2, <2>5 DEF Outcome
<1>3. CASE ledger.errors # {} \/ writes = <<>>
  <2>1. Undisturbed => ledger' = Outcome(before, request)
    BY <1>1, <1>2, <1>3 DEF AfterProposals, PlanNow
  <2> QED BY <1>1, <1>3, <2>1, EndForetold
<1>4. CASE ~(ledger.errors # {} \/ writes = <<>>)
  <2>1. Undisturbed => Outcome(before, request) = AfterPlan(before, request.root, writes, ledger)
    BY <1>2, <1>4 DEF AfterProposals, PlanNow
  <2>2. Undisturbed => Told'
    BY <1>1, <1>4, <2>1 DEF Told, OnPlan, OnInferences, OnVerdict, OnWrites, OnEnd
  <2> QED BY <1>1, <1>4, <2>2, Onward DEF Before
<1> QED BY <1>3, <1>4

LEMMA GateForetold == ASSUME IInv, Foretold, Gate PROVE Foretold'
<1> DEFINE blocking == BlockingStemHealth(Prospective(files, request.root, writes))
           found    == {<<"stem health", d>> : d \in blocking}
<1>1. /\ phase = "gate" /\ UNCHANGED <<files, request, before, last, foreign, writes>>
      /\ Clean(ledger) /\ Result(ledger)
      /\ phase' = IF blocking = {} THEN "preflight" ELSE "done"
      /\ ledger' = [ledger EXCEPT !.errors = @ \cup found]
  BY DEF Gate, Step, history, Foretold, IInv, Shape
<1>2. Result(ledger') /\ ledger'.errors = ledger.errors \cup found
  <2> HIDE DEF found
  <2> QED BY <1>1 DEF Result
<1>3. \A e \in found : e[1] = "stem health"
  <2> SUFFICES ASSUME NEW e \in found PROVE e[1] = "stem health"
    OBVIOUS
  <2>1. PICK d \in blocking : e = <<"stem health", d>>
    OBVIOUS
  <2>2. <<"stem health", d>>[1] = "stem health"
    OBVIOUS
  <2> HIDE DEF blocking, found
  <2> QED BY <2>1, <2>2, Zenon
<1>4. Clean(ledger')
  <2> HIDE DEF found
  <2> QED BY <1>1, <1>2, <1>3 DEF Clean
<1>5. Undisturbed => /\ files = before
                     /\ Outcome(before, request) = AfterPlan(before, request.root, writes, ledger)
  BY <1>1 DEF Foretold, Before, Undisturbed, Told, OnVerdict
<1>6. Undisturbed => Outcome(before, request)
                       = IF blocking = {} THEN AfterGate(before, request.root, writes, ledger) ELSE ledger'
  BY <1>1, <1>5 DEF AfterPlan
<1>7. blocking = {} => ledger' = ledger
  <2> SUFFICES ASSUME blocking = {} PROVE ledger' = ledger
    OBVIOUS
  <2>1. found = {}
    OBVIOUS
  <2> HIDE DEF found
  <2>2. ledger' = [ledger EXCEPT !.errors = ledger.errors]
    BY <1>1, <2>1
  <2> QED BY <1>1, <2>2 DEF Result
<1> HIDE DEF blocking, found
<1>8. CASE blocking = {}
  <2>1. Undisturbed => Told'
    BY <1>1, <1>6, <1>7, <1>8 DEF Told, OnPlan, OnInferences, OnVerdict, OnWrites, OnEnd
  <2> QED BY <1>1, <1>2, <1>4, <1>8, <2>1, Onward DEF Before
<1>9. CASE blocking # {}
  BY <1>1, <1>2, <1>4, <1>6, <1>9, EndForetold
<1> QED BY <1>8, <1>9

LEMMA PreflightForetold == ASSUME IInv, Foretold, Preflight PROVE Foretold'
<1>1. /\ phase = "preflight" /\ UNCHANGED <<files, request, before, last, foreign, writes>>
      /\ Clean(ledger) /\ Result(ledger)
  BY DEF Preflight, Step, history, Foretold, IInv, Shape
<1>2. Undisturbed => /\ files = before
                     /\ Outcome(before, request) = AfterGate(before, request.root, writes, ledger)
  BY <1>1 DEF Foretold, Before, Undisturbed, Told, OnVerdict
<1>3. Unresolvable(request.root) = UnresolvableOn(files, request.root)
  BY DEF Unresolvable, UnresolvableOn
<1>4. CASE Unresolvable(request.root) = {}
  <2>1. phase' = "write" /\ ledger' = ledger /\ queue' = Targets(writes)
    BY <1>4 DEF Preflight, Step
  <2>2. Undisturbed => Outcome(before, request) = Published(writes, ledger)
    BY <1>2, <1>3, <1>4 DEF AfterGate
  <2>3. ledger.applied = {}
    BY <1>1 DEF IInv, Untouched
  <2>4. Targets(writes) \ queue' = {} /\ UNION {Actions(writes, d) : d \in {}} = {}
    BY <2>1
  <2>5. Undisturbed => OnWrites'
    BY <1>1, <2>1, <2>2, <2>3, <2>4 DEF OnWrites
  <2>6. Undisturbed => Told'
    BY <2>1, <2>5 DEF Told, OnPlan, OnInferences, OnVerdict, OnEnd
  <2> QED BY <1>1, <2>1, <2>6, Onward DEF Before
<1>5. CASE Unresolvable(request.root) # {}
  <2>1. phase' = "done" /\ ledger' = Failed(ledger, <<"records", request.root>>)
    BY <1>5 DEF Preflight, Step
  <2>2. Result(ledger') /\ ledger'.errors = ledger.errors \cup {<<"records", request.root>>} /\ Clean(ledger')
    BY <1>1, <2>1, FailedIs DEF Clean
  <2>3. Undisturbed => ledger' = Outcome(before, request)
    BY <1>2, <1>3, <1>5, <2>1 DEF AfterGate
  <2> QED BY <1>1, <2>1, <2>2, <2>3, EndForetold
<1> QED BY <1>4, <1>5

LEMMA WriteForetold == ASSUME IInv, Foretold, NEW d \in Dirs, Write(d) PROVE Foretold'
<1>1. /\ phase = "write" /\ phase' = "write" /\ d \in queue /\ queue' = queue \ {d}
      /\ UNCHANGED <<request, before, last, foreign, writes>>
      /\ ledger' = [ledger EXCEPT !.applied = @ \cup Actions(writes, d)]
      /\ Clean(ledger) /\ Result(ledger) /\ queue \subseteq Targets(writes)
  BY DEF Write, Ready, history, Foretold, IInv, Shape
<1>2. /\ Result(ledger') /\ ledger'.errors = ledger.errors
      /\ ledger'.applied = ledger.applied \cup Actions(writes, d)
      /\ ledger'.rejected = ledger.rejected /\ ledger'.skipped = ledger.skipped
  BY <1>1 DEF Result
<1>3. Published(writes, ledger') = Published(writes, ledger)
  <2> DEFINE all == UNION {Actions(writes, e) : e \in Targets(writes)}
  <2>1. \A l : Published(writes, l) = [l EXCEPT !.applied = all]
    BY DEF Published
  <2> HIDE DEF all
  <2> QED BY <1>1, <1>2, <2>1 DEF Result
<1>4. Undisturbed => Told'
  <2> SUFFICES ASSUME Undisturbed PROVE Told'
    OBVIOUS
  <2>1. Outcome(before, request) = Published(writes, ledger)
        /\ ledger.applied = UNION {Actions(writes, e) : e \in Targets(writes) \ queue}
    BY <1>1 DEF Foretold, Told, OnWrites
  <2>2. Targets(writes) \ queue' = (Targets(writes) \ queue) \cup {d}
    BY <1>1
  <2>3. \A S : UNION {Actions(writes, e) : e \in S \cup {d}}
                 = (UNION {Actions(writes, e) : e \in S}) \cup Actions(writes, d)
    OBVIOUS
  <2>4. ledger'.applied = UNION {Actions(writes, e) : e \in Targets(writes) \ queue'}
    BY <1>2, <2>1, <2>2, <2>3
  <2>5. OnWrites'
    <3>1. writes' = writes /\ Outcome(before', request') = Published(writes', ledger')
      BY <1>1, <1>3, <2>1
    <3>2. ledger'.applied = UNION {Actions(writes', e) : e \in Targets(writes') \ queue'}
      BY <2>4, <3>1
    <3> QED BY <3>1, <3>2 DEF OnWrites
  <2> QED BY <1>1, <2>5 DEF Told, OnPlan, OnInferences, OnVerdict, OnEnd
<1>5. Clean(ledger')
  BY <1>1, <1>2 DEF Clean
<1> QED BY <1>1, <1>2, <1>4, <1>5, Onward DEF Before

\* Validation, when everything is written.
LEMMA ValidateForetold == ASSUME IInv, Foretold, Validate PROVE Foretold'
<1>1. /\ phase = "write" /\ phase' = "done" /\ queue = {}
      /\ UNCHANGED <<request, before, last, foreign>>
      /\ ledger' = IF ~request.dry /\ ValidationFails(request.root)
                   THEN Failed(ledger, <<"validation", request.root>>) ELSE ledger
      /\ Clean(ledger) /\ Result(ledger)
  BY DEF Validate, Step, history, Foretold, IInv, Shape
<1>2. Undisturbed => ledger = Outcome(before, request)
  <2> SUFFICES ASSUME Undisturbed PROVE ledger = Outcome(before, request)
    OBVIOUS
  <2> DEFINE all == UNION {Actions(writes, d) : d \in Targets(writes)}
  <2>1. Outcome(before, request) = [ledger EXCEPT !.applied = all]
    BY <1>1 DEF Foretold, Told, OnWrites, Published
  <2>2. Targets(writes) \ queue = Targets(writes)
    BY <1>1
  <2>3. ledger.applied = all
    BY <1>1, <2>2 DEF Foretold, Told, OnWrites
  <2> HIDE DEF all
  <2> QED BY <1>1, <2>1, <2>3 DEF Result
<1>3. ledger.errors \subseteq ledger'.errors
  BY <1>1, FailedIs
<1>4. Undisturbed => Tells(before, request, ledger')
  <2>1. CASE ~request.dry /\ ValidationFails(request.root)
    BY <1>1, <1>2, <2>1, ValidationLeftOut DEF Tells
  <2>2. CASE ~(~request.dry /\ ValidationFails(request.root))
    BY <1>1, <1>2, <2>2, CleanIs DEF Tells
  <2> QED BY <2>1, <2>2
<1>5. Undisturbed => Told'
  BY <1>1, <1>4 DEF Told, OnPlan, OnInferences, OnVerdict, OnWrites, OnEnd
<1> QED BY <1>1, <1>3, <1>5, Onward DEF Before

\* A run starts; an undisturbed run before it is remembered with its outcome.
LEMMA StartForetold == ASSUME IInv, Foretold, NEW r \in Requests, Start(r) PROVE Foretold'
<1>1. /\ phase' = IF r.kind = "proposals" THEN "plan" ELSE IF Actionable(r) THEN "resolve" ELSE "done"
      /\ ledger' = First(r) /\ request' = r /\ rest' = r.proposals
      /\ seen' = <<>> /\ writes' = <<>> /\ before' = files' /\ files' = files
      /\ last' = IF phase = "done" /\ Undisturbed
                 THEN [request |-> request, before |-> before, ledger |-> ledger] ELSE None
  BY DEF Start, First, Undisturbed
<1>2. Result(First(r)) /\ Clean(First(r)) /\ First(r).errors = {}
  BY FirstIs
<1>3. (phase # "idle" => request \in Requests)' /\ (phase # "done" => Clean(ledger))'
      /\ (phase \in Before /\ foreign = {} => files = before)'
  BY <1>1, <1>2 DEF Clean
<1>4. (last # None => Tells(last.before, last.request, last.ledger))'
  <2>1. phase = "done" /\ Undisturbed => Tells(before, request, ledger)
    BY DEF Foretold, Told, OnEnd
  <2> QED BY <1>1, <2>1
<1>5. OnPlan'
  <2> SUFFICES ASSUME r.kind = "proposals" PROVE OnPlan'
    BY <1>1 DEF OnPlan
  <2> DEFINE ps == r.proposals
             f  == PlanOf(files, r.root, r.force, ps, First(r))
  <2>1. ps \in Seq(Proposals) /\ Len(ps) \in Nat /\ 0 \in 0..Len(ps)
    BY RequestIs
  <2>2. f[0] = [seen |-> <<>>, writes |-> <<>>, ledger |-> First(r)]
    <3>1. Plans(f, files, r.root, r.force, ps, First(r))
      BY <2>1, PlanExists
    <3> HIDE DEF f
    <3> QED BY <3>1 DEF Plans
  <2>3. PlanNow' = f[0]
    BY <1>1, <2>2 DEF PlanNow
  <2>4. Left(0)'
    BY <1>1, <2>1 DEF Left
  <2>5. f = PlanOf(before', request'.root, request'.force, request'.proposals, First(request'))
    BY <1>1
  <2> HIDE DEF f
  <2> QED BY <1>1, <2>1, <2>3, <2>4, <2>5 DEF OnPlan
<1>6. OnEnd'
  <2>1. r.kind # "proposals" /\ ~Actionable(r) => First(r) = Outcome(files, r)
    BY DEF Outcome
  <2>2. r.kind # "proposals" /\ ~Actionable(r) => Tells(files, r, First(r))
    BY <1>2, <2>1, EndTells
  <2> QED BY <1>1, <2>2 DEF OnEnd
<1>7. OnInferences' /\ OnVerdict' /\ OnWrites'
  BY <1>1 DEF OnInferences, OnVerdict, OnWrites, Inferring
<1> QED BY <1>3, <1>4, <1>5, <1>6, <1>7 DEF Foretold, Told

LEMMA NextForetold == IInv /\ Foretold /\ [Next]_vars => Foretold'
<1> SUFFICES ASSUME IInv, Foretold, [Next]_vars PROVE Foretold'
  OBVIOUS
<1>1. CASE UNCHANGED vars
  <2>1. UNCHANGED <<files, phase, request, rest, seen, writes, queue, ledger, before, foreign, last>>
    BY <1>1 DEF vars
  <2>2. OnPlan => OnPlan'
    <3>1. \A i : Left(i) => Left(i)'
      BY <2>1 DEF Left
    <3>2. PlanNow' = PlanNow
      BY <2>1 DEF PlanNow
    <3> QED BY <2>1, <3>1, <3>2 DEF OnPlan
  <2>3. Undisturbed' = Undisturbed /\ (Told => Told')
    BY <2>1, <2>2 DEF Undisturbed, Told, OnInferences, Inferring, OnVerdict, OnWrites, OnEnd
  <2> QED BY <2>1, <2>3 DEF Foretold
<1>2. CASE Next
  <2>1. ASSUME NEW r \in Requests, Start(r) PROVE Foretold'
    BY <2>1, StartForetold
  <2>2. CASE Decline \/ Keep \/ Accept
    BY <2>2, PlanForetold
  <2>3. CASE \/ TargetFails \/ Kill \/ (\E d \in Dirs : WriteFails(d))
             \/ \E d \in Dirs, file \in Edits : Edit(d, file)
    BY <2>3, DisturbedForetold
  <2>4. CASE Resolve \/ Infer \/ EndPlan
    BY <2>4, ResolveForetold, InferForetold, EndPlanForetold
  <2>5. CASE Gate \/ Preflight \/ Validate
    BY <2>5, GateForetold, PreflightForetold, ValidateForetold
  <2>6. ASSUME NEW d \in Dirs, Write(d) PROVE Foretold'
    BY <2>6, WriteForetold
  <2> QED BY <1>2, <2>1, <2>2, <2>3, <2>4, <2>5, <2>6 DEF Next
<1> QED BY <1>1, <1>2

\* The dry flag is not among what the outcome depends on.
LEMMA DryDoesNotMatter ==
    ASSUME NEW r \in Requests, NEW tree
    PROVE  LET q == [r EXCEPT !.dry = TRUE] IN q.dry /\ Outcome(tree, q) = Outcome(tree, r)
<1> DEFINE q == [r EXCEPT !.dry = TRUE]
<1>1. q.dry /\ q.kind = r.kind /\ q.root = r.root /\ q.force = r.force /\ q.proposals = r.proposals
      /\ q.inferences = r.inferences
  BY RequestIs DEF ReportsAndFlags
<1> HIDE DEF q
<1>2. Actionable(q) = Actionable(r) /\ ForAgents(q) = ForAgents(r)
  BY <1>1 DEF Actionable, ForAgents
<1>3. First(q) = First(r)
  BY <1>2 DEF First
<1> QED BY <1>1, <1>2, <1>3 DEF Outcome, q

\* ADR 0001, of every run that nothing disturbed: a rehearsal and the run it
\* rehearses share their verdict, the actions they report and what they refuse;
\* only validation, which follows the writes, can add to the run's result.
THEOREM RehearsalAgrees == Spec => []PreviewAgrees
<1>1. IInv /\ Foretold => PreviewAgrees
  <2> SUFFICES ASSUME Foretold, phase = "done", Undisturbed, last # None, last.before = before,
                      last.request = [request EXCEPT !.dry = TRUE]
               PROVE  WithoutValidation(ledger) = last.ledger
    BY DEF PreviewAgrees, Undisturbed
  <2>1. request \in Requests
    BY DEF Foretold
  <2>2. WithoutValidation(ledger) = Outcome(before, request)
    BY DEF Foretold, Told, OnEnd, Tells
  <2>3. last.request.dry /\ Outcome(before, last.request) = Outcome(before, request)
    BY <2>1, DryDoesNotMatter
  <2>4. last.ledger = Outcome(last.before, last.request)
    BY <2>3 DEF Foretold, Tells
  <2> QED BY <2>2, <2>3, <2>4
<1>2. Init => IInv /\ Foretold
  BY InitIInv, InitForetold
<1>3. IInv /\ Foretold /\ [Next]_vars => IInv' /\ Foretold'
  BY NextIInv, NextForetold
<1> QED BY <1>1, <1>2, <1>3, PTL DEF Spec

(***************************************************************************)
(* Types: what is planned parses, and is about directories of the project. *)
(***************************************************************************)
LEMMA MaxIs ==
    ASSUME NEW n \in Nat, NEW T \in SUBSET (0..n), T # {}
    PROVE  Max(T) \in T
<1>1. \E x \in T : \A y \in T : x >= y
  BY GreatestNatural
<1> QED BY <1>1 DEF Max

\* The directories above one.
LEMMA UpIs ==
    ASSUME NEW dir \in Dirs
    PROVE  Len(dir) \in Nat /\ \A n \in 0..Len(dir) : Up(dir, n) \in Dirs /\ Len(Up(dir, n)) = n
<1>1. dir \in Seq(ToSet(dir)) /\ Len(dir) \in Nat
  BY StemHierarchyAssumption
<1>2. \A n \in 0..Len(dir) : Up(dir, n) \in Seq(ToSet(dir)) /\ Len(Up(dir, n)) = n
  <2> SUFFICES ASSUME NEW n \in 0..Len(dir)
               PROVE  Up(dir, n) \in Seq(ToSet(dir)) /\ Len(Up(dir, n)) = n
    OBVIOUS
  <2>1. \A i \in 1..n : dir[i] \in ToSet(dir)
    BY <1>1 DEF ToSet
  <2> QED BY <1>1, <2>1, SubSeqProperties DEF Up
<1> DEFINE S == {k \in 0..Len(dir) : Up(dir, Len(dir) - k) \in Dirs}
<1>3. 0 \in S
  <2>1. Up(dir, Len(dir)) = dir
    BY <1>1, SubSeqFull DEF Up
  <2> QED BY <1>1, <2>1
<1>4. ASSUME NEW k \in 0..Len(dir), k < Len(dir), k \in S PROVE k + 1 \in S
  <2> DEFINE m == Len(dir) - k
  <2>1. m \in 1..Len(dir) /\ m - 1 = Len(dir) - (k + 1) /\ k + 1 \in 0..Len(dir)
    BY <1>1, <1>4
  <2>2. Up(dir, m) \in Dirs
    BY <1>4
  <2> HIDE DEF m
  <2>3. m \in 0..Len(dir) /\ m # 0
    BY <1>1, <2>1
  <2>4. Len(Up(dir, m)) = m /\ Up(dir, m) # <<>>
    <3>1. Len(Up(dir, m)) = m
      BY <1>2, <2>3
    <3> QED BY <2>3, <3>1
  <2>5. SubSeq(Up(dir, m), 1, m - 1) \in Dirs
    BY <2>2, <2>4, StemHierarchyAssumption DEF Front
  <2>6. SubSeq(Up(dir, m), 1, m - 1) = Up(dir, m - 1)
    <3>1. CASE m = 1
      <4>1. 1 \in Int /\ 0 \in Int /\ 0 < 1 /\ m - 1 = 0
        BY <3>1
      <4> QED BY <4>1, SubSeqEmpty DEF Up
    <3>2. CASE m # 1
      <4>1. 1 \in 1..Len(dir) /\ m \in 1..Len(dir) /\ 1 \in 1..(m - 1 + 1) /\ m - 1 \in 1..(m - 1 + 1)
            /\ 1 + 1 - 1 = 1 /\ 1 + (m - 1) - 1 = m - 1
        BY <1>1, <2>1, <3>2
      <4> QED BY <1>1, <4>1, SubSeqOfSubSeq DEF Up
    <3> QED BY <3>1, <3>2
  <2>7. Up(dir, Len(dir) - (k + 1)) \in Dirs
    BY <2>1, <2>5, <2>6
  <2> QED BY <2>1, <2>7
<1> HIDE DEF S
<1>5. \A k \in 0..Len(dir) : k \in S
  BY <1>1, <1>3, <1>4, IntervalInduction
<1>6. ASSUME NEW n \in 0..Len(dir) PROVE Up(dir, n) \in Dirs
  <2>1. Len(dir) - n \in 0..Len(dir) /\ Len(dir) - (Len(dir) - n) = n
    BY <1>1
  <2> QED BY <1>5, <2>1 DEF S
<1> QED BY <1>1, <1>2, <1>6

\* The walk visits directories of the project.
LEMMA WalkedIs ==
    ASSUME NEW stems, NEW dir \in Dirs
    PROVE  Len(dir) \in Nat /\ \A e \in ToSet(Walked(stems, dir)) : e \in Dirs /\ Len(e) \in 0..Len(dir)
<1>1. Len(dir) \in Nat
  BY UpIs
<1> DEFINE T == {0} \cup {n \in 0..Len(dir) : Marker(stems, Up(dir, n))}
           b == Boundary(stems, dir)
<1>2. b \in 0..Len(dir)
  <2>1. T \in SUBSET (0..Len(dir)) /\ T # {} /\ b = Max(T)
    BY <1>1 DEF Boundary
  <2> HIDE DEF T, b
  <2> QED BY <1>1, <2>1, MaxIs
<1> HIDE DEF b
<1>3. Walked(stems, dir) = [i \in 1..(Len(dir) - b + 1) |-> Up(dir, b + i - 1)]
  BY DEF Walked, b
<1>4. ASSUME NEW e \in ToSet(Walked(stems, dir)) PROVE e \in Dirs /\ Len(e) \in 0..Len(dir)
  <2>1. PICK i \in 1..(Len(dir) - b + 1) : e = Up(dir, b + i - 1)
    BY <1>3 DEF ToSet
  <2>2. b + i - 1 \in 0..Len(dir)
    BY <1>1, <1>2
  <2> QED BY <2>1, <2>2, UpIs
<1> QED BY <1>1, <1>4

\* Where the walk finds a .stem, the closest one is in a directory of the project.
LEMMA ClosestIs ==
    ASSUME NEW stems, NEW dir \in Dirs, WalkUp(stems, dir) = "ok"
    PROVE  ClosestStem(stems, dir) \in Dirs
<1> DEFINE W == ToSet(Walked(stems, dir))
           G == {d \in W : stems[d] # None}
           T == {Len(d) : d \in G}
<1>1. G # {}
  BY DEF WalkUp
<1>2. Len(dir) \in Nat /\ \A d \in W : d \in Dirs /\ Len(d) \in 0..Len(dir)
  BY WalkedIs
<1>3. T \in SUBSET (0..Len(dir)) /\ T # {}
  <2> HIDE DEF W
  <2> QED BY <1>1, <1>2
<1>4. PICK n \in T : \A k \in T : k <= n
  <2> HIDE DEF T
  <2> QED BY <1>2, <1>3, GreatestNatural
<1>5. \E d \in W : stems[d] # None /\ \A e \in W : stems[e] # None => Len(e) <= Len(d)
  <2> HIDE DEF W
  <2> QED BY <1>4
<1>6. ClosestStem(stems, dir) \in W
  <2> HIDE DEF W
  <2>1. ClosestStem(stems, dir) = CHOOSE d \in W : stems[d] # None /\ \A e \in W : stems[e] # None => Len(e) <= Len(d)
    BY DEF ClosestStem, W
  <2> QED BY <1>5, <2>1
<1> QED BY <1>2, <1>6

\* An inference makes a declaration of a declaration (PlanSchemaInferences).
InferenceOK(i) == i.type \in Types /\ i.values \in SUBSET Texts /\ i.required \in BOOLEAN

LEMMA AmendIs ==
    ASSUME NEW d \in Declarations, NEW i, InferenceOK(i)
    PROVE  Amend(d, i) \in Declarations
<1>1. WithType(d, i.type) \in Declarations
  BY DEF WithType, Declarations, InferenceOK
<1>2. \A e \in Declarations : WithValues(e, d, i.values) \in Declarations
  <2> SUFFICES ASSUME NEW e \in Declarations, WithValues(e, d, i.values) # e
               PROVE  WithValues(e, d, i.values) \in Declarations
    OBVIOUS
  <2> DEFINE more == e.values \cup i.values
  <2>1. more \in SUBSET Texts
    BY DEF Declarations, InferenceOK
  <2>2. WithValues(e, d, i.values) = [e EXCEPT !.type = "enum", !.values = more]
    BY DEF WithValues
  <2> HIDE DEF more
  <2> QED BY <2>1, <2>2 DEF Declarations, Types
<1>3. \A e \in Declarations : WithRequired(e, d, i.required) \in Declarations
  BY DEF WithRequired, Declarations
<1> QED BY <1>1, <1>2, <1>3 DEF Amend

LEMMA DeclaredIs ==
    ASSUME NEW file \in Stems, Parses(file), NEW f
    PROVE  Declared(file, f) \in Declarations
<1>1. Undeclared \in Declarations
  BY DEF Undeclared, Declarations, Types, Severities
<1>2. PICK F \in SUBSET Fields : file.schema \in [F -> Declarations \cup {None}]
  BY DEF Stems
<1>3. f \in DOMAIN file.schema => file.schema[f] \in Declarations
  BY <1>2 DEF Parses
<1> QED BY <1>1, <1>3 DEF Declared

\* An amended file that was readable still is.
LEMMA AmendedIs ==
    ASSUME NEW file \in Stems, Parses(file), NEW inferences \in Inferences
    PROVE  Amended(file, inferences) \in Stems /\ Parses(Amended(file, inferences))
<1>1. PICK G \in SUBSET Fields :
          inferences \in [G -> [agent : BOOLEAN, type : Types, values : SUBSET Texts, required : BOOLEAN]]
  BY DEF Inferences
<1>2. PICK F \in SUBSET Fields : file.schema \in [F -> Declarations \cup {None}]
  BY DEF Stems
<1> DEFINE changed == Changed(file, inferences)
           schema  == [f \in DOMAIN file.schema \cup changed |->
                          IF f \in changed THEN Amend(Declared(file, f), inferences[f]) ELSE file.schema[f]]
           amended == [file EXCEPT !.schema = schema]
<1>3. changed \subseteq G
  BY <1>1 DEF Changed
<1>4. ASSUME NEW f \in F \cup changed PROVE schema[f] \in Declarations
  <2>1. CASE f \in changed
    <3>1. InferenceOK(inferences[f])
      BY <1>1, <1>3, <2>1 DEF InferenceOK
    <3>2. Amend(Declared(file, f), inferences[f]) \in Declarations
      BY <3>1, DeclaredIs, AmendIs
    <3> QED BY <1>2, <2>1, <3>2
  <2>2. CASE f \notin changed
    <3>1. file.schema[f] \in Declarations
      BY <1>2, <2>2 DEF Parses
    <3> QED BY <1>2, <2>2, <3>1
  <2> QED BY <2>1, <2>2
<1>5. F \cup changed \in SUBSET Fields /\ DOMAIN schema = F \cup changed
  BY <1>1, <1>2, <1>3
<1>6. schema \in [F \cup changed -> Declarations \cup {None}]
  <2>1. schema = [f \in F \cup changed |-> schema[f]]
    BY <1>2
  <2> HIDE DEF schema, changed
  <2> QED BY <1>4, <2>1
<1>7. Amended(file, inferences) = amended
  BY DEF Amended
<1> HIDE DEF schema, changed
<1>8. amended \in Stems /\ amended.schema = schema /\ amended.version = file.version /\ amended.validate = file.validate
  <2>1. schema \in UNION {[H -> Declarations \cup {None}] : H \in SUBSET Fields}
    BY <1>5, <1>6
  <2> QED BY <2>1 DEF Stems
<1> HIDE DEF amended
<1>9. Parses(amended)
  <2>1. amended # Garbage
    BY <1>8, MarksAssumption
  <2>2. \A f \in DOMAIN amended.schema : amended.schema[f] # None
    BY <1>4, <1>5, <1>8, MarksAssumption
  <2> QED BY <1>8, <2>1, <2>2 DEF Parses
<1> QED BY <1>7, <1>8, <1>9

Planned(w) == w.target \in Dirs /\ w.file \in File /\ Parses(w.file)

Typed ==
    /\ TypeOK
    /\ files \in [Dirs -> File]
    /\ \A w \in ToSet(writes) : Planned(w)
    /\ rest \in Seq(Proposals)
    /\ phase = "infer" => queue \subseteq Dirs

\* The last of the writes planned for a target.
LEMMA ContentIs ==
    ASSUME NEW ws, ws \in Seq(ToSet(ws)), \A w \in ToSet(ws) : Planned(w), NEW d \in Targets(ws)
    PROVE  Content(ws, d) \in File
<1> DEFINE T == {i \in DOMAIN ws : ws[i].target = d}
<1>1. DOMAIN ws = 1..Len(ws) /\ Len(ws) \in Nat
  OBVIOUS
<1>2. T \in SUBSET (0..Len(ws)) /\ T # {}
  BY <1>1 DEF Targets, ToSet
<1>3. Max(T) \in T
  <2> HIDE DEF T
  <2> QED BY <1>1, <1>2, MaxIs
<1>4. ws[Max(T)] \in ToSet(ws)
  BY <1>3 DEF ToSet
<1>5. Content(ws, d) = ws[Max(T)].file
  BY DEF Content
<1> QED BY <1>4, <1>5 DEF Planned

\* What a step before the first write has to show.
LEMMA TypedOn ==
    ASSUME IInv, Typed, phase \in Before, phase' \in Before \cup {"done"},
           UNCHANGED <<files, request>>, rest' \in Seq(Proposals), ledger'.applied = ledger.applied,
           \A w \in ToSet(writes') : Planned(w), phase' = "infer" => queue' \subseteq Dirs
    PROVE  Typed'
<1>1. ledger'.applied = {} /\ phase # "idle"
  BY DEF IInv, Untouched, Before
<1>2. TypeOK'
  BY <1>1 DEF Typed, TypeOK, Before, Planned
<1>3. \A w \in ToSet(writes') : Planned(w)'
  BY DEF Planned
<1> QED BY <1>2, <1>3 DEF Typed

LEMMA ProposalIs ==
    ASSUME Typed, Planning
    PROVE  Proposal \in Proposals /\ Tail(rest) \in Seq(Proposals)
<1>1. rest \in Seq(Proposals) /\ rest # <<>>
  BY DEF Typed, Planning
<1> QED BY <1>1, HeadTailProperties DEF Proposal

LEMMA ValidIsPlanned ==
    ASSUME NEW p \in Proposals, p.file # None, ValidPatch(p.file), NEW action
    PROVE  Planned([target |-> p.target, file |-> p.file, action |-> action])
BY DEF Proposals, ValidPatch, Planned

LEMMA InitTyped == Init => Typed
<1> SUFFICES ASSUME Init PROVE Typed
  OBVIOUS
<1>1. files \in [Dirs -> File] /\ rest \in Seq(Proposals) /\ writes = <<>> /\ ToSet(writes) = {}
  BY SchemaApplyAssumption DEF Init, ToSet
<1>2. TypeOK
  BY <1>1 DEF Init, TypeOK, NoResult
<1> QED BY <1>1, <1>2 DEF Typed, Init

LEMMA StartTyped == ASSUME IInv, Typed, NEW r \in Requests, Start(r) PROVE Typed'
<1>1. /\ phase' \in {"plan", "resolve", "done"} /\ request' = r /\ rest' = r.proposals
      /\ writes' = <<>> /\ ToSet(writes') = {} /\ files' = files /\ ledger' = First(r)
  BY DEF Start, ToSet, First
<1>2. First(r).applied = {}
  <2> DEFINE agents == IF Actionable(r) THEN {} ELSE ForAgents(r)
  <2>1. First(r) = [NoResult EXCEPT !.skipped = agents]
    BY DEF First
  <2> HIDE DEF agents
  <2> QED BY <2>1 DEF NoResult
<1>3. TypeOK'
  BY <1>1, <1>2 DEF TypeOK
<1>4. rest' \in Seq(Proposals)
  BY <1>1, RequestIs
<1> QED BY <1>1, <1>3, <1>4 DEF Typed

LEMMA PlanTyped == ASSUME IInv, Typed, Decline \/ Keep \/ Accept \/ TargetFails PROVE Typed'
<1>1. /\ phase = "plan" /\ phase' = "plan" /\ Planning /\ rest' = Tail(rest)
      /\ UNCHANGED <<files, request>>
  BY DEF Decline, Keep, Accept, TargetFails, Answer, Planning, history
<1>2. Proposal \in Proposals /\ rest' \in Seq(Proposals)
  BY <1>1, ProposalIs
<1>3. ledger'.applied = ledger.applied
  <2>1. Result(ledger)
    BY DEF IInv, Shape
  <2>2. \E what : ledger' \in {ledger, Skipped(ledger, what), Refused(ledger, what), Failed(ledger, what)}
    BY DEF Decline, Keep, Accept, TargetFails, Answer
  <2> QED BY <2>1, <2>2, ReportsNothingApplied
<1>4. \A w \in ToSet(writes') : Planned(w)
  <2>1. CASE UNCHANGED writes
    BY <2>1 DEF Typed
  <2>2. CASE Accept
    <3> DEFINE w == [target |-> Proposal.target, file |-> Proposal.file,
                     action |-> IF Exists THEN "overwrite_stem" ELSE "create_stem"]
    <3>1. writes' = Append(writes, w) /\ Proposal.file # None /\ ValidPatch(Proposal.file)
      BY <2>2 DEF Accept, Plannable
    <3>2. Planned(w)
      BY <1>2, <3>1, ValidIsPlanned
    <3> HIDE DEF w
    <3>3. ToSet(writes') = ToSet(writes) \cup {w}
      BY <3>1, AppendAdds DEF IInv, Shape
    <3> QED BY <3>2, <3>3 DEF Typed
  <2> QED BY <2>1, <2>2 DEF Decline, Keep, TargetFails
<1> QED BY <1>1, <1>2, <1>3, <1>4, TypedOn DEF Before

LEMMA ResolveTyped == ASSUME IInv, Typed, Resolve PROVE Typed'
<1>1. /\ phase = "resolve" /\ phase' \in {"infer", "done"} /\ UNCHANGED <<files, request, rest, writes>>
      /\ phase' = "infer" => /\ WalkUp(Parsed(files), request.root) = "ok"
                             /\ queue' = {ClosestStem(Parsed(files), request.root)}
      /\ ledger' \in {ledger, Failed(ledger, <<"resolve", request.root>>)}
  BY DEF Resolve, Step
<1>2. request.root \in Dirs
  <2>1. request \in Requests
    BY <1>1 DEF Typed, TypeOK
  <2> QED BY <2>1, RequestIs DEF ReportsAndFlags
<1>3. phase' = "infer" => queue' \subseteq Dirs
  BY <1>1, <1>2, ClosestIs
<1>4. ledger'.applied = ledger.applied
  BY <1>1, FailedIs DEF IInv, Shape
<1> QED BY <1>1, <1>3, <1>4, TypedOn DEF Typed, Before

LEMMA InferTyped == ASSUME IInv, Typed, Infer PROVE Typed'
<1>1. /\ phase = "infer" /\ phase' \in {"done", "gate"} /\ UNCHANGED <<files, request, rest>>
  BY DEF Infer, Step
<1>2. PICK owner \in queue :
         /\ \/ writes' = writes
            \/ /\ files[owner] # None /\ Parses(files[owner])
               /\ writes' = <<[target |-> owner, file |-> Amended(files[owner], request.inferences),
                               action |-> "amend"]>>
         /\ \/ ledger' = [ledger EXCEPT !.skipped = ForAgents(request)]
            \/ ledger' = Failed(ledger, <<"infer", owner>>)
  BY DEF Infer, Step
<1>3. ledger'.applied = ledger.applied
  BY <1>2, FailedIs DEF IInv, Shape, Result
<1>4. \A w \in ToSet(writes') : Planned(w)
  <2>1. CASE writes' = writes
    BY <2>1 DEF Typed
  <2>2. CASE writes' # writes
    <3> DEFINE new == Amended(files[owner], request.inferences)
               w   == [target |-> owner, file |-> new, action |-> "amend"]
    <3>1. files[owner] # None /\ Parses(files[owner]) /\ writes' = <<w>>
      BY <1>2, <2>2
    <3>2. owner \in Dirs /\ files[owner] \in File
      BY <1>1 DEF Typed
    <3>3. files[owner] \in Stems
      BY <3>1, <3>2 DEF File, Parses
    <3>4. request.inferences \in Inferences
      <4>1. request \in Requests
        BY <1>1 DEF Typed, TypeOK
      <4> QED BY <4>1, RequestIs DEF ReportsAndFlags
    <3>5. new \in Stems /\ Parses(new)
      BY <3>1, <3>3, <3>4, AmendedIs
    <3> HIDE DEF new
    <3>6. Planned(w)
      BY <3>2, <3>5 DEF Planned, File
    <3> HIDE DEF w
    <3>7. ToSet(writes') = {w}
      BY <3>1 DEF ToSet
    <3> QED BY <3>6, <3>7
  <2> QED BY <2>1, <2>2
<1> QED BY <1>1, <1>3, <1>4, TypedOn DEF Typed, Before

\* The verdict on the plan.
LEMMA VerdictTyped == ASSUME IInv, Typed, EndPlan \/ Gate \/ Preflight PROVE Typed'
<1>1. /\ phase \in {"plan", "gate", "preflight"} /\ phase' \in {"gate", "preflight", "write", "done"}
      /\ UNCHANGED <<files, request, rest, writes>>
      /\ phase' = "write" => queue' = Targets(writes)
  BY DEF EndPlan, Gate, Preflight, Step
<1>2. ledger'.applied = ledger.applied
  <2>1. Result(ledger)
    BY DEF IInv, Shape
  <2>2. PICK what, more : ledger' \in {ledger, Failed(ledger, what), [ledger EXCEPT !.errors = @ \cup more]}
    BY DEF EndPlan, Gate, Preflight, Step
  <2> QED BY <2>1, <2>2, FailedIs DEF Result
<1>3. CASE phase' # "write"
  BY <1>1, <1>2, <1>3, TypedOn DEF Typed, Before
<1>4. CASE phase' = "write"
  <2>1. ledger'.applied = {}
    BY <1>1, <1>2 DEF IInv, Untouched
  <2>2. TypeOK'
    BY <1>1, <1>4, <2>1 DEF Typed, TypeOK, Targets
  <2> QED BY <1>1, <1>4, <2>2 DEF Typed, Planned
<1> QED BY <1>3, <1>4

\* A target leaves the queue, written or not, when no directory above it waits.
LEMMA WrittenTyped ==
    ASSUME IInv, Typed, NEW d \in Dirs, Write(d) \/ WriteFails(d)
    PROVE  Typed'
<1>1. /\ phase = "write" /\ phase' = "write" /\ UNCHANGED <<request, rest, writes>>
      /\ d \in queue /\ ~(\E e \in queue : IsStrictPrefix(e, d)) /\ queue' = queue \ {d}
      /\ ledger'.applied \in {ledger.applied, ledger.applied \cup Actions(writes, d)}
      /\ files' = files \/ files' = [files EXCEPT ![d] = Content(writes, d)]
  <2>1. /\ phase = "write" /\ phase' = "write" /\ UNCHANGED <<request, rest, writes>>
        /\ d \in queue /\ ~(\E e \in queue : IsStrictPrefix(e, d)) /\ queue' = queue \ {d}
        /\ files' = files \/ files' = [files EXCEPT ![d] = Content(writes, d)]
    BY DEF Write, WriteFails, Ready, Step
  <2>2. ledger'.applied \in {ledger.applied, ledger.applied \cup Actions(writes, d)}
    <3>1. CASE Write(d)
      BY <3>1 DEF Write, IInv, Shape, Result
    <3>2. CASE WriteFails(d)
      BY <3>2, FailedIs DEF WriteFails, Step, IInv, Shape
    <3> QED BY <3>1, <3>2
  <2> QED BY <2>1, <2>2
<1>2. /\ d \in Targets(writes) /\ queue \subseteq Targets(writes)
      /\ \A w \in ToSet(writes) : Planned(w)
      /\ writes \in Seq(ToSet(writes))
  BY <1>1 DEF IInv, Shape, Typed
<1>3. files' \in [Dirs -> File]
  <2>1. Content(writes, d) \in File
    BY <1>2, ContentIs
  <2> QED BY <1>1, <2>1 DEF Typed
<1>4. \A a \in queue', e \in Targets(writes) : IsStrictPrefix(a, e) => e \in queue'
  BY <1>1 DEF Typed, TypeOK
<1>5. ledger'.applied \subseteq UNION {Actions(writes, e) : e \in Targets(writes)}
  BY <1>1, <1>2 DEF Typed, TypeOK
<1>6. TypeOK'
  BY <1>1, <1>2, <1>4, <1>5 DEF Typed, TypeOK
<1> QED BY <1>1, <1>3, <1>6 DEF Typed, Planned

LEMMA NextTyped == IInv /\ Typed /\ [Next]_vars => Typed'
<1> SUFFICES ASSUME IInv, Typed, [Next]_vars PROVE Typed'
  OBVIOUS
<1>1. CASE UNCHANGED vars
  BY <1>1 DEF vars, Typed, TypeOK, Planned
<1>2. CASE Validate \/ Kill
  <2>1. /\ phase' \in {"done", "killed"} /\ phase # "idle" /\ UNCHANGED <<files, request, rest, writes>>
        /\ ledger'.applied = ledger.applied
    <3>1. /\ phase' \in {"done", "killed"} /\ phase # "idle" /\ UNCHANGED <<files, request, rest, writes>>
          /\ \E what : ledger' \in {ledger, Failed(ledger, what)}
      BY <1>2 DEF Validate, Kill, Active, Step
    <3> QED BY <3>1, FailedIs DEF IInv, Shape
  <2>2. TypeOK'
    BY <2>1 DEF Typed, TypeOK
  <2> QED BY <2>1, <2>2 DEF Typed, Planned
<1>3. ASSUME NEW d \in Dirs, NEW file \in Edits, Edit(d, file) PROVE Typed'
  <2>1. UNCHANGED <<phase, request, rest, writes, queue, ledger>> /\ files' = [files EXCEPT ![d] = file]
    BY <1>3 DEF Edit
  <2>2. files' \in [Dirs -> File]
    BY <2>1, SchemaApplyAssumption DEF Typed
  <2>3. TypeOK'
    BY <2>1 DEF Typed, TypeOK
  <2> QED BY <2>1, <2>2, <2>3 DEF Typed, Planned
<1>4. ASSUME NEW r \in Requests, Start(r) PROVE Typed'
  BY <1>4, StartTyped
<1>5. CASE Decline \/ Keep \/ Accept \/ TargetFails
  BY <1>5, PlanTyped
<1>6. CASE Resolve \/ Infer \/ EndPlan \/ Gate \/ Preflight
  BY <1>6, ResolveTyped, InferTyped, VerdictTyped
<1>7. ASSUME NEW d \in Dirs, Write(d) \/ WriteFails(d) PROVE Typed'
  BY <1>7, WrittenTyped
<1> QED BY <1>1, <1>2, <1>3, <1>4, <1>5, <1>6, <1>7 DEF Next

\* The state is well formed, whatever the tree and the report: what is planned
\* parses and is about directories of the project (the .stem that an analyze
\* report amends included), only planned actions are published, and a .stem is
\* written only when none of a directory above it waits (sortedSchemaApplyBatch).
THEOREM TypeCorrect == Spec => []TypeOK
<1>1. IInv /\ Typed => TypeOK
  BY DEF Typed
<1>2. Init => IInv /\ Typed
  BY InitIInv, InitTyped
<1>3. IInv /\ Typed /\ [Next]_vars => IInv' /\ Typed'
  BY NextIInv, NextTyped
<1> QED BY <1>1, <1>2, <1>3, PTL DEF Spec

(***************************************************************************)
(* A chain of declarations, level by level (MergeStemFiles).               *)
(***************************************************************************)
AddedTo(rules, stem) == IF stem \in {None, Bad} THEN rules ELSE MergeStem(rules, stem)

\* f[n] is what the first n levels merge to.
Merges(f, s, m) == f = [n \in 0..m |-> IF n = 0 THEN EmptyStem ELSE AddedTo(f[n - 1], s[n])]

LEMMA MergeExists ==
    ASSUME NEW s, NEW m \in Nat
    PROVE  \E f : Merges(f, s, m)
<1> DEFINE S == {k \in 0..m : \E f : Merges(f, s, k)}
<1>1. 0 \in S
  <2> DEFINE f == [n \in 0..0 |-> EmptyStem]
  <2>1. Merges(f, s, 0)
    BY DEF Merges
  <2> QED BY <2>1
<1>2. ASSUME NEW k \in 0..m, k < m, k \in S PROVE k + 1 \in S
  <2>1. PICK f : Merges(f, s, k)
    BY <1>2
  <2> DEFINE g == [n \in 0..(k + 1) |-> IF n <= k THEN f[n] ELSE AddedTo(f[k], s[k + 1])]
  <2>2. \A n \in 0..k : g[n] = f[n] /\ f[n] = IF n = 0 THEN EmptyStem ELSE AddedTo(f[n - 1], s[n])
    BY <2>1 DEF Merges
  <2>3. \A n \in 0..(k + 1) : n # 0 => n - 1 \in 0..k /\ g[n - 1] = f[n - 1]
    BY <2>2
  <2>4. \A n \in 0..(k + 1) : g[n] = IF n = 0 THEN EmptyStem ELSE AddedTo(g[n - 1], s[n])
    <3> SUFFICES ASSUME NEW n \in 0..(k + 1)
                 PROVE  g[n] = IF n = 0 THEN EmptyStem ELSE AddedTo(g[n - 1], s[n])
      OBVIOUS
    <3>1. CASE n \in 0..k
      BY <2>2, <2>3, <3>1
    <3>2. CASE n = k + 1
      <4>1. n # 0 /\ n - 1 = k /\ ~(n <= k) /\ g[n] = AddedTo(f[k], s[k + 1]) /\ g[k] = f[k]
        BY <3>2
      <4> QED BY <3>2, <4>1
    <3> QED BY <3>1, <3>2
  <2>5. DOMAIN g = 0..(k + 1) /\ g = [n \in 0..(k + 1) |-> g[n]]
    OBVIOUS
  <2> HIDE DEF g
  <2>6. Merges(g, s, k + 1)
    BY <2>4, <2>5 DEF Merges
  <2>7. k + 1 \in 0..m
    BY <1>2
  <2> QED BY <2>6, <2>7
<1> HIDE DEF S
<1>3. m \in S
  BY <1>1, <1>2, IntervalInduction
<1> QED BY <1>3 DEF S

LEMMA MergeIs ==
    ASSUME NEW s, Len(s) \in Nat
    PROVE  /\ MergeStemFiles(s)[0] = EmptyStem
           /\ \A n \in 1..Len(s) : MergeStemFiles(s)[n] = AddedTo(MergeStemFiles(s)[n - 1], s[n])
<1> DEFINE f == MergeStemFiles(s)
<1>1. f = CHOOSE g : Merges(g, s, Len(s))
  BY DEF MergeStemFiles, Merges, AddedTo
<1>2. Merges(f, s, Len(s))
  BY <1>1, MergeExists
<1> HIDE DEF f
<1>3. f[0] = EmptyStem /\ \A n \in 1..Len(s) : f[n] = AddedTo(f[n - 1], s[n])
  <2>1. \A n \in 0..Len(s) : f[n] = IF n = 0 THEN EmptyStem ELSE AddedTo(f[n - 1], s[n])
    BY <1>2 DEF Merges
  <2> QED BY <2>1
<1> QED BY <1>3 DEF f

KnownRules == {rule \in Rules : rule.rule # "unknown"}

\* Rules as a merge has them: no field is declared null, no rule is unknown.
Ruling(x) ==
    /\ \E F \in SUBSET Fields : x.schema \in [F -> Declarations]
    /\ x.validate \in SUBSET KnownRules
    /\ x.structural \in Structural

LEMMA ParsedFieldIs ==
    ASSUME NEW d \in Declarations
    PROVE  ParsedField(d) \in Declarations
<1> DEFINE e == [d EXCEPT !.required = d.required \/ d.requiredMatch # None]
<1>1. e \in Declarations
  BY DEF Declarations
<1> HIDE DEF e
<1>2. WithSeverity(e) \in Declarations
  BY <1>1 DEF WithSeverity, Declarations, Severities
<1> QED BY <1>2 DEF ParsedField, e

LEMMA StemIsRuling ==
    ASSUME NEW file \in Stems, Parses(file)
    PROVE  Ruling(ParseStem(file))
<1> DEFINE schema == [f \in DOMAIN file.schema |-> ParsedField(file.schema[f])]
           rules  == {WithSeverity(r) : r \in file.validate}
           stem   == [file EXCEPT !.schema = schema, !.validate = rules]
<1>1. ParseStem(file) = stem
  BY DEF ParseStem
<1>2. PICK F \in SUBSET Fields : file.schema \in [F -> Declarations \cup {None}]
  BY DEF Stems
<1>3. schema \in [F -> Declarations]
  <2>1. \A f \in F : file.schema[f] \in Declarations
    BY <1>2 DEF Parses
  <2>2. DOMAIN file.schema = F
    BY <1>2
  <2> QED BY <2>1, <2>2, ParsedFieldIs
<1>4. rules \in SUBSET KnownRules
  <2>1. file.validate \subseteq KnownRules
    BY DEF Stems, Parses, KnownRules
  <2>2. ASSUME NEW r \in KnownRules PROVE WithSeverity(r) \in KnownRules
    <3>1. WithSeverity(r) \in Rules /\ WithSeverity(r).rule = r.rule
      BY DEF WithSeverity, Rules, Severities, KnownRules
    <3> QED BY <3>1 DEF KnownRules
  <2> QED BY <2>1, <2>2
<1> HIDE DEF schema, rules
<1>5. stem.schema = schema /\ stem.validate = rules /\ stem.structural \in Structural
  BY DEF Stems
<1> QED BY <1>1, <1>3, <1>4, <1>5 DEF Ruling

LEMMA FieldMergeIs ==
    ASSUME NEW parent \in Declarations, NEW child \in Declarations
    PROVE  MergeField(parent, child) \in Declarations
<1>1. PICK source, severity :
         /\ source   = IF child.source = "inherit" THEN parent.source ELSE child.source
         /\ severity = IF Looser(child.severity, parent.severity) THEN parent.severity ELSE child.severity
  OBVIOUS
<1>2. MergeField(parent, child) = [child EXCEPT !.source = source, !.severity = severity]
  BY <1>1 DEF MergeField
<1>3. source \in Selectors \cup {"inherit", "none"} /\ severity \in Severities
  BY <1>1 DEF Declarations
<1> QED BY <1>2, <1>3 DEF Declarations

LEMMA EmptyIsRuling == Ruling(EmptyStem)
<1>1. EmptyStem.schema \in [{} -> Declarations] /\ {} \in SUBSET Fields
  BY DEF EmptyStem
<1>2. EmptyStem.validate = {} /\ EmptyStem.structural \in Structural
  BY DEF EmptyStem, NoStructure, Structural
<1> QED BY <1>1, <1>2 DEF Ruling

\* The merge of a level, attribute by attribute (MergeStemFiles).
LEMMA MergeStemIs ==
    ASSUME NEW above, NEW stem
    PROVE  LET below == MergeStem(above, stem)
           IN  /\ below.schema = MergeSchema(above.schema, stem.schema)
               /\ below.validate = above.validate \cup stem.validate
               /\ below.aggregate = above.aggregate \cup stem.aggregate
               /\ below.allowed = IF stem.allowed = {} THEN above.allowed ELSE stem.allowed
               /\ below.structural = IF stem.structural = NoStructure THEN above.structural
                                                                      ELSE stem.structural
BY DEF MergeStem

LEMMA MergedSchemaIs ==
    ASSUME NEW F \in SUBSET Fields, NEW G \in SUBSET Fields,
           NEW a \in [F -> Declarations], NEW b \in [G -> Declarations]
    PROVE  MergeSchema(a, b) \in [F \cup G -> Declarations]
<1> DEFINE m == MergeSchema(a, b)
<1>1. m = [f \in F \cup G |-> IF f \notin G THEN a[f] ELSE IF f \notin F THEN b[f] ELSE MergeField(a[f], b[f])]
  BY DEF MergeSchema
<1>2. \A f \in F \cup G : (IF f \notin G THEN a[f] ELSE IF f \notin F THEN b[f] ELSE MergeField(a[f], b[f]))
                             \in Declarations
  <2> SUFFICES ASSUME NEW f \in F \cup G, f \in F, f \in G PROVE MergeField(a[f], b[f]) \in Declarations
    OBVIOUS
  <2> QED BY FieldMergeIs
<1> HIDE DEF m
<1> QED BY <1>1, <1>2 DEF m

LEMMA MergeIsRuling ==
    ASSUME NEW above, NEW stem, Ruling(above), Ruling(stem)
    PROVE  Ruling(MergeStem(above, stem))
<1>1. PICK F \in SUBSET Fields : above.schema \in [F -> Declarations]
  BY DEF Ruling
<1>2. PICK G \in SUBSET Fields : stem.schema \in [G -> Declarations]
  BY DEF Ruling
<1>3. MergeSchema(above.schema, stem.schema) \in [F \cup G -> Declarations] /\ F \cup G \in SUBSET Fields
  BY <1>1, <1>2, MergedSchemaIs
<1>4. PICK below : below = MergeStem(above, stem)
  OBVIOUS
<1>5. /\ below.schema = MergeSchema(above.schema, stem.schema)
      /\ below.validate = above.validate \cup stem.validate
      /\ below.structural \in {above.structural, stem.structural}
  BY <1>4, MergeStemIs
<1> QED BY <1>3, <1>4, <1>5 DEF Ruling

\* Every field is one that the gate compares in full.
AllPlain(x) == \A f \in Fields : f \in DOMAIN x.schema => Plain(x.schema[f])

\* Such rules mean the same for every record (FilterSchemaByMatch).
LEMMA PlainIsForAll ==
    ASSUME NEW x, Ruling(x), AllPlain(x), NEW r
    PROVE  FilterSchemaByMatch(x.schema, r) = x.schema
<1>1. PICK F \in SUBSET Fields : x.schema \in [F -> Declarations]
  BY DEF Ruling
<1>2. ASSUME NEW f \in F PROVE Applies(x.schema[f], r) /\ Resolved(x.schema[f], r) = x.schema[f]
  <2>1. x.schema[f] \in Declarations /\ Plain(x.schema[f])
    BY <1>1 DEF AllPlain
  <2> QED BY <2>1 DEF Plain, Applies, Resolved, Declarations
<1>3. {g \in DOMAIN x.schema : Applies(x.schema[g], r)} = F
  BY <1>1, <1>2
<1>4. FilterSchemaByMatch(x.schema, r) = [f \in F |-> Resolved(x.schema[f], r)]
  BY <1>3 DEF FilterSchemaByMatch
<1>5. x.schema = [f \in F |-> x.schema[f]]
  BY <1>1
<1> QED BY <1>2, <1>4, <1>5

\* One level that is judged and only narrows.
NarrowedBy(above, stem) ==
    /\ Ruling(above) /\ Ruling(stem)
    /\ InvalidFields(stem) = {} /\ ~Loosens(above, stem)
    /\ OnlyNarrows(above, MergeStem(above, stem))

\* What becomes of a field there: it stays, or its declaration is compatible.
LEMMA FieldBelow ==
    ASSUME NEW above, NEW stem, NarrowedBy(above, stem), NEW f \in DOMAIN above.schema
    PROVE  LET below == MergeStem(above, stem)
           IN  /\ f \in Fields /\ f \in DOMAIN below.schema
               /\ above.schema[f] \in Declarations /\ Plain(above.schema[f]) /\ Plain(below.schema[f])
               /\ \/ below.schema[f] = above.schema[f]
                  \/ \E child \in Declarations :
                        /\ below.schema[f] = MergeField(above.schema[f], child)
                        /\ ValidDeclaration(child) /\ ~Incompatible(above.schema[f], child)
<1>1. PICK F \in SUBSET Fields : above.schema \in [F -> Declarations]
  BY DEF NarrowedBy, Ruling
<1>2. PICK G \in SUBSET Fields : stem.schema \in [G -> Declarations]
  BY DEF NarrowedBy, Ruling
<1>3. PICK below : below = MergeStem(above, stem)
  OBVIOUS
<1>4. /\ DOMAIN below.schema = F \cup G /\ f \in F
      /\ below.schema[f] = IF f \notin G THEN above.schema[f] ELSE MergeField(above.schema[f], stem.schema[f])
  <2>1. below.schema = MergeSchema(above.schema, stem.schema)
    BY <1>3, MergeStemIs
  <2> QED BY <1>1, <1>2, <2>1 DEF MergeSchema
<1>5. f \in Fields /\ Plain(above.schema[f]) /\ Plain(below.schema[f])
  BY <1>1, <1>3, <1>4 DEF NarrowedBy, OnlyNarrows
<1>6. f \in G => /\ stem.schema[f] \in Declarations /\ ValidDeclaration(stem.schema[f])
                 /\ ~Incompatible(above.schema[f], stem.schema[f])
  <2> SUFFICES ASSUME f \in G
               PROVE  /\ stem.schema[f] \in Declarations /\ ValidDeclaration(stem.schema[f])
                      /\ ~Incompatible(above.schema[f], stem.schema[f])
    OBVIOUS
  <2>1. f \notin InvalidFields(stem) /\ f \in DOMAIN stem.schema
    BY <1>2 DEF NarrowedBy
  <2>2. ValidDeclaration(stem.schema[f])
    BY <2>1 DEF InvalidFields
  <2>3. ~Incompatible(above.schema[f], stem.schema[f])
    BY <2>1 DEF NarrowedBy, Loosens
  <2> QED BY <1>2, <2>2, <2>3
<1>7. above.schema[f] \in Declarations
  BY <1>1
<1> QED BY <1>3, <1>4, <1>5, <1>6, <1>7

\* It reads the same value, rejects what it rejected, and admits no new value.
LEMMA FieldKeeps ==
    ASSUME NEW above, NEW stem, NarrowedBy(above, stem), NEW f \in DOMAIN above.schema,
           NEW r \in Records, NEW aggregated \in BOOLEAN
    PROVE  LET d == above.schema[f]
               e == MergeStem(above, stem).schema[f]
           IN  /\ FieldValue(r, f, e) = FieldValue(r, f, d)
               /\ RejectsField(d, aggregated, r, f) => RejectsField(e, aggregated, r, f)
               /\ d.values # {} => e.values # {} /\ e.values \subseteq d.values
<1>1. PICK d, e : d = above.schema[f] /\ e = MergeStem(above, stem).schema[f]
  OBVIOUS
<1>2. f \in Fields /\ d \in Declarations /\ Plain(d) /\ Plain(e)
  BY <1>1, FieldBelow
<1>3. CASE e = d
  BY <1>1, <1>3
<1>4. CASE e # d
  <2>1. PICK child \in Declarations : /\ e = MergeField(d, child)
                                      /\ ValidDeclaration(child) /\ ~Incompatible(d, child)
    BY <1>1, <1>4, FieldBelow
  <2>2. FieldValue(r, f, e) = FieldValue(r, f, d)
    BY <1>2, <2>1, CompatibleSourceReadsSame DEF Incompatible
  <2>3. /\ e.type = child.type /\ e.values = child.values /\ e.requiredMatch = child.requiredMatch
        /\ e.excludes = child.excludes
        /\ e.severity = IF Looser(child.severity, d.severity) THEN d.severity ELSE child.severity
    BY <2>1 DEF MergeField, Declarations
  <2>4. d.type = child.type \/ (d.type = "string" /\ child.type = "enum")
    BY <2>1 DEF Incompatible, TypeIncompatible
  <2>5. ValidDeclaration(d)
    BY <1>2, <2>1, <2>4 DEF Plain, ValidDeclaration
  <2>6. Known(d.severity)
    BY <1>2 DEF Plain, Known, Strictness
  <2>7. Unconditional(child)
    <3>1. Known(child.severity)
      <4>1. CASE Looser(child.severity, d.severity)
        BY <4>1 DEF Looser
      <4>2. CASE ~Looser(child.severity, d.severity)
        BY <1>2, <2>3, <4>2 DEF Plain, Known, Strictness
      <4> QED BY <4>1, <4>2
    <3> QED BY <1>2, <2>3, <3>1 DEF Plain, Unconditional
  <2>8. RejectsField(d, aggregated, r, f) => RejectsField(e, aggregated, r, f)
    BY <1>2, <2>1, <2>5, <2>6, <2>7, CompatibleFieldKeepsRejecting
  <2>9. d.values # {} => e.values # {} /\ e.values \subseteq d.values
    <3> SUFFICES ASSUME d.values # {} PROVE e.values # {} /\ e.values \subseteq d.values
      OBVIOUS
    <3>1. d.type = "enum" /\ child.type = "enum"
      BY <1>2, <2>4 DEF Plain
    <3>2. child.values # {}
      BY <2>1, <3>1 DEF ValidDeclaration
    <3> QED BY <2>1, <2>3, <3>1, <3>2 DEF Incompatible, ValuesIncompatible
  <2> QED BY <1>1, <2>2, <2>8, <2>9
<1> QED BY <1>3, <1>4

\* A rule that fails on what the rules above say of its fields, fails below.
LEMMA RuleKeepsFailing ==
    ASSUME NEW above, NEW stem, NarrowedBy(above, stem), NEW r \in Records,
           NEW rule \in above.validate, RuleFails(above.schema, r, rule)
    PROVE  RuleFails(MergeStem(above, stem).schema, r, rule)
<1>1. PICK below : below = MergeStem(above, stem)
  OBVIOUS
<1>2. RuleFields(rule) \subseteq DOMAIN above.schema
  BY DEF NarrowedBy, OnlyNarrows
<1>3. \A f \in DOMAIN above.schema : RuleValue(below.schema, r, f) = RuleValue(above.schema, r, f)
  <2> SUFFICES ASSUME NEW f \in DOMAIN above.schema
               PROVE  RuleValue(below.schema, r, f) = RuleValue(above.schema, r, f)
    OBVIOUS
  <2>1. f \in DOMAIN below.schema
    BY <1>1, FieldBelow
  <2>2. FieldValue(r, f, below.schema[f]) = FieldValue(r, f, above.schema[f])
    BY <1>1, FieldKeeps
  <2> QED BY <2>1, <2>2 DEF RuleValue
<1>4. rule.field \in DOMAIN above.schema
  BY <1>2 DEF RuleFields
<1>5. RuleValue(below.schema, r, rule.field) = RuleValue(above.schema, r, rule.field)
  BY <1>3, <1>4
<1>6. Condition(below.schema, r, rule.when) = Condition(above.schema, r, rule.when)
  <2>1. CASE rule.when = None
    BY <2>1 DEF Condition
  <2>2. CASE rule.when # None
    <3>1. rule.when[1] \in DOMAIN above.schema
      BY <1>2, <2>2 DEF RuleFields
    <3> QED BY <1>3, <3>1 DEF Condition
  <2> QED BY <2>1, <2>2
<1>7. PICK a, b, f : a = above.schema /\ b = below.schema /\ f = rule.field
  OBVIOUS
<1>8. /\ f \in DOMAIN b
      /\ a[f].values # {} => b[f].values # {} /\ b[f].values \subseteq a[f].values
  <2>1. f \in DOMAIN above.schema
    BY <1>4, <1>7
  <2>2. f \in DOMAIN below.schema
    BY <1>1, <2>1, FieldBelow
  <2>3. above.schema[f].values # {} => below.schema[f].values # {} /\ below.schema[f].values \subseteq above.schema[f].values
    BY <1>1, <2>1, FieldKeeps
  <2> QED BY <1>7, <2>2, <2>3
<1>9. PICK v, c : v = RuleValue(a, r, f) /\ c = Condition(a, r, rule.when)
  OBVIOUS
<1>10. /\ v = RuleValue(b, r, f) /\ c = Condition(b, r, rule.when)
  BY <1>5, <1>6, <1>7, <1>9
<1>11. RuleFails(b, r, rule)
  <2>1. RuleFails(a, r, rule)
    BY <1>7
  <2>2. CASE rule.rule = "exists"
    BY <1>7, <1>9, <1>10, <2>1, <2>2 DEF RuleFails
  <2>3. CASE rule.rule = "non_empty"
    BY <1>7, <1>9, <1>10, <2>1, <2>3 DEF RuleFails
  <2>4. CASE rule.rule = "enum"
    <3>1. a[f].values # {} /\ v # None /\ (v \in {None, Garbage} \/ v.text \notin a[f].values)
      BY <1>7, <1>9, <2>1, <2>4 DEF RuleFails
    <3>2. b[f].values # {} /\ v # None /\ (v \in {None, Garbage} \/ v.text \notin b[f].values)
      BY <1>8, <3>1
    <3> QED BY <1>7, <1>8, <1>10, <2>4, <3>2 DEF RuleFails
  <2>5. CASE rule.rule = "requires"
    BY <1>7, <1>9, <1>10, <2>1, <2>5 DEF RuleFails
  <2>6. rule.rule \in {"exists", "non_empty", "enum", "requires"}
    BY DEF NarrowedBy, Ruling, KnownRules, Rules, RuleNames
  <2> QED BY <2>2, <2>3, <2>4, <2>5, <2>6
<1> QED BY <1>1, <1>7, <1>11

\* A failure on a field that keeps rules on it from being reported.
Conceals(x, r, rule) ==
    /\ rule.rule # "requires" /\ rule.field \in DOMAIN x.schema
    /\ FieldVerdict(x.schema[rule.field], rule.field \in x.aggregate, r, rule.field) \in {"source", "contract"}

\* What rejects a record, where every field is plain.
RejectedBy(x, r) ==
    \/ \E f \in DOMAIN x.schema : RejectsField(x.schema[f], f \in x.aggregate, r, f)
    \/ \E rule \in x.validate : Rejecting(rule.severity) /\ ~Conceals(x, r, rule) /\ RuleFails(x.schema, r, rule)
    \/ x.allowed # {} /\ ~(r.links \subseteq x.allowed)

LEMMA RejectedIs ==
    ASSUME NEW x, Ruling(x), AllPlain(x), NEW r
    PROVE  Rejected(x, r) <=> RejectedBy(x, r)
<1>1. FilterSchemaByMatch(x.schema, r) = x.schema
  BY PlainIsForAll
<1> QED BY <1>1, Zenon DEF Rejected, RejectedBy, Conceals, RejectsField

\* One level of narrowing, for a whole record.
LEMMA NarrowedKeepsRejecting ==
    ASSUME NEW above, NEW stem, NarrowedBy(above, stem), NEW r \in Records, Rejected(above, r)
    PROVE  Rejected(MergeStem(above, stem), r)
<1>1. PICK below : below = MergeStem(above, stem)
  OBVIOUS
<1>2. Ruling(below)
  BY <1>1, MergeIsRuling DEF NarrowedBy
<1>3. AllPlain(above) /\ AllPlain(below)
  BY <1>1 DEF NarrowedBy, OnlyNarrows, AllPlain
<1>4. RejectedBy(above, r)
  BY <1>3, RejectedIs DEF NarrowedBy
<1>5. /\ below.validate = above.validate \cup stem.validate
      /\ below.aggregate = above.aggregate
      /\ above.allowed # {} => below.allowed # {} /\ below.allowed \subseteq above.allowed
  <2>1. /\ below.validate = above.validate \cup stem.validate
        /\ below.aggregate = above.aggregate \cup stem.aggregate
        /\ below.allowed = IF stem.allowed = {} THEN above.allowed ELSE stem.allowed
    BY <1>1, MergeStemIs
  <2>2. /\ below.aggregate \subseteq above.aggregate
        /\ above.allowed # {} => below.allowed \subseteq above.allowed
    BY <1>1 DEF NarrowedBy, OnlyNarrows
  <2> QED BY <2>1, <2>2
<1>6. \A f \in DOMAIN above.schema : f \in Fields /\ f \in DOMAIN below.schema /\ Plain(below.schema[f])
  BY <1>1, FieldBelow
<1>7. CASE \E f \in DOMAIN above.schema : RejectsField(above.schema[f], f \in above.aggregate, r, f)
  <2>1. PICK f \in DOMAIN above.schema : RejectsField(above.schema[f], f \in above.aggregate, r, f)
    BY <1>7
  <2>2. PICK aggregated \in BOOLEAN : aggregated = (f \in above.aggregate)
    <3>1. CASE f \in above.aggregate
      <4>1. TRUE \in BOOLEAN /\ TRUE = (f \in above.aggregate)
        BY <3>1
      <4> QED BY <4>1
    <3>2. CASE f \notin above.aggregate
      <4>1. FALSE \in BOOLEAN /\ FALSE = (f \in above.aggregate)
        BY <3>2
      <4> QED BY <4>1
    <3> QED BY <3>1, <3>2
  <2>3. RejectsField(above.schema[f], aggregated, r, f)
    BY <2>1, <2>2
  <2>4. RejectsField(below.schema[f], aggregated, r, f)
    BY <1>1, <2>3, FieldKeeps
  <2>5. RejectsField(below.schema[f], f \in below.aggregate, r, f)
    BY <1>5, <2>2, <2>4
  <2> QED BY <1>1, <1>2, <1>3, <1>6, <2>5, RejectedIs DEF RejectedBy
<1>8. CASE \E rule \in above.validate : /\ Rejecting(rule.severity) /\ ~Conceals(above, r, rule)
                                        /\ RuleFails(above.schema, r, rule)
  <2>1. PICK rule \in above.validate : Rejecting(rule.severity) /\ RuleFails(above.schema, r, rule)
    BY <1>8
  <2>2. rule \in below.validate /\ RuleFails(below.schema, r, rule)
    BY <1>1, <1>5, <2>1, RuleKeepsFailing
  <2>3. CASE ~Conceals(below, r, rule)
    BY <1>1, <1>2, <1>3, <2>1, <2>2, <2>3, RejectedIs DEF RejectedBy
  <2>4. CASE Conceals(below, r, rule)
    <3>1. PICK f : f = rule.field
      OBVIOUS
    <3>2. /\ f \in DOMAIN below.schema
          /\ FieldVerdict(below.schema[f], f \in below.aggregate, r, f) \in {"source", "contract"}
      BY <2>4, <3>1 DEF Conceals
    <3>3. Plain(below.schema[f])
      <4>1. PICK F \in SUBSET Fields : below.schema \in [F -> Declarations]
        BY <1>2 DEF Ruling
      <4> QED BY <1>3, <3>2, <4>1 DEF AllPlain
    <3>4. below.schema[f].severity # "off"
      BY <3>2 DEF FieldVerdict
    <3>5. Rejecting(below.schema[f].severity)
      BY <3>3, <3>4 DEF Plain, Rejecting
    <3>6. RejectsField(below.schema[f], f \in below.aggregate, r, f)
      BY <3>2, <3>5 DEF RejectsField
    <3> QED BY <1>1, <1>2, <1>3, <3>2, <3>6, RejectedIs DEF RejectedBy
  <2> QED BY <2>3, <2>4
<1>9. CASE above.allowed # {} /\ ~(r.links \subseteq above.allowed)
  <2>1. below.allowed # {} /\ ~(r.links \subseteq below.allowed)
    BY <1>5, <1>9
  <2> QED BY <1>1, <1>2, <1>3, <2>1, RejectedIs DEF RejectedBy
<1> QED BY <1>4, <1>7, <1>8, <1>9 DEF RejectedBy

\* The same for the shape of a directory (validateMonotonicStructural).
LEMMA NarrowedKeepsStructure ==
    ASSUME NEW above, NEW stem, NarrowedBy(above, stem), NEW c \in Nat, NEW i \in Nat,
           StructureFails(above.structural, c, i)
    PROVE  StructureFails(MergeStem(above, stem).structural, c, i)
<1>1. PICK a, b, s : /\ a = above.structural /\ s = stem.structural
                     /\ b = MergeStem(above, stem).structural
  OBVIOUS
<1>2. a \in Structural /\ s \in Structural
  BY <1>1 DEF NarrowedBy, Ruling
<1>3. b = IF s = NoStructure THEN a ELSE s
  BY <1>1, MergeStemIs
<1>4. ~StructureLoosened(a, s)
  BY <1>1 DEF NarrowedBy, Loosens
<1>5. (a.min > 0 => b.min > 0) /\ (a.max > 0 => b.max > 0) /\ (a.index => b.index)
  BY <1>1 DEF NarrowedBy, OnlyNarrows
<1>6. StructureFails(a, c, i)
  BY <1>1
<1>7. a.min \in Nat /\ a.max \in Nat /\ s.min \in Nat /\ s.max \in Nat
  BY <1>2 DEF Structural
<1>8. StructureFails(b, c, i)
  <2>1. CASE b = a
    BY <1>6, <2>1
  <2>2. CASE b = s
    <3>1. CASE a.min > 0 /\ c < a.min
      BY <1>4, <1>5, <1>7, <2>2, <3>1 DEF StructureFails, StructureLoosened
    <3>2. CASE a.max > 0 /\ c > a.max
      BY <1>4, <1>5, <1>7, <2>2, <3>2 DEF StructureFails, StructureLoosened
    <3>3. CASE a.index /\ i < c
      BY <1>5, <2>2, <3>3 DEF StructureFails
    <3> QED BY <1>6, <3>1, <3>2, <3>3 DEF StructureFails
  <2> QED BY <1>3, <2>1, <2>2
<1> QED BY <1>1, <1>8

(***************************************************************************)
(* The walk from a directory to the boundary (WalkUp, StemState.Chain).    *)
(***************************************************************************)
LEMMA BoundaryIs ==
    ASSUME NEW stems, NEW dir \in Dirs
    PROVE  LET b == Boundary(stems, dir)
           IN  /\ b \in 0..Len(dir) /\ (b # 0 => Marker(stems, Up(dir, b)))
               /\ \A n \in 0..Len(dir) : Marker(stems, Up(dir, n)) => n <= b
<1> DEFINE T == {0} \cup {n \in 0..Len(dir) : Marker(stems, Up(dir, n))}
           b == Boundary(stems, dir)
<1>1. Len(dir) \in Nat
  BY UpIs
<1>2. T \in SUBSET (0..Len(dir)) /\ T # {} /\ b = Max(T)
  BY <1>1 DEF Boundary
<1>3. b \in T /\ \A n \in T : n <= b
  <2> HIDE DEF T, b
  <2>1. \E x \in T : \A y \in T : x >= y
    BY <1>1, <1>2, GreatestNatural
  <2>2. b = CHOOSE x \in T : \A y \in T : x >= y
    BY <1>2 DEF Max
  <2>3. b \in T /\ \A y \in T : b >= y
    BY <2>1, <2>2
  <2> QED BY <1>1, <1>2, <2>3
<1> HIDE DEF b
<1>4. /\ b \in 0..Len(dir) /\ (b # 0 => Marker(stems, Up(dir, b)))
      /\ \A n \in 0..Len(dir) : Marker(stems, Up(dir, n)) => n <= b
  BY <1>1, <1>2, <1>3
<1> QED BY <1>4 DEF b

\* The lowest marker is the boundary.
LEMMA BoundaryAt ==
    ASSUME NEW stems, NEW dir \in Dirs, NEW m \in 0..Len(dir), m # 0 => Marker(stems, Up(dir, m)),
           \A n \in 0..Len(dir) : Marker(stems, Up(dir, n)) => n <= m
    PROVE  Boundary(stems, dir) = m
<1>1. PICK b : b = Boundary(stems, dir)
  OBVIOUS
<1>2. /\ b \in 0..Len(dir) /\ (b # 0 => Marker(stems, Up(dir, b)))
      /\ \A n \in 0..Len(dir) : Marker(stems, Up(dir, n)) => n <= b
  BY <1>1, BoundaryIs
<1>3. Len(dir) \in Nat
  BY UpIs
<1>4. b <= m
  BY <1>2, <1>3
<1>5. m <= b
  BY <1>2, <1>3
<1> QED BY <1>1, <1>2, <1>3, <1>4, <1>5

\* A directory above one, and those above that.
LEMMA UpUp ==
    ASSUME NEW dir \in Dirs, NEW m \in 0..Len(dir), NEW k \in 0..m
    PROVE  Up(Up(dir, m), k) = Up(dir, k)
<1>1. dir \in Seq(ToSet(dir)) /\ Len(dir) \in Nat
  BY StemHierarchyAssumption
<1>2. CASE k = 0
  BY <1>2, SubSeqEmpty DEF Up
<1>3. CASE k # 0
  <2>1. 1 \in 1..Len(dir) /\ m \in 1..Len(dir) /\ 1 \in 1..(m - 1 + 1) /\ k \in 1..(m - 1 + 1)
        /\ 1 + 1 - 1 = 1 /\ 1 + k - 1 = k
    BY <1>1, <1>3
  <2> QED BY <1>1, <2>1, SubSeqOfSubSeq DEF Up
<1> QED BY <1>2, <1>3

LEMMA UpFull ==
    ASSUME NEW dir \in Dirs
    PROVE  Up(dir, Len(dir)) = dir
BY StemHierarchyAssumption, SubSeqFull DEF Up

\* What the walk visits and finds, level by level.
LEMMA ChainIs ==
    ASSUME NEW stems, NEW dir \in Dirs
    PROVE  LET b == Boundary(stems, dir)
           IN  /\ b \in 0..Len(dir) /\ Len(dir) \in Nat
               /\ Len(Chain(stems, dir)) = Len(dir) - b + 1
               /\ Chain(stems, dir) = [i \in 1..(Len(dir) - b + 1) |-> stems[Up(dir, b + i - 1)]]
               /\ \A i \in 1..(Len(dir) - b + 1) : /\ Walked(stems, dir)[i] = Up(dir, b + i - 1)
                                                   /\ Chain(stems, dir)[i] = stems[Up(dir, b + i - 1)]
<1>1. PICK b, m : b = Boundary(stems, dir) /\ m = Len(dir) - b + 1
  OBVIOUS
<1>2. b \in 0..Len(dir) /\ Len(dir) \in Nat /\ m \in Nat
  BY <1>1, BoundaryIs, UpIs
<1>3. Walked(stems, dir) = [i \in 1..m |-> Up(dir, b + i - 1)]
  BY <1>1 DEF Walked
<1>4. Chain(stems, dir) = [i \in 1..m |-> stems[Up(dir, b + i - 1)]]
  BY <1>3 DEF Chain
<1>5. Len(Chain(stems, dir)) = m
  BY <1>2, <1>4
<1>6. \A i \in 1..m : /\ Walked(stems, dir)[i] = Up(dir, b + i - 1)
                      /\ Chain(stems, dir)[i] = stems[Up(dir, b + i - 1)]
  BY <1>3, <1>4
<1> QED BY <1>1, <1>2, <1>4, <1>5, <1>6

\* A directory of the walk is walked to through the same levels.
LEMMA WalkOfWalked ==
    ASSUME NEW stems, NEW dir \in Dirs, NEW n \in 1..Len(Chain(stems, dir))
    PROVE  LET e == Walked(stems, dir)[n]
           IN  /\ e \in Dirs /\ Boundary(stems, e) = Boundary(stems, dir)
               /\ stems[e] = Chain(stems, dir)[n]
               /\ Len(Chain(stems, e)) = n
               /\ \A k \in 1..n : Chain(stems, e)[k] = Chain(stems, dir)[k]
<1>1. PICK b, e, len : b = Boundary(stems, dir) /\ e = Walked(stems, dir)[n] /\ len = Len(dir)
  OBVIOUS
<1>2. b \in 0..len /\ len \in Nat /\ n \in 1..(len - b + 1) /\ e = Up(dir, b + n - 1)
      /\ stems[e] = Chain(stems, dir)[n]
  <2>1. b \in 0..len /\ len \in Nat /\ Len(Chain(stems, dir)) = len - b + 1
    BY <1>1, ChainIs
  <2>2. n \in 1..(len - b + 1)
    BY <2>1
  <2>3. Walked(stems, dir)[n] = Up(dir, b + n - 1) /\ Chain(stems, dir)[n] = stems[Up(dir, b + n - 1)]
    BY <1>1, <2>2, ChainIs
  <2> QED BY <1>1, <2>1, <2>2, <2>3
<1>3. PICK m : m = b + n - 1
  OBVIOUS
<1>4. m \in 0..len /\ b \in 0..m /\ m - b + 1 = n
  BY <1>2, <1>3
<1>5. e \in Dirs /\ Len(e) = m
  BY <1>1, <1>2, <1>3, <1>4, UpIs
<1>6. \A k \in 0..m : Up(e, k) = Up(dir, k)
  BY <1>1, <1>2, <1>3, <1>4, UpUp
<1>7. Boundary(stems, e) = b
  <2>1. b # 0 => Marker(stems, Up(e, b))
    BY <1>1, <1>4, <1>6, BoundaryIs
  <2>2. \A k \in 0..len : Marker(stems, Up(dir, k)) => k <= b
    BY <1>1, BoundaryIs
  <2>3. \A k \in 0..m : Marker(stems, Up(e, k)) => k <= b
    BY <1>2, <1>4, <1>6, <2>2
  <2> QED BY <1>4, <1>5, <2>1, <2>3, BoundaryAt
<1>8. /\ Len(Chain(stems, e)) = n
      /\ \A k \in 1..n : Chain(stems, e)[k] = stems[Up(e, b + k - 1)]
  <2>1. Len(e) - Boundary(stems, e) + 1 = n
    BY <1>4, <1>5, <1>7
  <2>2. Len(Chain(stems, e)) = Len(e) - Boundary(stems, e) + 1
    BY <1>5, ChainIs
  <2>3. \A k \in 1..(Len(e) - Boundary(stems, e) + 1) :
            Chain(stems, e)[k] = stems[Up(e, Boundary(stems, e) + k - 1)]
    BY <1>5, ChainIs
  <2> QED BY <1>7, <2>1, <2>2, <2>3
<1>9. \A k \in 1..n : Chain(stems, e)[k] = Chain(stems, dir)[k]
  <2> SUFFICES ASSUME NEW k \in 1..n PROVE Chain(stems, e)[k] = Chain(stems, dir)[k]
    OBVIOUS
  <2>1. b + k - 1 \in 0..m /\ k \in 1..(len - b + 1)
    BY <1>2, <1>4, SMTT(30)
  <2>2. Chain(stems, dir)[k] = stems[Up(dir, b + k - 1)]
    BY <1>1, <2>1, ChainIs
  <2> QED BY <1>6, <1>8, <2>1, <2>2
<1> QED BY <1>1, <1>2, <1>5, <1>7, <1>8, <1>9

LEMMA RulesAtIs ==
    ASSUME NEW stems, NEW dir \in Dirs
    PROVE  /\ Len(Chain(stems, dir)) \in Nat \ {0}
           /\ RulesAt(stems, dir, 0) = EmptyStem
           /\ \A n \in 1..Len(Chain(stems, dir)) :
                 RulesAt(stems, dir, n) = AddedTo(RulesAt(stems, dir, n - 1), Chain(stems, dir)[n])
<1>1. Len(Chain(stems, dir)) \in Nat \ {0}
  <2>1. /\ Boundary(stems, dir) \in 0..Len(dir) /\ Len(dir) \in Nat
        /\ Len(Chain(stems, dir)) = Len(dir) - Boundary(stems, dir) + 1
    BY ChainIs
  <2> QED BY <2>1
<1> QED BY <1>1, MergeIs DEF RulesAt

\* A directory of the walk inherits what the walk had merged before it.
LEMMA InheritedOfWalked ==
    ASSUME NEW stems, NEW dir \in Dirs, NEW n \in 1..Len(Chain(stems, dir))
    PROVE  Inherited(stems, Walked(stems, dir)[n]) = RulesAt(stems, dir, n - 1)
<1>1. PICK e, len : e = Walked(stems, dir)[n] /\ len = Len(Chain(stems, dir))
  OBVIOUS
<1>2. /\ e \in Dirs /\ len \in Nat /\ n \in 1..len /\ Len(Chain(stems, e)) = n
      /\ \A k \in 1..n : Chain(stems, e)[k] = Chain(stems, dir)[k]
  BY <1>1, WalkOfWalked, RulesAtIs
<1> DEFINE S == {k \in 0..n : RulesAt(stems, e, k) = RulesAt(stems, dir, k)}
<1>3. n \in Nat /\ 0 \in 0..n /\ 0 \in S
  <2>1. RulesAt(stems, e, 0) = RulesAt(stems, dir, 0)
    BY <1>2, RulesAtIs
  <2> QED BY <1>2, <2>1
<1>4. ASSUME NEW k \in 0..n, k < n, k \in S PROVE k + 1 \in S
  <2>1. k + 1 \in 1..n /\ k + 1 \in 1..len /\ (k + 1) - 1 = k /\ k + 1 \in 0..n
    BY <1>2, <1>4
  <2>2. RulesAt(stems, e, k + 1) = AddedTo(RulesAt(stems, e, (k + 1) - 1), Chain(stems, e)[k + 1])
    BY <1>2, <2>1, RulesAtIs
  <2>3. RulesAt(stems, dir, k + 1) = AddedTo(RulesAt(stems, dir, (k + 1) - 1), Chain(stems, dir)[k + 1])
    BY <1>1, <2>1, RulesAtIs
  <2>4. RulesAt(stems, e, k) = RulesAt(stems, dir, k)
    BY <1>4
  <2>5. Chain(stems, e)[k + 1] = Chain(stems, dir)[k + 1]
    BY <1>2, <2>1
  <2>6. RulesAt(stems, e, k + 1) = RulesAt(stems, dir, k + 1)
    BY <2>1, <2>2, <2>3, <2>4, <2>5
  <2> QED BY <2>1, <2>6
<1>5. n - 1 \in S
  <2> HIDE DEF S
  <2>1. \A k \in 0..n : k \in S
    BY <1>3, <1>4, IntervalInduction
  <2> QED BY <1>2, <2>1
<1> QED BY <1>1, <1>2, <1>5 DEF Inherited

\* A tree whose files are what they may be, parsed.
Ruled(stems) == \A d \in Dirs : stems[d] \in {None, Bad} \/ Ruling(stems[d])

LEMMA ParsedIs ==
    ASSUME NEW tree \in [Dirs -> File]
    PROVE  Ruled(Parsed(tree))
<1> SUFFICES ASSUME NEW d \in Dirs PROVE Parsed(tree)[d] \in {None, Bad} \/ Ruling(Parsed(tree)[d])
  BY DEF Ruled
<1>1. Parsed(tree)[d] = Load(tree[d])
  BY DEF Parsed
<1>2. CASE tree[d] = None
  BY <1>1, <1>2 DEF Load
<1>3. CASE tree[d] # None /\ ~Parses(tree[d])
  BY <1>1, <1>3 DEF Load, ParseStem
<1>4. CASE tree[d] # None /\ Parses(tree[d])
  <2>1. tree[d] \in Stems
    <3>1. tree[d] \in Stems \cup {Garbage, None}
      BY DEF File
    <3> QED BY <1>4, <3>1 DEF Parses
  <2>2. Ruling(ParseStem(tree[d]))
    BY <1>4, <2>1, StemIsRuling
  <2> QED BY <1>1, <1>4, <2>2 DEF Load
<1> QED BY <1>2, <1>3, <1>4

LEMMA RulesAreRuling ==
    ASSUME NEW stems, Ruled(stems), NEW dir \in Dirs
    PROVE  \A n \in 0..Len(Chain(stems, dir)) : Ruling(RulesAt(stems, dir, n))
<1>1. PICK len : len = Len(Chain(stems, dir))
  OBVIOUS
<1>2. len \in Nat
  BY <1>1, RulesAtIs
<1> DEFINE S == {n \in 0..len : Ruling(RulesAt(stems, dir, n))}
<1>3. 0 \in S
  <2>1. Ruling(RulesAt(stems, dir, 0))
    BY RulesAtIs, EmptyIsRuling
  <2> QED BY <1>2, <2>1
<1>4. ASSUME NEW n \in 0..len, n < len, n \in S PROVE n + 1 \in S
  <2>1. n + 1 \in 1..len /\ (n + 1) - 1 = n /\ n + 1 \in 0..len
    BY <1>2, <1>4
  <2>2. RulesAt(stems, dir, n + 1) = AddedTo(RulesAt(stems, dir, n), Chain(stems, dir)[n + 1])
    <3>1. RulesAt(stems, dir, n + 1) = AddedTo(RulesAt(stems, dir, (n + 1) - 1), Chain(stems, dir)[n + 1])
      BY <1>1, <2>1, RulesAtIs
    <3> QED BY <2>1, <3>1
  <2>3. Chain(stems, dir)[n + 1] \in {None, Bad} \/ Ruling(Chain(stems, dir)[n + 1])
    <3>1. /\ Walked(stems, dir)[n + 1] \in Dirs
          /\ stems[Walked(stems, dir)[n + 1]] = Chain(stems, dir)[n + 1]
      BY <1>1, <2>1, WalkOfWalked
    <3> QED BY <3>1 DEF Ruled
  <2>4. Ruling(RulesAt(stems, dir, n))
    BY <1>4
  <2>5. Ruling(RulesAt(stems, dir, n + 1))
    BY <2>2, <2>3, <2>4, MergeIsRuling DEF AddedTo
  <2> QED BY <2>1, <2>5
<1> HIDE DEF S
<1>5. \A n \in 0..len : n \in S
  BY <1>2, <1>3, <1>4, IntervalInduction
<1> QED BY <1>1, <1>5 DEF S

\* A .stem that parses has no errors (EvaluateStemState).
Healthy(stems, e) == InvalidFields(stems[e]) = {} /\ ~Loosens(Inherited(stems, e), stems[e])

\* Along the walk, a level where only judged .stem files without errors narrow
\* passes on what it rejects.
LEMMA HealthyTreeKeeps ==
    ASSUME NEW stems, Ruled(stems), NEW judged,
           \A e \in judged : e \in Dirs /\ stems[e] \notin {None, Bad} => Healthy(stems, e),
           NEW dir \in Dirs, NEW records \in SUBSET Records, NEW counts \in SUBSET Nat
    PROVE  KeepsGuarantees(stems, dir, judged, records, counts)
<1>1. PICK len : len = Len(Chain(stems, dir))
  OBVIOUS
<1>2. len \in Nat /\ len # 0
  BY <1>1, RulesAtIs
<1> SUFFICES ASSUME NEW level \in 1..len, NarrowsBelow(stems, dir, level, judged)
             PROVE  /\ \A r \in records : Rejected(RulesAt(stems, dir, level), r) => Rejected(Effective(stems, dir), r)
                    /\ \A c, i \in counts : StructureFails(RulesAt(stems, dir, level).structural, c, i)
                                               => StructureFails(Effective(stems, dir).structural, c, i)
  BY <1>1 DEF KeepsGuarantees
<1> DEFINE Kept(n) ==
              /\ \A r \in records : Rejected(RulesAt(stems, dir, level), r) => Rejected(RulesAt(stems, dir, n), r)
              /\ \A c, i \in counts : StructureFails(RulesAt(stems, dir, level).structural, c, i)
                                         => StructureFails(RulesAt(stems, dir, n).structural, c, i)
           S == {n \in level..len : Kept(n)}
<1>3. level \in S
  BY <1>2
<1>4. ASSUME NEW n \in level..len, n < len, n \in S PROVE n + 1 \in S
  <2>1. n + 1 \in (level + 1)..len /\ n + 1 \in 1..len /\ (n + 1) - 1 = n /\ n + 1 \in level..len /\ n \in 0..len
    BY <1>2, <1>4
  <2>2. PICK above, stem, e : /\ above = RulesAt(stems, dir, n) /\ stem = Chain(stems, dir)[n + 1]
                              /\ e = Walked(stems, dir)[n + 1]
    OBVIOUS
  <2>3. RulesAt(stems, dir, n + 1) = AddedTo(above, stem)
    <3>1. RulesAt(stems, dir, n + 1) = AddedTo(RulesAt(stems, dir, (n + 1) - 1), Chain(stems, dir)[n + 1])
      BY <1>1, <2>1, RulesAtIs
    <3> QED BY <2>1, <2>2, <3>1
  <2>4. Kept(n)
    BY <1>4
  <2>5. CASE stem \in {None, Bad}
    <3>1. RulesAt(stems, dir, n + 1) = RulesAt(stems, dir, n)
      BY <2>2, <2>3, <2>5 DEF AddedTo
    <3>2. Kept(n + 1)
      BY <2>4, <3>1
    <3> HIDE DEF Kept
    <3> QED BY <2>1, <3>2
  <2>6. CASE stem \notin {None, Bad}
    <3>1. RulesAt(stems, dir, n + 1) = MergeStem(above, stem)
      BY <2>3, <2>6 DEF AddedTo
    <3>2. e \in Dirs /\ stems[e] = stem
      BY <1>1, <2>1, <2>2, WalkOfWalked
    <3>3. e \in judged /\ OnlyNarrows(above, MergeStem(above, stem))
      <4>1. /\ Walked(stems, dir)[n + 1] \in judged
            /\ OnlyNarrows(RulesAt(stems, dir, (n + 1) - 1), RulesAt(stems, dir, n + 1))
        BY <1>1, <2>1, <2>2, <2>6 DEF NarrowsBelow
      <4> QED BY <2>1, <2>2, <3>1, <4>1
    <3>4. Inherited(stems, e) = above
      <4>1. Inherited(stems, Walked(stems, dir)[n + 1]) = RulesAt(stems, dir, (n + 1) - 1)
        BY <1>1, <2>1, InheritedOfWalked
      <4> QED BY <2>1, <2>2, <4>1
    <3>5. InvalidFields(stem) = {} /\ ~Loosens(above, stem)
      BY <2>6, <3>2, <3>3, <3>4 DEF Healthy
    <3>6. Ruling(above)
      BY <1>1, <2>1, <2>2, RulesAreRuling
    <3>7. Ruling(stem)
      BY <2>6, <3>2 DEF Ruled
    <3>8. NarrowedBy(above, stem)
      BY <3>3, <3>5, <3>6, <3>7 DEF NarrowedBy
    <3>9. \A r \in records : Rejected(above, r) => Rejected(MergeStem(above, stem), r)
      BY <3>8, NarrowedKeepsRejecting
    <3>10. \A c, i \in counts : StructureFails(above.structural, c, i)
                                   => StructureFails(MergeStem(above, stem).structural, c, i)
      BY <3>8, NarrowedKeepsStructure
    <3>11. Kept(n + 1)
      BY <2>2, <2>4, <3>1, <3>9, <3>10
    <3> HIDE DEF Kept
    <3> QED BY <2>1, <3>11
  <2> QED BY <2>5, <2>6
<1>5. len \in S
  <2> HIDE DEF Kept, S
  <2>1. level \in Nat /\ len \in Nat /\ len \in level..len
    BY <1>2
  <2>2. \A n \in level..len : n < len /\ n \in S => n + 1 \in S
    BY <1>4
  <2>3. \A n \in level..len : n \in S
    BY <1>3, <2>1, <2>2, IntervalInduction
  <2> QED BY <2>1, <2>3
<1>6. Effective(stems, dir) = RulesAt(stems, dir, len)
  BY <1>1 DEF Effective
<1> QED BY <1>5, <1>6

\* Judged from the top, the snapshot is the whole tree.
LEMMA TopSeesAll ==
    ASSUME NEW tree
    PROVE  DiscoverStemState(tree, <<>>).stems = Parsed(tree)
<1>1. ASSUME NEW d \in Dirs PROVE Under(d, <<>>)
  <2>1. Len(d) \in Nat
    BY UpIs
  <2>2. SubSeq(<<>>, 1, 0) = <<>> /\ SubSeq(d, 1, 0) = <<>> /\ Len(<<>>) = 0
    BY SubSeqEmpty
  <2> QED BY <2>1, <2>2 DEF Under, IsPrefix
<1>2. PICK stems : stems = Parsed(tree)
  OBVIOUS
<1>3. stems = [d \in Dirs |-> stems[d]]
  BY <1>2 DEF Parsed
<1>4. DiscoverStemState(tree, <<>>).stems = [d \in Dirs |-> IF Under(d, <<>>) \/ d \in External(stems, <<>>)
                                                          THEN stems[d] ELSE None]
  BY <1>2 DEF DiscoverStemState
<1>5. [d \in Dirs |-> IF Under(d, <<>>) \/ d \in External(stems, <<>>) THEN stems[d] ELSE None]
         = [d \in Dirs |-> stems[d]]
  BY <1>1
<1> QED BY <1>2, <1>3, <1>4, <1>5

\* Where every judged .stem is without errors, narrowing keeps the guarantees.
LEMMA HealthyMeansNarrowing == Typed /\ CompleteMeansHealthy => NarrowingKeepsGuarantees
<1> SUFFICES ASSUME Typed, CompleteMeansHealthy, WroteUndisturbed, NEW d \in Governed
             PROVE  KeepsGuarantees(Parsed(files), d, Governed, Samples, 0..3)
  BY DEF NarrowingKeepsGuarantees
<1>1. PICK stems : stems = Parsed(files)
  OBVIOUS
<1>2. Ruled(stems)
  BY <1>1, ParsedIs DEF Typed
<1>3. Governed \subseteq Dirs
  BY DEF Governed, Targets, Typed, Planned
<1>4. ASSUME NEW e \in Governed, stems[e] \notin {None, Bad} PROVE Healthy(stems, e)
  <2>1. PICK state : state = DiscoverStemState(files, <<>>)
    OBVIOUS
  <2>2. state.stems = stems
    BY <1>1, <2>1, TopSeesAll
  <2>3. files[e] # None
    BY <1>1, <1>3, <1>4 DEF Parsed, Load
  <2>4. ~StemErrors(state, e)
    BY <2>1, <2>3 DEF CompleteMeansHealthy
  <2> QED BY <2>2, <2>4 DEF StemErrors, Healthy
<1>5. Samples \in SUBSET Records /\ 0..3 \in SUBSET Nat
  BY SchemaApplyAssumption
<1>6. d \in Dirs
  BY <1>3
<1> QED BY <1>1, <1>2, <1>3, <1>4, <1>5, <1>6, HealthyTreeKeeps

(***************************************************************************)
(* The order of a batch (sortedSchemaApplyBatch).                          *)
(***************************************************************************)
\* An order of the batch: every target, a directory before those below it.
InOrder(order, targets) ==
    ToSet(order) = targets /\ \A i, j \in DOMAIN order : i < j => Len(order[i]) <= Len(order[j])

\* An order in so many steps.
OrderOf(n, targets) == {order \in [1..n -> targets] : InOrder(order, targets)}

LEMMA FirstInOrder ==
    ASSUME NEW X \in SUBSET Dirs, X # {}
    PROVE  \E d \in X : \A e \in X : Len(d) <= Len(e)
<1> DEFINE L == {Len(d) : d \in X}
<1>1. L \in SUBSET Nat /\ L # {}
  BY UpIs
<1>2. PICK n \in L : \A m \in L : n <= m
  <2> HIDE DEF L
  <2> QED BY <1>1, LeastNatural
<1> QED BY <1>2

LEMMA OrderExists ==
    ASSUME NEW N \in Nat
    PROVE  \A X \in SUBSET Dirs : IsFiniteSet(X) /\ Cardinality(X) = N => OrderOf(N, X) # {}
<1> DEFINE S == {n \in 0..N : \A X \in SUBSET Dirs : IsFiniteSet(X) /\ Cardinality(X) = n => OrderOf(n, X) # {}}
<1>1. 0 \in S
  <2> SUFFICES ASSUME NEW X \in SUBSET Dirs, IsFiniteSet(X), Cardinality(X) = 0 PROVE OrderOf(0, X) # {}
    OBVIOUS
  <2>1. X = {}
    BY FS_EmptySet
  <2> DEFINE order == [i \in 1..0 |-> <<>>]
  <2>2. order \in [1..0 -> X] /\ DOMAIN order = {}
    OBVIOUS
  <2> HIDE DEF order
  <2>3. InOrder(order, X)
    BY <2>1, <2>2 DEF InOrder, ToSet
  <2> QED BY <2>2, <2>3 DEF OrderOf
<1>2. ASSUME NEW n \in 0..N, n < N, n \in S PROVE n + 1 \in S
  <2> SUFFICES ASSUME NEW X \in SUBSET Dirs, IsFiniteSet(X), Cardinality(X) = n + 1 PROVE OrderOf(n + 1, X) # {}
    BY <1>2
  <2>1. X # {}
    <3>1. Cardinality({}) = 0
      BY FS_EmptySet
    <3> QED BY <1>2, <3>1
  <2>2. PICK d \in X : \A e \in X : Len(d) <= Len(e)
    BY <2>1, FirstInOrder
  <2>3. IsFiniteSet(X \ {d}) /\ Cardinality(X \ {d}) = n
    <3>1. IsFiniteSet(X \ {d}) /\ Cardinality(X \ {d}) = Cardinality(X) - 1
      BY FS_RemoveElement
    <3> QED BY <1>2, <3>1
  <2>4. PICK tail \in [1..n -> X \ {d}] : InOrder(tail, X \ {d})
    <3>1. OrderOf(n, X \ {d}) # {}
      BY <1>2, <2>3
    <3> QED BY <3>1 DEF OrderOf
  <2> DEFINE order == [i \in 1..(n + 1) |-> IF i = 1 THEN d ELSE tail[i - 1]]
  <2>5. \A i \in 1..(n + 1) : i # 1 => i - 1 \in 1..n
    BY <1>2
  <2>6. order \in [1..(n + 1) -> X]
    BY <2>4, <2>5
  <2>7. ToSet(order) = X
    <3>1. ASSUME NEW e \in X PROVE \E i \in 1..(n + 1) : order[i] = e
      <4>1. CASE e = d
        <5>1. 1 \in 1..(n + 1) /\ order[1] = d
          BY <1>2
        <5> QED BY <4>1, <5>1
      <4>2. CASE e # d
        <5>1. PICK i \in 1..n : tail[i] = e
          BY <2>4, <4>2 DEF InOrder, ToSet
        <5>2. i + 1 \in 1..(n + 1) /\ i + 1 # 1 /\ (i + 1) - 1 = i
          BY <1>2
        <5> QED BY <5>1, <5>2
      <4> QED BY <4>1, <4>2
    <3> HIDE DEF order
    <3> QED BY <2>6, <3>1 DEF ToSet
  <2>8. ASSUME NEW i \in 1..(n + 1), NEW j \in 1..(n + 1), i < j PROVE Len(order[i]) <= Len(order[j])
    <3>1. j # 1 /\ j - 1 \in 1..n /\ order[j] = tail[j - 1]
      BY <1>2, <2>8
    <3>2. CASE i = 1
      BY <2>2, <2>6, <3>2
    <3>3. CASE i # 1
      <4>1. i - 1 \in 1..n /\ i - 1 < j - 1 /\ order[i] = tail[i - 1]
        BY <1>2, <2>8, <3>3
      <4>2. DOMAIN tail = 1..n
        BY <2>4
      <4>3. Len(tail[i - 1]) <= Len(tail[j - 1])
        BY <2>4, <3>1, <4>1, <4>2 DEF InOrder
      <4> QED BY <3>1, <4>1, <4>3
    <3> QED BY <3>2, <3>3
  <2>9. DOMAIN order = 1..(n + 1)
    OBVIOUS
  <2> HIDE DEF order
  <2>10. InOrder(order, X)
    BY <2>7, <2>8, <2>9 DEF InOrder
  <2> QED BY <2>6, <2>10 DEF OrderOf
<1> HIDE DEF S
<1>3. N \in S
  BY <1>1, <1>2, IntervalInduction
<1> QED BY <1>3 DEF S

\* The batch comes in order.
LEMMA SortedIs ==
    ASSUME NEW ws, ws \in Seq(ToSet(ws)), Targets(ws) \subseteq Dirs
    PROVE  /\ Len(Sorted(Targets(ws))) \in Nat
           /\ DOMAIN Sorted(Targets(ws)) = 1..Len(Sorted(Targets(ws)))
           /\ InOrder(Sorted(Targets(ws)), Targets(ws))
<1>1. PICK T, N : T = Targets(ws) /\ N = Cardinality(Targets(ws))
  OBVIOUS
<1>2. IsFiniteSet(T)
  <2>1. Len(ws) \in Nat /\ DOMAIN ws = 1..Len(ws)
    OBVIOUS
  <2> DEFINE D == 1..Len(ws)
             tgt == [i \in D |-> ws[i].target]
  <2>2. IsFiniteSet(D)
    BY <2>1, FS_Interval
  <2>3. T = {tgt[i] : i \in D}
    BY <1>1, <2>1 DEF Targets, ToSet
  <2> HIDE DEF D
  <2>4. tgt \in [D -> T]
    BY <2>3
  <2>5. tgt \in Surjection(D, T)
    BY <2>3, <2>4 DEF Surjection
  <2> QED BY <2>2, <2>5, FS_Surjection
<1>3. N \in Nat
  BY <1>1, <1>2, FS_CardinalityType
<1>4. OrderOf(N, T) # {}
  BY <1>1, <1>2, <1>3, OrderExists
<1>5. Sorted(T) = CHOOSE order \in [1..N -> T] : InOrder(order, T)
  BY <1>1 DEF Sorted, InOrder
<1>6. Sorted(T) \in [1..N -> T] /\ InOrder(Sorted(T), T)
  BY <1>4, <1>5 DEF OrderOf
<1>7. PICK order : order = Sorted(T)
  OBVIOUS
<1>8. order \in [1..N -> T] /\ InOrder(order, T)
  BY <1>6, <1>7
<1>9. Len(order) = N /\ DOMAIN order = 1..N
  BY <1>3, <1>8
<1> QED BY <1>1, <1>3, <1>7, <1>8, <1>9

(***************************************************************************)
(* The tree as the batch would leave it (validateProspectiveStemWrites).   *)
(***************************************************************************)
\* f[n] is the snapshot with the first n targets of the order in place.
Overlays(f, s0, ws, order, m) ==
    f = [n \in 0..m |-> IF n = 0 THEN s0 ELSE Overlay(f[n - 1], order[n], Content(ws, order[n]))]

LEMMA OverlaysExist ==
    ASSUME NEW s0, NEW ws, NEW order, NEW m \in Nat
    PROVE  \E f : Overlays(f, s0, ws, order, m)
<1> DEFINE Laid(s, n) == Overlay(s, order[n], Content(ws, order[n]))
           S == {k \in 0..m : \E f : Overlays(f, s0, ws, order, k)}
<1>1. 0 \in S
  <2> DEFINE f == [n \in 0..0 |-> s0]
  <2>1. Overlays(f, s0, ws, order, 0)
    BY DEF Overlays
  <2> QED BY <2>1
<1>2. ASSUME NEW k \in 0..m, k < m, k \in S PROVE k + 1 \in S
  <2>1. PICK f : Overlays(f, s0, ws, order, k)
    BY <1>2
  <2> DEFINE g == [n \in 0..(k + 1) |-> IF n <= k THEN f[n] ELSE Laid(f[k], k + 1)]
  <2>2. \A n \in 0..k : f[n] = IF n = 0 THEN s0 ELSE Laid(f[n - 1], n)
    BY <2>1 DEF Overlays
  <2> HIDE DEF Laid
  <2>3. \A n \in 0..k : g[n] = f[n]
    OBVIOUS
  <2>4. \A n \in 0..(k + 1) : n # 0 => n - 1 \in 0..k /\ g[n - 1] = f[n - 1]
    BY <2>3
  <2>5. \A n \in 0..(k + 1) : g[n] = IF n = 0 THEN s0 ELSE Laid(g[n - 1], n)
    <3> SUFFICES ASSUME NEW n \in 0..(k + 1)
                 PROVE  g[n] = IF n = 0 THEN s0 ELSE Laid(g[n - 1], n)
      OBVIOUS
    <3>1. CASE n \in 0..k
      BY <2>2, <2>3, <2>4, <3>1
    <3>2. CASE n = k + 1
      <4>1. n # 0 /\ n - 1 = k /\ ~(n <= k) /\ g[n] = Laid(f[k], k + 1) /\ g[k] = f[k]
        BY <3>2
      <4> QED BY <3>2, <4>1
    <3> QED BY <3>1, <3>2
  <2>6. DOMAIN g = 0..(k + 1) /\ g = [n \in 0..(k + 1) |-> g[n]]
    OBVIOUS
  <2> HIDE DEF g
  <2>7. Overlays(g, s0, ws, order, k + 1)
    BY <2>5, <2>6 DEF Overlays, Laid
  <2>8. k + 1 \in 0..m
    BY <1>2
  <2> QED BY <2>7, <2>8
<1> HIDE DEF S
<1>3. m \in S
  BY <1>1, <1>2, IntervalInduction
<1> QED BY <1>3 DEF S

\* The snapshot after so many overlays, of which the last is the verdict's.
LEMMA ProspectiveSteps ==
    ASSUME NEW tree, NEW root, NEW ws, ws \in Seq(ToSet(ws)), Targets(ws) \subseteq Dirs
    PROVE  \E f : LET order == Sorted(Targets(ws))
                  IN  /\ f[0] = DiscoverStemState(tree, root)
                      /\ \A n \in 1..Len(order) : f[n] = Overlay(f[n - 1], order[n], Content(ws, order[n]))
                      /\ Prospective(tree, root, ws) = f[Len(order)]
<1>1. PICK order, s0, N : order = Sorted(Targets(ws)) /\ s0 = DiscoverStemState(tree, root) /\ N = Len(order)
  OBVIOUS
<1>2. N \in Nat
  BY <1>1, SortedIs
<1> DEFINE f == CHOOSE g : Overlays(g, s0, ws, order, N)
<1>3. Overlays(f, s0, ws, order, N)
  BY <1>2, OverlaysExist
<1>4. Prospective(tree, root, ws) = f[N]
  BY <1>1 DEF Prospective, Overlays
<1> HIDE DEF f
<1>5. \A n \in 0..N : f[n] = IF n = 0 THEN s0 ELSE Overlay(f[n - 1], order[n], Content(ws, order[n]))
  BY <1>3 DEF Overlays
<1>6. f[0] = s0 /\ \A n \in 1..N : f[n] = Overlay(f[n - 1], order[n], Content(ws, order[n]))
  BY <1>2, <1>5
<1> QED BY <1>1, <1>4, <1>6

Snapshot(state, root, stems, judged) ==
    stems = [d \in Dirs |-> stems[d]] /\ state = [root |-> root, stems |-> stems, evaluated |-> judged]
Replaced(stems, dir, file) == [d \in Dirs |-> IF d = dir THEN ParseStem(file) ELSE stems[d]]

\* A malformed .stem in the walk from d.
BadAbove(stems, d) == {e \in ToSet(Walked(stems, d)) : stems[e] = Bad}

\* What an overlay does to a snapshot.
LEMMA OverlayIs ==
    ASSUME NEW state, NEW dir \in Dirs, NEW file, NEW old, NEW judged, NEW root,
           Snapshot(state, root, old, judged)
    PROVE  Snapshot(Overlay(state, dir, file), root, Replaced(old, dir, file),
                    judged \cup {dir} \cup BadAbove(Replaced(old, dir, file), dir))
<1>1. PICK new : new = Replaced(old, dir, file)
  OBVIOUS
<1>2. old = [d \in Dirs |-> old[d]] /\ state = [root |-> root, stems |-> old, evaluated |-> judged]
  BY DEF Snapshot
<1>3. [old EXCEPT ![dir] = ParseStem(file)] = new
  BY <1>1, <1>2 DEF Replaced
<1>4. state.stems = old
  BY <1>2
<1>5. Overlay(state, dir, file) = [state EXCEPT !.stems = new, !.evaluated = @ \cup {dir} \cup BadAbove(new, dir)]
  BY <1>3, <1>4 DEF Overlay, BadAbove
<1>6. Overlay(state, dir, file) = [root |-> root, stems |-> new, evaluated |-> judged \cup {dir} \cup BadAbove(new, dir)]
  BY <1>2, <1>5
<1>7. new = [d \in Dirs |-> new[d]]
  BY <1>1 DEF Replaced
<1> QED BY <1>1, <1>6, <1>7 DEF Snapshot

LaidOver(stems, ws, S) == [d \in Dirs |-> IF d \in S THEN ParseStem(Content(ws, d)) ELSE stems[d]]

\* One overlay after the other.
Stepwise(f, ws, order, root, stems) ==
    /\ Len(order) \in Nat /\ DOMAIN order = 1..Len(order) /\ ToSet(order) \subseteq Dirs
    /\ Snapshot(f[0], root, stems, {})
    /\ \A n \in 1..Len(order) : f[n] = Overlay(f[n - 1], order[n], Content(ws, order[n]))

\* After n of them those targets are in place, and judged together with what was
\* malformed in their walk then.
LaidUpTo(stems, ws, order, n) == LaidOver(stems, ws, {order[i] : i \in 1..n})
JudgedUpTo(judged, stems, ws, order, n) ==
    \A m \in 1..n : {order[m]} \cup BadAbove(LaidUpTo(stems, ws, order, m), order[m]) \subseteq judged

LEMMA StepsLaid ==
    ASSUME NEW f, NEW ws, NEW order, NEW root, NEW stems, Stepwise(f, ws, order, root, stems),
           NEW n \in 0..Len(order)
    PROVE  /\ Snapshot(f[n], root, LaidUpTo(stems, ws, order, n), f[n].evaluated)
           /\ JudgedUpTo(f[n].evaluated, stems, ws, order, n)
<1>0. /\ Len(order) \in Nat /\ DOMAIN order = 1..Len(order) /\ ToSet(order) \subseteq Dirs
      /\ stems = [d \in Dirs |-> stems[d]]
      /\ f[0] = [root |-> root, stems |-> stems, evaluated |-> {}]
      /\ \A k \in 1..Len(order) : f[k] = Overlay(f[k - 1], order[k], Content(ws, order[k]))
  BY DEF Stepwise, Snapshot
<1>1. PICK N : N = Len(order) /\ N \in Nat
  BY <1>0
<1> DEFINE Laid(m) == LaidOver(stems, ws, {order[i] : i \in 1..m})
           Is(k)   == f[k] = [root |-> root, stems |-> Laid(k), evaluated |-> f[k].evaluated]
           Has(k)  == \A m \in 1..k : {order[m]} \cup BadAbove(Laid(m), order[m]) \subseteq f[k].evaluated
           S == {k \in 0..N : Is(k) /\ Has(k)}
<1>2. 0 \in S
  <2>1. {order[i] : i \in 1..0} = {} /\ 1..0 = {}
    OBVIOUS
  <2>2. Laid(0) = stems
    BY <1>0, <2>1 DEF LaidOver
  <2>3. Is(0)
    <3>1. f[0] = [root |-> root, stems |-> stems, evaluated |-> {}] /\ f[0].evaluated = {}
      BY <1>0
    <3> HIDE DEF Laid
    <3> QED BY <2>2, <3>1
  <2>4. Has(0)
    BY <2>1
  <2> HIDE DEF Is, Has
  <2> QED BY <1>1, <2>3, <2>4
<1>3. ASSUME NEW k \in 0..N, k < N, k \in S PROVE k + 1 \in S
  <2>1. Is(k) /\ Has(k)
    BY <1>3
  <2>2. k + 1 \in 1..N /\ (k + 1) - 1 = k /\ k + 1 \in 0..N /\ k \in Nat
    BY <1>1, <1>3
  <2>a. PICK d, old, judged, file :
           d = order[k + 1] /\ old = Laid(k) /\ judged = f[k].evaluated /\ file = Content(ws, order[k + 1])
    <3> HIDE DEF Laid
    <3> QED OBVIOUS
  <2>b. PICK new : new = Replaced(old, d, file)
    OBVIOUS
  <2>3. /\ d = order[k + 1] /\ old = Laid(k) /\ judged = f[k].evaluated /\ file = Content(ws, order[k + 1])
        /\ new = [e \in Dirs |-> IF e = d THEN ParseStem(file) ELSE old[e]]
    BY <2>a, <2>b DEF Replaced
  <2>4. d \in Dirs
    <3>1. d \in ToSet(order)
      BY <1>0, <1>1, <2>2, <2>3 DEF ToSet
    <3> QED BY <1>0, <3>1
  <2>5. f[k + 1] = Overlay(f[k], d, file)
    BY <1>0, <1>1, <2>2, <2>3
  <2>6. Snapshot(f[k], root, old, judged)
    <3>1. f[k] = [root |-> root, stems |-> Laid(k), evaluated |-> f[k].evaluated]
      BY <2>1
    <3>2. Laid(k) = [e \in Dirs |-> Laid(k)[e]]
      BY DEF LaidOver
    <3> HIDE DEF Laid
    <3> QED BY <2>a, <3>1, <3>2 DEF Snapshot
  <2>7. f[k + 1] = [root |-> root, stems |-> new, evaluated |-> judged \cup {d} \cup BadAbove(new, d)]
    <3>1. Snapshot(f[k + 1], root, new, judged \cup {d} \cup BadAbove(new, d))
      BY <2>b, <2>4, <2>5, <2>6, OverlayIs
    <3> QED BY <3>1 DEF Snapshot
  <2>8. new = Laid(k + 1)
    <3>1. {order[i] : i \in 1..(k + 1)} = {order[i] : i \in 1..k} \cup {d}
      <4>1. 1..(k + 1) = 1..k \cup {k + 1}
        BY <2>2
      <4> QED BY <2>3, <4>1
    <3>2. PICK X, Y : X = {order[i] : i \in 1..k} /\ Y = {order[i] : i \in 1..(k + 1)}
      OBVIOUS
    <3>3. Y = X \cup {d} /\ old = LaidOver(stems, ws, X)
      BY <2>3, <3>1, <3>2
    <3>4. \A e \in Dirs : new[e] = IF e \in Y THEN ParseStem(Content(ws, e)) ELSE stems[e]
      BY <2>3, <3>3 DEF LaidOver
    <3>5. new = LaidOver(stems, ws, Y)
      BY <2>3, <3>4 DEF LaidOver
    <3> QED BY <3>2, <3>5
  <2>9. f[k + 1].evaluated = judged \cup {d} \cup BadAbove(new, d)
    BY <2>7
  <2>10. Is(k + 1)
    BY <2>7, <2>8
  <2>11. Has(k + 1)
    <3> SUFFICES ASSUME NEW m \in 1..(k + 1)
                 PROVE  {order[m]} \cup BadAbove(Laid(m), order[m]) \subseteq f[k + 1].evaluated
      OBVIOUS
    <3>1. CASE m = k + 1
      BY <2>3, <2>8, <2>9, <3>1
    <3>2. CASE m \in 1..k
      <4>1. {order[m]} \cup BadAbove(Laid(m), order[m]) \subseteq f[k].evaluated
        BY <2>1, <3>2
      <4> QED BY <2>3, <2>9, <4>1
    <3>3. m = k + 1 \/ m \in 1..k
      BY <2>2
    <3> HIDE DEF Laid
    <3> QED BY <3>1, <3>2, <3>3
  <2> HIDE DEF Is, Has
  <2> QED BY <2>2, <2>10, <2>11
<1>4. n \in 0..N /\ \A k \in 0..N : Is(k) /\ Has(k)
  <2> HIDE DEF Is, Has
  <2>1. \A k \in 0..N : k \in S => Is(k) /\ Has(k)
    OBVIOUS
  <2> HIDE DEF S
  <2>2. 0 \in Nat /\ N \in Nat /\ n \in 0..N
    BY <1>1
  <2>3. \A k \in 0..N : k < N /\ k \in S => k + 1 \in S
    BY <1>3
  <2>4. \A k \in 0..N : k \in S
    BY <1>2, <2>2, <2>3, IntervalInduction
  <2> QED BY <2>1, <2>2, <2>4
<1>5. Is(n) /\ Has(n)
  <2> HIDE DEF Is, Has
  <2> QED BY <1>4
<1>6. Laid(n) = [d \in Dirs |-> Laid(n)[d]]
  BY DEF LaidOver
<1>7. \A m : Laid(m) = LaidUpTo(stems, ws, order, m)
  BY DEF LaidUpTo
<1> HIDE DEF Laid
<1>8. Snapshot(f[n], root, LaidUpTo(stems, ws, order, n), f[n].evaluated)
  BY <1>5, <1>6, <1>7 DEF Snapshot
<1>9. JudgedUpTo(f[n].evaluated, stems, ws, order, n)
  BY <1>5, <1>7 DEF JudgedUpTo
<1> QED BY <1>8, <1>9

\* The walk sees only what lies above.
LEMMA WalkSeesAbove ==
    ASSUME NEW s, NEW t, NEW dir \in Dirs, \A k \in 0..Len(dir) : s[Up(dir, k)] = t[Up(dir, k)]
    PROVE  /\ Boundary(s, dir) = Boundary(t, dir) /\ Walked(s, dir) = Walked(t, dir)
           /\ BadAbove(s, dir) = BadAbove(t, dir)
<1>1. \A k \in 0..Len(dir) : Marker(s, Up(dir, k)) <=> Marker(t, Up(dir, k))
  BY DEF Marker
<1>2. Boundary(s, dir) = Boundary(t, dir)
  <2>1. {n \in 0..Len(dir) : Marker(s, Up(dir, n))} = {n \in 0..Len(dir) : Marker(t, Up(dir, n))}
    BY <1>1
  <2> QED BY <2>1 DEF Boundary
<1>3. Walked(s, dir) = Walked(t, dir)
  BY <1>2 DEF Walked
<1>4. \A e \in ToSet(Walked(s, dir)) : s[e] = t[e]
  <2> SUFFICES ASSUME NEW e \in ToSet(Walked(s, dir)) PROVE s[e] = t[e]
    OBVIOUS
  <2>1. PICK b : b = Boundary(s, dir)
    OBVIOUS
  <2>2. Walked(s, dir) = [i \in 1..(Len(dir) - b + 1) |-> Up(dir, b + i - 1)]
    BY <2>1 DEF Walked
  <2>3. PICK i \in 1..(Len(dir) - b + 1) : e = Up(dir, b + i - 1)
    BY <2>2 DEF ToSet
  <2>4. b + i - 1 \in 0..Len(dir)
    <3>1. b \in 0..Len(dir) /\ Len(dir) \in Nat
      BY <2>1, BoundaryIs, UpIs
    <3> QED BY <2>3, <3>1
  <2> QED BY <2>3, <2>4
<1>5. BadAbove(s, dir) = BadAbove(t, dir)
  BY <1>3, <1>4 DEF BadAbove
<1> QED BY <1>2, <1>3, <1>5

\* The verdict's snapshot: every target in place, and judged, with all that is
\* malformed in its walk.
LEMMA ProspectiveIs ==
    ASSUME NEW tree, NEW root, NEW ws, ws \in Seq(ToSet(ws)), Targets(ws) \subseteq Dirs
    PROVE  LET state == Prospective(tree, root, ws)
           IN  /\ state.root = root
               /\ state.stems = LaidOver(DiscoverStemState(tree, root).stems, ws, Targets(ws))
               /\ \A t \in Targets(ws) : {t} \cup BadAbove(state.stems, t) \subseteq state.evaluated
<1>1. PICK order, s0, T : order = Sorted(Targets(ws)) /\ s0 = DiscoverStemState(tree, root) /\ T = Targets(ws)
  OBVIOUS
<1>2. PICK N : N = Len(order)
  OBVIOUS
<1>3. N \in Nat /\ DOMAIN order = 1..N /\ ToSet(order) = T
      /\ \A i, j \in 1..N : i < j => Len(order[i]) <= Len(order[j])
  BY <1>1, <1>2, SortedIs DEF InOrder
<1>4. PICK stems : stems = s0.stems
  OBVIOUS
<1>5. s0 = [root |-> root, stems |-> stems, evaluated |-> {}] /\ stems = [d \in Dirs |-> stems[d]]
  BY <1>1, <1>4 DEF DiscoverStemState
<1>6. PICK f : /\ f[0] = s0
               /\ \A n \in 1..N : f[n] = Overlay(f[n - 1], order[n], Content(ws, order[n]))
               /\ Prospective(tree, root, ws) = f[N]
  BY <1>1, <1>2, ProspectiveSteps
<1> DEFINE Laid(m) == LaidUpTo(stems, ws, order, m)
<1>7. /\ f[N] = [root |-> root, stems |-> Laid(N), evaluated |-> f[N].evaluated]
      /\ \A m \in 1..N : {order[m]} \cup BadAbove(Laid(m), order[m]) \subseteq f[N].evaluated
  <2>1. N \in 0..Len(order)
    BY <1>2, <1>3
  <2>2. Snapshot(f[0], root, stems, {})
    BY <1>5, <1>6 DEF Snapshot
  <2>3. Stepwise(f, ws, order, root, stems)
    BY <1>1, <1>2, <1>3, <1>6, <2>2 DEF Stepwise
  <2>4. /\ Snapshot(f[N], root, LaidUpTo(stems, ws, order, N), f[N].evaluated)
        /\ JudgedUpTo(f[N].evaluated, stems, ws, order, N)
    BY <2>1, <2>3, StepsLaid
  <2> QED BY <2>4 DEF Snapshot, JudgedUpTo
<1>8. {order[i] : i \in 1..N} = T
  BY <1>3 DEF ToSet
<1>9. Laid(N) = LaidOver(stems, ws, T)
  BY <1>8 DEF LaidUpTo
<1>10. ASSUME NEW t \in T PROVE {t} \cup BadAbove(Laid(N), t) \subseteq f[N].evaluated
  <2>1. PICK m \in 1..N : order[m] = t
    BY <1>8
  <2>2. PICK X : X = {order[i] : i \in 1..m}
    OBVIOUS
  <2>3. t \in Dirs /\ Len(t) \in Nat
    BY <1>1, UpIs
  <2>4. ASSUME NEW k \in 0..Len(t) PROVE LaidOver(stems, ws, X)[Up(t, k)] = LaidOver(stems, ws, T)[Up(t, k)]
    <3>1. PICK e : e = Up(t, k)
      OBVIOUS
    <3>2. e \in Dirs /\ Len(e) = k
      BY <2>3, <3>1, UpIs
    <3>3. e \in X => e \in T
      BY <1>3, <1>8, <2>1, <2>2
    <3>4. ASSUME e \in T PROVE e \in X
      <4>1. PICK j \in 1..N : order[j] = e
        BY <1>8, <3>4
      <4>2. CASE j <= m
        BY <2>2, <4>1, <4>2
      <4>3. CASE j > m
        <5>1. Len(t) <= k
          BY <1>3, <2>1, <3>2, <4>1, <4>3
        <5>2. k = Len(t)
          BY <2>3, <5>1
        <5>3. e = t
          BY <2>3, <3>1, <5>2, UpFull
        <5>4. m \in 1..m
          OBVIOUS
        <5> QED BY <2>1, <2>2, <5>3, <5>4
      <4> QED BY <1>3, <4>2, <4>3
    <3>5. e \in X <=> e \in T
      BY <3>3, <3>4
    <3>6. LaidOver(stems, ws, X)[e] = LaidOver(stems, ws, T)[e]
      BY <3>2, <3>5 DEF LaidOver
    <3> QED BY <3>1, <3>6
  <2>5. PICK a, b : a = LaidOver(stems, ws, X) /\ b = LaidOver(stems, ws, T)
    OBVIOUS
  <2>6. \A k \in 0..Len(t) : a[Up(t, k)] = b[Up(t, k)]
    BY <2>4, <2>5
  <2>7. BadAbove(a, t) = BadAbove(b, t)
    BY <2>3, <2>6, WalkSeesAbove
  <2>8. {t} \cup BadAbove(a, t) \subseteq f[N].evaluated
    BY <1>7, <2>1, <2>2, <2>5 DEF LaidUpTo
  <2> QED BY <1>9, <2>5, <2>7, <2>8
<1> HIDE DEF Laid
<1>11. PICK state : state = Prospective(tree, root, ws)
  OBVIOUS
<1>12. state.root = root /\ state.stems = Laid(N) /\ state.evaluated = f[N].evaluated
  BY <1>6, <1>7, <1>11
<1> QED BY <1>1, <1>4, <1>9, <1>10, <1>11, <1>12

(***************************************************************************)
(* What the snapshot of a root holds (DiscoverStemState): all below it,    *)
(* and what it inherits from.                                              *)
(***************************************************************************)
\* From a marker downwards, trees that hold the same have the same chains.
LEMMA SameFromMarker ==
    ASSUME NEW s, NEW t, NEW d \in Dirs, NEW b \in 0..Len(d), b # 0 => Marker(s, Up(d, b)),
           \A n \in b..Len(d) : s[Up(d, n)] = t[Up(d, n)]
    PROVE  /\ Boundary(s, d) = Boundary(t, d) /\ Boundary(s, d) \in b..Len(d)
           /\ Chain(s, d) = Chain(t, d)
<1>1. Len(d) \in Nat
  BY UpIs
<1>2. PICK m : m = Boundary(s, d)
  OBVIOUS
<1>3. /\ m \in 0..Len(d) /\ (m # 0 => Marker(s, Up(d, m)))
      /\ \A n \in 0..Len(d) : Marker(s, Up(d, n)) => n <= m
  BY <1>2, BoundaryIs
<1>4. m \in b..Len(d)
  <2>1. CASE b = 0
    BY <1>1, <1>3, <2>1
  <2>2. CASE b # 0
    BY <1>1, <1>3, <2>2
  <2> QED BY <2>1, <2>2
<1>5. \A n \in b..Len(d) : Marker(s, Up(d, n)) <=> Marker(t, Up(d, n))
  BY DEF Marker
<1>6. m # 0 => Marker(t, Up(d, m))
  BY <1>3, <1>4, <1>5
<1>7. \A n \in 0..Len(d) : Marker(t, Up(d, n)) => n <= m
  <2> SUFFICES ASSUME NEW n \in 0..Len(d), Marker(t, Up(d, n)), ~(n <= m) PROVE FALSE
    OBVIOUS
  <2>1. n \in b..Len(d)
    BY <1>1, <1>4
  <2> QED BY <1>3, <1>5, <2>1
<1>8. Boundary(t, d) = m
  BY <1>3, <1>6, <1>7, BoundaryAt
<1>9. Chain(s, d) = Chain(t, d)
  <2>1. Chain(s, d) = [i \in 1..(Len(d) - m + 1) |-> s[Up(d, m + i - 1)]]
    BY <1>2, ChainIs
  <2>2. Chain(t, d) = [i \in 1..(Len(d) - m + 1) |-> t[Up(d, m + i - 1)]]
    BY <1>8, ChainIs
  <2>3. ASSUME NEW i \in 1..(Len(d) - m + 1) PROVE s[Up(d, m + i - 1)] = t[Up(d, m + i - 1)]
    <3>1. m + i - 1 \in b..Len(d)
      BY <1>1, <1>4
    <3> QED BY <3>1
  <2> QED BY <2>1, <2>2, <2>3
<1> QED BY <1>2, <1>4, <1>8, <1>9

LEMMA UnderIs ==
    ASSUME NEW d \in Dirs, NEW root \in Dirs
    PROVE  Under(d, root) <=> Len(root) <= Len(d) /\ Up(d, Len(root)) = root
<1>1. SubSeq(root, 1, Len(root)) = root
  BY UpFull DEF Up
<1> QED BY <1>1 DEF Under, IsPrefix, Up

\* What a snapshot holds, and the level down to which it leaves out what is above.
Near(stems, root, d) == Under(d, root) \/ d \in External(stems, root)
Lowest(stems, root)  == IF root = <<>> THEN 0 ELSE Boundary(stems, Front(root))

LEMMA ExternalIs ==
    ASSUME NEW stems, NEW root \in Dirs, root # <<>>
    PROVE  /\ Len(root) \in Nat \ {0} /\ Front(root) = Up(root, Len(root) - 1) /\ Front(root) \in Dirs
           /\ Lowest(stems, root) \in 0..(Len(root) - 1)
           /\ Lowest(stems, root) # 0 => Marker(stems, Up(root, Lowest(stems, root)))
           /\ External(stems, root) = {Up(root, n) : n \in Lowest(stems, root)..(Len(root) - 1)}
<1>1. Len(root) \in Nat \ {0}
  <2>1. root \in Seq(ToSet(root))
    BY StemHierarchyAssumption
  <2> QED BY <2>1
<1>2. Front(root) = Up(root, Len(root) - 1)
  BY DEF Front, Up
<1>3. Front(root) \in Dirs /\ Len(Front(root)) = Len(root) - 1
  <2>1. Len(root) - 1 \in 0..Len(root)
    BY <1>1
  <2> QED BY <1>2, <2>1, UpIs
<1>4. PICK b : b = Boundary(stems, Front(root))
  OBVIOUS
<1>5. b \in 0..(Len(root) - 1) /\ (b # 0 => Marker(stems, Up(Front(root), b)))
  BY <1>3, <1>4, BoundaryIs
<1>6. Up(Front(root), b) = Up(root, b)
  <2>1. Len(root) - 1 \in 0..Len(root)
    BY <1>1
  <2> QED BY <1>2, <1>5, <2>1, UpUp
<1>7. Lowest(stems, root) = b /\ External(stems, root) = {Up(root, n) : n \in b..(Len(root) - 1)}
  BY <1>4 DEF Lowest, External
<1> QED BY <1>1, <1>2, <1>3, <1>5, <1>6, <1>7

LEMMA NearIs ==
    ASSUME NEW stems, NEW root \in Dirs, NEW d \in Dirs, Near(stems, root, d)
    PROVE  LET b == Lowest(stems, root)
           IN  /\ b \in 0..Len(d)
               /\ b # 0 => Up(d, b) \in External(stems, root) /\ ~Under(Up(d, b), root) /\ Marker(stems, Up(d, b))
               /\ \A n \in b..Len(d) : Up(d, n) \in Dirs /\ Near(stems, root, Up(d, n))
<1>1. PICK b : b = Lowest(stems, root)
  OBVIOUS
<1>2. Len(d) \in Nat /\ Len(root) \in Nat /\ \A n \in 0..Len(d) : Up(d, n) \in Dirs /\ Len(Up(d, n)) = n
  BY UpIs
<1>3. CASE root = <<>>
  <2>1. b = 0 /\ Len(root) = 0 /\ External(stems, root) = {}
    BY <1>1, <1>3 DEF Lowest, External
  <2>2. ASSUME NEW n \in 0..Len(d) PROVE Under(Up(d, n), root)
    <3>1. Up(Up(d, n), 0) = root
      BY <1>3, SubSeqEmpty DEF Up
    <3> QED BY <1>2, <2>1, <3>1, UnderIs
  <2> QED BY <1>1, <1>2, <2>1, <2>2 DEF Near
<1>4. CASE root # <<>>
  <2>1. /\ Len(root) # 0 /\ b \in 0..(Len(root) - 1) /\ (b # 0 => Marker(stems, Up(root, b)))
        /\ External(stems, root) = {Up(root, n) : n \in b..(Len(root) - 1)}
    BY <1>1, <1>4, ExternalIs
  <2>2. PICK k \in 0..Len(root) : /\ k <= Len(d) /\ Up(d, k) = Up(root, k) /\ b <= k
                                  /\ k = Len(root) \/ k = Len(d)
    <3>1. CASE Under(d, root)
      <4>1. Len(root) <= Len(d) /\ Up(d, Len(root)) = root /\ Up(root, Len(root)) = root
        BY <3>1, UnderIs, UpFull
      <4> QED BY <1>2, <2>1, <4>1
    <3>2. CASE d \in External(stems, root)
      <4>1. PICK n \in b..(Len(root) - 1) : d = Up(root, n)
        BY <2>1, <3>2
      <4>2. n \in 0..Len(root) /\ b <= n
        BY <1>2, <2>1
      <4>3. Len(d) = n
        BY <4>1, <4>2, UpIs
      <4> QED BY <4>1, <4>2, <4>3, UpFull
    <3> QED BY <3>1, <3>2 DEF Near
  <2>3. ASSUME NEW n \in 0..k PROVE Up(d, n) = Up(root, n)
    <3>1. Up(Up(d, k), n) = Up(d, n)
      BY <1>2, <2>2, UpUp
    <3>2. Up(Up(root, k), n) = Up(root, n)
      BY <2>2, UpUp
    <3> QED BY <2>2, <3>1, <3>2
  <2>4. b \in 0..Len(d) /\ b \in 0..k /\ Up(d, b) = Up(root, b)
    BY <1>2, <2>1, <2>2, <2>3
  <2>5. b # 0 => Up(d, b) \in External(stems, root) /\ ~Under(Up(d, b), root) /\ Marker(stems, Up(d, b))
    <3>1. b \in b..(Len(root) - 1) /\ b < Len(root)
      BY <1>2, <2>1
    <3>2. Up(d, b) \in Dirs /\ Len(Up(d, b)) = b
      BY <1>2, <2>4
    <3>3. ~Under(Up(d, b), root)
      BY <1>2, <3>1, <3>2, UnderIs
    <3> QED BY <2>1, <2>4, <3>1, <3>3
  <2>6. ASSUME NEW n \in b..Len(d) PROVE Up(d, n) \in Dirs /\ Near(stems, root, Up(d, n))
    <3>1. n \in 0..Len(d)
      BY <1>2, <2>4
    <3>2. Up(d, n) \in Dirs /\ Len(Up(d, n)) = n
      BY <1>2, <3>1
    <3>3. CASE n < Len(root)
      <4>1. n \in 0..k /\ n \in b..(Len(root) - 1)
        BY <1>2, <2>2, <2>4, <3>3
      <4> QED BY <2>1, <2>3, <3>2, <4>1 DEF Near
    <3>4. CASE n >= Len(root)
      <4>1. k = Len(root)
        BY <1>2, <2>2, <3>1, <3>4
      <4>2. Len(root) \in 0..n
        BY <1>2, <3>1, <3>4
      <4>3. Up(Up(d, n), Len(root)) = root
        BY <2>2, <3>1, <4>1, <4>2, UpUp, UpFull
      <4> QED BY <3>2, <3>4, <4>3, UnderIs DEF Near
    <3> QED BY <1>2, <3>1, <3>3, <3>4
  <2> QED BY <1>1, <2>4, <2>5, <2>6
<1> QED BY <1>3, <1>4

(***************************************************************************)
(* What a run that says complete has been through.                         *)
(***************************************************************************)
\* A write is under the root, or amends a .stem that the root inherits from, and
\* keeps what that says of being the top (PlanSchemaInferences).
Aimed(w) ==
    /\ w.file # None
    /\ \/ Under(w.target, request.root)
       \/ /\ w.target \in External(Parsed(before), request.root)
          /\ w.file.root = Marker(Parsed(before), w.target)

\* The run writes, or has written everything.
Through == phase = "write" \/ (phase = "done" /\ ledger.errors = {} /\ writes # <<>>)

Passed ==
    /\ phase \in {"resolve", "infer"} => writes = <<>>
    /\ Through /\ ledger.errors = {} => Targets(writes) \subseteq AppliedTo \cup (IF phase = "write" THEN queue ELSE {})
    /\ foreign = {} =>
          /\ phase # "idle" => \A w \in ToSet(writes) : Aimed(w)
          /\ phase = "infer" => /\ WalkUp(Parsed(before), request.root) = "ok"
                                /\ queue = {ClosestStem(Parsed(before), request.root)}
          /\ phase = "preflight" \/ Through => BlockingStemHealth(Prospective(before, request.root, writes)) = {}
          /\ Through => UnresolvableOn(before, request.root) = {}

LEMMA ParsesToStem ==
    ASSUME NEW file \in Stems, Parses(file)
    PROVE  ParseStem(file) \notin {None, Bad} /\ ParseStem(file).root = file.root
<1> DEFINE schema == [f \in DOMAIN file.schema |-> ParsedField(file.schema[f])]
           rules  == {WithSeverity(r) : r \in file.validate}
           stem   == [file EXCEPT !.schema = schema, !.validate = rules]
<1>1. ParseStem(file) = stem
  BY DEF ParseStem
<1>2. Ruling(stem)
  BY <1>1, StemIsRuling
<1>3. schema \in UNION {[F -> Declarations \cup {None}] : F \in SUBSET Fields} /\ rules \in SUBSET Rules
  <2>1. stem.schema = schema /\ stem.validate = rules
    <3> HIDE DEF schema, rules
    <3> QED BY DEF Stems
  <2>2. PICK F \in SUBSET Fields : stem.schema \in [F -> Declarations]
    BY <1>2 DEF Ruling
  <2>3. schema \in [F -> Declarations \cup {None}]
    <3> HIDE DEF schema, stem
    <3> QED BY <2>1, <2>2
  <2>4. rules \in SUBSET Rules
    <3> HIDE DEF rules, stem
    <3> QED BY <1>2, <2>1 DEF Ruling, KnownRules
  <2> HIDE DEF schema, rules
  <2> QED BY <2>3, <2>4
<1> HIDE DEF schema, rules
<1>4. stem \in Stems /\ stem.root = file.root
  BY <1>3 DEF Stems
<1> HIDE DEF stem
<1> QED BY <1>1, <1>4, MarksAssumption DEF Bad

\* The last write of a target is one of the plan.
LEMMA ContentOf ==
    ASSUME NEW ws, ws \in Seq(ToSet(ws)), NEW d \in Targets(ws)
    PROVE  \E w \in ToSet(ws) : w.target = d /\ Content(ws, d) = w.file
<1> DEFINE T == {i \in DOMAIN ws : ws[i].target = d}
<1>1. DOMAIN ws = 1..Len(ws) /\ Len(ws) \in Nat
  OBVIOUS
<1>2. T \in SUBSET (0..Len(ws)) /\ T # {}
  BY <1>1 DEF Targets, ToSet
<1>3. Max(T) \in T
  <2> HIDE DEF T
  <2> QED BY <1>1, <1>2, MaxIs
<1>4. ws[Max(T)] \in ToSet(ws) /\ ws[Max(T)].target = d
  BY <1>3 DEF ToSet
<1>5. Content(ws, d) = ws[Max(T)].file
  BY DEF Content
<1> QED BY <1>4, <1>5

\* Where the run leaves off: the tree it found, with every write in place.
LEMMA EverythingWritten ==
    ASSUME IInv, Typed, Passed, WroteUndisturbed
    PROVE  /\ request.root \in Dirs /\ Targets(writes) \subseteq Dirs
           /\ \A d \in Dirs : files[d] = IF d \in Targets(writes) THEN Content(writes, d) ELSE before[d]
<1>1. phase = "done" /\ ledger.errors = {} /\ ~request.dry /\ writes # <<>> /\ foreign = {}
  BY DEF WroteUndisturbed, Complete
<1>2. request.root \in Dirs
  <2>1. request \in Requests
    BY <1>1 DEF Typed, TypeOK
  <2> QED BY <2>1, RequestIs DEF ReportsAndFlags
<1>3. Targets(writes) \subseteq Dirs
  BY DEF Targets, Typed, Planned
<1>4. AppliedTo = Targets(writes)
  <2>1. Targets(writes) \subseteq AppliedTo
    BY <1>1 DEF Passed, Through
  <2>2. ledger.applied \subseteq UNION {Actions(writes, d) : d \in Targets(writes)}
    BY DEF Typed, TypeOK
  <2>3. ASSUME NEW a \in ledger.applied PROVE a[2] \in Targets(writes)
    <3>1. PICK d \in Targets(writes) : a \in Actions(writes, d)
      BY <2>2
    <3>2. a[2] = d
      BY <3>1 DEF Actions
    <3> QED BY <3>2
  <2>4. AppliedTo \subseteq Targets(writes)
    BY <2>3 DEF AppliedTo
  <2> QED BY <2>1, <2>4
<1>5. \A d \in Dirs : files[d] = IF d \in Targets(writes) THEN Content(writes, d) ELSE before[d]
  BY <1>1, <1>4 DEF IInv, OnlyWhatItReports
<1> QED BY <1>2, <1>3, <1>5

\* How that tree relates to the one it found and to the verdict's snapshot.
LEMMA TreeAndSnapshot ==
    ASSUME IInv, Typed, Passed, WroteUndisturbed
    PROVE  LET old == Parsed(before)
               new == Parsed(files)
               laid == Prospective(before, request.root, writes).stems
           IN  /\ \A d \in Targets(writes) : Near(old, request.root, d) /\ new[d] \notin {None, Bad}
               /\ \A d \in Dirs \ Targets(writes) : new[d] = old[d]
               /\ \A d \in Dirs : Near(old, request.root, d) => laid[d] = new[d]
               /\ \A d \in Dirs : ~Under(d, request.root) /\ Marker(old, d) => Marker(new, d)
<1>1. PICK root, T, old, new : /\ root = request.root /\ T = Targets(writes)
                               /\ old = Parsed(before) /\ new = Parsed(files)
  OBVIOUS
<1>2. root \in Dirs /\ T \subseteq Dirs
      /\ \A d \in Dirs : files[d] = IF d \in T THEN Content(writes, d) ELSE before[d]
  BY <1>1, EverythingWritten
<1>3. \A d \in Dirs : old[d] = Load(before[d]) /\ new[d] = Load(files[d])
  BY <1>1 DEF Parsed
<1>4. writes \in Seq(ToSet(writes))
  BY DEF IInv, Shape
<1>5. ASSUME NEW d \in T
      PROVE  /\ Near(old, root, d) /\ new[d] = ParseStem(Content(writes, d)) /\ new[d] \notin {None, Bad}
             /\ ~Under(d, root) => (new[d].root = Marker(old, d))
  <2>1. PICK w \in ToSet(writes) : w.target = d /\ Content(writes, d) = w.file
    BY <1>1, <1>4, ContentOf
  <2>2. Planned(w) /\ Aimed(w)
    BY DEF Typed, Passed, WroteUndisturbed, Complete
  <2>3. w.file \in Stems /\ Parses(w.file) /\ w.file # None
    <3>1. w.file \in Stems \cup {Garbage, None} /\ Parses(w.file) /\ w.file # None
      BY <2>2 DEF Planned, Aimed, File
    <3> QED BY <3>1 DEF Parses
  <2>4. ParseStem(w.file) \notin {None, Bad} /\ ParseStem(w.file).root = w.file.root
    BY <2>3, ParsesToStem
  <2>5. new[d] = ParseStem(w.file)
    BY <1>2, <1>3, <2>1, <2>3 DEF Load
  <2>6. Near(old, root, d) /\ (~Under(d, root) => (w.file.root = Marker(old, d)))
    BY <1>1, <2>1, <2>2 DEF Aimed, Near
  <2> QED BY <2>1, <2>4, <2>5, <2>6
<1>6. \A d \in Dirs \ T : new[d] = old[d]
  BY <1>2, <1>3
<1>7. PICK laid : laid = Prospective(before, root, writes).stems
  OBVIOUS
<1>8. ASSUME NEW d \in Dirs, Near(old, root, d) PROVE laid[d] = new[d]
  <2>1. laid = LaidOver(DiscoverStemState(before, root).stems, writes, T)
    BY <1>1, <1>2, <1>4, <1>7, ProspectiveIs
  <2>2. laid[d] = IF d \in T THEN ParseStem(Content(writes, d)) ELSE DiscoverStemState(before, root).stems[d]
    BY <2>1 DEF LaidOver
  <2>3. DiscoverStemState(before, root).stems[d] = old[d]
    BY <1>1, <1>8 DEF DiscoverStemState, Near
  <2> QED BY <1>5, <1>6, <2>2, <2>3
<1>9. ASSUME NEW d \in Dirs, ~Under(d, root), Marker(old, d) PROVE Marker(new, d)
  <2>1. CASE d \in T
    BY <1>5, <1>9, <2>1 DEF Marker
  <2>2. CASE d \notin T
    BY <1>6, <1>9, <2>2 DEF Marker
  <2> QED BY <2>1, <2>2
<1> QED BY <1>1, <1>5, <1>6, <1>7, <1>8, <1>9

\* What the verdict judged.
LEMMA JudgedAre ==
    ASSUME IInv, Typed, Passed, WroteUndisturbed, NEW d \in Dirs,
           Prospective(before, request.root, writes).stems[d] # None,
           Under(d, request.root) \/ d \in Prospective(before, request.root, writes).evaluated
    PROVE  ~StemErrors(Prospective(before, request.root, writes), d)
<1>1. PICK state : state = Prospective(before, request.root, writes)
  OBVIOUS
<1>2. BlockingStemHealth(state) = {}
  BY <1>1 DEF Passed, Through, WroteUndisturbed, Complete
<1>3. state.root = request.root
  <2>1. writes \in Seq(ToSet(writes)) /\ Targets(writes) \subseteq Dirs
    BY EverythingWritten DEF IInv, Shape
  <2> QED BY <1>1, <2>1, ProspectiveIs
<1>4. d \in EvaluatedStems(state)
  BY <1>1, <1>3 DEF EvaluatedStems
<1> QED BY <1>1, <1>2, <1>4 DEF BlockingStemHealth

\* Where the snapshot shows the walk to a directory, the tree has the same walk.
LEMMA SameWalk ==
    ASSUME IInv, Typed, Passed, WroteUndisturbed, NEW d \in Dirs, Near(Parsed(before), request.root, d)
    PROVE  LET laid == Prospective(before, request.root, writes).stems
           IN  /\ Boundary(Parsed(files), d) = Boundary(laid, d) /\ Chain(Parsed(files), d) = Chain(laid, d)
               /\ Boundary(laid, d) \in 0..Len(d)
               /\ \A n \in Boundary(laid, d)..Len(d) : /\ Up(d, n) \in Dirs
                                                       /\ Near(Parsed(before), request.root, Up(d, n))
                                                       /\ laid[Up(d, n)] = Parsed(files)[Up(d, n)]
<1>1. PICK root, old, new, laid : /\ root = request.root /\ old = Parsed(before) /\ new = Parsed(files)
                                  /\ laid = Prospective(before, request.root, writes).stems
  OBVIOUS
<1>2. root \in Dirs
  BY <1>1, EverythingWritten
<1>3. PICK b : b = Lowest(old, root)
  OBVIOUS
<1>4. /\ b \in 0..Len(d) /\ (b # 0 => ~Under(Up(d, b), root) /\ Marker(old, Up(d, b)))
      /\ \A n \in b..Len(d) : Up(d, n) \in Dirs /\ Near(old, root, Up(d, n))
  BY <1>1, <1>2, <1>3, NearIs
<1>5. Len(d) \in Nat
  BY UpIs
<1>6. /\ \A e \in Dirs : Near(old, root, e) => laid[e] = new[e]
      /\ \A e \in Dirs : ~Under(e, root) /\ Marker(old, e) => Marker(new, e)
  BY <1>1, TreeAndSnapshot
<1>7. b # 0 => Marker(new, Up(d, b))
  <2>1. b \in b..Len(d)
    BY <1>4, <1>5
  <2> QED BY <1>4, <1>6, <2>1
<1>8. \A n \in b..Len(d) : new[Up(d, n)] = laid[Up(d, n)]
  BY <1>4, <1>6
<1>9. /\ Boundary(new, d) = Boundary(laid, d) /\ Boundary(new, d) \in b..Len(d)
      /\ Chain(new, d) = Chain(laid, d)
  BY <1>4, <1>7, <1>8, SameFromMarker
<1>10. ASSUME NEW n \in Boundary(laid, d)..Len(d)
       PROVE  Up(d, n) \in Dirs /\ Near(old, root, Up(d, n)) /\ laid[Up(d, n)] = new[Up(d, n)]
  <2>1. n \in b..Len(d)
    BY <1>4, <1>5, <1>9
  <2> QED BY <1>4, <1>8, <2>1
<1>11. Boundary(laid, d) \in 0..Len(d)
  BY <1>4, <1>5, <1>9
<1> QED BY <1>1, <1>9, <1>10, <1>11

LEMMA GovernedIs ==
    ASSUME IInv, Typed, Passed, WroteUndisturbed, NEW d \in Governed
    PROVE  d \in Dirs /\ Near(Parsed(before), request.root, d)
<1>1. CASE d \in Dirs /\ Under(d, request.root)
  BY <1>1 DEF Near
<1>2. CASE d \in Targets(writes)
  BY <1>2, EverythingWritten, TreeAndSnapshot
<1> QED BY <1>1, <1>2 DEF Governed

\* No .stem that the run was to judge has errors.
LEMMA GovernedWithoutErrors ==
    ASSUME IInv, Typed, Passed, WroteUndisturbed, NEW d \in Governed, files[d] # None
    PROVE  ~StemErrors(DiscoverStemState(files, <<>>), d)
<1>1. PICK root, old, new, state, laid, whole :
         /\ root = request.root /\ old = Parsed(before) /\ new = Parsed(files)
         /\ state = Prospective(before, request.root, writes)
         /\ laid = Prospective(before, request.root, writes).stems
         /\ whole = DiscoverStemState(files, <<>>)
  OBVIOUS
<1>2. d \in Dirs /\ Near(old, root, d)
  BY <1>1, GovernedIs
<1>3. laid[d] = new[d] /\ Chain(new, d) = Chain(laid, d)
  BY <1>1, <1>2, SameWalk, TreeAndSnapshot
<1>4. laid[d] # None
  <2>1. CASE d \in Targets(writes)
    BY <1>1, <1>3, <2>1, TreeAndSnapshot
  <2>2. CASE d \notin Targets(writes)
    <3>1. files[d] \in File /\ new[d] = Load(files[d])
      BY <1>1, <1>2 DEF Typed, Parsed
    <3>2. ParseStem(files[d]) # None
      <4>1. CASE Parses(files[d])
        <5>1. files[d] \in Stems \cup {Garbage, None} /\ files[d] # Garbage
          BY <3>1, <4>1 DEF File, Parses
        <5> QED BY <4>1, <5>1, ParsesToStem
      <4>2. CASE ~Parses(files[d])
        BY <4>2, StemRulesAssumption DEF ParseStem, Bad
      <4> QED BY <4>1, <4>2
    <3> QED BY <1>3, <3>1, <3>2 DEF Load
  <2> QED BY <2>1, <2>2
<1>5. Under(d, root) \/ d \in state.evaluated
  <2>1. CASE d \in Targets(writes)
    <3>1. writes \in Seq(ToSet(writes)) /\ Targets(writes) \subseteq Dirs
      BY EverythingWritten DEF IInv, Shape
    <3>2. {d} \cup BadAbove(state.stems, d) \subseteq state.evaluated
      BY <1>1, <2>1, <3>1, ProspectiveIs
    <3> QED BY <3>2
  <2>2. CASE d \notin Targets(writes)
    BY <1>1, <2>2 DEF Governed
  <2> QED BY <2>1, <2>2
<1>6. ~StemErrors(state, d)
  BY <1>1, <1>2, <1>4, <1>5, JudgedAre
<1>7. whole.stems = new
  BY <1>1, TopSeesAll
<1>8. Inherited(new, d) = Inherited(laid, d)
  BY <1>3 DEF Inherited, RulesAt
<1>9. state.stems = laid
  BY <1>1
<1> QED BY <1>1, <1>3, <1>6, <1>7, <1>8, <1>9 DEF StemErrors

\* What a walk visits, by level.
LEMMA VisitedIs ==
    ASSUME NEW stems, NEW d \in Dirs
    PROVE  /\ \A e \in ToSet(Walked(stems, d)) : \E n \in Boundary(stems, d)..Len(d) : e = Up(d, n)
           /\ \A n \in Boundary(stems, d)..Len(d) : Up(d, n) \in ToSet(Walked(stems, d))
<1>1. PICK b : b = Boundary(stems, d)
  OBVIOUS
<1>2. b \in 0..Len(d) /\ Len(d) \in Nat
  BY <1>1, BoundaryIs, UpIs
<1>3. Walked(stems, d) = [i \in 1..(Len(d) - b + 1) |-> Up(d, b + i - 1)]
  BY <1>1 DEF Walked
<1>4. ASSUME NEW e \in ToSet(Walked(stems, d)) PROVE \E n \in b..Len(d) : e = Up(d, n)
  <2>1. PICK i \in 1..(Len(d) - b + 1) : e = Up(d, b + i - 1)
    BY <1>3 DEF ToSet
  <2>2. b + i - 1 \in b..Len(d)
    BY <1>2
  <2> QED BY <2>1, <2>2
<1>5. ASSUME NEW n \in b..Len(d) PROVE Up(d, n) \in ToSet(Walked(stems, d))
  <2>1. n - b + 1 \in 1..(Len(d) - b + 1) /\ b + (n - b + 1) - 1 = n
    BY <1>2
  <2>2. PICK i \in 1..(Len(d) - b + 1) : b + i - 1 = n
    BY <2>1
  <2>3. Walked(stems, d)[i] = Up(d, n) /\ i \in DOMAIN Walked(stems, d)
    BY <1>3, <2>2
  <2> QED BY <2>3 DEF ToSet
<1> QED BY <1>1, <1>4, <1>5

\* A directory high enough is in the walk.
LEMMA ReachesUp ==
    ASSUME NEW stems, NEW d \in Dirs, NEW n \in 0..Len(d),
           \A m \in 0..Len(d) : Marker(stems, Up(d, m)) => m <= n
    PROVE  Up(d, n) \in ToSet(Walked(stems, d))
<1>1. /\ Boundary(stems, d) \in 0..Len(d) /\ Len(d) \in Nat
      /\ Boundary(stems, d) # 0 => Marker(stems, Up(d, Boundary(stems, d)))
  BY BoundaryIs, UpIs
<1>2. n \in Boundary(stems, d)..Len(d)
  BY <1>1
<1> QED BY <1>2, VisitedIs

\* Every record the run was to judge finds its chain: a malformed .stem in its
\* walk would have blocked the batch, or failed the preflight.
LEMMA GovernedResolve ==
    ASSUME IInv, Typed, Passed, WroteUndisturbed, NEW d \in Governed, d \in Populated \/ files[d] # None
    PROVE  WalkUp(Parsed(files), d) # "malformed"
<1>1. PICK root, old, new, state, laid, T :
         /\ root = request.root /\ old = Parsed(before) /\ new = Parsed(files)
         /\ state = Prospective(before, request.root, writes)
         /\ laid = Prospective(before, request.root, writes).stems
         /\ T = Targets(writes)
  OBVIOUS
<1>2. d \in Dirs /\ Near(old, root, d) /\ Len(d) \in Nat
  BY <1>1, GovernedIs, UpIs
<1>3. PICK b : b = Boundary(laid, d)
  OBVIOUS
<1>4. /\ b \in 0..Len(d) /\ Boundary(new, d) = b
      /\ \A n \in b..Len(d) : Up(d, n) \in Dirs /\ Near(old, root, Up(d, n)) /\ laid[Up(d, n)] = new[Up(d, n)]
  BY <1>1, <1>2, <1>3, SameWalk
<1> SUFFICES ASSUME WalkUp(new, d) = "malformed" PROVE FALSE
  BY <1>1
<1>5. PICK n \in b..Len(d) : new[Up(d, n)] = Bad
  <2>1. PICK e \in ToSet(Walked(new, d)) : new[e] = Bad
    BY DEF WalkUp
  <2> QED BY <1>2, <1>4, <2>1, VisitedIs
<1>6. PICK x : x = Up(d, n)
  OBVIOUS
<1>7. n \in 0..Len(d) /\ x \in Dirs /\ Near(old, root, x) /\ new[x] = Bad /\ laid[x] = Bad
  BY <1>2, <1>4, <1>5, <1>6
<1>8. x \notin T /\ old[x] = Bad
  <2>1. x \notin T
    BY <1>1, <1>7, TreeAndSnapshot
  <2> QED BY <1>1, <1>7, <2>1, TreeAndSnapshot
<1>9. ~Under(x, root) /\ x \notin state.evaluated
  <2> SUFFICES ASSUME Under(x, root) \/ x \in state.evaluated PROVE FALSE
    OBVIOUS
  <2>1. laid[x] # None
    BY <1>7, StemRulesAssumption DEF Bad
  <2>2. ~StemErrors(state, x)
    BY <1>1, <1>7, <2>1, JudgedAre
  <2> QED BY <1>1, <1>7, <2>2 DEF StemErrors
<1>10. \A m \in 0..Len(d) : Marker(new, Up(d, m)) \/ Marker(laid, Up(d, m)) => m <= n
  <2>1. \A m \in 0..Len(d) : Marker(new, Up(d, m)) => m <= b
    BY <1>2, <1>4, BoundaryIs
  <2>2. \A m \in 0..Len(d) : Marker(laid, Up(d, m)) => m <= b
    BY <1>2, <1>3, BoundaryIs
  <2> QED BY <1>2, <1>4, <2>1, <2>2
\* No write lies on the way: its overlay would have found the malformed .stem.
<1>11. ASSUME NEW m \in 0..Len(d), m > n PROVE Up(d, m) \notin T
  <2> SUFFICES ASSUME Up(d, m) \in T PROVE FALSE
    OBVIOUS
  <2>1. PICK t : t = Up(d, m)
    OBVIOUS
  <2>2. t \in Dirs /\ Len(t) = m /\ \A k \in 0..m : Up(t, k) = Up(d, k)
    BY <1>2, <2>1, UpIs, UpUp
  <2>3. n \in 0..m /\ \A k \in 0..m : k \in 0..Len(d)
    BY <1>2, <1>7, <1>11
  <2>4. \A k \in 0..Len(t) : Marker(laid, Up(t, k)) => k <= n
    BY <1>10, <2>2, <2>3
  <2>5. x \in ToSet(Walked(laid, t))
    <3>1. Up(t, n) \in ToSet(Walked(laid, t))
      BY <2>2, <2>3, <2>4, ReachesUp
    <3> QED BY <1>6, <2>2, <2>3, <3>1
  <2>6. x \in BadAbove(laid, t)
    BY <1>7, <2>5 DEF BadAbove
  <2>7. writes \in Seq(ToSet(writes)) /\ T \subseteq Dirs
    BY <1>1, EverythingWritten DEF IInv, Shape
  <2>8. {t} \cup BadAbove(laid, t) \subseteq state.evaluated
    BY <1>1, <2>1, <2>7, ProspectiveIs
  <2> QED BY <1>9, <2>6, <2>8
<1>12. n # Len(d)
  <2> SUFFICES ASSUME n = Len(d) PROVE FALSE
    OBVIOUS
  <2>1. x = d
    BY <1>2, <1>6, UpFull
  <2> QED BY <1>1, <1>8, <1>9, <2>1 DEF Governed
<1>13. d \notin T
  <2>1. Len(d) \in 0..Len(d) /\ Len(d) > n
    BY <1>2, <1>7, <1>12
  <2> QED BY <1>2, <1>11, <2>1, UpFull
<1>14. Under(d, root) /\ files[d] = before[d]
  BY <1>1, <1>2, <1>13, EverythingWritten DEF Governed
<1>15. \A m \in 0..Len(d) : Marker(old, Up(d, m)) => m <= n
  <2> SUFFICES ASSUME NEW m \in 0..Len(d), Marker(old, Up(d, m)), m > n PROVE FALSE
    BY <1>2, <1>7
  <2>1. Up(d, m) \in Dirs \ T
    BY <1>2, <1>11, UpIs
  <2>2. new[Up(d, m)] = old[Up(d, m)]
    BY <1>1, <2>1, TreeAndSnapshot
  <2>3. Marker(new, Up(d, m))
    BY <2>2 DEF Marker
  <2> QED BY <1>2, <1>7, <1>10, <2>3
<1>16. x \in ToSet(Walked(old, d))
  BY <1>2, <1>6, <1>7, <1>15, ReachesUp
<1>17. WalkUp(old, d) = "malformed"
  BY <1>8, <1>16 DEF WalkUp
<1>18. d \in UnresolvableOn(before, root)
  BY <1>1, <1>2, <1>14, <1>17 DEF UnresolvableOn
<1> QED BY <1>1, <1>18 DEF Passed, Through, WroteUndisturbed, Complete

LEMMA PassedMeansHealthy == IInv /\ Typed /\ Passed => CompleteMeansHealthy
<1> SUFFICES ASSUME IInv, Typed, Passed, WroteUndisturbed, NEW d \in Governed
             PROVE  LET state == DiscoverStemState(files, <<>>)
                    IN  /\ files[d] # None => ~StemErrors(state, d)
                        /\ d \in Populated \/ files[d] # None => WalkUp(state.stems, d) # "malformed"
  BY DEF CompleteMeansHealthy
<1> QED BY GovernedWithoutErrors, GovernedResolve, TopSeesAll

\* The .stem that an analyze report amends governs the root (ResolveStemState).
LEMMA OwnerIs ==
    ASSUME NEW stems, NEW root \in Dirs, WalkUp(stems, root) = "ok"
    PROVE  ClosestStem(stems, root) \in Dirs /\ Near(stems, root, ClosestStem(stems, root))
<1>1. PICK owner, W : owner = ClosestStem(stems, root) /\ W = ToSet(Walked(stems, root))
  OBVIOUS
<1>2. \E d \in W : stems[d] # None
  BY <1>1 DEF WalkUp
<1>3. Len(root) \in Nat /\ \A d \in W : d \in Dirs /\ Len(d) \in 0..Len(root)
  BY <1>1, WalkedIs
<1>4. \E d \in W : stems[d] # None /\ \A e \in W : stems[e] # None => Len(e) <= Len(d)
  <2> DEFINE T == {Len(d) : d \in {e \in W : stems[e] # None}}
  <2>1. T \in SUBSET (0..Len(root)) /\ T # {}
    BY <1>2, <1>3
  <2>2. PICK n \in T : \A k \in T : k <= n
    <3> HIDE DEF T
    <3> QED BY <1>3, <2>1, GreatestNatural
  <2> QED BY <2>2
<1>5. owner \in W
  BY <1>1, <1>4 DEF ClosestStem
<1>6. PICK n \in Boundary(stems, root)..Len(root) : owner = Up(root, n)
  BY <1>1, <1>5, VisitedIs
<1>7. owner \in Dirs
  BY <1>3, <1>5
<1>8. CASE n = Len(root)
  <2>1. owner = root /\ Under(root, root)
    BY <1>3, <1>6, <1>8, UpFull, UnderIs
  <2> QED BY <1>1, <1>7, <2>1 DEF Near
<1>9. CASE n # Len(root)
  <2>1. /\ Boundary(stems, root) \in 0..Len(root)
        /\ \A m \in 0..Len(root) : Marker(stems, Up(root, m)) => m <= Boundary(stems, root)
    BY BoundaryIs
  <2>2. n \in 0..(Len(root) - 1)
    BY <1>3, <1>9, <2>1
  <2>3. root # <<>>
    BY <2>2
  <2>4. PICK b : b = Lowest(stems, root)
    OBVIOUS
  <2>5. /\ b \in 0..(Len(root) - 1) /\ (b # 0 => Marker(stems, Up(root, b)))
        /\ External(stems, root) = {Up(root, m) : m \in b..(Len(root) - 1)}
    BY <2>3, <2>4, ExternalIs
  <2>6. b <= Boundary(stems, root)
    BY <1>3, <2>1, <2>5
  <2>7. n \in b..(Len(root) - 1)
    BY <1>3, <2>1, <2>2, <2>5, <2>6
  <2> QED BY <1>1, <1>6, <1>7, <2>5, <2>7 DEF Near
<1> QED BY <1>8, <1>9

LEMMA InitPassed == Init => Passed
<1> SUFFICES ASSUME Init PROVE Passed
  OBVIOUS
<1> QED BY DEF Init, Passed, Through

LEMMA StartPassed == ASSUME NEW r \in Requests, Start(r) PROVE Passed'
<1>1. phase' \in {"plan", "resolve", "done"} /\ writes' = <<>> /\ ToSet(writes') = {}
  BY DEF Start, ToSet
<1> QED BY <1>1 DEF Passed, Through

\* Planning the proposals: what is accepted lies under the root.
LEMMA PlanPassed ==
    ASSUME IInv, Typed, Passed, Decline \/ Keep \/ Accept \/ TargetFails
    PROVE  Passed'
<1>1. phase = "plan" /\ phase' = "plan" /\ Planning /\ UNCHANGED <<request, before, foreign>>
  BY DEF Decline, Keep, Accept, TargetFails, Answer, Planning, history
<1>2. \A w : Aimed(w)' <=> Aimed(w)
  BY <1>1 DEF Aimed
<1>3. foreign = {} => \A w \in ToSet(writes') : Aimed(w)
  <2>1. CASE UNCHANGED writes
    BY <1>1, <2>1 DEF Passed
  <2>2. CASE Accept
    <3> DEFINE w == [target |-> Proposal.target, file |-> Proposal.file,
                     action |-> IF Exists THEN "overwrite_stem" ELSE "create_stem"]
    <3>1. /\ writes' = Append(writes, w) /\ Proposal.file # None
          /\ Under(Proposal.target, request.root)
      BY <2>2 DEF Accept, Plannable, Permitted
    <3>2. Aimed(w)
      BY <3>1 DEF Aimed
    <3> HIDE DEF w
    <3>3. ToSet(writes') = ToSet(writes) \cup {w}
      BY <3>1, AppendAdds DEF IInv, Shape
    <3> QED BY <1>1, <3>2, <3>3 DEF Passed
  <2> QED BY <2>1, <2>2 DEF Decline, Keep, TargetFails
<1> QED BY <1>1, <1>2, <1>3 DEF Passed, Through

LEMMA ResolvePassed == ASSUME Foretold, Passed, Resolve PROVE Passed'
<1>1. /\ phase = "resolve" /\ phase' \in {"infer", "done"} /\ UNCHANGED <<request, before, foreign, writes>>
      /\ phase' = "infer" => /\ WalkUp(Parsed(files), request.root) = "ok"
                             /\ queue' = {ClosestStem(Parsed(files), request.root)}
  BY DEF Resolve, Step, history
<1>2. writes = <<>> /\ ToSet(writes) = {}
  BY <1>1 DEF Passed, ToSet
<1>3. foreign = {} => files = before
  BY <1>1 DEF Foretold, Before
<1> QED BY <1>1, <1>2, <1>3 DEF Passed, Through

\* Planning the inferences: the amended .stem keeps what it says of the top.
LEMMA InferPassed == ASSUME IInv, Typed, Foretold, Passed, Infer PROVE Passed'
<1>1. phase = "infer" /\ phase' \in {"done", "gate"} /\ UNCHANGED <<files, request, before, foreign>>
  BY DEF Infer, Step, history
<1>2. writes = <<>> /\ ToSet(writes) = {}
  BY <1>1 DEF Passed, ToSet
<1>3. PICK owner \in queue :
         \/ writes' = writes
         \/ /\ files[owner] # None /\ Parses(files[owner]) /\ phase' = "gate"
            /\ writes' = <<[target |-> owner, file |-> Amended(files[owner], request.inferences), action |-> "amend"]>>
  BY DEF Infer, Step
<1>4. CASE writes' = writes
  BY <1>1, <1>2, <1>4 DEF Passed, Through
<1>5. CASE writes' # writes
  <2>1. PICK w : w = [target |-> owner, file |-> Amended(files[owner], request.inferences), action |-> "amend"]
    OBVIOUS
  <2>2. /\ files[owner] # None /\ Parses(files[owner]) /\ phase' = "gate" /\ writes' = <<w>>
        /\ w.target = owner /\ w.file = Amended(files[owner], request.inferences)
    BY <1>3, <1>5, <2>1
  <2>3. ToSet(writes') = {w}
    BY <2>2 DEF ToSet
  <2>4. ASSUME foreign = {} PROVE Aimed(w)
    <3>1. /\ files = before /\ WalkUp(Parsed(before), request.root) = "ok"
          /\ owner = ClosestStem(Parsed(before), request.root)
      BY <1>1, <1>3, <2>4 DEF Foretold, Before, Passed
    <3>2. request \in ReportsAndFlags
      <4>1. request \in Requests
        BY <1>1 DEF Typed, TypeOK
      <4> QED BY <4>1, RequestIs
    <3>3. owner \in Dirs /\ Near(Parsed(before), request.root, owner)
      BY <3>1, <3>2, OwnerIs DEF ReportsAndFlags
    <3>4. PICK file : file = files[owner]
      OBVIOUS
    <3>5. file \in Stems /\ Parses(file) /\ file # None
      <4>1. file \in Stems \cup {Garbage, None} /\ Parses(file) /\ file # None
        BY <2>2, <3>3, <3>4 DEF Typed, File
      <4> QED BY <4>1 DEF Parses
    <3>6. Amended(file, request.inferences) \in Stems /\ Amended(file, request.inferences).root = file.root
      <4>1. request.inferences \in Inferences
        BY <3>2 DEF ReportsAndFlags
      <4>2. Amended(file, request.inferences) \in Stems
        BY <3>5, <4>1, AmendedIs
      <4>3. PICK schema : Amended(file, request.inferences) = [file EXCEPT !.schema = schema]
        BY DEF Amended
      <4>4. [file EXCEPT !.schema = schema].root = file.root
        BY <3>5 DEF Stems
      <4> QED BY <4>2, <4>3, <4>4
    <3>7. Parsed(before)[owner] = ParseStem(file)
      BY <3>1, <3>3, <3>4, <3>5 DEF Parsed, Load
    <3>8. Marker(Parsed(before), owner) = file.root
      <4>1. ParseStem(file) \notin {None, Bad} /\ ParseStem(file).root = file.root
        BY <3>5, ParsesToStem
      <4>2. file.root \in BOOLEAN
        BY <3>5 DEF Stems
      <4> QED BY <3>7, <4>1, <4>2 DEF Marker
    <3>9. w.file # None /\ w.file.root = Marker(Parsed(before), owner)
      BY <2>2, <3>4, <3>6, <3>8, MarksAssumption
    <3> QED BY <2>2, <3>3, <3>9 DEF Aimed, Near
  <2>5. Aimed(w)' <=> Aimed(w)
    BY <1>1 DEF Aimed
  <2> QED BY <1>1, <2>2, <2>3, <2>4, <2>5 DEF Passed, Through
<1> QED BY <1>4, <1>5

\* What a step after the plan has to show: the verdict it adds, if any.
LEMMA VerdictKept ==
    ASSUME Passed, phase # "idle", phase' \notin {"resolve", "infer"}, UNCHANGED <<request, before, foreign, writes>>,
           (Through /\ ledger.errors = {} =>
                Targets(writes) \subseteq AppliedTo \cup (IF phase = "write" THEN queue ELSE {}))',
           foreign = {} /\ (phase = "preflight" \/ Through)' =>
                BlockingStemHealth(Prospective(before, request.root, writes)) = {},
           foreign = {} /\ Through' => UnresolvableOn(before, request.root) = {}
    PROVE  Passed'
<1>1. foreign = {} => \A w \in ToSet(writes) : Aimed(w)'
  <2> SUFFICES ASSUME foreign = {}, NEW w \in ToSet(writes) PROVE Aimed(w)'
    OBVIOUS
  <2>1. Aimed(w)
    BY DEF Passed
  <2> QED BY <2>1 DEF Aimed
<1> QED BY <1>1 DEF Passed

LEMMA EndPlanPassed == ASSUME Passed, EndPlan PROVE Passed'
<1>1. /\ phase = "plan" /\ phase' \in {"done", "gate"} /\ UNCHANGED <<request, before, foreign, writes, ledger>>
      /\ phase' = "done" => ledger.errors # {} \/ writes = <<>>
  BY DEF EndPlan, Step, history
<1>2. ~Through'
  BY <1>1 DEF Through
<1> QED BY <1>1, <1>2, VerdictKept

\* The plan is judged on the tree as it would be (validateProspectiveStemWrites).
LEMMA GatePassed == ASSUME IInv, Foretold, Passed, Gate PROVE Passed'
<1> DEFINE blocking == BlockingStemHealth(Prospective(files, request.root, writes))
           found    == {<<"stem health", d>> : d \in blocking}
<1>1. /\ phase = "gate" /\ UNCHANGED <<request, before, foreign, writes>> /\ Result(ledger)
      /\ phase' = IF blocking = {} THEN "preflight" ELSE "done"
      /\ ledger' = [ledger EXCEPT !.errors = @ \cup found]
      /\ foreign = {} => files = before
  BY DEF Gate, Step, history, Foretold, Before, IInv, Shape
<1>2. ledger'.errors = ledger.errors \cup found
  <2> HIDE DEF found, blocking
  <2> QED BY <1>1 DEF Result
<1>3. blocking # {} => found # {}
  OBVIOUS
<1>4. ~Through'
  <2> HIDE DEF found, blocking
  <2> QED BY <1>1, <1>2, <1>3 DEF Through
<1>5. foreign = {} /\ phase' = "preflight" => BlockingStemHealth(Prospective(before, request.root, writes)) = {}
  BY <1>1
<1> HIDE DEF found, blocking
<1> QED BY <1>1, <1>4, <1>5, VerdictKept

\* The records still resolve (preflightSchemaApplyRecords).
LEMMA PreflightPassed == ASSUME IInv, Foretold, Passed, Preflight PROVE Passed'
<1>1. /\ phase = "preflight" /\ UNCHANGED <<request, before, foreign, writes>> /\ Result(ledger)
      /\ foreign = {} => files = before
  BY DEF Preflight, Step, history, Foretold, Before, IInv, Shape
<1>2. Unresolvable(request.root) = UnresolvableOn(files, request.root)
  BY DEF Unresolvable, UnresolvableOn
<1>3. foreign = {} => BlockingStemHealth(Prospective(before, request.root, writes)) = {}
  BY <1>1 DEF Passed
<1>4. CASE Unresolvable(request.root) = {}
  <2>1. phase' = "write" /\ queue' = Targets(writes)
    BY <1>4 DEF Preflight, Step
  <2>2. foreign = {} => UnresolvableOn(before, request.root) = {}
    BY <1>1, <1>2, <1>4
  <2> QED BY <1>1, <1>3, <2>1, <2>2, VerdictKept
<1>5. CASE Unresolvable(request.root) # {}
  <2>1. phase' = "done" /\ ledger' = Failed(ledger, <<"records", request.root>>)
    BY <1>5 DEF Preflight, Step
  <2>2. ledger'.errors # {}
    BY <1>1, <2>1, FailedIs
  <2>3. ~Through'
    BY <2>1, <2>2 DEF Through
  <2> QED BY <1>1, <2>1, <2>3, VerdictKept
<1> QED BY <1>4, <1>5

\* While the run writes, what is planned is written, or waits.
LEMMA WritePassed == ASSUME IInv, Passed, NEW d \in Dirs, Write(d) \/ WriteFails(d) PROVE Passed'
<1>1. /\ phase = "write" /\ phase' = "write" /\ UNCHANGED <<request, before, foreign, writes>> /\ Result(ledger)
      /\ d \in Targets(writes) /\ queue' = queue \ {d}
  BY DEF Write, WriteFails, Ready, Step, history, IInv, Shape
<1>2. Through /\ Through'
  BY <1>1 DEF Through
<1>3. ledger'.errors = {} => Targets(writes) \subseteq AppliedTo' \cup queue'
  <2>1. CASE Write(d)
    <3>1. ledger' = [ledger EXCEPT !.applied = @ \cup Actions(writes, d)]
      BY <2>1 DEF Write
    <3>2. ledger'.errors = ledger.errors /\ ledger'.applied = ledger.applied \cup Actions(writes, d)
      BY <1>1, <3>1 DEF Result
    <3>3. AppliedTo' = AppliedTo \cup {d}
      <4>1. PICK l, ws : l = ledger.applied /\ ws = writes
        OBVIOUS
      <4>2. {a[2] : a \in l \cup Actions(ws, d)} = {a[2] : a \in l} \cup {d}
        BY <1>1, <4>1, ActionsOfTarget
      <4>3. AppliedTo = {a[2] : a \in l} /\ AppliedTo' = {a[2] : a \in l \cup Actions(ws, d)}
        BY <3>2, <4>1 DEF AppliedTo
      <4> QED BY <4>2, <4>3
    <3> QED BY <1>1, <1>2, <3>2, <3>3 DEF Passed
  <2>2. CASE WriteFails(d)
    <3>1. ledger' = Failed(ledger, <<"write", d>>)
      BY <2>2 DEF WriteFails, Step
    <3> QED BY <1>1, <3>1, FailedIs
  <2> QED BY <2>1, <2>2
<1> QED BY <1>1, <1>2, <1>3, VerdictKept DEF Passed

LEMMA ValidatePassed == ASSUME IInv, Passed, Validate PROVE Passed'
<1>1. /\ phase = "write" /\ phase' = "done" /\ queue = {} /\ UNCHANGED <<request, before, foreign, writes>>
      /\ ledger' \in {ledger, Failed(ledger, <<"validation", request.root>>)} /\ Result(ledger)
  BY DEF Validate, Step, history, IInv, Shape
<1>2. Through
  BY <1>1 DEF Through
<1>3. ledger'.errors = {} => ledger.errors = {} /\ AppliedTo' = AppliedTo
  BY <1>1, FailedIs DEF AppliedTo
<1>4. ledger'.errors = {} => Targets(writes) \subseteq AppliedTo'
  BY <1>1, <1>2, <1>3 DEF Passed
<1> QED BY <1>1, <1>2, <1>4, VerdictKept DEF Passed

LEMMA NextPassed == IInv /\ Typed /\ Foretold /\ Passed /\ [Next]_vars => Passed'
<1> SUFFICES ASSUME IInv, Typed, Foretold, Passed, [Next]_vars PROVE Passed'
  OBVIOUS
<1>1. CASE UNCHANGED vars
  BY <1>1 DEF vars, Passed, Through, Aimed, AppliedTo
<1>2. CASE Kill
  <2>1. /\ phase # "idle" /\ phase' = "killed" /\ UNCHANGED <<request, before, foreign, writes>>
    BY <1>2 DEF Kill, Active, Step, history
  <2> QED BY <2>1, VerdictKept DEF Through
<1>3. ASSUME NEW d \in Dirs, NEW file \in Edits, Edit(d, file) PROVE Passed'
  <2>1. UNCHANGED <<phase, request, writes, queue, ledger, before>> /\ foreign' # {}
    BY <1>3 DEF Edit
  <2> QED BY <2>1 DEF Passed, Through, AppliedTo
<1>4. ASSUME NEW r \in Requests, Start(r) PROVE Passed'
  BY <1>4, StartPassed
<1>5. CASE Decline \/ Keep \/ Accept \/ TargetFails
  BY <1>5, PlanPassed
<1>6. CASE Resolve \/ Infer
  BY <1>6, ResolvePassed, InferPassed
<1>7. CASE EndPlan \/ Gate \/ Preflight \/ Validate
  BY <1>7, EndPlanPassed, GatePassed, PreflightPassed, ValidatePassed
<1>8. ASSUME NEW d \in Dirs, Write(d) \/ WriteFails(d) PROVE Passed'
  BY <1>8, WritePassed
<1> QED BY <1>1, <1>2, <1>3, <1>4, <1>5, <1>6, <1>7, <1>8 DEF Next

\* Of every tree and every report: a run that wrote, that nothing disturbed and
\* that says complete leaves every .stem below its root, and every .stem it wrote,
\* without errors in the hierarchy as it now is, and every record there finds
\* its chain.  The verdict is given before the first write, on a snapshot with
\* the batch laid over it (validateProspectiveStemWrites), and the walk of the
\* records on the tree as it was (preflightSchemaApplyRecords).
THEOREM CompleteIsHealthy == Spec => []CompleteMeansHealthy
<1> DEFINE Inv == IInv /\ Typed /\ Foretold /\ Passed
<1>1. Inv => CompleteMeansHealthy
  BY PassedMeansHealthy
<1>2. Init => Inv
  BY InitIInv, InitTyped, InitForetold, InitPassed
<1>3. Inv /\ [Next]_vars => Inv'
  BY NextIInv, NextTyped, NextForetold, NextPassed
<1> QED BY <1>1, <1>2, <1>3, PTL DEF Spec

\* After such a run a field, a rule or a structure that a level states is only
\* narrowed by the levels below it that the run judged (checkFieldCompatibility,
\* validateMonotonicStructural): what it rejects is still rejected there.
THEOREM NarrowingHolds == Spec => []NarrowingKeepsGuarantees
<1> DEFINE Inv == IInv /\ Typed /\ Foretold /\ Passed
<1>1. Inv => NarrowingKeepsGuarantees
  BY PassedMeansHealthy, HealthyMeansNarrowing
<1>2. Init => Inv
  BY InitIInv, InitTyped, InitForetold, InitPassed
<1>3. Inv /\ [Next]_vars => Inv'
  BY NextIInv, NextTyped, NextForetold, NextPassed
<1> QED BY <1>1, <1>2, <1>3, PTL DEF Spec
=============================================================================

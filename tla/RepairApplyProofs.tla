------------------------- MODULE RepairApplyProofs -------------------------
(***************************************************************************)
(* Proofs about RepairApply, for any documents, reports, schemas, number   *)
(* of runs and of mishaps: a run is well typed (Typed), what it leaves     *)
(* written is valid, restored or an error (Verified), it answers for every *)
(* path of every proposal (Answering), its result is an exact account of   *)
(* what it did to each document (Exact), a preview of it tells what it     *)
(* will do (Following), and a rerun after a kill ends where an undisturbed *)
(* run does (Recovering).                                                  *)
(***************************************************************************)
EXTENDS RepairApply, SequenceTheorems, Induction, TLAPS

(***************************************************************************)
(* The position of the apply pass: a proposal of the report and a place in *)
(* its paths; a pending write is one of a contained proposal.              *)
(***************************************************************************)
Position ==
    /\ run.phase = "read" => run.n = 1 /\ run.j = 1
    /\ run.phase \in {"apply", "write"} /\ run.n <= Last
         => run.j = 1 \/ run.j \in DOMAIN Current.paths
    /\ run.phase = "write" => /\ run.n <= Last
                              /\ Contained(Current) /\ Names(Current) # {}
                              /\ run.content \in Docs
    /\ run.phase = "restore" => run.at \in run.todo

Typed == TypeOK /\ Position

\* The proposals of a report: its length is a number, its elements proposals.
LEMMA ReportType ==
    ASSUME TypeOK
    PROVE  /\ Last \in Nat
           /\ DOMAIN report = 1..Last
           /\ \A n \in 1..Last : /\ report[n] \in Proposals
                                 /\ report[n].paths \in Seq(Paths)
                                 /\ Names(report[n]) \subseteq Paths
<1>1. report \in Seq(Proposals)
  BY RepairAssumption DEF TypeOK, RepairAssumption
<1>2. Last \in Nat /\ DOMAIN report = 1..Last
  BY <1>1 DEF Last
<1>3. ASSUME NEW n \in 1..Last
      PROVE  report[n] \in Proposals /\ report[n].paths \in Seq(Paths)
  <2>1. report[n] \in Proposals
    BY <1>1, <1>2
  <2>2. QED
    BY <2>1 DEF Proposals
<1>4. ASSUME NEW n \in 1..Last
      PROVE  Names(report[n]) \subseteq Paths
  BY <1>3 DEF Names
<1>5. QED
  BY <1>2, <1>3, <1>4

\* The proposal and the path the apply pass is at.
LEMMA CurrentType ==
    ASSUME Typed, run.phase \in {"apply", "write"}, run.n <= Last
    PROVE  /\ run.n \in 1..Last
           /\ Current \in Proposals
           /\ Current.paths \in Seq(Paths)
           /\ Names(Current) \subseteq Paths
           /\ Names(Current) # {} => /\ run.j \in 1..Len(Current.paths)
                                     /\ Path \in Names(Current) /\ Path \in Paths
<1>1. run.n \in 1..Last
  BY ReportType DEF Typed, TypeOK, Runs
<1>2. /\ Current \in Proposals /\ Current.paths \in Seq(Paths)
      /\ Names(Current) \subseteq Paths
  BY <1>1, ReportType DEF Typed, Current
<1>3. ASSUME Names(Current) # {}
      PROVE  run.j \in 1..Len(Current.paths) /\ Path \in Names(Current)
  <2>1. Len(Current.paths) \in Nat /\ DOMAIN Current.paths = 1..Len(Current.paths)
    BY <1>2
  <2>2. Len(Current.paths) # 0
    BY <1>3, <2>1 DEF Names
  <2>3. run.j \in DOMAIN Current.paths
    BY <2>1, <2>2 DEF Typed, Position
  <2>4. QED
    BY <2>1, <2>3 DEF Path, Names
<1>4. QED
  BY <1>1, <1>2, <1>3

\* Whatever is noted on the ledger, it stays a ledger.
LEMMA NoteType ==
    ASSUME TypeOK, NEW kind \in {"changed", "skipped", "rejected", "errors"},
           NEW entries \in SUBSET Entries, Note(kind, entries)
    PROVE  ledger' \in Ledgers
BY DEF TypeOK, Ledgers, Note

\* The next place of the apply pass: a later path of the proposal or a later
\* proposal.
LEMMA NextPathType ==
    ASSUME Typed, run.phase \in {"apply", "write"}, run.n <= Last,
           run' \in {NextPath, NextProposal}
    PROVE  \E n \in 1..Last + 1, j \in Nat \ {0} :
              /\ run' = [run EXCEPT !.phase = "apply", !.n = n, !.j = j]
              /\ \/ n = run.n + 1 /\ j = 1
                 \/ n = run.n /\ j = run.j + 1 /\ j \in DOMAIN Current.paths
<1>1. run.n \in 1..Last /\ Current.paths \in Seq(Paths) /\ Last \in Nat
  BY CurrentType, ReportType DEF Typed
<1>2. CASE run' = NextProposal
  <2>1. run.n + 1 \in 1..Last + 1 /\ 1 \in Nat \ {0}
    BY <1>1
  <2>2. QED
    BY <1>2, <2>1 DEF NextProposal
<1>3. CASE run' = NextPath /\ run' # NextProposal
  <2>1. run.j < Len(Current.paths) /\ run' = [run EXCEPT !.phase = "apply", !.j = run.j + 1]
    BY <1>3 DEF NextPath
  <2>2. run.j + 1 \in DOMAIN Current.paths /\ run.j + 1 \in Nat \ {0}
    BY <1>1, <2>1 DEF Typed, TypeOK, Runs
  <2>3. run' = [run EXCEPT !.phase = "apply", !.n = run.n, !.j = run.j + 1]
    BY <2>1 DEF Typed, TypeOK, Runs
  <2>4. run.n \in 1..Last + 1
    BY <1>1
  <2>5. QED
    BY <2>2, <2>3, <2>4
<1>4. QED
  BY <1>2, <1>3

\* The move to the next place keeps what is said of the position.
LEMMA MoveTyped ==
    ASSUME Typed, run.phase \in {"apply", "write"}, run.n <= Last,
           run' \in {NextPath, NextProposal}, UNCHANGED report
    PROVE  /\ Position'
           /\ run' \in Runs'
<1>1. PICK n \in 1..Last + 1, j \in Nat \ {0} :
              /\ run' = [run EXCEPT !.phase = "apply", !.n = n, !.j = j]
              /\ \/ n = run.n + 1 /\ j = 1
                 \/ n = run.n /\ j = run.j + 1 /\ j \in DOMAIN Current.paths
  BY NextPathType
<1>2. run'.n = n /\ run'.j = j /\ run'.phase = "apply"
  BY <1>1 DEF Typed, TypeOK, Runs
<1>3. Last' = Last
  BY DEF Last
<1>4. n = run.n => Current' = Current
  BY <1>2 DEF Current
<1>5. Position'
  BY <1>1, <1>2, <1>3, <1>4 DEF Position
<1>6. QED
  BY <1>1, <1>3, <1>5 DEF Runs, Typed, TypeOK, Phases

\* The records a run starts from.
LEMMA FreshType ==
    /\ Unread \in Targets
    /\ [p \in Paths |-> Unread] \in [Paths -> Targets]
    /\ [f \in Fields |-> None] \in Frontmatter
    /\ NoLedger \in Ledgers
BY DEF Targets, Unread, NoLedger, Ledgers, Frontmatter

\* The report does not change, and with it the types.
LEMMA SameReport ==
    ASSUME UNCHANGED report
    PROVE  Last' = Last /\ Entries' = Entries /\ Ledgers' = Ledgers /\ Runs' = Runs
BY DEF Last, Entries, Ledgers, Runs

\* What an action that leaves report, previous and start alone has to keep.
LEMMA TypedParts ==
    ASSUME TypeOK, Hist, Well \/ Mishap,
           disk' \in [Paths -> Docs \cup {None}],
           run' \in Runs',
           target' \in [Paths -> Targets],
           ledger' \in Ledgers',
           edited' \subseteq Paths, ours' \subseteq Paths
    PROVE  TypeOK'
<1>1. mishaps' \in 0..MaxMishaps
  BY RepairAssumption DEF TypeOK, Well, Mishap, RepairAssumption
<1>2. Ledgers' = Ledgers
  BY SameReport DEF Hist
<1>3. QED
  BY <1>1, <1>2 DEF TypeOK, Hist

LEMMA InitTyped == Init => Typed
<1> SUFFICES ASSUME Init PROVE Typed
  OBVIOUS
<1>1. report \in Seq(Proposals) /\ Last \in Nat
  BY RepairAssumption DEF Init, RepairAssumption, Last
<1>2. run \in Runs
  BY <1>1, FreshType, RepairAssumption DEF Init, Runs, Idle, Phases, RepairAssumption
<1>3. start \in [Paths -> Docs] /\ disk \in [Paths -> Docs \cup {None}]
  BY RepairAssumption DEF Init, RepairAssumption
<1>4. previous \in [outcome : {"none", "done", "killed"}, dry : BOOLEAN, ledger : Ledgers]
  BY FreshType DEF Init
<1>5. TypeOK
  BY <1>2, <1>3, <1>4, FreshType, RepairAssumption DEF Init, TypeOK, RepairAssumption
<1>6. Position
  BY DEF Init, Position, Idle
<1>7. QED
  BY <1>5, <1>6 DEF Typed

LEMMA BeginTyped ==
    ASSUME Typed, Begin
    PROVE  Typed'
<1>1. Last \in Nat /\ Last' = Last
  BY ReportType DEF Typed, Begin, Last
<1>2. Applicable \subseteq Paths
  BY ReportType DEF Typed, Applicable
<1>3. run.number + 1 \in 0..MaxRuns
  BY RepairAssumption, SMTT(30) DEF Begin, Typed, TypeOK, Runs, RepairAssumption
<1>4. PICK dry \in BOOLEAN :
         run' = [Idle EXCEPT !.number = run.number + 1, !.dry = dry, !.todo = Applicable,
                             !.phase = IF Last = 0 THEN "done"
                                       ELSE IF Applicable = {} THEN "apply" ELSE "read"]
  BY DEF Begin
<1>5. run' \in Runs
  <2> DEFINE phase == IF Last = 0 THEN "done" ELSE IF Applicable = {} THEN "apply" ELSE "read"
  <2>1. phase \in Phases
    BY DEF Phases
  <2>2. run' = [phase |-> phase, number |-> run.number + 1, dry |-> dry, n |-> 1, j |-> 1,
                todo |-> Applicable, at |-> None, fm |-> [f \in Fields |-> None], content |-> None]
    BY <1>4 DEF Idle
  <2> HIDE DEF phase
  <2>3. QED
    BY <1>1, <1>2, <1>3, <2>1, <2>2, FreshType DEF Runs
<1>6. Refused \subseteq Entries /\ Unresolved \subseteq Entries
  <2>1. Refused \subseteq Entries
    BY <1>1 DEF Refused, Entries
  <2>2. Unresolvable \subseteq Paths
    BY RepairAssumption DEF RepairAssumption
  <2>3. Unresolved \subseteq {0} \X Paths
    BY <2>2 DEF Unresolved
  <2>4. QED
    BY <1>1, <2>1, <2>3 DEF Entries
<1>7. ledger' \in Ledgers
  BY <1>6 DEF Begin, NoLedger, Ledgers
<1>8. Ledgers' = Ledgers /\ Runs' = Runs
  BY SameReport DEF Begin
<1>9. previous' \in [outcome : {"none", "done", "killed"}, dry : BOOLEAN, ledger : Ledgers]
  BY DEF Begin, Typed, TypeOK, Runs
<1>10. TypeOK'
  BY <1>1, <1>5, <1>7, <1>8, <1>9, FreshType DEF Begin, Well, Typed, TypeOK
<1>11. Position'
  BY <1>4 DEF Position, Idle
<1>12. QED
  BY <1>10, <1>11 DEF Typed

\* The read pass.
LEMMA ReadTyped ==
    ASSUME Typed, NEW p \in Paths, Read(p) \/ ReadFails(p)
    PROVE  Typed'
<1>1. Last \in Nat /\ Runs' = Runs /\ Ledgers' = Ledgers /\ Last' = Last
  BY ReportType, SameReport DEF Typed, Read, ReadFails, Hist
<1>2. ReadDone(p)
  BY DEF Read, ReadFails
<1>3. run' \in Runs' /\ run'.n = run.n /\ run'.j = run.j
      /\ run'.phase \in {"read", "apply"}
  BY <1>1, <1>2 DEF ReadDone, Typed, TypeOK, Runs, Phases, Read, ReadFails
<1>4. target' \in [Paths -> Targets]
  <2>1. CASE Read(p)
    <3>1. disk[p] \in Docs /\ disk[p].fm \in Frontmatter
      BY <2>1 DEF Read, Typed, TypeOK, Docs
    <3>2. [Unread EXCEPT !.loaded = TRUE, !.fm = disk[p].fm, !.original = disk[p]] \in Targets
      BY <3>1, FreshType DEF Targets
    <3>3. QED
      BY <2>1, <3>2 DEF Read, Typed, TypeOK
  <2>2. CASE ReadFails(p)
    BY <2>2 DEF ReadFails, Typed, TypeOK
  <2>3. QED
    BY <2>1, <2>2
<1>5. ledger' \in Ledgers'
  <2>1. {<<0, p>>} \subseteq Entries
    BY <1>1 DEF Entries
  <2>2. QED
    BY <1>1, <2>1, NoteType DEF Read, ReadFails, Typed, TypeOK
<1>6. TypeOK'
  BY <1>1, <1>3, <1>4, <1>5, TypedParts DEF Read, ReadFails, Typed, TypeOK
<1>7. Position'
  BY <1>3 DEF Position, Typed, Read, ReadFails
<1>8. QED
  BY <1>6, <1>7 DEF Typed

(***************************************************************************)
(* The rewritten documents are documents.                                  *)
(***************************************************************************)
LEMMA SetSectionType ==
    ASSUME NEW lines \in Seq(Values) \cup {None}, NEW p \in Proposals
    PROVE  SetSection(lines, p) \in Seq(Values) \cup {None}
<1>1. p.to \in Values
  BY DEF Proposals
<1>2. QED
  BY <1>1 DEF SetSection

LEMMA ReplaceOnceType ==
    ASSUME NEW links \in Seq(Values), NEW from, NEW to \in Values
    PROVE  ReplaceOnce(links, from, to) \in Seq(Values)
<1> DEFINE at == {n \in DOMAIN links : links[n] = from}
           k == CHOOSE n \in at : \A m \in at : n <= m
<1>1. CASE at = {}
  BY <1>1 DEF ReplaceOnce
<1>2. CASE at # {}
  <2>1. ReplaceOnce(links, from, to) = [links EXCEPT ![k] = to]
    BY <1>2 DEF ReplaceOnce
  <2> HIDE DEF k
  <2>2. [links EXCEPT ![k] = to] \in Seq(Values)
    <3>1. Len(links) \in Nat /\ links \in [1..Len(links) -> Values]
      OBVIOUS
    <3>2. [links EXCEPT ![k] = to] \in [1..Len(links) -> Values]
      BY <3>1
    <3>3. QED
      BY <3>1, <3>2, SeqDef
  <2>3. QED
    BY <2>1, <2>2
<1>3. QED
  BY <1>1, <1>2

\* The cases of Effect.
LEMMA EffectCases ==
    ASSUME NEW p, NEW doc
    PROVE  /\ p.type \in {"correct", "add", "set"} => Effect(p, doc) = [doc EXCEPT !.fm[p.field] = p.to]
           /\ p.type = "section" =>
                Effect(p, doc) = [doc EXCEPT !.section = SetSection(@, p), !.sealed = TRUE]
           /\ p.type = "link" => Effect(p, doc) = [doc EXCEPT !.links = ReplaceOnce(@, p.from, p.to)]
BY Zenon DEF Effect

LEMMA EffectType ==
    ASSUME NEW p \in Proposals, NEW doc \in Docs, p.type # "schema"
    PROVE  Effect(p, doc) \in Docs
<1>1. p.to \in Values
  BY DEF Proposals
<1>2. CASE p.type \in {"correct", "add", "set"}
  <2>1. [doc EXCEPT !.fm[p.field] = p.to] \in Docs
    BY <1>1 DEF Docs, Frontmatter
  <2>2. QED
    BY <1>2, <2>1, EffectCases
<1>3. CASE p.type = "section"
  <2>1. SetSection(doc.section, p) \in Seq(Values) \cup {None}
    BY SetSectionType DEF Docs
  <2>2. [doc EXCEPT !.section = SetSection(@, p), !.sealed = TRUE] \in Docs
    BY <2>1 DEF Docs
  <2>3. QED
    BY <1>3, <2>2, EffectCases
<1>4. CASE p.type = "link"
  <2>1. ReplaceOnce(doc.links, p.from, p.to) \in Seq(Values)
    BY <1>1, ReplaceOnceType DEF Docs
  <2>2. [doc EXCEPT !.links = ReplaceOnce(@, p.from, p.to)] \in Docs
    BY <2>1 DEF Docs
  <2>3. QED
    BY <1>4, <2>2, EffectCases
<1>5. QED
  BY <1>2, <1>3, <1>4 DEF Proposals, Types

\* What the apply pass may write.
LEMMA RewrittenType ==
    ASSUME Typed, Changes
    PROVE  /\ Current \in Proposals /\ Path \in Paths /\ run.n \in 1..Last
           /\ Current.type \in {"correct", "add", "set", "section", "link"}
           /\ Candidate \in Frontmatter
           /\ TouchedRecord \in [Paths -> Targets]
           /\ ~NoRewrite => Base \in Docs /\ Rewritten \in Docs
<1>1. /\ Current \in Proposals /\ Path \in Paths /\ run.n \in 1..Last
      /\ Current.type \in {"correct", "add", "set", "section", "link"}
      /\ Current.to \in Values
  BY CurrentType DEF Changes, Applied, Applying, Proposals, Types
<1>2. target[Path] \in Targets
  BY <1>1 DEF Typed, TypeOK
<1>3. Candidate \in Frontmatter
  BY <1>1, <1>2 DEF Candidate, Targets, Frontmatter
<1>4. TouchedRecord \in [Paths -> Targets]
  BY <1>1, <1>2, <1>3 DEF TouchedRecord, Typed, TypeOK, Targets
<1>5. Base \in Docs \cup {None}
  BY <1>1, <1>2 DEF Base, Content, Targets, Typed, TypeOK
<1>6. ASSUME ~NoRewrite PROVE Base \in Docs /\ Rewritten \in Docs
  <2>1. Base \in Docs
    BY <1>5, <1>6 DEF NoRewrite
  <2>2. RewriteFrontmatter(Base, Candidate) \in Docs
    BY <1>3, <2>1 DEF Docs, RewriteFrontmatter
  <2>3. Effect(Current, Base) \in Docs
    BY <1>1, <2>1, EffectType
  <2>4. QED
    BY <2>1, <2>2, <2>3 DEF Rewritten
<1>7. QED
  BY <1>1, <1>3, <1>4, <1>6

(***************************************************************************)
(* The apply pass.                                                         *)
(***************************************************************************)
\* An action of the apply pass that moves on.
LEMMA ApplyTyped ==
    ASSUME Typed, run.phase \in {"apply", "write"}, run.n <= Last, Hist, Well \/ Mishap,
           run' \in {NextPath, NextProposal},
           disk' \in [Paths -> Docs \cup {None}],
           target' \in [Paths -> Targets], ledger' \in Ledgers,
           edited' \subseteq Paths, ours' \subseteq Paths
    PROVE  Typed'
<1>1. Position' /\ run' \in Runs' /\ Ledgers' = Ledgers
  BY MoveTyped, SameReport DEF Hist
<1>2. QED
  BY <1>1, TypedParts DEF Typed

LEMMA EntryType ==
    ASSUME Typed, run.phase \in {"apply", "write"}, run.n <= Last
    PROVE  /\ {<<run.n, p>> : p \in Names(Current)} \in SUBSET Entries
           /\ Names(Current) # {} => {<<run.n, Path>>} \in SUBSET Entries
<1>1. run.n \in 0..Last + 1 /\ Names(Current) \subseteq Paths
      /\ (Names(Current) # {} => Path \in Paths)
  BY CurrentType, ReportType DEF Typed
<1>2. QED
  BY <1>1 DEF Entries

LEMMA DisposeTyped ==
    ASSUME Typed, Dispose
    PROVE  Typed'
<1>1. run.phase = "apply" /\ run.n <= Last
  BY DEF Dispose, Applying
<1>2. ledger' \in Ledgers
  BY <1>1, EntryType, NoteType DEF Dispose, Typed, TypeOK
<1>3. QED
  BY <1>1, <1>2, ApplyTyped DEF Dispose, Typed, TypeOK

LEMMA NoTargetTyped ==
    ASSUME Typed, NoTarget
    PROVE  Typed'
<1>1. run.phase = "apply" /\ run.n <= Last
  BY DEF NoTarget, Applied, Applying
<1>2. QED
  BY <1>1, ApplyTyped DEF NoTarget, Typed, TypeOK

LEMMA SkipTyped ==
    ASSUME Typed, Skip
    PROVE  Typed'
<1>1. run.phase = "apply" /\ run.n <= Last /\ Names(Current) # {}
  BY DEF Skip, Applied, Applying
<1>2. ledger' \in Ledgers
  BY <1>1, EntryType, NoteType DEF Skip, Typed
<1>3. QED
  BY <1>1, <1>2, ApplyTyped DEF Skip, Typed, TypeOK

LEMMA RefuseTyped ==
    ASSUME Typed, Refuse
    PROVE  Typed'
<1>1. run.phase = "apply" /\ run.n <= Last /\ Names(Current) # {}
  BY DEF Refuse, Changes, Applied, Applying
<1>2. ledger' \in Ledgers
  BY <1>1, EntryType, NoteType DEF Refuse, Typed
<1>3. target' \in [Paths -> Targets]
  BY RewrittenType DEF Refuse
<1>4. QED
  BY <1>1, <1>2, <1>3, ApplyTyped DEF Refuse, Typed, TypeOK

LEMMA PreviewTyped ==
    ASSUME Typed, Preview
    PROVE  Typed'
<1>1. run.phase = "apply" /\ run.n <= Last /\ Names(Current) # {}
  BY DEF Preview, Changes, Applied, Applying
<1>2. ledger' \in Ledgers
  BY <1>1, EntryType, NoteType DEF Preview, Typed
<1>3. target' \in [Paths -> Targets]
  <2>1. Candidate \in Frontmatter /\ Rewritten \in Docs
    BY RewrittenType DEF Preview, Typed
  <2> HIDE DEF Candidate, Rewritten
  <2>2. target[Path] \in Targets
    BY <1>1, CurrentType DEF Typed, TypeOK
  <2>3. [target[Path] EXCEPT !.fm = Candidate, !.content = Rewritten] \in Targets
    BY <2>1, <2>2 DEF Targets
  <2>4. target' = [target EXCEPT ![Path] = [target[Path] EXCEPT !.fm = Candidate, !.content = Rewritten]]
    BY DEF Preview
  <2> QED
    BY <2>3, <2>4 DEF Typed, TypeOK
<1>4. QED
  BY <1>1, <1>2, <1>3, ApplyTyped DEF Preview, Typed, TypeOK

LEMMA RewriteTyped ==
    ASSUME Typed, Rewrite
    PROVE  Typed'
<1>1. run.phase = "apply" /\ run.n <= Last /\ Contained(Current) /\ Names(Current) # {}
  BY DEF Rewrite, Changes, Applied, Applying
<1>2. Candidate \in Frontmatter /\ Rewritten \in Docs /\ target' \in [Paths -> Targets]
  BY RewrittenType DEF Rewrite
<1>3. run' = [run EXCEPT !.phase = "write", !.fm = Candidate, !.content = Rewritten]
      /\ Runs' = Runs /\ Ledgers' = Ledgers /\ Last' = Last /\ UNCHANGED report
  BY SameReport DEF Rewrite, Hist
<1>4. run' \in Runs' /\ run'.phase = "write" /\ run'.n = run.n /\ run'.j = run.j
      /\ run'.content = Rewritten
  BY <1>2, <1>3 DEF Typed, TypeOK, Runs, Phases
<1>5. TypeOK'
  BY <1>2, <1>3, <1>4, TypedParts DEF Rewrite, Typed, TypeOK
<1>6. Current' = Current
  BY <1>3, <1>4 DEF Current
<1>7. Position'
  BY <1>1, <1>2, <1>3, <1>4, <1>6 DEF Position, Typed, Contained
<1>8. QED
  BY <1>5, <1>7 DEF Typed

LEMMA WriteTyped ==
    ASSUME Typed, Write
    PROVE  Typed'
<1>1. /\ run.phase = "write" /\ run.n <= Last /\ Names(Current) # {}
      /\ run.content \in Docs /\ run.fm \in Frontmatter
  BY DEF Write, Typed, TypeOK, Position, Runs
<1>2. Path \in Paths
  BY <1>1, CurrentType
<1>3. ledger' \in Ledgers
  BY <1>1, EntryType, NoteType DEF Write, Typed
<1>4. target' \in [Paths -> Targets] /\ disk' \in [Paths -> Docs \cup {None}]
  <2> DEFINE new == [target[Path] EXCEPT !.fm = run.fm, !.content = run.content, !.written = TRUE]
  <2>1. new \in Targets
    BY <1>1, <1>2 DEF Typed, TypeOK, Targets
  <2>2. target' = [target EXCEPT ![Path] = new]
    BY DEF Write
  <2> HIDE DEF new
  <2>3. target' \in [Paths -> Targets]
    BY <2>1, <2>2 DEF Typed, TypeOK
  <2>4. disk' \in [Paths -> Docs \cup {None}]
    BY <1>1 DEF Write, Typed, TypeOK
  <2> QED
    BY <2>3, <2>4
<1>5. QED
  BY <1>1, <1>2, <1>3, <1>4, ApplyTyped DEF Write, Typed, TypeOK

LEMMA WriteFailsTyped ==
    ASSUME Typed, WriteFails
    PROVE  Typed'
<1>1. run.phase = "write" /\ run.n <= Last /\ Names(Current) # {}
  BY DEF WriteFails, Typed, Position
<1>2. ledger' \in Ledgers
  BY <1>1, EntryType, NoteType DEF WriteFails, Typed
<1>3. QED
  BY <1>1, <1>2, ApplyTyped DEF WriteFails, Typed, TypeOK

(***************************************************************************)
(* The post-validation pass and the environment.                           *)
(***************************************************************************)
LEMMA EndApplyTyped ==
    ASSUME Typed, EndApply
    PROVE  Typed'
<1>1. run' \in Runs' /\ Ledgers' = Ledgers /\ run'.phase \in {"done", "check"}
  BY SameReport DEF EndApply, Hist, Unchecked, Typed, TypeOK, Runs, Phases
<1>2. TypeOK'
  BY <1>1, TypedParts DEF EndApply, Typed, TypeOK
<1>3. QED
  BY <1>1, <1>2 DEF Typed, Position

LEMMA CheckedType ==
    ASSUME Typed, NEW p, run' = Checked(p), UNCHANGED report
    PROVE  run' \in Runs' /\ run'.phase \in {"done", "check"}
BY SameReport DEF Checked, Typed, TypeOK, Runs, Phases

LEMMA CheckTyped ==
    ASSUME Typed, NEW p \in Paths, Check(p)
    PROVE  Typed'
<1>1. UNCHANGED report /\ Ledgers' = Ledgers /\ Runs' = Runs
  BY SameReport DEF Check, Hist
<1>2. CASE run' = Checked(p)
  <2>1. TypeOK'
    BY <1>1, <1>2, CheckedType, TypedParts DEF Check, Typed, TypeOK
  <2>2. QED
    BY <1>1, <1>2, <2>1, CheckedType DEF Typed, Position
<1>3. CASE run' = [run EXCEPT !.phase = "restore", !.at = p]
  <2>1. run' \in Runs' /\ run'.phase = "restore" /\ run'.at \in run'.todo
    BY <1>1, <1>3 DEF Check, Typed, TypeOK, Runs, Phases
  <2>2. TypeOK'
    BY <1>1, <2>1, TypedParts DEF Check, Typed, TypeOK
  <2>3. QED
    BY <2>1, <2>2 DEF Typed, Position
<1>4. QED
  BY <1>2, <1>3 DEF Check

LEMMA RestoreTyped ==
    ASSUME Typed, Restore \/ RestoreFails
    PROVE  Typed'
<1>1. run.at \in Paths /\ Last + 1 \in 0..Last + 1
  BY ReportType, SMTT(30) DEF Restore, RestoreFails, Typed, TypeOK, Position, Runs
<1>2. UNCHANGED report /\ Ledgers' = Ledgers /\ run' = Checked(run.at)
  BY SameReport DEF Restore, RestoreFails, Hist
<1>3. ledger' \in Ledgers
  <2>1. CASE Restore
    BY <1>1, <2>1 DEF Restore, Typed, TypeOK, Ledgers, Retracted
  <2>2. CASE RestoreFails
    <3>1. {<<Last + 1, run.at>>} \subseteq Entries
      BY <1>1 DEF Entries
    <3>2. QED
      BY <2>2, <3>1, NoteType DEF RestoreFails, Typed
  <2>3. QED
    BY <2>1, <2>2
<1>4. disk' \in [Paths -> Docs \cup {None}]
  BY <1>1 DEF Restore, RestoreFails, Typed, TypeOK, Targets
<1>5. run' \in Runs' /\ run'.phase \in {"done", "check"}
  BY <1>2, CheckedType
<1>6. TypeOK'
  BY <1>2, <1>3, <1>4, <1>5, TypedParts DEF Restore, RestoreFails, Typed, TypeOK
<1>7. QED
  BY <1>5, <1>6 DEF Typed, Position

LEMMA KillTyped ==
    ASSUME Typed, Kill
    PROVE  Typed'
<1>1. UNCHANGED report /\ Ledgers' = Ledgers /\ Runs' = Runs /\ Last \in Nat
  BY SameReport, ReportType DEF Kill, Typed
<1>2. run' = [phase |-> "idle", number |-> run.number, dry |-> FALSE, n |-> 1, j |-> 1,
              todo |-> {}, at |-> None, fm |-> [f \in Fields |-> None], content |-> None]
  BY DEF Kill, Idle
<1>3. run' \in Runs
  <2>1. run.number \in 0..MaxRuns
    BY DEF Typed, TypeOK, Runs
  <2>2. PICK g \in Frontmatter : g = [f \in Fields |-> None]
    BY FreshType
  <2>3. run' = [phase |-> "idle", number |-> run.number, dry |-> FALSE, n |-> 1, j |-> 1,
                todo |-> {}, at |-> None, fm |-> g, content |-> None]
    BY <1>2, <2>2
  <2>4. Last \in Nat
    BY <1>1
  <2>5. QED
    BY <2>1, <2>3, <2>4 DEF Runs, Phases
<1>4. mishaps' \in 0..MaxMishaps
  BY RepairAssumption DEF Kill, Mishap, Typed, TypeOK, RepairAssumption
<1>5. previous' \in [outcome : {"none", "done", "killed"}, dry : BOOLEAN, ledger : Ledgers]
  BY FreshType DEF Kill, Typed, TypeOK, Runs
<1>6. TypeOK'
  BY <1>1, <1>3, <1>4, <1>5, FreshType DEF Kill, Typed, TypeOK
<1>7. Position'
  BY <1>2 DEF Position
<1>8. QED
  BY <1>6, <1>7 DEF Typed

LEMMA EditTyped ==
    ASSUME Typed, NEW p \in Paths, Edit(p)
    PROVE  Typed'
<1>1. UNCHANGED report /\ Ledgers' = Ledgers /\ Runs' = Runs /\ Last' = Last
  BY SameReport DEF Edit, Hist
<1>2. disk' \in [Paths -> Docs \cup {None}]
  BY RepairAssumption DEF Edit, Typed, TypeOK, RepairAssumption
<1>3. TypeOK'
  BY <1>1, <1>2, TypedParts DEF Edit, Typed, TypeOK
<1>4. Position'
  BY <1>1 DEF Edit, Typed, Position, Current, Contained
<1>5. QED
  BY <1>3, <1>4 DEF Typed

LEMMA StutterTyped ==
    ASSUME Typed, UNCHANGED vars
    PROVE  Typed'
BY SameReport DEF vars, Typed, TypeOK, Position, Current, Contained

LEMMA NextTyped ==
    ASSUME Typed, [Next]_vars
    PROVE  Typed'
BY BeginTyped, ReadTyped, DisposeTyped, NoTargetTyped, SkipTyped, RefuseTyped, PreviewTyped,
   RewriteTyped, WriteTyped, WriteFailsTyped, EndApplyTyped, CheckTyped, RestoreTyped, KillTyped,
   EditTyped, StutterTyped DEF Next

\* TypeOK: in every reachable state the disk, the run, what it has read and
\* its ledger are what RepairResult and repairTarget (repair.go) hold.
THEOREM TypeCorrect == Spec => []TypeOK
<1>1. Init => Typed
  BY InitTyped
<1>2. Typed /\ [Next]_vars => Typed'
  BY NextTyped
<1>3. Typed => TypeOK
  BY DEF Typed
<1>4. QED
  BY <1>1, <1>2, <1>3, PTL DEF Spec

(***************************************************************************)
(* The post-validation pass: what it has not looked at yet is on its list, *)
(* and a document it is through with is valid, restored or on the ledger.  *)
(***************************************************************************)
Settled(p) ==
    \/ Valid(disk[p])
    \/ p \in ledger.rolledBack /\ disk[p] = target[p].original
    \/ <<Last + 1, p>> \in ledger.errors

Verified ==
    /\ run.phase \notin {"read", "check", "restore"} => run.todo = {}
    /\ run.phase \in {"check", "restore", "done"} /\ ~run.dry =>
         \A p \in Paths \ edited : target[p].written => p \in run.todo \/ Settled(p)

LEMMA InitVerified == Init => Verified
BY DEF Init, Verified, Idle

\* The actions after which there is nothing to say: no pass has begun.
LEMMA EarlyVerified ==
    ASSUME Typed, Verified,
           Begin \/ Dispose \/ NoTarget \/ Skip \/ Refuse \/ Preview \/ Rewrite \/ Write
             \/ WriteFails \/ Kill
    PROVE  Verified'
<1>1. CASE Begin
  <2>1. run' = [Idle EXCEPT !.number = run'.number, !.dry = run'.dry, !.todo = Applicable,
                            !.phase = run'.phase]
    BY <1>1 DEF Begin, Idle
  <2>2. run'.phase \in {"done", "apply", "read"} /\ run'.todo = Applicable
        /\ (run'.phase # "read" => Applicable = {})
    <3>1. Last = 0 => Applicable = {}
      BY DEF Applicable
    <3>2. QED
      BY <1>1, <3>1 DEF Begin, Idle
  <2>3. \A p \in Paths : ~target'[p].written
    BY <1>1 DEF Begin, Unread
  <2>4. QED
    BY <2>2, <2>3, SMTT(30) DEF Verified
<1>2. CASE Kill
  BY <1>2 DEF Kill, Idle, Verified
<1>3. CASE Rewrite
  BY <1>3 DEF Rewrite, Changes, Applied, Applying, Verified, Typed, TypeOK, Runs
<1>4. CASE Dispose \/ NoTarget \/ Skip \/ Refuse \/ Preview \/ Write \/ WriteFails
  <2>1. run.phase \in {"apply", "write"} /\ run.n <= Last /\ run' \in {NextPath, NextProposal}
    BY <1>4 DEF Dispose, NoTarget, Skip, Refuse, Preview, Write, WriteFails, Changes, Applied,
                Applying, Typed, Position
  <2>2. run'.phase = "apply" /\ run'.todo = run.todo
    BY <2>1 DEF NextPath, NextProposal, Typed, TypeOK, Runs
  <2>3. QED
    BY <2>1, <2>2 DEF Verified
<1>5. QED
  BY <1>1, <1>2, <1>3, <1>4

LEMMA ReadVerified ==
    ASSUME Typed, Verified, NEW p \in Paths, Read(p) \/ ReadFails(p)
    PROVE  Verified'
<1>1. ReadDone(p) /\ run.phase = "read"
  BY DEF Read, ReadFails
<1>2. run'.phase \in {"apply", "read"} /\ (run'.phase = "apply" => run'.todo = {})
  BY <1>1 DEF ReadDone, Typed, TypeOK, Runs
<1>3. QED
  BY <1>2 DEF Verified

LEMMA EndApplyVerified ==
    ASSUME Typed, Verified, EndApply
    PROVE  Verified'
<1>1. CASE run.dry \/ Unchecked = {}
  <2>1. run' = [run EXCEPT !.phase = "done"]
    BY <1>1 DEF EndApply
  <2>2. run'.phase = "done" /\ run'.todo = {} /\ run'.dry = run.dry
    BY <2>1 DEF EndApply, Verified, Typed, TypeOK, Runs
  <2>3. QED
    BY <1>1, <2>2 DEF Verified, EndApply, Unchecked
<1>2. CASE ~run.dry /\ Unchecked # {}
  <2>1. run' = [run EXCEPT !.phase = "check", !.todo = Unchecked]
    BY <1>2 DEF EndApply
  <2>2. run'.phase = "check" /\ run'.todo = Unchecked
    BY <2>1 DEF Typed, TypeOK, Runs
  <2>3. QED
    BY <2>2 DEF Verified, EndApply, Unchecked
<1>3. QED
  BY <1>1, <1>2

\* Taking p off the list.
LEMMA CheckedVerified ==
    ASSUME Typed, Verified, NEW p \in run.todo, run.phase \in {"check", "restore"},
           run' = Checked(p), UNCHANGED <<target, edited>>,
           p \in Paths \ edited => Settled(p)',
           \A q \in Paths \ {p} : Settled(q) => Settled(q)'
    PROVE  Verified'
<1>1. run'.phase \in {"done", "check"} /\ run'.todo = run.todo \ {p} /\ run'.dry = run.dry
      /\ (run'.phase = "done" => run'.todo = {})
  BY DEF Checked, Typed, TypeOK, Runs
<1>2. QED
  BY <1>1 DEF Verified

LEMMA CheckVerified ==
    ASSUME Typed, Verified, NEW p \in Paths, Check(p)
    PROVE  Verified'
<1>1. \A q \in Paths : Settled(q) => Settled(q)'
  BY DEF Check, Hist, Settled, Valid, Last
<1>2. CASE run' = Checked(p)
  <2>1. run.phase = "check" /\ p \in run.todo /\ UNCHANGED <<target, edited>>
    BY DEF Check
  <2>2. Checked(p) # [run EXCEPT !.phase = "restore", !.at = p]
    <3>1. Checked(p).phase \in {"done", "check"}
      BY DEF Checked, Typed, TypeOK, Runs
    <3>2. [run EXCEPT !.phase = "restore", !.at = p].phase = "restore"
      BY DEF Typed, TypeOK, Runs
    <3>3. QED
      BY <3>1, <3>2
  <2>3. Valid(disk[p])
    BY <1>2, <2>2 DEF Check
  <2>4. QED
    BY <1>1, <1>2, <2>1, <2>3, CheckedVerified DEF Settled
<1>3. CASE run' = [run EXCEPT !.phase = "restore", !.at = p]
  <2>1. run'.phase = "restore" /\ run'.todo = run.todo /\ run'.dry = run.dry
    BY <1>3 DEF Typed, TypeOK, Runs
  <2>2. QED
    BY <1>1, <2>1 DEF Verified, Check
<1>4. QED
  BY <1>2, <1>3 DEF Check

LEMMA RestoreVerified ==
    ASSUME Typed, Verified, Restore \/ RestoreFails
    PROVE  Verified'
<1> SUFFICES ASSUME NEW p, p = run.at
             PROVE  Verified'
  OBVIOUS
<1>1. p \in run.todo /\ p \in Paths /\ run.phase = "restore" /\ run' = Checked(p)
      /\ UNCHANGED <<target, edited, report>> /\ Last' = Last
  BY SameReport DEF Restore, RestoreFails, Hist, Typed, TypeOK, Position, Runs
<1>2. \A q \in Paths \ {p} : disk'[q] = disk[q]
  BY DEF Restore, RestoreFails, Typed, TypeOK
<1>3. ledger.rolledBack \subseteq ledger'.rolledBack /\ ledger.errors \subseteq ledger'.errors
  <2>1. CASE Restore
    <3>1. ledger' = [ledger EXCEPT !.rolledBack = @ \cup {p}, !.changed = Retracted(p)]
      BY <2>1 DEF Restore
    <3>2. QED
      BY <3>1 DEF Typed, TypeOK, Ledgers
  <2>2. CASE RestoreFails
    BY <2>2 DEF RestoreFails, Note, Typed, TypeOK, Ledgers
  <2>3. QED
    BY <2>1, <2>2
<1>4. Settled(p)'
  <2>1. CASE Restore
    <3>1. disk'[p] = target[p].original /\ p \in ledger'.rolledBack
      BY <1>1, <2>1 DEF Restore, Typed, TypeOK, Ledgers
    <3>2. QED
      BY <1>1, <3>1 DEF Settled
  <2>2. CASE RestoreFails
    <3>1. <<Last + 1, p>> \in ledger'.errors
      BY <2>2 DEF RestoreFails, Note, Typed, TypeOK, Ledgers
    <3>2. QED
      BY <1>1, <3>1 DEF Settled
  <2>3. QED
    BY <2>1, <2>2
<1>5. \A q \in Paths \ {p} : Settled(q) => Settled(q)'
  BY <1>1, <1>2, <1>3 DEF Settled, Valid
<1>6. QED
  BY <1>1, <1>4, <1>5, CheckedVerified

LEMMA EditVerified ==
    ASSUME Typed, Verified, NEW p \in Paths, Edit(p)
    PROVE  Verified'
<1>1. \A q \in Paths \ {p} : Settled(q) => Settled(q)'
  BY DEF Edit, Hist, Settled, Valid, Last, Typed, TypeOK
<1>2. QED
  BY <1>1 DEF Edit, Verified

LEMMA NextVerified ==
    ASSUME Typed, Verified, [Next]_vars
    PROVE  Verified'
<1>1. ASSUME UNCHANGED vars
      PROVE  Verified'
  BY <1>1 DEF vars, Verified, Settled, Valid, Last
<1>2. QED
  BY <1>1, EarlyVerified, ReadVerified, EndApplyVerified, CheckVerified, RestoreVerified,
     EditVerified DEF Next

\* WrittenIsValid: validateWrittenTargets (repair.go) leaves no file it wrote
\* that the schema refuses, unless its restore failed and is reported; whatever
\* failed before it, whoever edited other files, in whatever order it looks.
THEOREM WrittenValid == Spec => []WrittenIsValid
<1>1. Init => Typed /\ Verified
  BY InitTyped, InitVerified
<1>2. Typed /\ Verified /\ [Next]_vars => (Typed /\ Verified)'
  BY NextTyped, NextVerified
<1>3. Verified => WrittenIsValid
  BY DEF Verified, WrittenIsValid, Settled, Done
<1>4. QED
  BY <1>1, <1>2, <1>3, PTL DEF Spec

(***************************************************************************)
(* The ledger answers for every path of every proposal the apply pass has  *)
(* left behind.                                                            *)
(***************************************************************************)
\* What the passes still have to come to.
Ahead(n, p) ==
    \/ run.phase = "read"
    \/ /\ run.phase \in {"apply", "write"}
       /\ \/ n > run.n
          \/ n = run.n /\ \E k \in DOMAIN report[n].paths : k >= run.j /\ report[n].paths[k] = p

Answers ==
    /\ \A n \in 1..Last : \A p \in Names(report[n]) : Ahead(n, p) \/ Answered(n, p)
    /\ \A p \in Applicable : \/ run.phase = "read" /\ p \in run.todo
                             \/ target[p].loaded \/ <<0, p>> \in ledger.errors
    /\ \A n \in 1..Last : Contained(report[n]) \/ Denied(n)

Answering == run.phase # "idle" => Answers

\* Entries are not taken back, except with their file.
Grows ==
    /\ ledger.skipped \subseteq ledger'.skipped /\ ledger.rejected \subseteq ledger'.rejected
    /\ ledger.errors \subseteq ledger'.errors /\ ledger.rolledBack \subseteq ledger'.rolledBack
    /\ \A e \in ledger.changed : e \in ledger'.changed \/ e[2] \in ledger'.rolledBack

LEMMA DeniedStays ==
    ASSUME UNCHANGED report, Grows, NEW n, Denied(n)
    PROVE  Denied(n)'
BY DEF Denied, Grows

LEMMA AnsweredStays ==
    ASSUME UNCHANGED report, Grows, NEW n \in 1..Last, NEW p \in Names(report[n]), Answered(n, p)
    PROVE  Answered(n, p)'
<1>1. CASE <<n, p>> \in ledger.changed
  <2>1. <<n, p>>[2] = p
    OBVIOUS
  <2>2. QED
    BY <1>1, <2>1 DEF Grows, Answered
<1>2. CASE ~Contained(report[n]) /\ Denied(n)
  BY <1>2, DeniedStays DEF Answered, Contained
<1>3. CASE \E q \in Names(report[n]) : <<n, q>> \in ledger.errors
  BY <1>3 DEF Grows, Answered
<1>4. QED
  BY <1>1, <1>2, <1>3 DEF Grows, Answered

LEMMA NoteGrows ==
    ASSUME TypeOK, NEW kind \in {"changed", "skipped", "rejected", "errors"},
           NEW entries, Note(kind, entries)
    PROVE  Grows /\ entries \subseteq ledger'[kind]
BY DEF Note, Grows, TypeOK, Ledgers

LEMMA SameGrows ==
    ASSUME UNCHANGED ledger
    PROVE  Grows
BY DEF Grows

\* The apply pass moves on: what it leaves behind is answered.
LEMMA MoveAnswers ==
    ASSUME Typed, run.phase \in {"apply", "write"}, run.n <= Last, Answering,
           UNCHANGED report, Grows, NEW here, here = run.n, NEW at, at = Path,
           \/ run' = NextProposal /\ \A p \in Names(report[here]) : Answered(here, p)'
           \/ run' = NextPath /\ Names(Current) # {} /\ Answered(here, at)',
           \A p \in Paths : target[p].loaded => target'[p].loaded
    PROVE  Answering'
<1>1. /\ run.n \in 1..Last /\ Last \in Nat /\ Last' = Last
      /\ run' \in {NextPath, NextProposal} /\ Answers
      /\ Applicable \subseteq Paths /\ Applicable' = Applicable
  BY CurrentType, ReportType, SameReport DEF Answering, Typed, Applicable, Contained
<1>2. PICK n \in 1..Last + 1, j \in Nat \ {0} :
              /\ run' = [run EXCEPT !.phase = "apply", !.n = n, !.j = j]
              /\ \/ n = run.n + 1 /\ j = 1
                 \/ n = run.n /\ j = run.j + 1 /\ j \in DOMAIN Current.paths
  BY <1>1, NextPathType
<1>3. run'.n = n /\ run'.j = j /\ run'.phase = "apply"
  BY <1>2 DEF Typed, TypeOK, Runs
<1>4. ASSUME NEW m \in 1..Last, NEW p \in Names(report[m])
      PROVE  Ahead(m, p)' \/ Answered(m, p)'
  <2>1. CASE Answered(m, p)
    BY <2>1, AnsweredStays
  <2>2. CASE Ahead(m, p) /\ m # run.n
    <3>1. m > run.n
      BY <2>2 DEF Ahead
    <3>2. CASE n = run.n
      BY <1>3, <3>1, <3>2 DEF Ahead
    <3>3. CASE n = run.n + 1 /\ j = 1 /\ m # n
      BY <1>1, <1>3, <3>1, <3>3 DEF Ahead
    <3>4. CASE n = run.n + 1 /\ j = 1 /\ m = n
      <4>1. PICK k \in DOMAIN report[m].paths : report[m].paths[k] = p
        BY DEF Names
      <4>2. k >= 1
        BY <4>1, ReportType DEF Typed
      <4>3. QED
        BY <1>3, <3>4, <4>1, <4>2 DEF Ahead
    <3>5. QED
      BY <1>2, <3>2, <3>3, <3>4
  <2>3. CASE Ahead(m, p) /\ m = run.n
    <3>1. report[m] = Current
      BY <2>3 DEF Current
    <3>2. PICK k \in DOMAIN Current.paths : k >= run.j /\ Current.paths[k] = p
      BY <2>3, <3>1 DEF Ahead
    <3>3. CASE run' = NextProposal /\ \A q \in Names(report[here]) : Answered(here, q)'
      BY <2>3, <3>1, <3>3
    <3>4. CASE run' = NextPath /\ Names(Current) # {} /\ Answered(here, at)'
      <4>1. CASE k = run.j
        BY <2>3, <3>2, <3>4, <4>1 DEF Path
      <4>2. CASE k > run.j
        <5>1. Current.paths \in Seq(Paths) /\ run.j \in 1..Len(Current.paths)
          BY <3>4, CurrentType
        <5>2. run.j < Len(Current.paths)
          BY <3>2, <4>2, <5>1
        <5>3. run' = [run EXCEPT !.phase = "apply", !.j = run.j + 1]
          BY <3>4, <5>2 DEF NextPath
        <5>4. run'.n = run.n /\ run'.j = run.j + 1
          BY <5>3 DEF Typed, TypeOK, Runs
        <5>5. k >= run.j + 1
          BY <3>2, <4>2, <5>1
        <5>6. QED
          BY <1>3, <2>3, <3>1, <3>2, <5>4, <5>5 DEF Ahead
      <4>3. QED
        BY <3>2, <4>1, <4>2, CurrentType, <3>4
    <3>5. QED
      BY <3>3, <3>4
  <2>4. QED
    BY <1>1, <2>1, <2>2, <2>3 DEF Answers
<1>5. \A p \in Applicable : target'[p].loaded \/ <<0, p>> \in ledger'.errors
  BY <1>1 DEF Answers, Grows
<1>6. \A m \in 1..Last : Contained(report[m]) \/ Denied(m)'
  BY <1>1, DeniedStays DEF Answers
<1>7. QED
  BY <1>1, <1>4, <1>5, <1>6 DEF Answering, Answers, Contained

\* The entry of the place itself answers for it.
LEMMA EntryAnswers ==
    ASSUME NEW n, NEW p, <<n, p>> \in ledger'.changed \cup ledger'.skipped \cup ledger'.rejected
    PROVE  Answered(n, p)'
BY DEF Answered

LEMMA ApplyAnswering ==
    ASSUME Typed, Answering,
           Dispose \/ NoTarget \/ Skip \/ Refuse \/ Preview \/ Write \/ WriteFails
    PROVE  Answering'
<1>1. PICK here, at : here = run.n /\ at = Path
  OBVIOUS
<1>2. /\ run.phase \in {"apply", "write"} /\ run.n <= Last /\ UNCHANGED report /\ Last' = Last
      /\ Answers /\ here \in 1..Last /\ report[here] = Current
  <2>1. run.phase \in {"apply", "write"} /\ run.n <= Last /\ UNCHANGED report
    BY DEF Dispose, NoTarget, Skip, Refuse, Preview, Write, WriteFails, Changes, Applied, Applying,
           Hist, Typed, Position
  <2>2. QED
    BY <1>1, <2>1, CurrentType, SameReport DEF Answering, Current
<1>3. Grows
  BY NoteGrows, SameGrows DEF Dispose, NoTarget, Skip, Refuse, Preview, Write, WriteFails, Typed
<1>4. \A p \in Paths : target[p].loaded => target'[p].loaded
  BY DEF Dispose, NoTarget, Skip, Refuse, Preview, Write, WriteFails, TouchedRecord, Typed, TypeOK, Targets
<1>5. CASE Dispose
  <2>1. \A p \in Names(report[here]) : Answered(here, p)'
    <3>1. CASE ~Contained(Current)
      <4>1. Denied(here)'
        BY <1>2, <1>3, <3>1, DeniedStays DEF Answers
      <4>2. ~Contained(report[here])'
        BY <1>2, <3>1 DEF Contained
      <4>3. QED
        BY <4>1, <4>2 DEF Answered
    <3>2. CASE Names(Current) = {}
      BY <1>2, <3>2
    <3>3. ASSUME NEW kind \in {"skipped", "rejected"},
                 Note(kind, {<<run.n, p>> : p \in Names(Current)})
          PROVE  \A p \in Names(report[here]) : Answered(here, p)'
      <4>1. {<<run.n, p>> : p \in Names(Current)} \subseteq ledger'[kind]
        BY <3>3, NoteGrows DEF Typed
      <4>2. \A p \in Names(report[here]) :
                <<here, p>> \in ledger'.changed \cup ledger'.skipped \cup ledger'.rejected
        BY <1>1, <1>2, <4>1
      <4>3. QED
        BY <4>2, EntryAnswers
    <3>4. QED
      BY <1>5, <3>1, <3>2, <3>3 DEF Dispose
  <2>2. QED
    BY <1>1, <1>2, <1>3, <1>4, <1>5, <2>1, MoveAnswers DEF Dispose
<1>6. CASE NoTarget
  <2>1. Names(Current) # {} /\ at \in Names(Current)
    BY <1>1, <1>2, <1>6, CurrentType DEF NoTarget, Applied
  <2>2. at \in Applicable
    BY <1>2, <1>6, <2>1 DEF NoTarget, Applied, Applicable
  <2>3. <<0, at>> \in ledger.errors
    BY <1>1, <1>2, <1>6, <2>2 DEF NoTarget, Applied, Applying, Answers
  <2>4. Answered(here, at)'
    BY <1>3, <2>3 DEF Answered, Grows
  <2>5. QED
    BY <1>1, <1>2, <1>3, <1>4, <1>6, <2>1, <2>4, MoveAnswers DEF NoTarget
<1>7. CASE Skip \/ Preview \/ Write
  <2>1. Names(Current) # {} /\ run' = NextPath
    BY <1>7 DEF Skip, Preview, Write, Changes, Applied, Typed, Position
  <2>2. <<here, at>> \in ledger'.changed \cup ledger'.skipped \cup ledger'.rejected
    BY <1>1, <1>7, NoteGrows DEF Skip, Preview, Write, Typed
  <2>3. Answered(here, at)'
    BY <2>2, EntryAnswers
  <2>4. QED
    BY <1>1, <1>2, <1>3, <1>4, <2>1, <2>3, MoveAnswers
<1>8. CASE Refuse \/ WriteFails
  <2>1. run' = NextProposal /\ Names(Current) # {}
    BY <1>8 DEF Refuse, WriteFails, Changes, Applied, Typed, Position
  <2>2. at \in Names(report[here])
    BY <1>1, <1>2, <2>1, CurrentType
  <2>3. <<here, at>> \in ledger'.errors
    BY <1>1, <1>8, NoteGrows DEF Refuse, WriteFails, Typed
  <2>4. \A p \in Names(report[here]) : Answered(here, p)'
    BY <1>2, <2>2, <2>3 DEF Answered
  <2>5. QED
    BY <1>1, <1>2, <1>3, <1>4, <2>1, <2>4, MoveAnswers
<1>9. QED
  BY <1>5, <1>6, <1>7, <1>8

LEMMA BeginAnswering ==
    ASSUME Typed, Begin
    PROVE  Answering'
<1>1. Last \in Nat /\ Last' = Last /\ UNCHANGED report /\ Applicable' = Applicable
      /\ Applicable \subseteq Paths
  BY ReportType, SameReport DEF Begin, Typed, Applicable, Contained
<1>2. run'.n = 1 /\ run'.j = 1 /\ run'.todo = Applicable
      /\ run'.phase = (IF Last = 0 THEN "done" ELSE IF Applicable = {} THEN "apply" ELSE "read")
  BY DEF Begin, Idle
<1>3. ASSUME NEW n \in 1..Last, NEW p \in Names(report[n])
      PROVE  Ahead(n, p)'
  <2>1. PICK k \in DOMAIN report[n].paths : report[n].paths[k] = p
    BY DEF Names
  <2>2. k >= 1 /\ Last # 0
    BY <1>1, <2>1, ReportType DEF Typed
  <2>3. QED
    BY <1>1, <1>2, <2>1, <2>2 DEF Ahead
<1>4. ASSUME NEW n \in 1..Last, ~Contained(report[n])
      PROVE  Denied(n)'
  <2>1. PICK q \in Names(report[n]) : q \in Escaping
    BY <1>4 DEF Contained
  <2>2. q \in Paths
    BY RepairAssumption, <2>1 DEF RepairAssumption
  <2>3. ledger'.rejected = Refused /\ ledger'.errors = Unresolved
    BY DEF Begin, NoLedger
  <2>4. CASE q \in Unresolvable
    <3>1. <<0, q>> \in Unresolved
      BY <2>1, <2>4 DEF Unresolved
    <3>2. QED
      BY <1>1, <2>1, <2>3, <3>1 DEF Denied
  <2>5. CASE q \notin Unresolvable
    <3>1. <<n, q>> \in Refused
      BY <2>1, <2>2, <2>5 DEF Refused
    <3>2. QED
      BY <1>1, <2>1, <2>3, <3>1 DEF Denied
  <2>6. QED
    BY <2>4, <2>5
<1>5. \A p \in Applicable : run'.phase = "read" /\ p \in run'.todo
  <2>1. ASSUME NEW p \in Applicable
        PROVE  Last # 0
    BY <1>1 DEF Applicable
  <2>2. QED
    BY <1>2, <2>1
<1>6. QED
  BY <1>1, <1>3, <1>4, <1>5 DEF Answering, Answers, Contained

LEMMA ReadAnswering ==
    ASSUME Typed, Answering, NEW x \in Paths, Read(x) \/ ReadFails(x)
    PROVE  Answering'
<1>1. /\ run.phase = "read" /\ x \in run.todo /\ Answers /\ Last \in Nat
      /\ Last' = Last /\ UNCHANGED report /\ Applicable' = Applicable /\ Applicable \subseteq Paths
      /\ run.n = 1 /\ run.j = 1
  BY ReportType, SameReport DEF Read, ReadFails, Hist, Typed, Position, Applicable, Contained, Answering
<1>2. /\ run'.n = 1 /\ run'.j = 1 /\ run'.todo = run.todo \ {x}
      /\ run'.phase = (IF run.todo = {x} THEN "apply" ELSE "read")
  BY <1>1 DEF Read, ReadFails, ReadDone, Typed, TypeOK, Runs
<1>3. Grows
  BY NoteGrows, SameGrows DEF Read, ReadFails, Typed
<1>4. ASSUME NEW n \in 1..Last, NEW p \in Names(report[n])
      PROVE  Ahead(n, p)'
  <2>1. PICK k \in DOMAIN report[n].paths : report[n].paths[k] = p
    BY DEF Names
  <2>2. k >= 1
    BY <1>1, <2>1, ReportType DEF Typed
  <2>3. QED
    BY <1>1, <1>2, <2>1, <2>2 DEF Ahead
<1>5. target'[x].loaded \/ <<0, x>> \in ledger'.errors
  <2>1. CASE Read(x)
    BY <2>1 DEF Read, Unread, Typed, TypeOK
  <2>2. CASE ReadFails(x)
    BY <2>2, NoteGrows DEF ReadFails, Typed
  <2>3. QED
    BY <2>1, <2>2
<1>6. \A p \in Paths \ {x} : target'[p] = target[p]
  BY DEF Read, ReadFails, Typed, TypeOK
<1>7. ASSUME NEW p \in Applicable
      PROVE  \/ run'.phase = "read" /\ p \in run'.todo
             \/ target'[p].loaded \/ <<0, p>> \in ledger'.errors
  <2>1. CASE p = x
    BY <1>5, <2>1
  <2>2. CASE p # x
    BY <1>1, <1>2, <1>3, <1>6, <2>2 DEF Answers, Grows
  <2>3. QED
    BY <2>1, <2>2
<1>8. \A n \in 1..Last : Contained(report[n]) \/ Denied(n)'
  BY <1>1, <1>3, DeniedStays DEF Answers
<1>9. QED
  BY <1>1, <1>4, <1>7, <1>8 DEF Answering, Answers, Contained

\* Past the apply pass nothing is ahead, and entries only go with their file.
LEMMA LateAnswering ==
    ASSUME Typed, Answering, UNCHANGED report, Grows,
           \A p \in Paths : target[p].loaded => target'[p].loaded,
           run.phase # "idle", run.phase # "read",
           \A n \in 1..Last : \A p \in Names(report[n]) : Ahead(n, p) => Ahead(n, p)'
    PROVE  Answering'
<1>1. Answers /\ Last' = Last /\ Applicable' = Applicable /\ Applicable \subseteq Paths
  BY ReportType, SameReport DEF Answering, Typed, Applicable, Contained
<1>2. \A n \in 1..Last : \A p \in Names(report[n]) : Ahead(n, p)' \/ Answered(n, p)'
  BY <1>1, AnsweredStays DEF Answers
<1>3. \A p \in Applicable : target'[p].loaded \/ <<0, p>> \in ledger'.errors
  BY <1>1 DEF Answers, Grows
<1>4. \A n \in 1..Last : Contained(report[n]) \/ Denied(n)'
  BY <1>1, DeniedStays DEF Answers
<1>5. QED
  BY <1>1, <1>2, <1>3, <1>4 DEF Answering, Answers, Contained

LEMMA OtherAnswering ==
    ASSUME Typed, Answering, NEW x,
           Rewrite \/ EndApply \/ Check(x) \/ Restore \/ RestoreFails \/ Edit(x)
    PROVE  Answering'
<1>1. UNCHANGED report
  BY DEF Rewrite, EndApply, Check, Restore, RestoreFails, Edit, Hist
<1>2. CASE Rewrite
  <2>1. run' = [run EXCEPT !.phase = "write", !.fm = Candidate, !.content = Rewritten]
        /\ run.phase = "apply"
    BY <1>2 DEF Rewrite, Changes, Applied, Applying
  <2>2. run'.phase = "write" /\ run'.n = run.n /\ run'.j = run.j
    BY <2>1 DEF Typed, TypeOK, Runs
  <2>3. Grows /\ \A p \in Paths : target[p].loaded => target'[p].loaded
    BY <1>2, SameGrows DEF Rewrite, TouchedRecord, Typed, TypeOK, Targets
  <2>4. \A n \in 1..Last : \A p \in Names(report[n]) : Ahead(n, p) => Ahead(n, p)'
    BY <1>1, <2>1, <2>2 DEF Ahead
  <2>5. QED
    BY <1>1, <2>1, <2>3, <2>4, LateAnswering
<1>3. CASE EndApply
  <2>1. Grows /\ target' = target /\ run.phase = "apply" /\ run.n > Last
    BY <1>3, SameGrows DEF EndApply
  <2>2. run.n \in Nat /\ Last \in Nat
    BY ReportType DEF Typed, TypeOK, Runs
  <2>3. \A n \in 1..Last : \A p \in Names(report[n]) : ~Ahead(n, p)
    BY <2>1, <2>2 DEF Ahead
  <2>4. QED
    BY <1>1, <2>1, <2>3, LateAnswering
<1>4. CASE Check(x) \/ Restore \/ RestoreFails
  <2>1. run.phase \in {"check", "restore"} /\ target' = target
    BY <1>4 DEF Check, Restore, RestoreFails
  <2>2. Grows
    <3>1. CASE Restore
      <4>1. ledger' = [ledger EXCEPT !.rolledBack = @ \cup {run.at}, !.changed = Retracted(run.at)]
        BY <3>1 DEF Restore
      <4>2. /\ ledger'.rolledBack = ledger.rolledBack \cup {run.at}
            /\ ledger'.changed = Retracted(run.at)
            /\ ledger'.skipped = ledger.skipped /\ ledger'.rejected = ledger.rejected
            /\ ledger'.errors = ledger.errors
        BY <4>1 DEF Typed, TypeOK, Ledgers
      <4>3. QED
        BY <4>2 DEF Grows, Retracted
    <3>2. QED
      BY <1>4, <3>1, NoteGrows, SameGrows DEF Check, RestoreFails, Typed
  <2>3. \A n \in 1..Last : \A p \in Names(report[n]) : ~Ahead(n, p)
    BY <2>1 DEF Ahead
  <2>4. QED
    BY <1>1, <2>1, <2>2, <2>3, LateAnswering
<1>5. CASE Edit(x)
  BY <1>1, <1>5, SameReport
     DEF Edit, Hist, Answering, Answers, Ahead, Answered, Denied, Contained, Applicable
<1>6. QED
  BY <1>2, <1>3, <1>4, <1>5

LEMMA NextAnswering ==
    ASSUME Typed, Answering, [Next]_vars
    PROVE  Answering'
<1>1. ASSUME UNCHANGED vars
      PROVE  Answering'
  BY <1>1, SameReport DEF vars, Answering, Answers, Ahead, Answered, Denied, Contained, Applicable
<1>2. ASSUME Kill
      PROVE  Answering'
  BY <1>2 DEF Kill, Idle, Answering
<1>3. ASSUME Rewrite \/ EndApply \/ Restore \/ RestoreFails
      PROVE  Answering'
  <2>1. PICK x : x = 0
    OBVIOUS
  <2>2. QED
    BY <1>3, OtherAnswering
<1>4. QED
  BY <1>1, <1>2, <1>3, BeginAnswering, ReadAnswering, ApplyAnswering, OtherAnswering DEF Next

\* NothingDropped: when ApplyRepair (repair.go) returns, every path of every
\* proposal is in changed, skipped, rejected or errors, or its file was rolled
\* back; whatever the report, whichever calls failed and wherever.
THEOREM NothingIsDropped == Spec => []NothingDropped
<1>1. Init => Typed /\ Answering
  BY InitTyped DEF Init, Idle, Answering
<1>2. Typed /\ Answering /\ [Next]_vars => (Typed /\ Answering)'
  BY NextTyped, NextAnswering
<1>3. Answering => NothingDropped
  BY DEF Answering, Answers, Ahead, NothingDropped, Done
<1>4. QED
  BY <1>1, <1>2, <1>3, PTL DEF Spec

(***************************************************************************)
(* Replay, the documents a ledger stands for.                              *)
(***************************************************************************)
\* g[n] is doc with the entries of the first n proposals.
Replays(g, doc, entries, p, last) ==
    g = [n \in 0..last |-> IF n = 0 THEN doc
                           ELSE IF <<n, p>> \in entries THEN Effect(report[n], g[n-1]) ELSE g[n-1]]

LEMMA ReplaysExists ==
    ASSUME NEW doc, NEW entries, NEW p, NEW last \in Nat
    PROVE  \E g : Replays(g, doc, entries, p, last)
<1> DEFINE S == {k \in 0..last : \E g : Replays(g, doc, entries, p, k)}
<1>1. 0 \in S
  <2>1. Replays([n \in 0..0 |-> doc], doc, entries, p, 0)
    BY DEF Replays
  <2>2. QED
    BY <2>1
<1>2. ASSUME NEW k \in 0..last, k < last, k \in S
      PROVE  k + 1 \in S
  <2>1. PICK g : Replays(g, doc, entries, p, k)
    BY <1>2
  <2> DEFINE top == IF <<k + 1, p>> \in entries THEN Effect(report[k + 1], g[k]) ELSE g[k]
             h == [n \in 0..k + 1 |-> IF n = k + 1 THEN top ELSE g[n]]
  <2>2. \A n \in 0..k : g[n] = IF n = 0 THEN doc
                               ELSE IF <<n, p>> \in entries THEN Effect(report[n], g[n-1]) ELSE g[n-1]
    BY <2>1 DEF Replays
  <2> HIDE DEF top
  <2>3. \A n \in 0..k : h[n] = g[n]
    OBVIOUS
  <2>4. h[k + 1] = IF <<k + 1, p>> \in entries THEN Effect(report[k + 1], h[k]) ELSE h[k]
    BY <2>3 DEF top
  <2>5. \A n \in 0..k + 1 : h[n] = IF n = 0 THEN doc
                                   ELSE IF <<n, p>> \in entries THEN Effect(report[n], h[n-1]) ELSE h[n-1]
    <3>1. ASSUME NEW n \in 0..k
          PROVE h[n] = IF n = 0 THEN doc
                       ELSE IF <<n, p>> \in entries THEN Effect(report[n], h[n-1]) ELSE h[n-1]
      <4>1. n # 0 => n - 1 \in 0..k
        OBVIOUS
      <4>2. h[n] = g[n] /\ (n # 0 => h[n-1] = g[n-1])
        BY <2>3, <4>1
      <4> HIDE DEF h
      <4>3. QED
        BY <2>2, <4>2
    <3>2. \A n \in 0..k+1 : n \in 0..k \/ n = k + 1
      OBVIOUS
    <3>3. (k + 1) - 1 = k /\ k + 1 # 0
      OBVIOUS
    <3> HIDE DEF h
    <3>4. QED
      BY <2>4, <3>1, <3>2, <3>3
  <2>6. Replays(h, doc, entries, p, k + 1)
    BY <2>5 DEF Replays
  <2>7. QED
    BY <1>2, <2>6
<1>3. \A k \in 0..last : k < last /\ k \in S => k + 1 \in S
  BY <1>2
<1>4. last \in S
  <2> HIDE DEF S
  <2>1. QED
    BY <1>1, <1>3, IntervalInduction
<1>5. QED
  BY <1>4

\* Replay unfolds its recursion.
LEMMA ReplayUnfolds ==
    ASSUME NEW doc, NEW entries, NEW p, Last \in Nat
    PROVE  \E g : Replays(g, doc, entries, p, Last) /\ Replay(doc, entries, p) = g[Last]
<1> DEFINE g == CHOOSE x : Replays(x, doc, entries, p, Last)
<1>1. Replays(g, doc, entries, p, Last)
  BY ReplaysExists
<1>2. Replay(doc, entries, p) = g[Last]
  BY DEF Replay, Replays
<1>3. QED
  BY <1>1, <1>2

LEMMA ReplaysAt ==
    ASSUME NEW g, NEW doc, NEW entries, NEW p, NEW last \in Nat, Replays(g, doc, entries, p, last),
           NEW n \in 0..last
    PROVE  g[n] = IF n = 0 THEN doc
                  ELSE IF <<n, p>> \in entries THEN Effect(report[n], g[n-1]) ELSE g[n-1]
BY DEF Replays

LEMMA ReplaysFrom ==
    ASSUME NEW g, NEW doc, NEW entries, NEW p, NEW last \in Nat, Replays(g, doc, entries, p, last)
    PROVE  g[0] = doc
<1>1. 0 \in 0..last
  OBVIOUS
<1>2. QED
  BY <1>1, ReplaysAt

\* Two sets of entries that agree on p from m on and start from the same document.
LEMMA ReplaysAgree ==
    ASSUME NEW last \in Nat, NEW m \in 0..last, NEW n \in m..last, NEW p,
           NEW g, NEW doc1, NEW E, Replays(g, doc1, E, p, last),
           NEW h, NEW doc2, NEW F, Replays(h, doc2, F, p, last),
           g[m] = h[m], \A i \in m + 1..n : <<i, p>> \in E <=> <<i, p>> \in F
    PROVE  g[n] = h[n]
<1> DEFINE S == {i \in m..n : g[i] = h[i]}
<1>1. m \in S /\ m \in Nat /\ n \in Nat /\ n \in m..n
  OBVIOUS
<1>2. ASSUME NEW i \in m..n, i < n, i \in S
      PROVE  i + 1 \in S
  <2>1. i + 1 \in m + 1..n /\ i + 1 \in 0..last /\ i + 1 # 0 /\ (i + 1) - 1 = i /\ i + 1 \in m..n
    BY <1>1, <1>2
  <2>2. g[i + 1] = IF <<i + 1, p>> \in E THEN Effect(report[i + 1], g[i]) ELSE g[i]
    BY <2>1, ReplaysAt
  <2>3. h[i + 1] = IF <<i + 1, p>> \in F THEN Effect(report[i + 1], h[i]) ELSE h[i]
    BY <2>1, ReplaysAt
  <2>4. QED
    BY <1>2, <2>1, <2>2, <2>3
<1>3. \A i \in m..n : i < n /\ i \in S => i + 1 \in S
  BY <1>2
<1>4. n \in S
  <2> HIDE DEF S
  <2>1. QED
    BY <1>1, <1>3, IntervalInduction
<1>5. QED
  BY <1>4

\* Only the entries of p count.
LEMMA ReplaySame ==
    ASSUME Last \in Nat, NEW doc, NEW p, NEW E, NEW F,
           \A i \in 1..Last : <<i, p>> \in E <=> <<i, p>> \in F
    PROVE  Replay(doc, E, p) = Replay(doc, F, p)
<1>1. PICK g : Replays(g, doc, E, p, Last) /\ Replay(doc, E, p) = g[Last]
  BY ReplayUnfolds
<1>2. PICK h : Replays(h, doc, F, p, Last) /\ Replay(doc, F, p) = h[Last]
  BY ReplayUnfolds
<1>3. g[0] = h[0]
  BY <1>1, <1>2, ReplaysFrom
<1>4. g[Last] = h[Last]
  BY <1>1, <1>2, <1>3, ReplaysAgree
<1>5. QED
  BY <1>1, <1>2, <1>4

\* Without entries of p the document is as it was.
LEMMA ReplayNone ==
    ASSUME Last \in Nat, NEW doc, NEW p, NEW E, \A i \in 1..Last : <<i, p>> \notin E
    PROVE  Replay(doc, E, p) = doc
<1>1. PICK g : Replays(g, doc, E, p, Last) /\ Replay(doc, E, p) = g[Last]
  BY ReplayUnfolds
<1> DEFINE S == {i \in 0..Last : g[i] = doc}
<1>2. 0 \in S
  BY <1>1, ReplaysFrom
<1>3. ASSUME NEW i \in 0..Last, i < Last, i \in S
      PROVE  i + 1 \in S
  <2>1. i + 1 \in 1..Last /\ i + 1 \in 0..Last /\ i + 1 # 0 /\ (i + 1) - 1 = i
    BY <1>3
  <2>2. g[i + 1] = IF <<i + 1, p>> \in E THEN Effect(report[i + 1], g[i]) ELSE g[i]
    BY <1>1, <2>1, ReplaysAt
  <2>3. QED
    BY <1>3, <2>1, <2>2
<1>4. \A i \in 0..Last : i < Last /\ i \in S => i + 1 \in S
  BY <1>3
<1>5. Last \in S
  <2> HIDE DEF S
  <2>1. QED
    BY <1>2, <1>4, IntervalInduction
<1>6. QED
  BY <1>1, <1>5

\* An entry past all entries of p is one more effect.
LEMMA ReplayStep ==
    ASSUME Last \in Nat, NEW doc, NEW p, NEW E, NEW n \in 1..Last, NEW F,
           F = E \cup {<<n, p>>}, \A i \in n..Last : <<i, p>> \notin E
    PROVE  Replay(doc, F, p) = Effect(report[n], Replay(doc, E, p))
<1>1. PICK g : Replays(g, doc, E, p, Last) /\ Replay(doc, E, p) = g[Last]
  BY ReplayUnfolds
<1>2. PICK h : Replays(h, doc, F, p, Last) /\ Replay(doc, F, p) = h[Last]
  BY ReplayUnfolds
<1>3. g[0] = doc /\ h[0] = doc
  BY <1>1, <1>2, ReplaysFrom
<1>4. \A i \in 1..Last : i # n => (<<i, p>> \in E <=> <<i, p>> \in F)
  OBVIOUS
<1>5. g[n-1] = h[n-1]
  <2>1. n - 1 \in 0..Last /\ \A i \in 0 + 1..n - 1 : <<i, p>> \in E <=> <<i, p>> \in F
    BY <1>4
  <2>2. QED
    BY <1>1, <1>2, <1>3, <2>1, ReplaysAgree
<1>6. h[n] = Effect(report[n], h[n-1])
  <2>1. n \in 0..Last /\ n # 0 /\ <<n, p>> \in F
    OBVIOUS
  <2>2. h[n] = IF n = 0 THEN doc ELSE IF <<n, p>> \in F THEN Effect(report[n], h[n-1]) ELSE h[n-1]
    BY <1>2, <2>1, ReplaysAt
  <2>3. QED
    BY <2>1, <2>2
<1>7. g[Last] = g[n-1]
  <2> DEFINE S == {i \in n-1..Last : g[i] = g[n-1]}
  <2>1. n - 1 \in S /\ n - 1 \in Nat
    OBVIOUS
  <2>2. ASSUME NEW i \in n-1..Last, i < Last, i \in S
        PROVE  i + 1 \in S
    <3>1. i + 1 \in n..Last /\ i + 1 \in 0..Last /\ i + 1 # 0 /\ (i + 1) - 1 = i /\ i + 1 \in n-1..Last
      BY <2>2
    <3>2. g[i + 1] = IF <<i + 1, p>> \in E THEN Effect(report[i + 1], g[i]) ELSE g[i]
      BY <1>1, <3>1, ReplaysAt
    <3>3. QED
      BY <2>2, <3>1, <3>2
  <2>3. \A i \in n-1..Last : i < Last /\ i \in S => i + 1 \in S
    BY <2>2
  <2>4. Last \in n-1..Last
    OBVIOUS
  <2>5. Last \in S
    <3> HIDE DEF S
    <3>1. QED
      BY <2>1, <2>3, <2>4, IntervalInduction
  <2>6. QED
    BY <2>5
<1>8. h[Last] = h[n]
  <2> DEFINE S == {i \in n..Last : h[i] = h[n]}
  <2>1. n \in S /\ n \in Nat
    OBVIOUS
  <2>2. ASSUME NEW i \in n..Last, i < Last, i \in S
        PROVE  i + 1 \in S
    <3>1. i + 1 \in n..Last /\ i + 1 \in 0..Last /\ i + 1 # 0 /\ (i + 1) - 1 = i /\ i + 1 # n
          /\ i + 1 \in 1..Last
      BY <2>2
    <3>2. h[i + 1] = IF <<i + 1, p>> \in F THEN Effect(report[i + 1], h[i]) ELSE h[i]
      BY <1>2, <3>1, ReplaysAt
    <3>3. <<i + 1, p>> \notin F
      BY <1>4, <3>1
    <3>4. QED
      BY <2>2, <3>1, <3>2, <3>3
  <2>3. \A i \in n..Last : i < Last /\ i \in S => i + 1 \in S
    BY <2>2
  <2>4. Last \in n..Last
    OBVIOUS
  <2>5. Last \in S
    <3> HIDE DEF S
    <3>1. QED
      BY <2>1, <2>3, <2>4, IntervalInduction
  <2>6. QED
    BY <2>5
<1>9. QED
  BY <1>1, <1>2, <1>5, <1>6, <1>7, <1>8

LEMMA ReplayPrimed ==
    ASSUME UNCHANGED report, NEW doc, NEW E, NEW p
    PROVE  Replay(doc, E, p)' = Replay(doc, E, p)
BY Zenon DEF Replay, Last

(***************************************************************************)
(* The ledger accounts for the documents.  Between the steps of a run a    *)
(* document nobody edited is the replay of its entries; while proposals    *)
(* are applied the record and the composed content agree with it, except   *)
(* where a set_field has touched the record ahead of its write.            *)
(***************************************************************************)
\* The document as the run has it: on disk, or composed by a preview.
Held(p) == IF run.dry THEN Content(target[p]) ELSE disk[p]

\* SetField has changed the record and is about to write the file.
Touching(p) == run.phase = "write" /\ p = Path /\ Current.type = "set"

Applies == run.phase \in {"read", "apply", "write"}

\* The ledger is to account for p.
Accountable(p) == ~SetFailed(p) /\ (run.dry => Rewritable(p))

\* What is sealed stays so, and a preview can go on rewriting it.
Kept(p) ==
    target[p].loaded =>
        /\ target[p].original \in Docs
        /\ run.dry /\ target[p].original.sealed => Content(target[p]).sealed
        /\ Accountable(p) => Held(p) = Replay(target[p].original, ledger.changed, p)
        /\ Applies => /\ ~run.dry => disk[p] = Content(target[p])
                      /\ Accountable(p) /\ ~Touching(p) => target[p].fm = Held(p).fm

\* The pending write is the effect of its proposal.
Pending ==
    run.phase = "write" /\ Path \notin edited /\ target[Path].loaded /\ ~SetFailed(Path) =>
        run.content = Effect(Current, disk[Path]) /\ run.content.fm = run.fm

\* What is still ahead has no entry.
Fresh == \A n \in 1..Last : \A p \in Paths : Ahead(n, p) => <<n, p>> \notin ledger.changed

Exact ==
    /\ Fresh /\ Pending
    /\ run.phase \in {"write", "check", "restore"} => ~run.dry
    /\ \A p \in Paths \ edited : Kept(p)

\* A path the step has nothing to do with.
LEMMA KeptStays ==
    ASSUME Last \in Nat, UNCHANGED report, NEW p, Kept(p),
           target'[p] = target[p], disk'[p] = disk[p], run'.dry = run.dry,
           \A n \in 1..Last : <<n, p>> \in ledger'.changed <=> <<n, p>> \in ledger.changed,
           ledger.errors \subseteq ledger'.errors,
           Applies' => Applies,
           Touching(p) => Touching(p)' \/ ~Accountable(p)' \/ ~Applies'
    PROVE  Kept(p)'
<1>1. Last' = Last
  BY DEF Last
<1>2. Accountable(p)' => Accountable(p)
  BY <1>1 DEF Accountable, SetFailed, Rewritable, RepairsField
<1>3. Held(p)' = Held(p) /\ Content(target[p])' = Content(target[p])
  BY DEF Held, Content
<1>4. Replay(target[p].original, ledger.changed, p)'
        = Replay(target[p].original, ledger.changed, p)
  <2>1. Replay(target[p].original, ledger.changed, p)'
          = Replay(target'[p].original, ledger'.changed, p)
    BY ReplayPrimed
  <2>2. QED
    BY <2>1, ReplaySame
<1>5. QED
  BY <1>1, <1>2, <1>3, <1>4 DEF Kept

\* Moving on leaves the place behind, and nothing comes ahead again.
LEMMA MoveBehind ==
    ASSUME EachPathOnce, Typed, run.phase \in {"apply", "write"}, run.n <= Last,
           run' \in {NextPath, NextProposal}, UNCHANGED report,
           NEW n \in 1..Last, NEW p \in Paths, Ahead(n, p)'
    PROVE  Ahead(n, p) /\ (Names(Current) # {} => <<n, p>> # <<run.n, Path>>)
<1>1. PICK m \in 1..Last + 1, j \in Nat \ {0} :
              /\ run' = [run EXCEPT !.phase = "apply", !.n = m, !.j = j]
              /\ \/ m = run.n + 1 /\ j = 1
                 \/ m = run.n /\ j = run.j + 1 /\ j \in DOMAIN Current.paths
  BY NextPathType
<1>2. run'.n = m /\ run'.j = j /\ run'.phase = "apply"
  BY <1>1 DEF Typed, TypeOK, Runs
<1>3. \/ n > m
      \/ n = m /\ \E k \in DOMAIN report[n].paths : k >= j /\ report[n].paths[k] = p
  BY <1>2 DEF Ahead
<1>4. run.n \in 1..Last /\ m \in Nat /\ n \in Nat
  BY <1>1, CurrentType, ReportType DEF Typed
<1>5. CASE m = run.n + 1
  <2>1. n > run.n
    BY <1>3, <1>4, <1>5
  <2>2. QED
    BY <1>4, <2>1 DEF Ahead
<1>6. CASE m = run.n /\ j = run.j + 1
  <2>1. CASE n > m
    BY <1>4, <1>6, <2>1 DEF Ahead
  <2>2. CASE n = m
    <3>1. PICK k \in DOMAIN report[n].paths : k >= j /\ report[n].paths[k] = p
      BY <1>3, <1>4, <2>2
    <3>2. report[n] = Current /\ Current.paths \in Seq(Paths)
      BY <1>6, <2>2, CurrentType DEF Current
    <3>3. k \in Nat /\ run.j \in Nat /\ k > run.j
      BY <1>6, <3>1, <3>2 DEF Typed, TypeOK, Runs
    <3>4. Names(Current) # {} => run.j \in DOMAIN Current.paths
      BY <3>2, CurrentType
    <3>5. report \in Reports /\ n \in DOMAIN report
      BY ReportType DEF Typed, TypeOK
    <3>6. Names(Current) # {} => p # Path
      BY <3>1, <3>2, <3>3, <3>4, <3>5 DEF EachPathOnce, Path
    <3>7. QED
      BY <1>6, <2>2, <3>1, <3>3, <3>6 DEF Ahead
  <2>3. QED
    BY <1>3, <2>1, <2>2
<1>7. QED
  BY <1>1, <1>5, <1>6

\* A step of the apply pass that changes no document: of the path it is at it
\* may touch the record, if it is a set_field that fails.
LEMMA QuietExact ==
    ASSUME EachPathOnce, Typed, Exact, run.phase \in {"apply", "write"}, run.n <= Last,
           run' \in {NextPath, NextProposal}, UNCHANGED <<report, disk, edited>>,
           ledger'.changed = ledger.changed, ledger.errors \subseteq ledger'.errors,
           NEW at, at = Path, NEW here, here = run.n,
           \A p \in Paths : p # at => target'[p] = target[p],
           \/ target' = target
           \/ /\ Current.type = "set" /\ Names(Current) # {}
              /\ target' = [target EXCEPT ![Path].fm = Candidate],
           (target' # target \/ run.phase = "write") /\ Current.type = "set"
               => <<here, at>> \in ledger'.errors
    PROVE  Exact'
<1>1. /\ here \in 1..Last /\ Last \in Nat /\ Last' = Last
      /\ (Names(Current) # {} => at \in Paths) /\ report[here] = Current
  BY CurrentType, ReportType, SameReport DEF Typed, Current
<1>2. run'.phase = "apply" /\ run'.dry = run.dry
  BY DEF NextPath, NextProposal, Typed, TypeOK, Runs
<1>3. Applies /\ Applies' /\ ~Pending' => FALSE
  BY <1>2 DEF Applies, Pending
<1>4. Fresh'
  BY <1>1, MoveBehind DEF Exact, Fresh
<1>5. Current.type = "set" /\ <<here, at>> \in ledger'.errors => ~Accountable(at)'
  BY <1>1 DEF Accountable, SetFailed
<1>6. ASSUME NEW p \in Paths \ edited
      PROVE  Kept(p)'
  <2>1. Kept(p)
    BY DEF Exact
  <2>2. CASE target'[p] = target[p]
    <3>1. Touching(p) => ~Accountable(p)'
      BY <1>5 DEF Touching
    <3>2. Applies
      BY DEF Applies
    <3>3. QED
      BY <1>1, <1>2, <2>1, <2>2, <3>1, <3>2, KeptStays
  <2>3. CASE target'[p] # target[p]
    <3>1. /\ p = at /\ Current.type = "set" /\ <<here, at>> \in ledger'.errors
          /\ target' = [target EXCEPT ![Path].fm = Candidate]
      BY <2>3
    <3>2. ~Accountable(p)'
      BY <1>5, <3>1
    <3>3. /\ target'[p].loaded = target[p].loaded /\ target'[p].original = target[p].original
          /\ target'[p].content = target[p].content
      BY <3>1 DEF Typed, TypeOK, Targets
    <3>4. Content(target[p])' = Content(target[p]) /\ Applies
      BY <3>3 DEF Content, Applies
    <3>5. QED
      BY <1>2, <2>1, <3>2, <3>3, <3>4 DEF Kept
  <2>4. QED
    BY <2>2, <2>3
<1>7. QED
  BY <1>2, <1>3, <1>4, <1>6 DEF Exact, Pending

LEMMA NoteKind ==
    ASSUME TypeOK, NEW kind \in {"skipped", "rejected", "errors"}, NEW entries, Note(kind, entries)
    PROVE  ledger'.changed = ledger.changed /\ ledger.errors \subseteq ledger'.errors
BY DEF Note, TypeOK, Ledgers

LEMMA ApplyExact ==
    ASSUME EachPathOnce, Typed, Exact, Dispose \/ NoTarget \/ Skip \/ Refuse \/ WriteFails
    PROVE  Exact'
<1>1. PICK here, at : here = run.n /\ at = Path
  OBVIOUS
<1>2. /\ run.phase \in {"apply", "write"} /\ run.n <= Last
      /\ run' \in {NextPath, NextProposal} /\ UNCHANGED <<report, disk, edited>>
  BY DEF Dispose, NoTarget, Skip, Refuse, WriteFails, Changes, Applied, Applying, Hist, Typed, Position
<1>3. ledger'.changed = ledger.changed /\ ledger.errors \subseteq ledger'.errors
  BY NoteKind DEF Dispose, NoTarget, Skip, Refuse, WriteFails, Typed
<1>4. CASE Dispose \/ NoTarget \/ Skip
  <2>1. target' = target /\ run.phase # "write"
    BY <1>4 DEF Dispose, NoTarget, Skip, Applied, Applying
  <2>2. QED
    BY <1>1, <1>2, <1>3, <2>1, QuietExact
<1>5. CASE Refuse
  <2>1. <<here, at>> \in ledger'.errors /\ Names(Current) # {}
    BY <1>1, <1>5, NoteGrows DEF Refuse, Changes, Applied, Typed
  <2>2. \/ target' = target
        \/ Current.type = "set" /\ target' = [target EXCEPT ![Path].fm = Candidate]
    BY <1>5 DEF Refuse, TouchedRecord
  <2>3. \A p \in Paths : p # at => target'[p] = target[p]
    BY <1>1, <2>2 DEF Typed, TypeOK
  <2>4. QED
    BY <1>1, <1>2, <1>3, <2>1, <2>2, <2>3, QuietExact
<1>6. CASE WriteFails
  <2>1. <<here, at>> \in ledger'.errors /\ target' = target
    BY <1>1, <1>6, NoteGrows DEF WriteFails, Typed
  <2>2. QED
    BY <1>1, <1>2, <1>3, <2>1, QuietExact
<1>7. QED
  BY <1>4, <1>5, <1>6

\* Rewriting is the effect of the proposal, when the record agrees with the file.
LEMMA RewriteIsEffect ==
    ASSUME Typed, Changes, ~NoRewrite, IsField => target[Path].fm = Base.fm,
           IsField /\ run.dry => Base.sealed
    PROVE  /\ Rewritten = Effect(Current, Base)
           /\ target[Path].fm = Base.fm => Rewritten.fm = Candidate
<1>1. Base \in Docs /\ Current.type \in {"correct", "add", "set", "section", "link"}
  BY RewrittenType
<1>2. CASE IsField
  <2>1. Candidate = [Base.fm EXCEPT ![Current.field] = Current.to]
    BY <1>2 DEF Candidate
  <2>2. Effect(Current, Base) = [Base EXCEPT !.fm[Current.field] = Current.to]
    BY <1>2, EffectCases DEF IsField, FieldTypes
  <2>3. Rewritten = RewriteFrontmatter(Base, Candidate)
    BY <1>2 DEF Rewritten
  <2>4. Base.sealed
    <3>1. ~run.dry => Rewritten # Base
      BY <1>1, <1>2, DocAssumption DEF NoRewrite, DocAssumption
    <3>2. QED
      BY <1>2, <2>3, <3>1 DEF RewriteFrontmatter
  <2>5. Rewritten = [Base EXCEPT !.fm = Candidate]
    BY <2>3, <2>4 DEF RewriteFrontmatter
  <2>6. Rewritten.fm = Candidate
    BY <1>1, <2>5 DEF Docs
  <2>7. QED
    BY <1>1, <2>1, <2>2, <2>5, <2>6 DEF Docs
<1>3. CASE ~IsField
  <2>1. Rewritten = Effect(Current, Base) /\ Candidate = target[Path].fm
    BY <1>3 DEF Rewritten, Candidate
  <2>2. CASE Current.type = "section"
    <3>1. Rewritten = [Base EXCEPT !.section = SetSection(@, Current), !.sealed = TRUE]
      BY <2>1, <2>2, EffectCases
    <3>2. QED
      BY <1>1, <2>1, <3>1 DEF Docs
  <2>3. CASE Current.type = "link"
    <3>1. Rewritten = [Base EXCEPT !.links = ReplaceOnce(@, Current.from, Current.to)]
      BY <2>1, <2>3, EffectCases
    <3>2. QED
      BY <1>1, <2>1, <3>1 DEF Docs
  <2>4. QED
    BY <1>1, <1>3, <2>2, <2>3 DEF IsField, FieldTypes
<1>4. QED
  BY <1>2, <1>3

\* ... and what is sealed stays sealed.
LEMMA RewrittenSealed ==
    ASSUME Typed, Changes, ~NoRewrite, Base.sealed
    PROVE  Rewritten.sealed
<1>1. Base \in Docs /\ Current.type \in {"correct", "add", "set", "section", "link"}
  BY RewrittenType
<1>2. CASE IsField
  <2>1. Rewritten = [Base EXCEPT !.fm = Candidate]
    BY <1>2 DEF Rewritten, RewriteFrontmatter
  <2>2. QED
    BY <1>1, <2>1 DEF Docs
<1>3. CASE Current.type = "section"
  <2>1. Rewritten = [Base EXCEPT !.section = SetSection(@, Current), !.sealed = TRUE]
    BY <1>3, EffectCases DEF Rewritten, IsField, FieldTypes
  <2>2. QED
    BY <1>1, <2>1 DEF Docs
<1>4. CASE Current.type = "link"
  <2>1. Rewritten = [Base EXCEPT !.links = ReplaceOnce(@, Current.from, Current.to)]
    BY <1>4, EffectCases DEF Rewritten, IsField, FieldTypes
  <2>2. QED
    BY <1>1, <2>1 DEF Docs
<1>5. QED
  BY <1>1, <1>2, <1>3, <1>4 DEF IsField, FieldTypes

\* A change is the next effect on its document, and no entry stood for it.
LEMMA ChangeReplays ==
    ASSUME EachPathOnce, Typed, Fresh, run.phase \in {"apply", "write"}, run.n <= Last,
           Names(Current) # {}, UNCHANGED report, NEW doc, NEW p \in Paths,
           ledger'.changed = ledger.changed \cup {<<run.n, Path>>}
    PROVE  /\ p = Path => Replay(doc, ledger'.changed, p)
                            = Effect(Current, Replay(doc, ledger.changed, p))
           /\ p # Path => \A n \in 1..Last : <<n, p>> \in ledger'.changed <=> <<n, p>> \in ledger.changed
<1>1. run.n \in 1..Last /\ run.j \in DOMAIN Current.paths /\ Last \in Nat /\ Path \in Paths
      /\ run.j \in Nat
  BY CurrentType, ReportType DEF Typed
<1>2. \A i \in run.n..Last : <<i, Path>> \notin ledger.changed
  <2>1. ASSUME NEW i \in run.n..Last
        PROVE  Ahead(i, Path)
    <3>1. CASE i = run.n
      BY <1>1, <3>1 DEF Ahead, Current, Path
    <3>2. CASE i > run.n
      BY <3>2 DEF Ahead
    <3>3. QED
      BY <1>1, <3>1, <3>2
  <2>2. QED
    BY <1>1, <2>1 DEF Fresh
<1>3. Replay(doc, ledger'.changed, Path) = Effect(Current, Replay(doc, ledger.changed, Path))
  BY <1>1, <1>2, ReplayStep DEF Current
<1>4. QED
  BY <1>3

\* A change made: the document is what the proposal makes of the one before.
LEMMA ChangeExact ==
    ASSUME EachPathOnce, Typed, Exact, run.phase \in {"apply", "write"}, run.n <= Last,
           Names(Current) # {}, run' = NextPath, UNCHANGED <<report, edited>>,
           Note("changed", {<<run.n, Path>>}),
           NEW at, at = Path,
           \A p \in Paths : p # at => target'[p] = target[p] /\ disk'[p] = disk[p],
           disk'[at] = IF run.dry THEN disk[at] ELSE target'[at].content,
           target'[at].loaded = target[at].loaded, target'[at].original = target[at].original,
           target'[at].content \in Docs,
           at \notin edited /\ target[at].loaded /\ Accountable(at) =>
                /\ target'[at].content = Effect(Current, Held(at))
                /\ target'[at].content.fm = target'[at].fm,
           at \notin edited /\ run.dry /\ target[at].original.sealed => target'[at].content.sealed
    PROVE  Exact'
<1>0. PICK new, fm : new \in Docs /\ new = target'[at].content /\ fm = target'[at].fm
  OBVIOUS
<1>1. /\ at \in Paths /\ Last \in Nat /\ Last' = Last /\ run' \in {NextPath, NextProposal}
      /\ run.n \in 1..Last
  BY CurrentType, ReportType, SameReport DEF Typed
<1>2. run'.phase = "apply" /\ run'.dry = run.dry
  BY DEF NextPath, NextProposal, Typed, TypeOK, Runs
<1>3. ledger'.changed = ledger.changed \cup {<<run.n, Path>>} /\ ledger'.errors = ledger.errors
  BY DEF Note, Typed, TypeOK, Ledgers
<1>4. Fresh'
  <2>1. ASSUME NEW n \in 1..Last, NEW p \in Paths, Ahead(n, p)'
        PROVE  <<n, p>> \notin ledger'.changed
    BY <1>1, <1>3, <2>1, MoveBehind DEF Exact, Fresh
  <2>2. QED
    BY <1>1, <2>1 DEF Fresh
<1>5. ASSUME NEW p \in Paths \ edited, p # at
      PROVE  Kept(p)'
  <2>1. target'[p] = target[p] /\ disk'[p] = disk[p]
    BY <1>1, <1>5 DEF Typed, TypeOK
  <2>2. \A n \in 1..Last : <<n, p>> \in ledger'.changed <=> <<n, p>> \in ledger.changed
    BY <1>3, <1>5
  <2>3. ~Touching(p) /\ Applies
    BY <1>5 DEF Touching, Applies
  <2>4. QED
    BY <1>1, <1>2, <1>3, <2>1, <2>2, <2>3, KeptStays DEF Exact
<1>6. ASSUME at \notin edited, target[at].loaded
      PROVE  Kept(at)'
  <2>1. Kept(at)
    BY <1>1, <1>6 DEF Exact
  <2>2. new # None
    BY <1>0, DocAssumption DEF DocAssumption
  <2>3. Content(target[at])' = new
    BY <1>0, <2>2 DEF Content
  <2>4. Held(at)' = new /\ (~run.dry => disk'[at] = new)
    BY <1>0, <1>1, <1>2, <2>3 DEF Held, Typed, TypeOK
  <2>5. Accountable(at) <=> Accountable(at)'
    BY <1>1, <1>2, <1>3 DEF Accountable, SetFailed, Rewritable, RepairsField
  <2>6. ASSUME Accountable(at)
        PROVE  new = Replay(target[at].original, ledger.changed, at)'
    <3>1. new = Effect(Current, Replay(target[at].original, ledger.changed, at))
      BY <1>0, <1>6, <2>1, <2>6 DEF Kept
    <3>2. Replay(target[at].original, ledger.changed, at)'
            = Replay(target'[at].original, ledger'.changed, at)
      BY ReplayPrimed
    <3>3. Replay(target'[at].original, ledger'.changed, at)
            = Effect(Current, Replay(target[at].original, ledger.changed, at))
      BY <1>1, <1>3, ChangeReplays DEF Exact
    <3>4. QED
      BY <3>1, <3>2, <3>3
  <2>7. QED
    BY <1>0, <1>2, <1>6, <2>1, <2>3, <2>4, <2>5, <2>6 DEF Kept
<1>7. \A p \in Paths \ edited : Kept(p)'
  <2>1. ASSUME at \notin edited, ~target[at].loaded
        PROVE  Kept(at)'
    BY <2>1 DEF Kept
  <2>2. QED
    BY <1>5, <1>6, <2>1
<1>8. QED
  BY <1>2, <1>4, <1>7 DEF Exact, Pending

LEMMA PreviewExact ==
    ASSUME EachPathOnce, Typed, Exact, Preview
    PROVE  Exact'
<1>1. PICK at : at = Path
  OBVIOUS
<1>2. /\ run.phase = "apply" /\ run.n <= Last /\ Names(Current) # {} /\ run.dry
      /\ Changes /\ ~NoRewrite /\ run' = NextPath /\ UNCHANGED <<report, edited, disk>>
      /\ Note("changed", {<<run.n, Path>>}) /\ target[at].loaded
      /\ target' = [target EXCEPT ![at].fm = Candidate, ![at].content = Rewritten]
  BY <1>1 DEF Preview, Changes, Applied, Applying, Hist
<1>3. at \in Paths /\ Rewritten \in Docs
  BY <1>1, <1>2, RewrittenType
<1>4. /\ target'[at].loaded = target[at].loaded /\ target'[at].original = target[at].original
      /\ target'[at].content = Rewritten /\ target'[at].fm = Candidate
      /\ \A p \in Paths : p # at => target'[p] = target[p] /\ disk'[p] = disk[p]
  BY <1>2, <1>3 DEF Typed, TypeOK, Targets
<1>5. Base = Held(at)
  BY <1>1, <1>2 DEF Base, Held
<1>5a. ASSUME at \notin edited, target[at].original.sealed
       PROVE  Base.sealed
  BY <1>1, <1>2, <1>3, <1>5a DEF Exact, Kept, Base
<1>6. ASSUME at \notin edited, Accountable(at)
      PROVE  Rewritten = Effect(Current, Held(at)) /\ Rewritten.fm = Candidate
  <2>1. target[at].fm = Held(at).fm
    BY <1>2, <1>3, <1>6 DEF Exact, Kept, Applies, Touching
  <2>2. IsField => target[at].original.sealed
    <3>1. Current = report[run.n] /\ run.n \in 1..Last /\ at \in Names(Current)
      BY <1>1, <1>2, RewrittenType, CurrentType DEF Current
    <3>2. QED
      BY <1>2, <1>6, <3>1 DEF Accountable, Rewritable, RepairsField, IsField
  <2>3. QED
    BY <1>1, <1>2, <1>5, <1>5a, <1>6, <2>1, <2>2, RewriteIsEffect
<1>7. /\ disk'[at] = IF run.dry THEN disk[at] ELSE target'[at].content
      /\ target'[at].content \in Docs
      /\ at \notin edited /\ target[at].loaded /\ Accountable(at) =>
           /\ target'[at].content = Effect(Current, Held(at))
           /\ target'[at].content.fm = target'[at].fm
      /\ at \notin edited /\ run.dry /\ target[at].original.sealed => target'[at].content.sealed
  BY <1>2, <1>3, <1>4, <1>5a, <1>6, RewrittenSealed
<1>8. /\ run.phase \in {"apply", "write"} /\ run.n <= Last /\ Names(Current) # {}
      /\ run' = NextPath /\ UNCHANGED <<report, edited>> /\ Note("changed", {<<run.n, Path>>})
  BY <1>2
<1>9. \A p \in Paths : p # at => target'[p] = target[p] /\ disk'[p] = disk[p]
  BY <1>4
<1>10. target'[at].loaded = target[at].loaded /\ target'[at].original = target[at].original
  BY <1>4
<1>11. QED
  BY <1>1, <1>7, <1>8, <1>9, <1>10, ChangeExact

LEMMA WriteExact ==
    ASSUME EachPathOnce, Typed, Exact, Write
    PROVE  Exact'
<1>1. PICK at : at = Path
  OBVIOUS
<1>2. /\ run.phase = "write" /\ run.n <= Last /\ Names(Current) # {} /\ ~run.dry
      /\ run' = NextPath /\ UNCHANGED <<report, edited>>
      /\ Note("changed", {<<run.n, Path>>}) /\ run.content \in Docs
      /\ target' = [target EXCEPT ![at].fm = run.fm, ![at].content = run.content,
                                  ![at].written = TRUE]
      /\ disk' = [disk EXCEPT ![at] = run.content]
  BY <1>1 DEF Write, Hist, Typed, Position, Exact
<1>3. at \in Paths
  BY <1>1, <1>2, CurrentType
<1>4. /\ target'[at].loaded = target[at].loaded /\ target'[at].original = target[at].original
      /\ target'[at].content = run.content /\ target'[at].fm = run.fm
      /\ \A p \in Paths : p # at => target'[p] = target[p] /\ disk'[p] = disk[p]
  BY <1>2, <1>3 DEF Typed, TypeOK, Targets
<1>5. ASSUME at \notin edited, target[at].loaded, Accountable(at)
      PROVE  run.content = Effect(Current, Held(at)) /\ run.content.fm = run.fm
  BY <1>1, <1>2, <1>5 DEF Exact, Pending, Held, Accountable
<1>6. /\ disk'[at] = IF run.dry THEN disk[at] ELSE target'[at].content
      /\ target'[at].content \in Docs
      /\ at \notin edited /\ target[at].loaded /\ Accountable(at) =>
           /\ target'[at].content = Effect(Current, Held(at))
           /\ target'[at].content.fm = target'[at].fm
      /\ at \notin edited /\ run.dry /\ target[at].original.sealed => target'[at].content.sealed
  BY <1>2, <1>3, <1>4, <1>5 DEF Typed, TypeOK
<1>7. /\ run.phase \in {"apply", "write"} /\ run.n <= Last /\ Names(Current) # {}
      /\ run' = NextPath /\ UNCHANGED <<report, edited>> /\ Note("changed", {<<run.n, Path>>})
  BY <1>2
<1>8. \A p \in Paths : p # at => target'[p] = target[p] /\ disk'[p] = disk[p]
  BY <1>4
<1>9. target'[at].loaded = target[at].loaded /\ target'[at].original = target[at].original
  BY <1>4
<1>10. QED
  BY <1>1, <1>6, <1>7, <1>8, <1>9, ChangeExact

LEMMA RewriteExact ==
    ASSUME Typed, Exact, Rewrite
    PROVE  Exact'
<1>1. /\ run.phase = "apply" /\ run.n <= Last /\ Names(Current) # {} /\ ~run.dry
      /\ Changes /\ ~NoRewrite /\ UNCHANGED <<report, edited, disk, ledger>>
      /\ target' = TouchedRecord /\ target[Path].loaded
      /\ run' = [run EXCEPT !.phase = "write", !.fm = Candidate, !.content = Rewritten]
  BY DEF Rewrite, Changes, Applied, Applying, Hist
<1>2. Path \in Paths /\ Last \in Nat /\ Last' = Last /\ Rewritten \in Docs
  BY <1>1, RewrittenType, ReportType, SameReport DEF Typed
<1>3. /\ run'.phase = "write" /\ run'.n = run.n /\ run'.j = run.j /\ run'.dry = run.dry
      /\ run'.fm = Candidate /\ run'.content = Rewritten
  BY <1>1 DEF Typed, TypeOK, Runs
<1>4. Current' = Current /\ Path' = Path
  BY <1>1, <1>3 DEF Current, Path
<1>5. Fresh'
  BY <1>1, <1>2, <1>3 DEF Exact, Fresh, Ahead
<1>6. /\ \A p \in Paths : p # Path => target'[p] = target[p]
      /\ target'[Path].loaded = target[Path].loaded
      /\ target'[Path].original = target[Path].original
      /\ target'[Path].content = target[Path].content
      /\ Current.type # "set" => target' = target
  BY <1>1, <1>2 DEF TouchedRecord, Typed, TypeOK, Targets
<1>7. ASSUME NEW p \in Paths \ edited, p # Path \/ Current.type # "set"
      PROVE  Kept(p)'
  <2>1. target'[p] = target[p] /\ ~Touching(p) /\ Applies
    BY <1>1, <1>6, <1>7 DEF Touching, Applies
  <2>2. QED
    BY <1>1, <1>2, <1>3, <2>1, KeptStays DEF Exact
<1>8. ASSUME NEW p \in Paths \ edited, p = Path, Current.type = "set"
      PROVE  Kept(p)'
  <2>1. Kept(p) /\ Touching(p)'
    BY <1>3, <1>4, <1>8 DEF Exact, Touching
  <2>2. Content(target[p])' = Content(target[p]) /\ Held(p)' = Held(p) /\ Applies
    BY <1>1, <1>3, <1>6, <1>8 DEF Content, Held, Applies
  <2>3. Accountable(p)' => Accountable(p)
    BY <1>1, <1>2, <1>3, <1>6, <1>8 DEF Accountable, SetFailed, Rewritable, RepairsField
  <2>4. Replay(target[p].original, ledger.changed, p)' = Replay(target[p].original, ledger.changed, p)
    BY <1>1, <1>6, <1>8, ReplayPrimed
  <2>5. QED
    BY <1>1, <1>6, <1>8, <2>1, <2>2, <2>3, <2>4 DEF Kept
<1>9. Pending'
  <2>1. ASSUME Path \notin edited, ~SetFailed(Path)
        PROVE  Rewritten = Effect(Current, disk[Path]) /\ Rewritten.fm = Candidate
    <3>1. disk[Path] = Content(target[Path]) /\ target[Path].fm = disk[Path].fm
      BY <1>1, <1>2, <2>1 DEF Exact, Kept, Applies, Touching, Held, Accountable
    <3>2. Base = disk[Path]
      BY <1>1, <3>1 DEF Base
    <3>3. QED
      BY <1>1, <3>1, <3>2, RewriteIsEffect
  <2>2. ASSUME ~SetFailed(Path)'
        PROVE  ~SetFailed(Path)
    BY <1>1, <1>2, <1>4, <2>2 DEF SetFailed
  <2>3. QED
    BY <1>1, <1>3, <1>4, <2>1, <2>2 DEF Pending
<1>10. QED
  BY <1>1, <1>3, <1>5, <1>7, <1>8, <1>9 DEF Exact

\* A step past the apply pass, or one that only looks: no document of ours moves.
LEMMA LaterExact ==
    ASSUME Typed, Exact, UNCHANGED <<report, target, disk, edited>>,
           run'.dry = run.dry, ledger'.changed = ledger.changed, ledger.errors \subseteq ledger'.errors,
           run'.phase \in {"check", "restore", "done"},
           run'.phase \in {"check", "restore"} => ~run.dry
    PROVE  Exact'
<1>1. Last \in Nat /\ Last' = Last /\ ~Applies'
  BY ReportType, SameReport DEF Typed, Applies
<1>2. Fresh' /\ Pending'
  BY DEF Fresh, Ahead, Pending
<1>3. ASSUME NEW p \in Paths \ edited
      PROVE  Kept(p)'
  BY <1>1, <1>3, KeptStays DEF Exact
<1>4. QED
  BY <1>2, <1>3 DEF Exact

LEMMA ReadExact ==
    ASSUME Typed, Exact, NEW x \in Paths, Read(x) \/ ReadFails(x)
    PROVE  Exact'
<1>1. run.phase = "read" /\ x \in run.todo /\ UNCHANGED <<report, disk, edited>>
      /\ ledger'.changed = ledger.changed /\ ledger.errors \subseteq ledger'.errors
  BY NoteKind DEF Read, ReadFails, Hist, Typed
<1>2. run'.phase \in {"read", "apply"} /\ run'.dry = run.dry
  BY <1>1 DEF Read, ReadFails, ReadDone, Typed, TypeOK, Runs
<1>3. Last \in Nat /\ Last' = Last
  BY <1>1, ReportType, SameReport DEF Typed
<1>4. \A n \in 1..Last : \A p \in Paths : <<n, p>> \notin ledger.changed
  BY <1>1 DEF Exact, Fresh, Ahead
<1>5. Fresh' /\ Pending'
  BY <1>1, <1>2, <1>3, <1>4 DEF Fresh, Pending
<1>6. ASSUME NEW p \in Paths \ edited, target'[p] = target[p]
      PROVE  Kept(p)'
  <2>1. Kept(p) /\ Applies /\ ~Touching(p)
    BY <1>1, <1>6 DEF Exact, Applies, Touching
  <2>2. QED
    BY <1>1, <1>2, <1>3, <1>6, <2>1, KeptStays
<1>7. ASSUME NEW p \in Paths \ edited, target'[p] # target[p]
      PROVE  Kept(p)'
  <2>1. Read(x) /\ p = x
    BY <1>7 DEF Read, ReadFails, Typed, TypeOK
  <2>2. PICK doc \in Docs : doc = disk[x] /\ disk[x] # None
    BY <2>1 DEF Read, Typed, TypeOK
  <2>3. /\ target'[p].original = doc /\ target'[p].content = None /\ target'[p].fm = doc.fm
        /\ disk'[p] = doc
    BY <1>1, <2>1, <2>2 DEF Read, Unread, Typed, TypeOK
  <2>4. Content(target[p])' = doc
    BY <2>3 DEF Content
  <2>5. Held(p)' = doc
    BY <2>3, <2>4 DEF Held
  <2>6. Replay(target[p].original, ledger.changed, p)' = doc
    <3>1. Replay(target[p].original, ledger.changed, p)'
            = Replay(target'[p].original, ledger'.changed, p)
      BY <1>1, ReplayPrimed
    <3>2. QED
      BY <1>1, <1>3, <1>4, <2>3, <3>1, ReplayNone
  <2>7. QED
    BY <2>3, <2>4, <2>5, <2>6 DEF Kept
<1>8. QED
  BY <1>1, <1>2, <1>5, <1>6, <1>7 DEF Exact

LEMMA RestoreExact ==
    ASSUME Typed, Exact, Restore
    PROVE  Exact'
<1>1. PICK at : at = run.at
  OBVIOUS
<1>2. at \in Paths /\ Last \in Nat
  BY <1>1, ReportType DEF Restore, Typed, TypeOK, Position, Runs
<1>3. /\ UNCHANGED <<report, target, edited>> /\ ~run.dry /\ run' = Checked(at)
      /\ ledger'.changed = {e \in ledger.changed : e[2] # at} /\ ledger'.errors = ledger.errors
      /\ disk'[at] = target[at].original /\ \A p \in Paths \ {at} : disk'[p] = disk[p]
  BY <1>1, <1>2 DEF Restore, Retracted, Hist, Exact, Typed, TypeOK, Ledgers
<1>4. run'.phase \in {"done", "check"} /\ run'.dry = run.dry /\ Last' = Last
  BY <1>3, SameReport DEF Checked, Typed, TypeOK, Runs
<1>5. Fresh' /\ Pending' /\ ~Applies'
  BY <1>4 DEF Fresh, Ahead, Pending, Applies
<1>6. ASSUME NEW p \in Paths \ edited, p # at
      PROVE  Kept(p)'
  <2>1. \A n \in 1..Last : <<n, p>> \in ledger'.changed <=> <<n, p>> \in ledger.changed
    BY <1>3, <1>6
  <2>2. QED
    BY <1>2, <1>3, <1>4, <1>5, <1>6, <2>1, KeptStays DEF Exact
<1>7. ASSUME at \notin edited
      PROVE  Kept(at)'
  <2>1. Held(at)' = target[at].original
    BY <1>3, <1>4 DEF Held
  <2>2. Replay(target[at].original, ledger.changed, at)' = target[at].original
    <3>1. Replay(target[at].original, ledger.changed, at)'
            = Replay(target'[at].original, ledger'.changed, at)
      BY <1>3, ReplayPrimed
    <3>2. \A i \in 1..Last : <<i, at>> \notin ledger'.changed
      BY <1>3
    <3>3. QED
      BY <1>2, <1>3, <3>1, <3>2, ReplayNone
  <2>3. target[at].loaded => target[at].original \in Docs
    BY <1>2, <1>7 DEF Exact, Kept
  <2>4. QED
    BY <1>3, <1>4, <1>5, <2>1, <2>2, <2>3 DEF Kept
<1>8. QED
  BY <1>2, <1>3, <1>4, <1>5, <1>6, <1>7 DEF Exact

LEMMA OtherExact ==
    ASSUME Typed, Exact, NEW x \in Paths, EndApply \/ Check(x) \/ RestoreFails
    PROVE  Exact'
<1>1. UNCHANGED <<report, target, disk, edited>>
  BY DEF EndApply, Check, RestoreFails, Hist
<1>2. ledger'.changed = ledger.changed /\ ledger.errors \subseteq ledger'.errors
  BY NoteKind DEF EndApply, Check, RestoreFails, Typed
<1>3. /\ run'.dry = run.dry /\ run'.phase \in {"check", "restore", "done"}
      /\ run'.phase \in {"check", "restore"} => ~run.dry
  <2>1. CASE EndApply
    BY <2>1 DEF EndApply, Typed, TypeOK, Runs
  <2>2. CASE Check(x) \/ RestoreFails
    <3>1. ~run.dry
      BY <2>2 DEF Check, RestoreFails, Exact
    <3>2. run'.dry = run.dry /\ run'.phase \in {"check", "restore", "done"}
      BY <2>2 DEF Check, RestoreFails, Checked, Typed, TypeOK, Runs
    <3>3. QED
      BY <3>1, <3>2
  <2>3. QED
    BY <2>1, <2>2
<1>4. QED
  BY <1>1, <1>2, <1>3, LaterExact

\* Nothing is loaded and nothing recorded: before a run and after a kill.
LEMMA FreshExact ==
    ASSUME Typed, Begin \/ Kill
    PROVE  Exact'
<1>1. ledger'.changed = {} /\ \A p \in Paths : ~target'[p].loaded
  <2>1. target' = [p \in Paths |-> Unread]
    BY DEF Begin, Kill
  <2>2. Unread.loaded = FALSE
    BY DEF Unread
  <2>3. \A p \in Paths : ~target'[p].loaded
    BY <2>1, <2>2
  <2>4. ledger' = [NoLedger EXCEPT !.rejected = Refused, !.errors = Unresolved] \/ ledger' = NoLedger
    BY Zenon DEF Begin, Kill
  <2>5. NoLedger.changed = {} /\ [NoLedger EXCEPT !.rejected = Refused, !.errors = Unresolved].changed = {}
    BY Z3 DEF NoLedger
  <2>6. QED
    BY <2>3, <2>4, <2>5, Zenon
<1>2. run'.phase \notin {"write", "check", "restore"}
  BY DEF Begin, Kill, Idle
<1>3. QED
  BY <1>1, <1>2 DEF Exact, Fresh, Pending, Kept

LEMMA EditExact ==
    ASSUME Typed, Exact, NEW x \in Paths, Edit(x)
    PROVE  Exact'
<1>1. /\ UNCHANGED <<report, run, target, ledger>> /\ edited' = edited \cup {x}
      /\ \A p \in Paths \ {x} : disk'[p] = disk[p]
  BY DEF Edit, Hist, Typed, TypeOK
<1>2. Last \in Nat /\ Last' = Last /\ Current' = Current /\ Path' = Path
  BY <1>1, ReportType, SameReport DEF Typed, Current, Path
<1>3. Fresh'
  BY <1>1, <1>2 DEF Exact, Fresh, Ahead
<1>4. ASSUME NEW p \in Paths \ edited'
      PROVE  Kept(p)'
  <2>1. Kept(p) /\ disk'[p] = disk[p] /\ (Touching(p) => Touching(p)') /\ (Applies' => Applies)
    BY <1>1, <1>2, <1>4 DEF Exact, Touching, Applies
  <2>2. QED
    BY <1>1, <1>2, <2>1, KeptStays
<1>5. Pending'
  <2>1. CASE run.phase = "write" /\ Path \notin edited'
    <3>1. Path \in Paths
      BY <2>1, CurrentType DEF Typed, Position
    <3>2. disk'[Path] = disk[Path] /\ (SetFailed(Path)' <=> SetFailed(Path))
      BY <1>1, <1>2, <2>1, <3>1 DEF SetFailed
    <3>3. QED
      BY <1>1, <1>2, <2>1, <3>2 DEF Exact, Pending
  <2>2. CASE run.phase # "write" \/ Path \in edited'
    BY <1>1, <1>2, <2>2 DEF Pending
  <2>3. QED
    BY <2>1, <2>2
<1>6. QED
  BY <1>1, <1>3, <1>4, <1>5 DEF Exact

LEMMA StutterExact ==
    ASSUME Typed, Exact, UNCHANGED vars
    PROVE  Exact'
<1>1. UNCHANGED <<report, run, target, ledger, disk, edited>>
  BY DEF vars
<1>2. Last \in Nat /\ Last' = Last /\ Current' = Current /\ Path' = Path
  BY <1>1, ReportType, SameReport DEF Typed, Current, Path
<1>3. Fresh'
  BY <1>1, <1>2 DEF Exact, Fresh, Ahead
<1>4. ASSUME NEW p \in Paths \ edited
      PROVE  Kept(p)'
  <2>1. Kept(p) /\ (Touching(p) => Touching(p)') /\ (Applies' => Applies)
    BY <1>1, <1>2, <1>4 DEF Exact, Touching, Applies
  <2>2. QED
    BY <1>1, <1>2, <2>1, KeptStays
<1>5. SetFailed(Path)' <=> SetFailed(Path)
  BY <1>1, <1>2 DEF SetFailed
<1>6. Pending'
  BY <1>1, <1>2, <1>5 DEF Exact, Pending
<1>7. QED
  BY <1>1, <1>3, <1>4, <1>6 DEF Exact

LEMMA NextExact ==
    ASSUME EachPathOnce, Typed, Exact, [Next]_vars
    PROVE  Exact'
<1>1. ASSUME EndApply \/ RestoreFails, Paths # {}
      PROVE  Exact'
  <2>1. PICK x \in Paths : TRUE
    BY <1>1
  <2>2. QED
    BY <1>1, <2>1, OtherExact
<1>2. ASSUME EndApply \/ RestoreFails, Paths = {}
      PROVE  Exact'
  <2>1. /\ run'.phase \notin {"read", "apply", "write"}
        /\ run'.phase \in {"check", "restore"} => ~run'.dry
    <3>1. CASE EndApply
      BY <3>1 DEF EndApply, Typed, TypeOK, Runs
    <3>2. CASE RestoreFails
      BY <3>2 DEF RestoreFails, Checked, Typed, TypeOK, Runs, Exact
    <3>3. QED
      BY <1>2, <3>1, <3>2
  <2>2. edited' = edited /\ \A p \in Paths : FALSE
    BY <1>2 DEF EndApply, RestoreFails
  <2>3. QED
    BY <2>1, <2>2 DEF Exact, Fresh, Ahead, Pending
<1>3. QED
  BY <1>1, <1>2, ReadExact, ApplyExact, PreviewExact, WriteExact, RewriteExact, OtherExact, RestoreExact,
     FreshExact, EditExact, StutterExact DEF Next

\* LedgerAccounts: what ApplyRepair (repair.go) reports is an exact account of
\* what became of every document it read and nobody else edited: its original
\* with the effects of its changed[] entries, in report order, whatever failed,
\* was reverted or was interrupted; a preview's composed content likewise.  The
\* reports are those of proposal.Analyze, which name a path of a repair once.
THEOREM LedgerIsAccount ==
    ASSUME EachPathOnce
    PROVE  Spec => []LedgerAccounts
<1>1. Init => Typed /\ Exact
  <2>1. Init => Exact
    BY DEF Init, Idle, Unread, NoLedger, Exact, Fresh, Pending, Kept
  <2>2. QED
    BY <2>1, InitTyped
<1>2. Typed /\ Exact /\ [Next]_vars => (Typed /\ Exact)'
  BY NextTyped, NextExact
<1>3. Exact => LedgerAccounts
  BY DEF Exact, Kept, Held, LedgerAccounts, Accounts, Accountable
<1>4. QED
  BY <1>1, <1>2, <1>3, PTL DEF Spec

(***************************************************************************)
(* A preview and the run it previews.  What the apply pass does when       *)
(* nothing intervenes, whether it writes or only composes: from the report *)
(* and the documents alone, one step per path (Step).                      *)
(***************************************************************************)
Noted(l, kind, entries) == [l EXCEPT ![kind] = @ \cup entries]

\* One proposal on one path of a document.
Turn(c, doc) ==
    IF c.type \in {"correct", "add", "set"} THEN Verdict(c, doc.fm[c.field])
    ELSE IF c.type = "section" THEN IF SetSection(doc.section, c) = None THEN "error" ELSE "change"
    ELSE IF ReplaceOnce(doc.links, c.from, c.to) = doc.links THEN "skip" ELSE "change"

List(turn) == IF turn = "skip" THEN "skipped" ELSE IF turn = "reject" THEN "rejected"
              ELSE IF turn = "change" THEN "changed" ELSE "errors"

\* A proposal that is disposed of as a whole, and the ledger after it.
Disposed(c) == ~Contained(c) \/ Names(c) = {} \/ EngineChosen(c) \/ c.type = "schema"
Disposing(l, n, c) ==
    IF ~Contained(c) THEN l
    ELSE IF EngineChosen(c) THEN Noted(l, "skipped", {<<n, p>> : p \in Names(c)})
    ELSE IF c.type = "schema" THEN Noted(l, "rejected", {<<n, p>> : p \in Names(c)})
    ELSE l

Step(r, s) ==
    LET c    == r[s.n]
        at   == c.paths[s.j]
        turn == Turn(c, s.docs[at])
        more == ~Disposed(c) /\ turn # "error" /\ s.j < Len(c.paths)
    IN  IF s.n > Len(r) THEN s
        ELSE [n      |-> IF more THEN s.n ELSE s.n + 1,
              j      |-> IF more THEN s.j + 1 ELSE 1,
              docs   |-> IF ~Disposed(c) /\ turn = "change"
                         THEN [s.docs EXCEPT ![at] = Effect(c, @)] ELSE s.docs,
              ledger |-> IF Disposed(c) THEN Disposing(s.ledger, s.n, c)
                         ELSE Noted(s.ledger, List(turn), {<<s.n, at>>})]

Opening(r)   ==
    [NoLedger EXCEPT
        !.rejected = {e \in (1..Len(r)) \X Paths : e[2] \in Names(r[e[1]]) \cap (Escaping \ Unresolvable)},
        !.errors   = {0} \X UNION {Names(r[n]) \cap Unresolvable : n \in 1..Len(r)}]
First(r, ds) == [n |-> 1, j |-> 1, docs |-> ds, ledger |-> Opening(r)]

\* s is what some number of steps make of the report and the documents.
Trace(f, k, r, ds)  == f[0] = First(r, ds) /\ \A i \in 0..(k - 1) : f[i + 1] = Step(r, f[i])
Leads(r, ds, s)     == \E k \in Nat : \E f : Trace(f, k, r, ds) /\ f[k] = s

LEMMA LeadsFirst == ASSUME NEW r, NEW ds PROVE Leads(r, ds, First(r, ds))
<1> DEFINE f == [i \in {0} |-> First(r, ds)]
<1>1. Trace(f, 0, r, ds) /\ f[0] = First(r, ds)
  BY DEF Trace
<1> HIDE DEF f
<1> QED BY <1>1 DEF Leads

LEMMA LeadsStep ==
    ASSUME NEW r, NEW ds, NEW s, Leads(r, ds, s)
    PROVE  Leads(r, ds, Step(r, s))
<1>1. PICK k \in Nat : \E f : Trace(f, k, r, ds) /\ f[k] = s
  BY DEF Leads
<1>2. PICK f : Trace(f, k, r, ds) /\ f[k] = s
  BY <1>1
<1> DEFINE g == [i \in 0..(k + 1) |-> IF i <= k THEN f[i] ELSE Step(r, f[k])]
<1>3. g[0] = First(r, ds) /\ g[k + 1] = Step(r, s)
  BY <1>2 DEF Trace
<1>4. \A i \in 0..k : g[i + 1] = Step(r, g[i])
  <2> SUFFICES ASSUME NEW i \in 0..k PROVE g[i + 1] = Step(r, g[i])
    OBVIOUS
  <2>1. g[i] = f[i]
    OBVIOUS
  <2>2. CASE i = k
    BY <2>1, <2>2
  <2>3. CASE i < k
    <3>1. g[i + 1] = f[i + 1] /\ i \in 0..(k - 1)
      BY <2>3
    <3>2. f[i + 1] = Step(r, f[i])
      BY <1>2, <3>1 DEF Trace
    <3> QED BY <2>1, <3>1, <3>2
  <2> QED BY <2>2, <2>3
<1> HIDE DEF g
<1>5. k + 1 \in Nat /\ (k + 1) - 1 = k
  OBVIOUS
<1>6. Trace(g, k + 1, r, ds)
  BY <1>3, <1>4, <1>5 DEF Trace
<1> QED BY <1>3, <1>5, <1>6 DEF Leads

\* Past the end of the report nothing changes: there is one end.
LEMMA TraceAgrees ==
    ASSUME NEW r, NEW ds, NEW f, NEW g, NEW k \in Nat, NEW m \in Nat, k <= m,
           Trace(f, k, r, ds), Trace(g, m, r, ds), f[k].n > Len(r)
    PROVE  g[m] = f[k]
<1> DEFINE S == {i \in 0..k : g[i] = f[i]}
           T == {i \in k..m : g[i] = f[k]}
<1>1. 0 \in S
  BY DEF Trace
<1>2. \A i \in 0..k : i < k /\ i \in S => i + 1 \in S
  <2> SUFFICES ASSUME NEW i \in 0..k, i < k, g[i] = f[i] PROVE g[i + 1] = f[i + 1]
    OBVIOUS
  <2>1. i \in 0..(k - 1) /\ i \in 0..(m - 1)
    OBVIOUS
  <2> QED BY <2>1 DEF Trace
<1>3. \A i \in 0..k : i \in S
  <2> HIDE DEF S
  <2> QED BY <1>1, <1>2, IntervalInduction
<1>4. k \in T
  BY <1>3
<1>5. Step(r, f[k]) = f[k]
  BY Zenon DEF Step
<1>6. \A i \in k..m : i < m /\ i \in T => i + 1 \in T
  <2> SUFFICES ASSUME NEW i \in k..m, i < m, g[i] = f[k] PROVE g[i + 1] = f[k]
    OBVIOUS
  <2>1. i \in 0..(m - 1)
    OBVIOUS
  <2>2. g[i + 1] = Step(r, g[i])
    BY <2>1 DEF Trace
  <2> QED BY <1>5, <2>2
<1>7. \A i \in k..m : i \in T
  <2> HIDE DEF T
  <2> QED BY <1>4, <1>6, IntervalInduction
<1> QED BY <1>7

LEMMA OneEnd ==
    ASSUME NEW r, NEW ds, NEW s, NEW t, Leads(r, ds, s), Leads(r, ds, t), s.n > Len(r), t.n > Len(r)
    PROVE  s = t
<1>1. PICK k \in Nat : \E f : Trace(f, k, r, ds) /\ f[k] = s
  BY DEF Leads
<1>2. PICK f : Trace(f, k, r, ds) /\ f[k] = s
  BY <1>1
<1>3. PICK m \in Nat : \E g : Trace(g, m, r, ds) /\ g[m] = t
  BY DEF Leads
<1>4. PICK g : Trace(g, m, r, ds) /\ g[m] = t
  BY <1>3
<1>5. k <= m \/ m <= k
  OBVIOUS
<1> QED BY <1>2, <1>4, <1>5, TraceAgrees

(***************************************************************************)
(* Until something intervenes every document is there, and Origin is the   *)
(* documents the run began with.                                           *)
(***************************************************************************)
Passing   == run.phase \in {"read", "apply", "write"}
Ending    == run.phase \in {"check", "restore", "done"}
Known(p)  == IF target[p].loaded THEN Content(target[p]) ELSE disk[p]
Now       == [n |-> run.n, j |-> run.j, docs |-> [p \in Paths |-> Known(p)], ledger |-> ledger]
Origin    == [p \in Paths |-> IF target[p].written THEN target[p].original ELSE disk[p]]

Grasped(p) ==
    /\ target[p].written => target[p].loaded
    /\ target[p].loaded => target[p].original \in Docs
                            /\ (~target[p].written => target[p].original = disk[p])

Steady ==
    mishaps = 0 =>
        /\ \A p \in Paths : disk[p] \in Docs /\ Grasped(p)
        /\ run.phase # "idle" =>
              \A p \in Applicable : target[p].loaded \/ (run.phase = "read" /\ p \in run.todo)
        /\ run.phase = "read" => \A p \in run.todo : ~target[p].loaded
        /\ run.phase = "write" => target[Path].loaded
        /\ run.phase \in {"write", "check", "restore"} => ~run.dry
        /\ run.phase \in {"check", "restore"} => \A p \in run.todo : target[p].written
        /\ run.dry \/ run.phase = "idle" => \A p \in Paths : ~target[p].written

\* Every frontmatter the report is to change can be rewritten.
Fit == \A p \in Applicable : RepairsField(p) => Origin[p].sealed

\* The targets stand but for their records and what a preview composes.
Alike == \A p \in Paths : /\ target'[p].loaded = target[p].loaded
                          /\ target'[p].original = target[p].original
                          /\ target'[p].written = target[p].written

LEMMA SameApplicable ==
    ASSUME TypeOK, UNCHANGED report
    PROVE  /\ Last' = Last /\ Applicable' = Applicable /\ Applicable \subseteq Paths
           /\ \A p : RepairsField(p)' = RepairsField(p)
BY ReportType DEF Last, Applicable, Contained, RepairsField

LEMMA AlikeSteady ==
    ASSUME Typed, Steady, mishaps = 0, UNCHANGED <<report, disk>>, Alike, run'.dry = run.dry,
           run.phase = "apply", run'.phase \in {"apply", "write"},
           run'.phase = "write" => ~run.dry /\ Path' \in Paths /\ target[Path'].loaded
    PROVE  Steady' /\ Origin' = Origin
<1>1. Applicable' = Applicable /\ Applicable \subseteq Paths
  BY SameApplicable DEF Typed
<1>2. \A p \in Paths : disk'[p] \in Docs /\ Grasped(p)'
  BY DEF Steady, Grasped, Alike
<1>3. Origin' = Origin
  BY DEF Origin, Alike
<1>4. \A p \in Applicable : target'[p].loaded
  BY <1>1 DEF Steady, Alike
<1>5. run'.dry => \A p \in Paths : ~target'[p].written
  BY DEF Steady, Alike
<1>6. run'.phase = "write" => target'[Path'].loaded
  BY DEF Alike
<1>7. QED
  BY <1>1, <1>2, <1>3, <1>4, <1>5, <1>6 DEF Steady

LEMMA ApplySteady ==
    ASSUME Typed, Steady, mishaps = 0,
           Dispose \/ NoTarget \/ Skip \/ Refuse \/ Preview \/ Rewrite
    PROVE  Steady' /\ Origin' = Origin
<1>1. /\ run.phase = "apply" /\ run.n <= Last /\ UNCHANGED <<report, disk>>
  BY DEF Dispose, NoTarget, Skip, Refuse, Preview, Rewrite, Changes, Applied, Applying, Hist
<1>2. CASE Rewrite
  <2>1. Changes /\ ~run.dry /\ target' = TouchedRecord /\ target[Path].loaded
        /\ run' = [run EXCEPT !.phase = "write", !.fm = Candidate, !.content = Rewritten]
    BY <1>2 DEF Rewrite, Changes
  <2>2. run'.phase = "write" /\ run'.n = run.n /\ run'.j = run.j /\ run'.dry = run.dry
    BY <2>1 DEF Typed, TypeOK, Runs
  <2>3. Path' = Path /\ Path \in Paths
    BY <1>1, <2>1, <2>2, RewrittenType DEF Path, Current
  <2>4. Alike
    BY <2>1, <2>3 DEF Alike, TouchedRecord, Typed, TypeOK, Targets
  <2>5. QED
    BY <1>1, <2>1, <2>2, <2>3, <2>4, AlikeSteady
<1>3. CASE Dispose \/ NoTarget \/ Skip \/ Refuse \/ Preview
  <2>1. run' \in {NextPath, NextProposal}
    BY <1>3 DEF Dispose, NoTarget, Skip, Refuse, Preview
  <2>2. run'.phase = "apply" /\ run'.dry = run.dry
    BY <2>1 DEF NextPath, NextProposal, Typed, TypeOK, Runs
  <2>3. CASE Dispose \/ NoTarget \/ Skip
    <3>1. Alike
      BY <2>3 DEF Alike, Dispose, NoTarget, Skip
    <3>2. QED
      BY <1>1, <2>2, <3>1, AlikeSteady
  <2>4. CASE Refuse
    <3>1. Path \in Paths /\ target' = TouchedRecord
      BY <2>4, RewrittenType DEF Refuse
    <3>2. Alike
      BY <3>1 DEF Alike, TouchedRecord, Typed, TypeOK, Targets
    <3>3. QED
      BY <1>1, <2>2, <3>2, AlikeSteady
  <2>5. CASE Preview
    <3>1. Path \in Paths
          /\ target' = [target EXCEPT ![Path].fm = Candidate, ![Path].content = Rewritten]
      BY <2>5, RewrittenType DEF Preview
    <3>2. Alike
      BY <3>1 DEF Alike, Typed, TypeOK, Targets
    <3>3. QED
      BY <1>1, <2>2, <3>2, AlikeSteady
  <2>6. QED
    BY <1>3, <2>3, <2>4, <2>5
<1>4. QED
  BY <1>2, <1>3

LEMMA WriteSteady ==
    ASSUME Typed, Steady, mishaps = 0, Write
    PROVE  Steady' /\ Origin' = Origin
<1>1. /\ run.phase = "write" /\ run' = NextPath /\ UNCHANGED report /\ run.content \in Docs
      /\ run.n <= Last /\ Names(Current) # {}
  BY DEF Write, Hist, Typed, Position
<1>2. PICK at : at = Path
  OBVIOUS
<1>3. at \in Paths /\ target[at].loaded /\ Grasped(at) /\ ~run.dry
  BY <1>1, <1>2, CurrentType DEF Steady
<1>4. /\ disk' = [disk EXCEPT ![at] = run.content]
      /\ target' = [target EXCEPT ![at].fm = run.fm, ![at].content = run.content, ![at].written = TRUE]
  BY <1>2 DEF Write
<1>5. /\ disk'[at] \in Docs /\ target'[at].loaded /\ target'[at].written
      /\ target'[at].original = target[at].original
      /\ \A p \in Paths : p # at => disk'[p] = disk[p] /\ target'[p] = target[p]
  BY <1>1, <1>3, <1>4 DEF Typed, TypeOK, Targets
<1>6. \A p \in Paths : disk'[p] \in Docs /\ Grasped(p)'
  BY <1>3, <1>5 DEF Steady, Grasped
<1>7. Origin' = Origin
  BY <1>3, <1>5 DEF Origin, Grasped
<1>8. run'.phase = "apply" /\ run'.dry = run.dry
  BY <1>1 DEF NextPath, NextProposal, Typed, TypeOK, Runs
<1>9. \A p \in Applicable : target'[p].loaded
  BY <1>1, <1>5, SameApplicable DEF Steady, Typed
<1>10. QED
  BY <1>1, <1>3, <1>6, <1>7, <1>8, <1>9, SameApplicable DEF Steady, Typed

LEMMA LateSteady ==
    ASSUME Typed, Steady, mishaps = 0, mishaps' = 0, NEW q, EndApply \/ Check(q) \/ Restore
    PROVE  Steady' /\ Origin' = Origin
<1>1. UNCHANGED <<report, target>> /\ run.phase \in {"apply", "check", "restore"}
  BY DEF EndApply, Check, Restore, Hist
<1>2. /\ run'.phase \in {"check", "restore", "done"} /\ run'.dry = run.dry
      /\ run'.phase \in {"check", "restore"} => ~run.dry /\ \A p \in run'.todo : target[p].written
  <2>1. CASE EndApply
    BY <2>1 DEF EndApply, Unchecked, Typed, TypeOK, Runs
  <2>2. CASE Check(q)
    <3>1. \/ run' = Checked(q)
          \/ run' = [run EXCEPT !.phase = "restore", !.at = q]
      BY <2>2 DEF Check
    <3>2. run'.phase \in {"check", "restore", "done"} /\ run'.dry = run.dry /\ run'.todo \subseteq run.todo
      <4>1. CASE run' = Checked(q)
        BY <4>1 DEF Checked, Typed, TypeOK, Runs
      <4>2. CASE run' = [run EXCEPT !.phase = "restore", !.at = q]
        BY <4>2 DEF Typed, TypeOK, Runs
      <4>3. QED
        BY <3>1, <4>1, <4>2
    <3>3. run.phase = "check"
      BY <2>2 DEF Check
    <3>4. QED
      BY <3>2, <3>3 DEF Steady
  <2>3. CASE Restore
    <3>1. run' = Checked(run.at) /\ run.phase = "restore"
      BY <2>3 DEF Restore
    <3>2. run'.phase \in {"check", "done"} /\ run'.dry = run.dry /\ run'.todo \subseteq run.todo
      BY <3>1 DEF Checked, Typed, TypeOK, Runs
    <3>3. QED
      BY <3>1, <3>2 DEF Steady
  <2>4. QED
    BY <2>1, <2>2, <2>3
<1>3. \A p \in Paths : /\ disk'[p] \in Docs
                       /\ ~target[p].written => disk'[p] = disk[p]
  <2>1. CASE EndApply \/ Check(q)
    BY <2>1 DEF EndApply, Check, Steady
  <2>2. CASE Restore
    <3>1. run.at \in run.todo /\ run.at \in Paths /\ run.phase = "restore"
          /\ disk' = [disk EXCEPT ![run.at] = target[run.at].original]
      BY <2>2 DEF Restore, Typed, TypeOK, Position, Runs
    <3>2. target[run.at].written /\ target[run.at].original \in Docs
      BY <3>1 DEF Steady, Grasped
    <3>3. QED
      BY <3>1, <3>2 DEF Steady, Typed, TypeOK
  <2>3. QED
    BY <2>1, <2>2
<1>4. \A p \in Paths : Grasped(p)'
  <2>1. \A p \in Paths : Grasped(p) /\ target'[p] = target[p]
    BY <1>1 DEF Steady
  <2>2. QED
    BY <1>3, <2>1 DEF Grasped
<1>5. Origin' = Origin
  <2>1. \A p \in Paths : Grasped(p) /\ target'[p] = target[p]
    BY <1>1 DEF Steady
  <2>2. QED
    BY <1>3, <2>1, Zenon DEF Origin
<1>6. \A p \in Applicable : target[p].loaded
  BY <1>1 DEF Steady
<1>7. QED
  BY <1>1, <1>2, <1>3, <1>4, <1>5, <1>6, SameApplicable DEF Steady, Typed

LEMMA ReadSteady ==
    ASSUME Typed, Steady, mishaps = 0, NEW q \in Paths, Read(q)
    PROVE  Steady' /\ Origin' = Origin
<1>1. /\ run.phase = "read" /\ q \in run.todo /\ UNCHANGED <<report, disk>>
      /\ target' = [target EXCEPT ![q] = [Unread EXCEPT !.loaded = TRUE, !.fm = disk[q].fm, !.original = disk[q]]]
      /\ run' = [run EXCEPT !.todo = @ \ {q}, !.phase = IF run.todo = {q} THEN "apply" ELSE @]
  BY DEF Read, ReadDone, Hist
<1>2. /\ run'.dry = run.dry /\ run'.todo = run.todo \ {q}
      /\ run'.phase \in {"read", "apply"} /\ (run'.phase = "apply" => run.todo = {q})
  BY <1>1 DEF Typed, TypeOK, Runs
<1>3. /\ target'[q].loaded /\ target'[q].original = disk[q] /\ ~target'[q].written
      /\ \A p \in Paths : p # q => target'[p] = target[p]
  BY <1>1 DEF Unread, Typed, TypeOK
<1>4. ~target[q].written /\ disk[q] \in Docs
  BY <1>1 DEF Steady, Grasped
<1>5. \A p \in Paths : disk'[p] \in Docs /\ Grasped(p)'
  BY <1>1, <1>3, <1>4 DEF Steady, Grasped
<1>6. Origin' = Origin
  BY <1>1, <1>3, <1>4 DEF Origin
<1>7. \A p \in Applicable : target'[p].loaded \/ (run'.phase = "read" /\ p \in run'.todo)
  BY <1>1, <1>2, <1>3, SameApplicable DEF Steady, Typed
<1>8. \A p \in run'.todo : ~target'[p].loaded
  BY <1>1, <1>2, <1>3 DEF Steady, Typed, TypeOK, Runs
<1>9. run'.dry => \A p \in Paths : ~target'[p].written
  BY <1>2, <1>3 DEF Steady
<1>10. QED
  BY <1>1, <1>2, <1>5, <1>6, <1>7, <1>8, <1>9, SameApplicable DEF Steady, Typed

LEMMA BeginSteady ==
    ASSUME Typed, Steady, mishaps = 0, Begin
    PROVE  Steady' /\ Origin' = [p \in Paths |-> disk[p]]
<1>1. PICK dry \in BOOLEAN :
          run' = [Idle EXCEPT !.number = run.number + 1, !.dry = dry, !.todo = Applicable,
                              !.phase = IF Last = 0 THEN "done" ELSE IF Applicable = {} THEN "apply" ELSE "read"]
  BY DEF Begin
<1>2. /\ run'.todo = Applicable
      /\ run'.phase = IF Last = 0 THEN "done" ELSE IF Applicable = {} THEN "apply" ELSE "read"
  BY <1>1 DEF Idle
<1>3. UNCHANGED <<report, disk>> /\ target' = [p \in Paths |-> Unread]
  BY DEF Begin
<1>4. \A p \in Paths : ~target'[p].loaded /\ ~target'[p].written
  BY <1>3 DEF Unread
<1>5. Last = 0 => Applicable = {}
  <2>1. ASSUME Last = 0, NEW p \in Applicable PROVE FALSE
    BY <2>1 DEF Applicable
  <2>2. QED
    BY <2>1
<1>6. Applicable' = Applicable /\ Applicable \subseteq Paths
  BY <1>3, SameApplicable DEF Typed
<1>7. \A p \in Paths : disk'[p] \in Docs /\ Grasped(p)'
  BY <1>3, <1>4 DEF Steady, Grasped
<1>8. QED
  BY <1>2, <1>3, <1>4, <1>5, <1>6, <1>7 DEF Steady, Origin

LEMMA InitSteady == Init => Steady
<1>1. Init => disk \in [Paths -> Docs] /\ \A p \in Paths : ~target[p].written /\ ~target[p].loaded
  BY RepairAssumption DEF Init, Unread, RepairAssumption
<1>2. QED
  BY <1>1 DEF Init, Idle, Steady, Grasped

\* Without a mishap: what a step may be.
LEMMA NoMishap ==
    ASSUME Typed, Steady, Next, mishaps' = 0
    PROVE  /\ mishaps = 0
           /\ \/ Begin \/ Dispose \/ NoTarget \/ Skip \/ Refuse \/ Preview \/ Rewrite \/ Write
              \/ EndApply \/ Restore
              \/ \E p \in Paths : Read(p) \/ Check(p)
<1>1. mishaps \in Nat
  BY DEF Typed, TypeOK
<1>2. ASSUME Mishap PROVE FALSE
  BY <1>1, <1>2 DEF Mishap
<1>3. ~WriteFails /\ ~RestoreFails /\ ~Kill /\ ~\E p \in Paths : Edit(p)
  BY <1>2, SMTT(30) DEF WriteFails, RestoreFails, Kill, Edit
<1>4. mishaps = 0
  BY <1>2, <1>3 DEF Next, Begin, Dispose, NoTarget, Skip, Refuse, Preview, Rewrite, Write,
        EndApply, Restore, Read, ReadFails, Check, Well
<1>5. ASSUME NEW q \in Paths PROVE ~ReadFails(q)
  <2>1. disk[q] # None
    BY <1>4, DocAssumption DEF Steady, DocAssumption
  <2>2. QED
    BY <1>2, <2>1 DEF ReadFails
<1>6. QED
  BY <1>3, <1>4, <1>5 DEF Next

LEMMA NextSteady ==
    ASSUME Typed, Steady, [Next]_vars
    PROVE  Steady'
<1>1. CASE UNCHANGED vars
  <2>1. UNCHANGED <<disk, report, run, target, mishaps>>
    BY <1>1 DEF vars
  <2>2. Path' = Path /\ Applicable' = Applicable
    BY <2>1, SameApplicable DEF Path, Current, Typed
  <2>3. QED
    BY <2>1, <2>2 DEF Steady, Grasped
<1>2. CASE Next /\ mishaps' = 0
  <2>1. ASSUME NEW q \in Paths, Read(q) \/ Check(q) PROVE Steady'
    BY <1>2, <2>1, NoMishap, ReadSteady, LateSteady
  <2>2. ASSUME EndApply \/ Restore PROVE Steady'
    <3>1. PICK q : q = 0
      OBVIOUS
    <3>2. QED
      BY <1>2, <2>2, <3>1, NoMishap, LateSteady
  <2>3. QED
    BY <1>2, <2>1, <2>2, NoMishap, BeginSteady, ApplySteady, WriteSteady
<1>3. QED
  BY <1>1, <1>2 DEF Steady

(***************************************************************************)
(* The invariant: until something intervenes, and where every frontmatter  *)
(* can be rewritten, the pass is at such a step, and what has ended, this  *)
(* run or the preview before it, ended at the last.                        *)
(***************************************************************************)
\* What is loaded is the document as it stands; its record agrees with it but
\* while a set_field is being written.
InStep(p) ==
    /\ target[p].written => target[p].loaded
    /\ target[p].loaded =>
        /\ target[p].original \in Docs
        /\ ~target[p].written => target[p].original = disk[p]
        /\ target[p].original.sealed => Content(target[p]).sealed
        /\ ~run.dry => disk[p] = Content(target[p])
        /\ ~(run.phase = "write" /\ p = Path) => target[p].fm = Content(target[p]).fm

Composing ==
    Passing =>
        /\ Leads(report, Origin, Now)
        /\ ledger.rolledBack = {}
        /\ \A p \in Paths : InStep(p)
        /\ \A p \in Paths : run.phase = "read" /\ p \in run.todo => ~target[p].loaded
        /\ \A p \in Applicable : target[p].loaded \/ (run.phase = "read" /\ p \in run.todo)

Pended ==
    run.phase = "write" =>
        /\ ~run.dry /\ ~Disposed(Current) /\ target[Path].loaded
        /\ Turn(Current, Content(target[Path])) = "change"
        /\ run.content = Effect(Current, Content(target[Path])) /\ run.fm = run.content.fm
        /\ Content(target[Path]).sealed => run.content.sealed

\* A ledger that ends where the steps lead, the reverts aside.
Ended(s, l) == /\ l.changed = {e \in s.ledger.changed : e[2] \notin l.rolledBack}
               /\ l.skipped = s.ledger.skipped
               /\ l.rejected = s.ledger.rejected
               /\ l.errors = s.ledger.errors
LeadsTo(l)  == \E s : Leads(report, Origin, s) /\ s.n > Last /\ Ended(s, l)

Closing ==
    Ending => /\ LeadsTo(ledger)
              /\ run.phase # "done" => ~run.dry /\ \A p \in run.todo : target[p].written

Rehearsed ==
    /\ run.phase = "idle" => previous.outcome = "none"
    /\ previous.outcome = "done" /\ previous.dry => LeadsTo(previous.ledger) /\ previous.ledger.rolledBack = {}

\* A preview, and a run that has not begun, has written nothing.
Written ==
    /\ run.dry \/ run.phase = "idle" => ledger.rolledBack = {} /\ \A p \in Paths : ~target[p].written
    /\ \A p \in Paths : target[p].written => target[p].original \in Docs

Following ==
    mishaps = 0 /\ Fit =>
        /\ \A p \in Paths : disk[p] \in Docs
        /\ Composing /\ Pended /\ Closing /\ Rehearsed /\ Written

(***************************************************************************)
(* What decides, in the run as in the step.                                *)
(***************************************************************************)
LEMMA VerdictCases ==
    ASSUME NEW c, NEW current, c.type \in {"correct", "add", "set"}
    PROVE  /\ Verdict(c, current) \in {"skip", "reject", "change"}
           /\ Verdict(c, current) = "change" => current # c.to
<1>1. CASE c.type = "correct"
  <2>1. Verdict(c, current) = IF current = c.to THEN "skip"
                              ELSE IF current = c.from /\ current # None THEN "change" ELSE "reject"
    BY <1>1, Zenon DEF Verdict
  <2> QED BY <2>1
<1>2. CASE c.type = "add"
  <2>1. Verdict(c, current) = IF current = c.to THEN "skip"
                              ELSE IF current = None THEN "change" ELSE "reject"
    BY <1>2, Zenon DEF Verdict
  <2> QED BY <2>1
<1>3. CASE c.type = "set"
  <2>1. Verdict(c, current) = IF current = c.to THEN "skip" ELSE "change"
    BY <1>3, Zenon DEF Verdict
  <2> QED BY <2>1
<1> QED BY <1>1, <1>2, <1>3

LEMMA ChangesCases ==
    ASSUME Changes
    PROVE  /\ Applied /\ target[Path].loaded
           /\ IsField => FieldFits = "change"
           /\ Current.type = "link" /\ Base # None
                => ReplaceOnce(Base.links, Current.from, Current.to) # Base.links
<1>1. ASSUME IsField PROVE FieldFits = "change"
  <2>1. Current.type # "section"
    BY <1>1 DEF IsField, FieldTypes
  <2> QED BY <1>1, <2>1, Zenon DEF Changes
<1>2. Current.type = "link" /\ Base # None
        => ReplaceOnce(Base.links, Current.from, Current.to) # Base.links
  BY Zenon DEF Changes, IsField, FieldTypes
<1> QED BY <1>1, <1>2 DEF Changes

\* Where the pass stands: every document it may touch was read, and handlers
\* that look at the file and those that look at the record see one document.
LEMMA SameDocument ==
    ASSUME Typed, Following, mishaps = 0, Fit, Applied
    PROVE  /\ target[Path].loaded /\ Path \in Paths /\ Current \in Proposals /\ run.n \in 1..Last
           /\ ~Disposed(Current)
           /\ Base = Content(target[Path]) /\ Base \in Docs /\ target[Path].fm = Base.fm
           /\ Now.docs[Path] = Base
           /\ Current.type \in {"correct", "add", "set", "section", "link"}
           /\ IsField => Current.field \in Fields /\ Base.sealed
<1>1. /\ run.phase = "apply" /\ run.n <= Last /\ Contained(Current) /\ Names(Current) # {}
      /\ ~EngineChosen(Current) /\ Current.type # "schema"
  BY DEF Applied, Applying
<1>2. /\ Path \in Paths /\ Path \in Names(Current) /\ Current \in Proposals /\ run.n \in 1..Last
  BY <1>1, CurrentType
<1>3. Path \in Applicable
  <2>1. run.n \in {k \in 1..Last : Contained(report[k])} /\ Path \in Names(report[run.n])
    BY <1>1, <1>2 DEF Current
  <2> QED BY <2>1 DEF Applicable
<1>4. target[Path].loaded /\ InStep(Path)
  BY <1>1, <1>2, <1>3 DEF Following, Composing, Passing
<1>5. target[Path].original \in Docs /\ target[Path].fm = Content(target[Path]).fm
      /\ (~run.dry => disk[Path] = Content(target[Path]))
  BY <1>1, <1>4 DEF InStep
<1>6. Base = Content(target[Path])
  BY <1>5 DEF Base
<1>7. Content(target[Path]) \in Docs
  BY <1>2, <1>5 DEF Content, Typed, TypeOK, Targets
<1>8. Now.docs[Path] = Content(target[Path])
  BY <1>2, <1>4 DEF Now, Known
<1>9. Current.type \in {"correct", "add", "set", "section", "link"}
  BY <1>1, <1>2 DEF Proposals, Types
<1>10. IsField => Current.field \in Fields
  <2>1. report \in Reports /\ run.n \in DOMAIN report
    BY <1>2, ReportType DEF Typed, TypeOK
  <2> QED BY <2>1, RepairAssumption DEF IsField, FieldTypes, Current, RepairAssumption
<1>11. ~Disposed(Current)
  BY <1>1 DEF Disposed
<1>12. IsField => Base.sealed
  <2>1. IsField => RepairsField(Path)
    BY <1>2 DEF RepairsField, IsField, Current
  <2>2. Origin[Path] = target[Path].original
    BY <1>2, <1>4 DEF Origin, InStep
  <2> QED BY <1>3, <1>4, <1>6, <2>1, <2>2 DEF Fit, InStep
<1> QED BY <1>2, <1>4, <1>5, <1>6, <1>7, <1>8, <1>9, <1>10, <1>11, <1>12

LEMMA TurnIs ==
    ASSUME Typed, Following, mishaps = 0, Fit, Applied
    PROVE  /\ Skip => \/ Turn(Current, Base) = "skip" /\ Note("skipped", {<<run.n, Path>>})
                      \/ Turn(Current, Base) = "reject" /\ Note("rejected", {<<run.n, Path>>})
           /\ Changes /\ NoRewrite => Turn(Current, Base) = "error"
           /\ Changes /\ ~NoRewrite => /\ Turn(Current, Base) = "change"
                                       /\ Rewritten = Effect(Current, Base)
                                       /\ Candidate = Rewritten.fm
<1>1. /\ Base \in Docs /\ Base # None /\ target[Path].fm = Base.fm
      /\ Current.type \in {"correct", "add", "set", "section", "link"}
      /\ Path \in Paths /\ target[Path].loaded
      /\ (IsField => Current.field \in Fields /\ Base.sealed)
  BY SameDocument, DocAssumption DEF DocAssumption
<1>2. /\ IsField => Turn(Current, Base) = FieldFits
      /\ Current.type = "section" => Turn(Current, Base) = IF SetSection(Base.section, Current) = None
                                                           THEN "error" ELSE "change"
      /\ Current.type = "link" => Turn(Current, Base) =
             IF ReplaceOnce(Base.links, Current.from, Current.to) = Base.links THEN "skip" ELSE "change"
  BY <1>1 DEF Turn, IsField, FieldTypes, FieldFits
<1>3. ASSUME Skip
      PROVE  \/ Turn(Current, Base) = "skip" /\ Note("skipped", {<<run.n, Path>>})
             \/ Turn(Current, Base) = "reject" /\ Note("rejected", {<<run.n, Path>>})
  <2>1. \/ IsField /\ FieldFits = "skip" /\ Note("skipped", {<<run.n, Path>>})
        \/ IsField /\ FieldFits = "reject" /\ Note("rejected", {<<run.n, Path>>})
        \/ /\ Current.type = "link" /\ ReplaceOnce(Base.links, Current.from, Current.to) = Base.links
           /\ Note("skipped", {<<run.n, Path>>})
    BY <1>3 DEF Skip
  <2> QED BY <1>2, <2>1
<1>4. ASSUME Changes, IsField PROVE FieldFits = "change" /\ target[Path].fm[Current.field] # Current.to
  <2>1. FieldFits = "change"
    BY <1>4, ChangesCases
  <2> QED BY <1>4, <2>1, VerdictCases DEF FieldFits, IsField, FieldTypes
<1>5. ASSUME Changes, IsField PROVE Rewritten # Base
  <2>1. Candidate = [Base.fm EXCEPT ![Current.field] = Current.to] /\ Rewritten = [Base EXCEPT !.fm = Candidate]
    BY <1>1, <1>5 DEF Candidate, Rewritten, RewriteFrontmatter
  <2>2. Base.fm \in [Fields -> Values \cup {None}]
    BY <1>1 DEF Docs, Frontmatter
  <2>3. Candidate[Current.field] = Current.to
    BY <1>1, <1>5, <2>1, <2>2
  <2> HIDE DEF Candidate
  <2>4. Rewritten.fm = Candidate
    BY <1>1, <2>1 DEF Docs
  <2> QED BY <1>1, <1>4, <1>5, <2>3, <2>4
<1>6. ASSUME Changes, NoRewrite PROVE Turn(Current, Base) = "error"
  <2>1. Current.type = "section" /\ SetSection(Base.section, Current) = None
    BY <1>1, <1>5, <1>6 DEF NoRewrite
  <2> QED BY <1>2, <2>1
<1>7. ASSUME Changes, ~NoRewrite PROVE Turn(Current, Base) = "change"
  <2>1. Current.type = "section" => SetSection(Base.section, Current) # None
    BY <1>1, <1>7 DEF NoRewrite
  <2>2. Current.type = "link" => ReplaceOnce(Base.links, Current.from, Current.to) # Base.links
    BY <1>1, <1>7, ChangesCases
  <2> QED BY <1>1, <1>2, <1>4, <1>7, <2>1, <2>2 DEF IsField, FieldTypes
<1>8. ASSUME Changes, ~NoRewrite PROVE Rewritten = Effect(Current, Base) /\ Candidate = Rewritten.fm
  BY <1>1, <1>8, RewriteIsEffect
<1> QED BY <1>3, <1>6, <1>7, <1>8

(***************************************************************************)
(* Each step of the pass is a step.                                        *)
(***************************************************************************)
\* The place after one path, and the one after a proposal.
LEMMA PlaceIs ==
    ASSUME Typed, Passing
    PROVE  /\ run' = NextProposal => run'.n = run.n + 1 /\ run'.j = 1
           /\ run' = NextPath => /\ run.j < Len(Current.paths) => run'.n = run.n /\ run'.j = run.j + 1
                                 /\ ~(run.j < Len(Current.paths)) => run'.n = run.n + 1 /\ run'.j = 1
           /\ run' \in {NextPath, NextProposal} => run'.phase = "apply" /\ run'.dry = run.dry
BY DEF Typed, TypeOK, Runs, NextPath, NextProposal

LEMMA NotedIs ==
    ASSUME NEW kind, NEW entries, Note(kind, entries)
    PROVE  ledger' = Noted(ledger, kind, entries)
BY DEF Note, Noted

LEMMA StepIs ==
    ASSUME NEW s, Now = s, run.n <= Last, Last \in Nat, run.n \in Nat, NEW turn,
           turn = Turn(Current, s.docs[Path])
    PROVE  /\ Disposed(Current) =>
                Step(report, s) = [n |-> run.n + 1, j |-> 1, docs |-> s.docs,
                                   ledger |-> Disposing(ledger, run.n, Current)]
           /\ ~Disposed(Current) /\ (turn = "error" \/ ~(run.j < Len(Current.paths))) =>
                Step(report, s) = [n |-> run.n + 1, j |-> 1,
                                   docs |-> IF turn = "change"
                                            THEN [s.docs EXCEPT ![Path] = Effect(Current, @)] ELSE s.docs,
                                   ledger |-> Noted(ledger, List(turn), {<<run.n, Path>>})]
           /\ ~Disposed(Current) /\ turn # "error" /\ run.j < Len(Current.paths) =>
                Step(report, s) = [n |-> run.n, j |-> run.j + 1,
                                   docs |-> IF turn = "change"
                                            THEN [s.docs EXCEPT ![Path] = Effect(Current, @)] ELSE s.docs,
                                   ledger |-> Noted(ledger, List(turn), {<<run.n, Path>>})]
<1>1. s.n = run.n /\ s.j = run.j /\ s.ledger = ledger
  BY DEF Now
<1>2. report[s.n] = Current /\ Current.paths[s.j] = Path /\ ~(s.n > Len(report))
  BY <1>1 DEF Current, Path, Last
<1> QED BY <1>1, <1>2 DEF Step

\* What a step of the pass has to show.
LEMMA MoveFollows ==
    ASSUME Typed, Following, mishaps = 0, Fit, run.phase \in {"apply", "write"}, run.n <= Last,
           run' \in {NextPath, NextProposal}, UNCHANGED <<report, previous>>,
           NEW s, Now = s, Now' = Step(report, s), Origin' = Origin, ledger'.rolledBack = ledger.rolledBack,
           \A p \in Paths : /\ disk'[p] \in Docs
                            /\ InStep(p)'
                            /\ target'[p].loaded <=> target[p].loaded
                            /\ run.dry => (target'[p].written <=> target[p].written)
    PROVE  Following'
<1>1. run'.phase = "apply" /\ run'.dry = run.dry
  BY PlaceIs DEF Passing
<1>2. Leads(report, Origin, s) /\ ledger.rolledBack = {} /\ \A p \in Applicable : target[p].loaded
  BY DEF Following, Composing, Passing
<1>3. Leads(report, Origin, Step(report, s))
  BY <1>2, LeadsStep
<1>4. Leads(report, Origin, Now)'
  BY <1>3
<1>5. Applicable' = Applicable /\ Last' = Last /\ Applicable \subseteq Paths
  BY ReportType DEF Applicable, Last, Typed
<1>6. Composing'
  BY <1>1, <1>2, <1>4, <1>5 DEF Composing
<1>7. LeadsTo(previous.ledger)' = LeadsTo(previous.ledger)
  BY <1>5 DEF LeadsTo, Ended
<1>8. Rehearsed'
  BY <1>1, <1>7 DEF Following, Rehearsed
<1>9. Pended' /\ Closing'
  BY <1>1 DEF Pended, Closing, Ending
<1>10. Written'
  <2>1. ASSUME NEW p \in Paths, target'[p].written PROVE target'[p].original \in Docs
    BY <2>1 DEF InStep
  <2> QED BY <1>1, <2>1 DEF Following, Written
<1> QED BY <1>6, <1>8, <1>9, <1>10 DEF Following

\* A step that touches no document.
LEMMA StillFollows ==
    ASSUME Typed, Following, mishaps = 0, Fit, run.phase = "apply", run.n <= Last,
           run' \in {NextPath, NextProposal}, UNCHANGED <<report, previous, disk, target>>,
           NEW s, Now = s, run'.n = Step(report, s).n, run'.j = Step(report, s).j,
           Step(report, s) = [n |-> Step(report, s).n, j |-> Step(report, s).j,
                              docs |-> s.docs, ledger |-> ledger'],
           ledger'.rolledBack = ledger.rolledBack
    PROVE  Following'
<1>1. run'.phase = "apply" /\ run'.dry = run.dry
  BY PlaceIs DEF Passing
<1>2. Now' = Step(report, s)
  <2>1. [p \in Paths |-> Known(p)]' = s.docs
    BY DEF Now, Known, Content
  <2> QED BY <2>1 DEF Now
<1>3. Origin' = Origin
  BY DEF Origin
<1>4. \A p \in Paths : InStep(p)'
  BY <1>1 DEF Following, Composing, Passing, InStep, Content
<1>5. \A p \in Paths : disk'[p] \in Docs
  BY DEF Following
<1> QED BY <1>2, <1>3, <1>4, <1>5, MoveFollows

LEMMA NotedKeeps ==
    ASSUME TypeOK, NEW entries
    PROVE  /\ \A kind \in {"changed", "skipped", "rejected", "errors"} :
                 Noted(ledger, kind, entries).rolledBack = ledger.rolledBack
           /\ entries = {} => \A kind \in {"changed", "skipped", "rejected", "errors"} :
                 Noted(ledger, kind, entries) = ledger
BY DEF TypeOK, Ledgers, Noted

LEMMA DisposeFollows ==
    ASSUME Typed, Following, mishaps = 0, Fit, Dispose
    PROVE  Following'
<1>1. run.phase = "apply" /\ run.n <= Last /\ run' = NextProposal
      /\ UNCHANGED <<report, previous, disk, target>>
  BY DEF Dispose, Applying, Hist
<1>2. Last \in Nat /\ run.n \in Nat
  BY ReportType DEF Typed, TypeOK, Runs
<1> DEFINE entries == {<<run.n, p>> : p \in Names(Current)}
<1>3. \/ ~Contained(Current) /\ ledger' = ledger
      \/ Contained(Current) /\ EngineChosen(Current) /\ ledger' = Noted(ledger, "skipped", entries)
      \/ Contained(Current) /\ Current.type = "schema" /\ ledger' = Noted(ledger, "rejected", entries)
      \/ Names(Current) = {} /\ ledger' = ledger
  BY NotedIs DEF Dispose
<1>4. Names(Current) = {} => entries = {}
  OBVIOUS
<1>5. EngineChosen(Current) => Current.type # "schema"
  BY DEF EngineChosen
<1>6. Disposed(Current)
  BY <1>3 DEF Disposed
<1>7. ledger' = Disposing(ledger, run.n, Current)
  <2>1. Names(Current) = {} => Noted(ledger, "skipped", entries) = ledger /\ Noted(ledger, "rejected", entries) = ledger
    <3> HIDE DEF entries
    <3> QED BY <1>4, NotedKeeps DEF Typed
  <2>2. Disposing(ledger, run.n, Current) =
            IF ~Contained(Current) THEN ledger
            ELSE IF EngineChosen(Current) THEN Noted(ledger, "skipped", entries)
            ELSE IF Current.type = "schema" THEN Noted(ledger, "rejected", entries) ELSE ledger
    BY DEF Disposing
  <2> HIDE DEF entries
  <2> QED BY <1>3, <1>5, <2>1, <2>2
<1>8. ledger'.rolledBack = ledger.rolledBack
  <2> HIDE DEF entries
  <2> QED BY <1>3, NotedKeeps DEF Typed
<1>9. PICK s : s = Now
  OBVIOUS
<1>10. Step(report, s) = [n |-> run.n + 1, j |-> 1, docs |-> s.docs, ledger |-> ledger']
  BY <1>1, <1>2, <1>6, <1>7, <1>9, StepIs
<1>11. run'.n = run.n + 1 /\ run'.j = 1
  BY <1>1, PlaceIs DEF Passing
<1> QED BY <1>1, <1>8, <1>9, <1>10, <1>11, StillFollows

\* The place a step of one path ends at.
LEMMA PathStep ==
    ASSUME Typed, Following, mishaps = 0, Fit, Applied, NEW s, s = Now, NEW turn,
           turn = Turn(Current, Base), run' = IF turn = "error" THEN NextProposal ELSE NextPath
    PROVE  /\ run' \in {NextPath, NextProposal}
           /\ Step(report, s) = [n |-> run'.n, j |-> run'.j,
                                 docs |-> IF turn = "change"
                                          THEN [s.docs EXCEPT ![Path] = Effect(Current, Base)] ELSE s.docs,
                                 ledger |-> Noted(ledger, List(turn), {<<run.n, Path>>})]
<1>1. ~Disposed(Current) /\ s.docs[Path] = Base /\ run.n \in 1..Last /\ Path \in Paths
  BY SameDocument
<1>2. Last \in Nat /\ run.n \in Nat /\ run.n <= Last /\ run.phase = "apply"
  BY <1>1, ReportType DEF Typed, TypeOK, Runs, Applied, Applying
<1>3. [s.docs EXCEPT ![Path] = Effect(Current, @)] = [s.docs EXCEPT ![Path] = Effect(Current, Base)]
  BY <1>1
<1>4. run' \in {NextPath, NextProposal}
  OBVIOUS
<1>5. CASE turn = "error" \/ ~(run.j < Len(Current.paths))
  <2>1. run'.n = run.n + 1 /\ run'.j = 1
    BY <1>2, <1>5, PlaceIs DEF Passing
  <2>2. Step(report, s) = [n |-> run.n + 1, j |-> 1,
                           docs |-> IF turn = "change"
                                    THEN [s.docs EXCEPT ![Path] = Effect(Current, @)] ELSE s.docs,
                           ledger |-> Noted(ledger, List(turn), {<<run.n, Path>>})]
    BY <1>1, <1>2, <1>5, StepIs
  <2> QED BY <1>3, <1>4, <2>1, <2>2
<1>6. CASE turn # "error" /\ run.j < Len(Current.paths)
  <2>1. run'.n = run.n /\ run'.j = run.j + 1
    BY <1>2, <1>6, PlaceIs DEF Passing
  <2>2. Step(report, s) = [n |-> run.n, j |-> run.j + 1,
                           docs |-> IF turn = "change"
                                    THEN [s.docs EXCEPT ![Path] = Effect(Current, @)] ELSE s.docs,
                           ledger |-> Noted(ledger, List(turn), {<<run.n, Path>>})]
    BY <1>1, <1>2, <1>6, StepIs
  <2> QED BY <1>3, <1>4, <2>1, <2>2
<1> QED BY <1>5, <1>6

LEMMA ListIs == /\ List("skip") = "skipped" /\ List("reject") = "rejected"
                /\ List("change") = "changed" /\ List("error") = "errors"
BY DEF List

LEMMA SkipFollows ==
    ASSUME Typed, Following, mishaps = 0, Fit, Skip
    PROVE  Following'
<1>1. Applied /\ run.phase = "apply" /\ run.n <= Last /\ run' = NextPath
      /\ UNCHANGED <<report, previous, disk, target>>
  BY DEF Skip, Applied, Applying, Hist
<1>2. PICK turn : turn = Turn(Current, Base)
  OBVIOUS
<1>3. turn \in {"skip", "reject"} /\ ledger' = Noted(ledger, List(turn), {<<run.n, Path>>})
  BY <1>1, <1>2, TurnIs, NotedIs, ListIs
<1>4. ledger'.rolledBack = ledger.rolledBack
  BY <1>3, NotedKeeps, ListIs DEF Typed
<1>5. PICK s : s = Now
  OBVIOUS
<1>6. Step(report, s) = [n |-> run'.n, j |-> run'.j, docs |-> s.docs, ledger |-> ledger']
  BY <1>1, <1>2, <1>3, <1>5, PathStep
<1> QED BY <1>1, <1>4, <1>5, <1>6, StillFollows

\* Only a missing heading is refused, so no record was touched.
LEMMA RefuseFollows ==
    ASSUME Typed, Following, mishaps = 0, Fit, Refuse
    PROVE  Following'
<1>1. Changes /\ NoRewrite /\ Applied /\ run.phase = "apply" /\ run.n <= Last /\ run' = NextProposal
      /\ UNCHANGED <<report, previous, disk>> /\ target' = TouchedRecord
  BY ChangesCases DEF Refuse, Applied, Applying, Hist
<1>2. PICK turn : turn = Turn(Current, Base)
  OBVIOUS
<1>3. turn = "error" /\ ledger' = Noted(ledger, List(turn), {<<run.n, Path>>})
  BY <1>1, <1>2, TurnIs, NotedIs, ListIs DEF Refuse
<1>4. Current.type # "set"
  BY <1>2, <1>3, VerdictCases DEF Turn
<1>5. target' = target
  BY <1>1, <1>4 DEF TouchedRecord
<1>6. ledger'.rolledBack = ledger.rolledBack
  BY <1>3, NotedKeeps, ListIs DEF Typed
<1>7. PICK s : s = Now
  OBVIOUS
<1>8. Step(report, s) = [n |-> run'.n, j |-> run'.j, docs |-> s.docs, ledger |-> ledger']
  BY <1>1, <1>2, <1>3, <1>7, PathStep
<1> QED BY <1>1, <1>5, <1>6, <1>7, <1>8, StillFollows

LEMMA PreviewFollows ==
    ASSUME Typed, Following, mishaps = 0, Fit, Preview
    PROVE  Following'
<1>1. Changes /\ ~NoRewrite /\ Applied /\ run.phase = "apply" /\ run.n <= Last /\ run' = NextPath
      /\ run.dry /\ UNCHANGED <<report, previous, disk>>
  BY ChangesCases DEF Preview, Applied, Applying, Hist
<1>2. PICK turn : turn = Turn(Current, Base)
  OBVIOUS
<1>3. PICK new : new = Effect(Current, Base)
  OBVIOUS
<1>4. PICK at : at = Path
  OBVIOUS
<1>5. turn = "change" /\ ledger' = Noted(ledger, List(turn), {<<run.n, at>>})
      /\ Rewritten = new /\ Candidate = new.fm /\ new \in Docs
  BY <1>1, <1>2, <1>3, <1>4, TurnIs, NotedIs, ListIs, RewrittenType DEF Preview
<1>5a. Content(target[at]).sealed => new.sealed
  BY <1>1, <1>4, <1>5, SameDocument, RewrittenSealed
<1>6. target[at] \in Targets /\ at \in Paths /\ target[at].loaded
  BY <1>1, <1>4, SameDocument DEF Typed, TypeOK
<1>7. target' = [target EXCEPT ![at] = [target[at] EXCEPT !.fm = new.fm, !.content = new]]
  <2>1. target' = [target EXCEPT ![Path].fm = Candidate, ![Path].content = Rewritten]
    BY DEF Preview
  <2> HIDE DEF Candidate, Rewritten, Path
  <2> QED BY <1>4, <1>5, <1>6, <2>1 DEF Typed, TypeOK
<1>8. \A p \in Paths : p # at => target'[p] = target[p]
  BY <1>7 DEF Typed, TypeOK
<1>9. /\ target'[at].fm = new.fm /\ target'[at].content = new
      /\ target'[at].loaded /\ target'[at].original = target[at].original
      /\ target'[at].written = target[at].written
  BY <1>6, <1>7 DEF Typed, TypeOK, Targets
<1>10. ledger'.rolledBack = ledger.rolledBack
  BY <1>5, NotedKeeps, ListIs DEF Typed
<1>11. PICK s : s = Now
  OBVIOUS
<1>12. Step(report, s) = [n |-> run'.n, j |-> run'.j, docs |-> [s.docs EXCEPT ![at] = new], ledger |-> ledger']
  BY <1>1, <1>2, <1>3, <1>4, <1>5, <1>11, PathStep
<1>13. Content(target'[at]) = new
  BY <1>5, <1>9, DocAssumption DEF Content
<1>14. [p \in Paths |-> Known(p)]' = [s.docs EXCEPT ![at] = new]
  <2>1. \A p \in Paths : Known(p)' = IF p = at THEN new ELSE Known(p)
    BY <1>1, <1>8, <1>9, <1>13 DEF Known, Content
  <2>2. s.docs = [p \in Paths |-> Known(p)]
    BY <1>11 DEF Now
  <2> HIDE DEF Known
  <2> QED BY <2>1, <2>2
<1>15. Now' = Step(report, s)
  BY <1>12, <1>14 DEF Now
<1>16. Origin' = Origin
  BY <1>1, <1>6, <1>8, <1>9 DEF Origin
<1>17. run'.phase = "apply" /\ run'.dry
  BY <1>1, PlaceIs DEF Passing
<1>18. \A p \in Paths : InStep(p)'
  <2> SUFFICES ASSUME NEW p \in Paths PROVE InStep(p)'
    OBVIOUS
  <2>1. InStep(p)
    BY <1>1 DEF Following, Composing, Passing
  <2>2. CASE p = at
    BY <1>1, <1>5a, <1>6, <1>9, <1>13, <1>17, <2>1, <2>2 DEF InStep
  <2>3. CASE p # at
    BY <1>1, <1>8, <1>17, <2>1, <2>3 DEF InStep, Content
  <2> QED BY <2>2, <2>3
<1>19. \A p \in Paths : /\ disk'[p] \in Docs
                        /\ target'[p].loaded <=> target[p].loaded
                        /\ target'[p].written <=> target[p].written
  BY <1>1, <1>6, <1>8, <1>9 DEF Following
<1> QED BY <1>1, <1>10, <1>11, <1>15, <1>16, <1>18, <1>19, MoveFollows

\* Rewriting starts a write: no step yet.
LEMMA RewriteFollows ==
    ASSUME Typed, Following, mishaps = 0, Fit, Rewrite
    PROVE  Following'
<1>1. Changes /\ ~NoRewrite /\ Applied /\ run.phase = "apply" /\ run.n <= Last
      /\ ~run.dry /\ UNCHANGED <<report, previous, disk, ledger>> /\ target' = TouchedRecord
      /\ run' = [run EXCEPT !.phase = "write", !.fm = Candidate, !.content = Rewritten]
  BY ChangesCases DEF Rewrite, Applied, Applying, Hist
<1>2. /\ run'.phase = "write" /\ run'.n = run.n /\ run'.j = run.j /\ run'.dry = run.dry
      /\ run'.fm = Candidate /\ run'.content = Rewritten
  BY <1>1 DEF Typed, TypeOK, Runs
<1>3. /\ Turn(Current, Base) = "change" /\ Rewritten = Effect(Current, Base) /\ Candidate = Rewritten.fm
      /\ Base.sealed => Rewritten.sealed
  BY <1>1, TurnIs, RewrittenSealed
<1>4. /\ ~Disposed(Current) /\ target[Path].loaded /\ Path \in Paths /\ Base = Content(target[Path])
  BY <1>1, SameDocument
<1>5. Current' = Current /\ Path' = Path /\ Last' = Last /\ Applicable' = Applicable
  BY <1>1, <1>2 DEF Current, Path, Last, Applicable
<1>6. \A p \in Paths : /\ target'[p].loaded = target[p].loaded /\ target'[p].original = target[p].original
                       /\ target'[p].content = target[p].content /\ target'[p].written = target[p].written
                       /\ p # Path => target'[p].fm = target[p].fm
  BY <1>1, <1>4 DEF TouchedRecord, Typed, TypeOK, Targets
<1>7. \A p \in Paths : Content(target'[p]) = Content(target[p])
  BY <1>6 DEF Content
<1>8. Now' = Now /\ Origin' = Origin
  <2>1. \A p \in Paths : Known(p)' = Known(p)
    BY <1>1, <1>6, <1>7 DEF Known
  <2>2. [p \in Paths |-> Known(p)]' = [p \in Paths |-> Known(p)]
    BY <2>1
  <2> QED BY <1>1, <1>2, <1>6, <2>2 DEF Now, Origin
<1>9. Composing'
  <2>1. Leads(report, Origin, Now)' /\ ledger'.rolledBack = {}
    BY <1>1, <1>8 DEF Following, Composing, Passing
  <2>2. \A p \in Paths : InStep(p)'
    <3> SUFFICES ASSUME NEW p \in Paths PROVE InStep(p)'
      OBVIOUS
    <3>1. InStep(p)
      BY <1>1 DEF Following, Composing, Passing
    <3> QED BY <1>1, <1>2, <1>5, <1>6, <1>7, <3>1 DEF InStep
  <2>3. \A p \in Applicable : target[p].loaded /\ p \in Paths
    BY <1>1, ReportType DEF Following, Composing, Passing, Applicable, Typed
  <2> QED BY <1>2, <1>5, <1>6, <2>1, <2>2, <2>3 DEF Composing
<1>10. Pended'
  <2>1. Content(target[Path])' = Base
    BY <1>4, <1>5, <1>7
  <2> QED BY <1>1, <1>2, <1>3, <1>4, <1>5, <1>6, <2>1 DEF Pended
<1>11. Closing' /\ Written'
  <2>1. Closing'
    BY <1>1, <1>2 DEF Closing, Ending
  <2>2. Written'
    BY <1>1, <1>2, <1>6 DEF Following, Written
  <2> QED BY <2>1, <2>2
<1>12. LeadsTo(previous.ledger)' = LeadsTo(previous.ledger)
  BY <1>1, <1>5, <1>8 DEF LeadsTo, Ended
<1>13. Rehearsed'
  BY <1>1, <1>2, <1>12 DEF Following, Rehearsed
<1> QED BY <1>1, <1>9, <1>10, <1>11, <1>13 DEF Following

LEMMA WriteFollows ==
    ASSUME Typed, Following, mishaps = 0, Fit, Write
    PROVE  Following'
<1>1. run.phase = "write" /\ run' = NextPath /\ UNCHANGED <<report, previous>>
      /\ run.n <= Last /\ Names(Current) # {} /\ run.content \in Docs
  BY DEF Write, Hist, Typed, Position
<1>2. PICK at : at = Path
  OBVIOUS
<1>3. PICK new : new = run.content
  OBVIOUS
<1>4. /\ at \in Paths /\ target[at] \in Targets /\ new \in Docs
      /\ run.n \in 1..Last /\ Last \in Nat /\ run.n \in Nat
  BY <1>1, <1>2, <1>3, CurrentType, ReportType DEF Typed, TypeOK, Runs
<1>5. /\ ~run.dry /\ ~Disposed(Current) /\ target[at].loaded
      /\ Turn(Current, Content(target[at])) = "change"
      /\ new = Effect(Current, Content(target[at])) /\ run.fm = new.fm
      /\ Content(target[at]).sealed => new.sealed
  BY <1>1, <1>2, <1>3 DEF Following, Pended
<1>6. /\ disk' = [disk EXCEPT ![at] = new]
      /\ target' = [target EXCEPT ![at] = [target[at] EXCEPT !.fm = new.fm, !.content = new, !.written = TRUE]]
      /\ ledger' = Noted(ledger, "changed", {<<run.n, at>>})
  <2>1. /\ disk' = [disk EXCEPT ![Path] = run.content]
        /\ target' = [target EXCEPT ![Path].fm = run.fm, ![Path].content = run.content, ![Path].written = TRUE]
        /\ ledger' = Noted(ledger, "changed", {<<run.n, Path>>})
    BY NotedIs DEF Write
  <2> HIDE DEF Path
  <2> QED BY <1>2, <1>3, <1>4, <1>5, <2>1 DEF Typed, TypeOK
<1>7. \A p \in Paths : p # at => target'[p] = target[p] /\ disk'[p] = disk[p]
  BY <1>6 DEF Typed, TypeOK
<1>8. /\ target'[at].fm = new.fm /\ target'[at].content = new /\ target'[at].written
      /\ target'[at].loaded /\ target'[at].original = target[at].original /\ disk'[at] = new
  BY <1>4, <1>5, <1>6 DEF Typed, TypeOK, Targets
<1>9. ledger'.rolledBack = ledger.rolledBack
  BY <1>6, NotedKeeps DEF Typed
<1>10. PICK s : s = Now
  OBVIOUS
<1>11. s.docs[at] = Content(target[at])
  BY <1>4, <1>5, <1>10 DEF Now, Known
<1>12. Step(report, s) = [n |-> run'.n, j |-> run'.j, docs |-> [s.docs EXCEPT ![at] = new], ledger |-> ledger']
  <2>1. [s.docs EXCEPT ![at] = Effect(Current, @)] = [s.docs EXCEPT ![at] = new]
    BY <1>5, <1>11
  <2>2. Turn(Current, s.docs[Path]) = "change" /\ List("change") = "changed"
    BY <1>2, <1>5, <1>11, ListIs
  <2>3. CASE ~(run.j < Len(Current.paths))
    <3>1. run'.n = run.n + 1 /\ run'.j = 1
      BY <1>1, <2>3, PlaceIs DEF Passing
    <3>2. Step(report, s) = [n |-> run.n + 1, j |-> 1, docs |-> [s.docs EXCEPT ![Path] = Effect(Current, @)],
                             ledger |-> Noted(ledger, List("change"), {<<run.n, Path>>})]
      BY <1>1, <1>4, <1>5, <1>10, <2>2, <2>3, StepIs
    <3> QED BY <1>2, <1>6, <2>1, <2>2, <3>1, <3>2
  <2>4. CASE run.j < Len(Current.paths)
    <3>1. run'.n = run.n /\ run'.j = run.j + 1
      BY <1>1, <2>4, PlaceIs DEF Passing
    <3>2. Step(report, s) = [n |-> run.n, j |-> run.j + 1, docs |-> [s.docs EXCEPT ![Path] = Effect(Current, @)],
                             ledger |-> Noted(ledger, List("change"), {<<run.n, Path>>})]
      BY <1>1, <1>4, <1>5, <1>10, <2>2, <2>4, StepIs
    <3> QED BY <1>2, <1>6, <2>1, <2>2, <3>1, <3>2
  <2> QED BY <2>3, <2>4
<1>13. Content(target'[at]) = new
  BY <1>4, <1>8, DocAssumption DEF Content
<1>14. [p \in Paths |-> Known(p)]' = [s.docs EXCEPT ![at] = new]
  <2>1. \A p \in Paths : Known(p)' = IF p = at THEN new ELSE Known(p)
    BY <1>7, <1>8, <1>13 DEF Known, Content
  <2>2. s.docs = [p \in Paths |-> Known(p)]
    BY <1>10 DEF Now
  <2> HIDE DEF Known
  <2> QED BY <2>1, <2>2
<1>15. Now' = Step(report, s)
  BY <1>12, <1>14 DEF Now
<1>16. InStep(at) /\ \A p \in Paths : InStep(p)
  BY <1>1, <1>4 DEF Following, Composing, Passing
<1>17. Origin' = Origin
  <2>1. ~target[at].written => target[at].original = disk[at]
    BY <1>5, <1>16 DEF InStep
  <2> QED BY <1>4, <1>7, <1>8, <2>1 DEF Origin
<1>18. run'.phase = "apply" /\ run'.dry = run.dry
  BY <1>1, PlaceIs DEF Passing
<1>19. \A p \in Paths : InStep(p)'
  <2> SUFFICES ASSUME NEW p \in Paths PROVE InStep(p)'
    OBVIOUS
  <2>1. CASE p = at
    BY <1>5, <1>8, <1>13, <1>16, <1>18, <2>1 DEF InStep
  <2>2. CASE p # at
    BY <1>2, <1>7, <1>16, <1>18, <2>2 DEF InStep, Content
  <2> QED BY <2>1, <2>2
<1>20. \A p \in Paths : /\ disk'[p] \in Docs
                        /\ target'[p].loaded <=> target[p].loaded
                        /\ run.dry => (target'[p].written <=> target[p].written)
  BY <1>4, <1>5, <1>7, <1>8 DEF Following
<1> QED BY <1>1, <1>9, <1>10, <1>15, <1>17, <1>19, <1>20, MoveFollows

(***************************************************************************)
(* Before the pass and after it.                                           *)
(***************************************************************************)
\* Reading a document shows what was there.
LEMMA ReadFollows ==
    ASSUME Typed, Following, mishaps = 0, Fit, NEW q \in Paths, Read(q)
    PROVE  Following'
<1>1. /\ run.phase = "read" /\ q \in run.todo
      /\ UNCHANGED <<report, previous, disk, ledger>>
      /\ target' = [target EXCEPT ![q] = [Unread EXCEPT !.loaded = TRUE, !.fm = disk[q].fm, !.original = disk[q]]]
      /\ run' = [run EXCEPT !.todo = @ \ {q}, !.phase = IF run.todo = {q} THEN "apply" ELSE @]
  BY DEF Read, ReadDone, Hist
<1>2. /\ run'.n = run.n /\ run'.j = run.j /\ run'.dry = run.dry /\ run'.todo = run.todo \ {q}
      /\ run'.phase \in {"read", "apply"} /\ (run'.phase = "apply" => run.todo = {q})
  BY <1>1 DEF Typed, TypeOK, Runs
<1>3. /\ target'[q].loaded /\ target'[q].fm = disk[q].fm /\ target'[q].original = disk[q]
      /\ target'[q].content = None /\ ~target'[q].written
      /\ \A p \in Paths : p # q => target'[p] = target[p]
  BY <1>1 DEF Unread, Typed, TypeOK
<1>4. /\ \A p \in Paths : disk[p] \in Docs
      /\ Leads(report, Origin, Now) /\ ledger.rolledBack = {}
      /\ \A p \in Paths : InStep(p)
      /\ \A p \in Paths : p \in run.todo => ~target[p].loaded
      /\ \A p \in Applicable : target[p].loaded \/ p \in run.todo
  BY <1>1 DEF Following, Composing, Passing
<1>5. Applicable' = Applicable /\ Last' = Last /\ Applicable \subseteq Paths
  BY <1>1, ReportType DEF Applicable, Last, Typed
<1>6. ~target[q].loaded /\ ~target[q].written
  BY <1>1, <1>4 DEF InStep
<1>7. Content(target'[q]) = disk[q]
  BY <1>3 DEF Content
<1>8. Now' = Now
  <2>1. \A p \in Paths : Known(p)' = Known(p)
    BY <1>1, <1>3, <1>6, <1>7 DEF Known, Content
  <2>2. [p \in Paths |-> Known(p)]' = [p \in Paths |-> Known(p)]
    BY <2>1
  <2> QED BY <1>1, <1>2, <2>2 DEF Now
<1>9. Origin' = Origin
  BY <1>1, <1>3, <1>6 DEF Origin
<1>10. Composing'
  <2>1. \A p \in Paths : InStep(p)'
    <3> SUFFICES ASSUME NEW p \in Paths PROVE InStep(p)'
      OBVIOUS
    <3>1. CASE p = q
      BY <1>1, <1>2, <1>3, <1>4, <1>7, <3>1 DEF InStep
    <3>2. CASE p # q
      BY <1>1, <1>2, <1>3, <1>4, <3>2 DEF InStep, Content
    <3> QED BY <3>1, <3>2
  <2>2. \A p \in Paths : p \in run'.todo => ~target'[p].loaded
    BY <1>2, <1>3, <1>4
  <2>3. \A p \in Applicable : target'[p].loaded \/ (run'.phase = "read" /\ p \in run'.todo)
    BY <1>2, <1>3, <1>4, <1>5
  <2> QED BY <1>1, <1>4, <1>5, <1>8, <1>9, <2>1, <2>2, <2>3 DEF Composing
<1>11. LeadsTo(previous.ledger)' = LeadsTo(previous.ledger)
  BY <1>1, <1>5, <1>9 DEF LeadsTo, Ended
<1>12. Rehearsed'
  BY <1>1, <1>2, <1>11 DEF Following, Rehearsed
<1>13. Pended' /\ Closing'
  BY <1>2 DEF Pended, Closing, Ending
<1>14. Written'
  BY <1>1, <1>2, <1>3 DEF Following, Written
<1> QED BY <1>1, <1>4, <1>10, <1>12, <1>13, <1>14 DEF Following

\* A run begins with the documents its preview, which wrote nothing, began with.
LEMMA BeginFollows ==
    ASSUME Typed, Steady, Following, mishaps = 0, Begin, Fit'
    PROVE  Following'
<1>1. PICK dry \in BOOLEAN :
          run' = [Idle EXCEPT !.number = run.number + 1, !.dry = dry, !.todo = Applicable,
                              !.phase = IF Last = 0 THEN "done" ELSE IF Applicable = {} THEN "apply" ELSE "read"]
  BY DEF Begin
<1>2. /\ run'.n = 1 /\ run'.j = 1 /\ run'.dry = dry /\ run'.todo = Applicable
      /\ run'.phase = IF Last = 0 THEN "done" ELSE IF Applicable = {} THEN "apply" ELSE "read"
  BY <1>1 DEF Idle
<1>3. /\ run.phase \in {"idle", "done"} /\ UNCHANGED <<report, disk>>
      /\ target' = [p \in Paths |-> Unread] /\ ledger' = Opening(report)
      /\ previous' = IF run.phase = "done"
                     THEN [outcome |-> "done", dry |-> run.dry, ledger |-> ledger] ELSE previous
  BY DEF Begin, Opening, Last, Refused, Unresolved
<1>4. Applicable' = Applicable /\ Last' = Last /\ Last = Len(report) /\ Last \in Nat
  BY <1>3, ReportType DEF Applicable, Last, Typed
<1>5. \A p \in Paths : ~target'[p].loaded /\ ~target'[p].written
  BY <1>3 DEF Unread
<1>6. ledger'.rolledBack = {}
  BY <1>3 DEF Opening, NoLedger
<1>7. Origin' = [p \in Paths |-> disk[p]]
  BY <1>3, <1>5 DEF Origin
<1>8. Now' = First(report, Origin')
  <2>1. [p \in Paths |-> Known(p)]' = [p \in Paths |-> disk[p]]
    BY <1>3, <1>5 DEF Known
  <2> QED BY <1>2, <1>3, <1>7, <2>1 DEF Now, First
<1>9. Leads(report, Origin, Now)'
  BY <1>3, <1>8, LeadsFirst
<1>10. Composing'
  <2>1. \A p \in Paths : InStep(p)'
    BY <1>5 DEF InStep
  <2> QED BY <1>2, <1>4, <1>5, <1>6, <1>9, <2>1 DEF Composing, Passing
<1>11. Pended' /\ Written'
  BY <1>2, <1>5, <1>6 DEF Pended, Written
<1>12. Closing'
  <2> SUFFICES ASSUME run'.phase = "done" PROVE LeadsTo(ledger)'
    BY <1>2 DEF Closing, Ending
  <2>1. Last = 0
    BY <1>2
  <2>2. Now'.n > Last' /\ Now'.ledger = ledger'
    BY <1>2, <1>4, <2>1 DEF Now
  <2>3. Ended(Now, ledger)'
    BY <1>6, <2>2 DEF Ended
  <2> QED BY <1>9, <2>2, <2>3 DEF LeadsTo
<1>13. \A p \in Paths : disk[p] \in Docs
  BY DEF Steady
<1>14. ASSUME run.dry \/ run.phase = "idle"
       PROVE  Origin' = Origin /\ Fit
  <2>1. Origin' = Origin
    BY <1>7, <1>14 DEF Origin, Steady
  <2>2. \A p : RepairsField(p)' = RepairsField(p)
    BY <1>3, SameApplicable DEF Typed
  <2> QED BY <1>4, <2>1, <2>2 DEF Fit
<1>15. CASE run.phase = "idle"
  <2>1. previous'.outcome = "none"
    BY <1>3, <1>14, <1>15 DEF Following, Rehearsed
  <2>2. Rehearsed'
    BY <1>2, <2>1 DEF Rehearsed
  <2> QED BY <1>3, <1>10, <1>11, <1>12, <1>13, <2>2 DEF Following
<1>16. CASE run.phase = "done"
  <2>1. previous'.dry = run.dry /\ previous'.ledger = ledger
    BY <1>3, <1>16
  <2>2. run.dry => ledger.rolledBack = {} /\ LeadsTo(ledger)
    BY <1>14, <1>16 DEF Following, Written, Closing, Ending
  <2>3. PICK l : l = ledger
    OBVIOUS
  <2>4. run.dry => LeadsTo(l)'
    BY <1>3, <1>4, <1>14, <2>2, <2>3 DEF LeadsTo, Ended
  <2>5. run.dry => LeadsTo(previous.ledger)'
    BY <2>1, <2>3, <2>4 DEF LeadsTo, Ended
  <2>6. Rehearsed'
    BY <1>2, <2>1, <2>2, <2>5 DEF Rehearsed
  <2> QED BY <1>3, <1>10, <1>11, <1>12, <1>13, <2>6 DEF Following
<1> QED BY <1>3, <1>15, <1>16, SMTT(30)

LEMMA EndApplyFollows ==
    ASSUME Typed, Following, mishaps = 0, Fit, EndApply
    PROVE  Following'
<1>1. /\ run.phase = "apply" /\ run.n > Last /\ UNCHANGED <<report, previous, disk, target, ledger>>
      /\ run' = IF run.dry \/ Unchecked = {} THEN [run EXCEPT !.phase = "done"]
                ELSE [run EXCEPT !.phase = "check", !.todo = Unchecked]
  BY DEF EndApply, Hist
<1>2. /\ run'.phase \in {"check", "done"} /\ run'.dry = run.dry
      /\ run'.phase = "check" => ~run.dry /\ run'.todo = Unchecked
  BY <1>1 DEF Typed, TypeOK, Runs
<1>3. Leads(report, Origin, Now) /\ ledger.rolledBack = {}
  BY <1>1 DEF Following, Composing, Passing
<1>4. Origin' = Origin /\ Last' = Last
  BY <1>1 DEF Origin, Last
<1>5. LeadsTo(ledger)
  <2>1. Now.n > Last /\ Now.ledger = ledger
    BY <1>1 DEF Now
  <2>2. Ended(Now, ledger)
    BY <1>3, <2>1 DEF Ended
  <2> QED BY <1>3, <2>1, <2>2 DEF LeadsTo
<1>6. LeadsTo(ledger)' /\ LeadsTo(previous.ledger)' = LeadsTo(previous.ledger)
  BY <1>1, <1>4, <1>5 DEF LeadsTo, Ended
<1>7. Closing'
  BY <1>1, <1>2, <1>6 DEF Closing, Unchecked
<1>8. Rehearsed'
  BY <1>1, <1>2, <1>6 DEF Following, Rehearsed
<1>9. Composing' /\ Pended' /\ Written'
  BY <1>1, <1>2 DEF Composing, Passing, Pended, Following, Written
<1> QED BY <1>1, <1>7, <1>8, <1>9 DEF Following

\* Post-validation takes back changes of what it restores, and nothing else.
LEMMA RestoreFollows ==
    ASSUME Typed, Following, mishaps = 0, Fit, Restore
    PROVE  Following'
<1>1. PICK q : q = run.at
  OBVIOUS
<1>2. /\ run.phase = "restore" /\ disk' = [disk EXCEPT ![q] = target[q].original]
      /\ ledger' = [ledger EXCEPT !.rolledBack = @ \cup {q}, !.changed = Retracted(q)]
      /\ run' = Checked(q) /\ UNCHANGED <<report, previous, target>>
  BY <1>1 DEF Restore, Hist
<1>3. q \in run.todo /\ q \in Paths /\ ~run.dry /\ target[q].written /\ \A p \in run.todo : target[p].written
  BY <1>1, <1>2 DEF Following, Closing, Ending, Typed, TypeOK, Position, Runs
<1>4. /\ run'.phase \in {"check", "done"} /\ run'.dry = run.dry /\ run'.todo = run.todo \ {q}
  BY <1>2 DEF Checked, Typed, TypeOK, Runs
<1>5. /\ ledger'.rolledBack = ledger.rolledBack \cup {q} /\ ledger'.changed = Retracted(q)
      /\ ledger'.skipped = ledger.skipped /\ ledger'.rejected = ledger.rejected
      /\ ledger'.errors = ledger.errors
  BY <1>2 DEF Typed, TypeOK, Ledgers
<1>6. Origin' = Origin /\ Last' = Last
  BY <1>2, <1>3 DEF Origin, Last, Typed, TypeOK
<1>7. PICK s : Leads(report, Origin, s) /\ s.n > Last /\ Ended(s, ledger)
  BY <1>2 DEF Following, Closing, Ending, LeadsTo
<1>8. Ended(s, ledger)'
  <2>1. ledger'.changed = {e \in s.ledger.changed : e[2] \notin ledger'.rolledBack}
    BY <1>5, <1>7 DEF Ended, Retracted
  <2> QED BY <1>5, <1>7, <2>1 DEF Ended
<1>9. LeadsTo(ledger)' /\ LeadsTo(previous.ledger)' = LeadsTo(previous.ledger)
  BY <1>2, <1>6, <1>7, <1>8 DEF LeadsTo, Ended
<1>10. Closing'
  BY <1>2, <1>3, <1>4, <1>9 DEF Closing
<1>11. Rehearsed'
  BY <1>2, <1>4, <1>9 DEF Following, Rehearsed
<1>12. Composing' /\ Pended' /\ Written'
  BY <1>2, <1>3, <1>4 DEF Composing, Passing, Pended, Following, Written
<1>13. \A p \in Paths : disk'[p] \in Docs
  <2>1. target[q].original \in Docs
    BY <1>3 DEF Following, Written
  <2> QED BY <1>2, <1>3, <2>1 DEF Following, Typed, TypeOK
<1> QED BY <1>10, <1>11, <1>12, <1>13 DEF Following

LEMMA CheckFollows ==
    ASSUME Typed, Following, mishaps = 0, Fit, mishaps' = 0, NEW q \in Paths, Check(q)
    PROVE  Following'
<1>1. /\ run.phase = "check" /\ q \in run.todo /\ UNCHANGED <<report, previous, disk, target, ledger>>
      /\ run' = Checked(q) \/ run' = [run EXCEPT !.phase = "restore", !.at = q]
  BY DEF Check, Hist
<1>2. /\ run'.phase \in {"check", "restore", "done"} /\ run'.dry = run.dry /\ run'.todo \subseteq run.todo
  <2>1. CASE run' = Checked(q)
    BY <2>1 DEF Checked, Typed, TypeOK, Runs
  <2>2. CASE run' = [run EXCEPT !.phase = "restore", !.at = q]
    BY <2>2 DEF Typed, TypeOK, Runs
  <2> QED BY <1>1, <2>1, <2>2
<1>3. ~run.dry /\ \A p \in run.todo : target[p].written
  BY <1>1 DEF Following, Closing, Ending
<1>4. Origin' = Origin /\ Last' = Last
  BY <1>1 DEF Origin, Last
<1>5. LeadsTo(ledger)' = LeadsTo(ledger) /\ LeadsTo(previous.ledger)' = LeadsTo(previous.ledger)
  BY <1>1, <1>4 DEF LeadsTo, Ended
<1>6. Closing'
  BY <1>1, <1>2, <1>3, <1>5 DEF Following, Closing, Ending
<1>7. Rehearsed'
  BY <1>1, <1>2, <1>5 DEF Following, Rehearsed
<1>8. Composing' /\ Pended' /\ Written'
  BY <1>1, <1>2, <1>3 DEF Composing, Passing, Pended, Following, Written
<1> QED BY <1>1, <1>6, <1>7, <1>8 DEF Following

LEMMA InitFollows == Init => Following
<1> SUFFICES ASSUME Init PROVE Following
  OBVIOUS
<1>1. disk \in [Paths -> Docs] /\ \A p \in Paths : ~target[p].written
  BY RepairAssumption DEF Init, Unread
<1>2. run.phase = "idle" /\ previous.outcome = "none" /\ ledger.rolledBack = {}
  BY DEF Init, Idle, NoLedger
<1>3. Composing /\ Pended /\ Closing /\ Rehearsed /\ Written
  BY <1>1, <1>2 DEF Composing, Passing, Pended, Closing, Ending, Rehearsed, Written
<1> QED BY <1>1, <1>3 DEF Following

\* A mishap ends what is claimed; without one every document can be read.
LEMMA NextFollows ==
    ASSUME Typed, Steady, Following, [Next]_vars
    PROVE  Following'
<1>1. CASE UNCHANGED vars
  <2>1. UNCHANGED <<disk, report, run, target, ledger, previous, mishaps>>
    BY <1>1 DEF vars
  <2>2. /\ Current' = Current /\ Path' = Path /\ Last' = Last /\ Applicable' = Applicable
        /\ Now' = Now /\ Origin' = Origin
    BY <2>1 DEF Current, Path, Last, Applicable, Now, Known, Content, Origin
  <2>3. LeadsTo(ledger)' = LeadsTo(ledger) /\ LeadsTo(previous.ledger)' = LeadsTo(previous.ledger)
    BY <2>1, <2>2 DEF LeadsTo, Ended
  <2>4. Composing' = Composing
    BY <2>1, <2>2 DEF Composing, Passing, InStep, Content
  <2>5. Pended' = Pended /\ Closing' = Closing /\ Rehearsed' = Rehearsed /\ Written' = Written
    BY <2>1, <2>2, <2>3 DEF Pended, Content, Closing, Ending, Rehearsed, Written
  <2>6. Fit' = Fit
    <3>1. \A p : RepairsField(p)' = RepairsField(p)
      BY <2>1, SameApplicable DEF Typed
    <3> QED BY <2>2, <3>1 DEF Fit
  <2> QED BY <2>1, <2>4, <2>5, <2>6 DEF Following
<1>2. ASSUME Next, mishaps' = 0, Fit' PROVE Following'
  <2>1. /\ mishaps = 0
        /\ \/ Begin \/ Dispose \/ NoTarget \/ Skip \/ Refuse \/ Preview \/ Rewrite \/ Write
           \/ EndApply \/ Restore
           \/ \E p \in Paths : Read(p) \/ Check(p)
    BY <1>2, NoMishap
  <2>2. CASE Begin
    BY <1>2, <2>1, <2>2, BeginFollows
  <2>3. ASSUME ~Begin PROVE Fit
    <3>1. Origin' = Origin
      <4>1. PICK x : x = 0
        OBVIOUS
      <4> QED BY <1>2, <2>1, <2>3, <4>1, ApplySteady, WriteSteady, LateSteady, ReadSteady
    <3>2. UNCHANGED report
      BY <2>1, <2>3 DEF Dispose, NoTarget, Skip, Refuse, Preview, Rewrite, Write, EndApply, Restore,
         Read, Check, Hist
    <3>3. Applicable' = Applicable /\ \A p : RepairsField(p)' = RepairsField(p)
      BY <3>2, SameApplicable DEF Typed
    <3> QED BY <1>2, <3>1, <3>3 DEF Fit
  <2>4. ASSUME ~Begin PROVE ~NoTarget
    BY <2>1, <2>3, <2>4, SameDocument DEF NoTarget
  <2>5. CASE Dispose \/ Skip \/ Refuse \/ Preview \/ Rewrite \/ Write \/ EndApply \/ Restore
    <3>1. ~Begin
      BY <2>5 DEF Begin, Dispose, Skip, Refuse, Preview, Rewrite, Write, EndApply, Restore,
         Changes, Applied, Applying
    <3> QED BY <2>1, <2>3, <2>5, <3>1, DisposeFollows, SkipFollows, RefuseFollows, PreviewFollows,
               RewriteFollows, WriteFollows, EndApplyFollows, RestoreFollows
  <2>6. ASSUME NEW q \in Paths, Read(q) \/ Check(q) PROVE Following'
    <3>1. ~Begin
      BY <2>6 DEF Begin, Read, Check
    <3> QED BY <1>2, <2>1, <2>3, <2>6, <3>1, ReadFollows, CheckFollows
  <2> QED BY <2>1, <2>2, <2>4, <2>5, <2>6
<1>3. mishaps' # 0 \/ ~Fit' => Following'
  BY DEF Following
<1> QED BY <1>1, <1>2, <1>3

\* PreviewAgrees: `repair apply --dry-run` lists the changes, skips, refusals and
\* errors that the run it previews then makes, when nothing intervenes and the
\* run finds where every frontmatter it is to change ends; only post-validation,
\* which a preview does not do, may take changes back.
THEOREM PreviewForetells == Spec => []PreviewAgrees
<1>1. Typed /\ Steady /\ Following => PreviewAgrees
  <2> SUFFICES ASSUME Steady, Following, Previewed, \A p \in Paths : target[p].loaded => Rewritable(p),
                      Typed
               PROVE  /\ ledger.changed = {e \in previous.ledger.changed : e[2] \notin ledger.rolledBack}
                      /\ ledger.skipped = previous.ledger.skipped
                      /\ ledger.rejected = previous.ledger.rejected
                      /\ ledger.errors = previous.ledger.errors
    BY DEF PreviewAgrees
  <2>0. Done /\ previous.outcome = "done" /\ previous.dry /\ mishaps = 0
    BY DEF Previewed
  <2>a. Fit
    <3>1. \A p \in Applicable : p \in Paths /\ target[p].loaded
      BY <2>0, SameApplicable, ReportType DEF Steady, Done, Typed, Applicable
    <3>2. \A p \in Applicable : Origin[p] = target[p].original
      BY <2>0, <3>1 DEF Steady, Grasped, Origin
    <3> QED BY <3>1, <3>2 DEF Fit, Rewritable
  <2>1. PICK s : Leads(report, Origin, s) /\ s.n > Last /\ Ended(s, ledger)
    BY <2>0, <2>a DEF Following, Closing, Ending, Done, LeadsTo
  <2>2. PICK t : Leads(report, Origin, t) /\ t.n > Last /\ Ended(t, previous.ledger)
    BY <2>0, <2>a DEF Following, Rehearsed, LeadsTo
  <2>3. s = t
    BY <2>1, <2>2, OneEnd DEF Last
  <2>4. previous.ledger.rolledBack = {}
    BY <2>0, <2>a DEF Following, Rehearsed
  <2>5. previous.ledger.changed = {e \in t.ledger.changed : TRUE}
    BY <2>2, <2>4 DEF Ended
  <2> QED BY <2>1, <2>2, <2>3, <2>5 DEF Ended
<1>2. Init => Typed /\ Steady /\ Following
  BY InitTyped, InitSteady, InitFollows
<1>3. Typed /\ Steady /\ Following /\ [Next]_vars => Typed' /\ Steady' /\ Following'
  BY NextTyped, NextSteady, NextFollows
<1> QED BY <1>1, <1>2, <1>3, PTL DEF Spec

(***************************************************************************)
(* A rerun after a kill.  Before(n, p) is p after the first n - 1          *)
(* proposals of a run that nothing disturbs; the documents a kill leaves,  *)
(* and those of the rerun at proposal n, have of each field a value p has  *)
(* at n or later (Caught): a proposal that does not fit such a value comes *)
(* too late for it, and the last one to set the field is never refused.    *)
(***************************************************************************)
Caught(doc, n, p) ==
    /\ doc \in Docs
    /\ doc.section = start[p].section /\ doc.links = start[p].links /\ doc.sealed = start[p].sealed
    /\ \A f \in Fields : \E k \in n..(Last + 1) : doc.fm[f] = Before(k, p).fm[f]

LEMMA BeforeFirst ==
    ASSUME TypeOK, NEW p PROVE Before(1, p) = start[p]
<1>1. Last \in Nat
  BY ReportType
<1> DEFINE E == {e \in AllEntries : e[1] < 1}
<1>2. \A i \in 1..Last : <<i, p>> \notin E
  OBVIOUS
<1> HIDE DEF E
<1>3. Replay(start[p], E, p) = start[p]
  BY <1>1, <1>2, ReplayNone
<1> QED BY <1>3 DEF E, Before

LEMMA BeforeNext ==
    ASSUME TypeOK, NEW n \in 1..Last, NEW p \in Paths
    PROVE  Before(n + 1, p) = IF p \in Names(report[n]) THEN Effect(report[n], Before(n, p)) ELSE Before(n, p)
<1>1. Last \in Nat
  BY ReportType
<1> DEFINE E == {e \in AllEntries : e[1] < n}
           F == {e \in AllEntries : e[1] < n + 1}
           G == E \cup {<<n, p>>}
<1>2. \A i \in 1..Last : (<<i, p>> \in E <=> p \in Names(report[i]) /\ i < n)
  BY DEF AllEntries
<1>3. \A i \in 1..Last : (<<i, p>> \in F <=> p \in Names(report[i]) /\ i < n + 1)
  BY DEF AllEntries
<1>4. \A i \in 1..Last : (<<i, p>> \in G <=> i = n \/ (p \in Names(report[i]) /\ i < n))
  BY <1>2
<1>5. G = E \cup {<<n, p>>} /\ Before(n, p) = Replay(start[p], E, p) /\ Before(n + 1, p) = Replay(start[p], F, p)
  BY DEF Before
<1> HIDE DEF E, F, G
<1>6. CASE p \in Names(report[n])
  <2>1. \A i \in 1..Last : <<i, p>> \in F <=> <<i, p>> \in G
    BY <1>3, <1>4, <1>6
  <2>2. Replay(start[p], F, p) = Replay(start[p], G, p)
    BY <1>1, <2>1, ReplaySame
  <2>3. \A i \in n..Last : <<i, p>> \notin E
    BY <1>2
  <2>4. Replay(start[p], G, p) = Effect(report[n], Replay(start[p], E, p))
    BY <1>1, <1>5, <2>3, ReplayStep
  <2> QED BY <1>5, <1>6, <2>2, <2>4
<1>7. CASE p \notin Names(report[n])
  <2>1. \A i \in 1..Last : <<i, p>> \in F <=> <<i, p>> \in E
    BY <1>2, <1>3, <1>7
  <2>2. Replay(start[p], F, p) = Replay(start[p], E, p)
    BY <1>1, <2>1, ReplaySame
  <2> QED BY <1>5, <1>7, <2>2
<1> QED BY <1>6, <1>7

LEMMA BeforeLast ==
    ASSUME TypeOK, NEW p PROVE Before(Last + 1, p) = Replay(start[p], AllEntries, p)
<1>1. Last \in Nat
  BY ReportType
<1> DEFINE E == {e \in AllEntries : e[1] < Last + 1}
<1>2. \A i \in 1..Last : <<i, p>> \in E <=> <<i, p>> \in AllEntries
  BY <1>1
<1> HIDE DEF E
<1>3. Replay(start[p], E, p) = Replay(start[p], AllEntries, p)
  BY <1>1, <1>2, ReplaySame
<1> QED BY <1>3 DEF E, Before

\* The proposals of such a report name a field, and none is refused in its turn.
LEMMA DeclaredTurn ==
    ASSUME TypeOK, Declarative, NEW n \in 1..Last
    PROVE  /\ report[n] \in Proposals /\ report[n].type \in {"correct", "add", "set"}
           /\ report[n].field \in Fields /\ report[n].to \in Values
           /\ Contained(report[n]) /\ Names(report[n]) # {} /\ ~EngineChosen(report[n])
           /\ \A p \in Names(report[n]) : Verdict(report[n], Before(n, p).fm[report[n].field]) # "reject"
<1>1. report[n] \in Proposals /\ n \in DOMAIN report /\ report \in Reports
  BY ReportType DEF TypeOK
<1>2. /\ Contained(report[n]) /\ Names(report[n]) # {} /\ ~EngineChosen(report[n])
      /\ report[n].type \in {"correct", "add", "set"}
      /\ \A p \in Names(report[n]) : Verdict(report[n], Before(n, p).fm[report[n].field]) # "reject"
  BY Zenon DEF Declarative, FieldTypes
<1>3. report[n].field \in Fields
  BY <1>1, <1>2, RepairAssumption
<1>4. report[n].to \in Values
  BY <1>1 DEF Proposals
<1> QED BY <1>1, <1>2, <1>3, <1>4

LEMMA FieldEffect ==
    ASSUME NEW c, NEW doc \in Docs, c.type \in {"correct", "add", "set"}, c.field \in Fields, c.to \in Values
    PROVE  /\ Effect(c, doc) \in Docs
           /\ Effect(c, doc).section = doc.section /\ Effect(c, doc).links = doc.links
           /\ Effect(c, doc).sealed = doc.sealed
           /\ \A f \in Fields : Effect(c, doc).fm[f] = IF f = c.field THEN c.to ELSE doc.fm[f]
<1>1. Effect(c, doc) = [doc EXCEPT !.fm[c.field] = c.to]
  BY EffectCases
<1> QED BY <1>1 DEF Docs, Frontmatter

LEMMA BeforeDoc ==
    ASSUME TypeOK, Declarative, NEW p \in Paths, NEW n \in 1..(Last + 1)
    PROVE  /\ Before(n, p) \in Docs
           /\ Before(n, p).section = start[p].section /\ Before(n, p).links = start[p].links
           /\ Before(n, p).sealed = start[p].sealed
<1>1. Last \in Nat
  BY ReportType
<1> DEFINE S == {k \in 1..(Last + 1) : /\ Before(k, p) \in Docs
                                       /\ Before(k, p).section = start[p].section
                                       /\ Before(k, p).links = start[p].links
                                       /\ Before(k, p).sealed = start[p].sealed}
<1>2. 1 \in S
  <2>1. start[p] \in Docs
    BY DEF TypeOK
  <2> QED BY <1>1, <2>1, BeforeFirst
<1>3. ASSUME NEW k \in 1..(Last + 1), k < Last + 1, k \in S PROVE k + 1 \in S
  <2>1. k \in 1..Last /\ k + 1 \in 1..(Last + 1)
    BY <1>1, <1>3
  <2>2. Before(k + 1, p) \in {Effect(report[k], Before(k, p)), Before(k, p)}
    BY <2>1, BeforeNext
  <2> QED BY <1>3, <2>1, <2>2, FieldEffect, DeclaredTurn
<1>4. \A k \in 1..(Last + 1) : k < Last + 1 /\ k \in S => k + 1 \in S
  BY <1>3
<1>5. \A k \in 1..(Last + 1) : k \in S
  <2>1. 1 \in Nat /\ Last + 1 \in Nat
    BY <1>1
  <2> HIDE DEF S
  <2> QED BY <1>2, <1>4, <2>1, IntervalInduction
<1> QED BY <1>5

LEMMA CaughtEarlier ==
    ASSUME NEW doc, NEW p, NEW m \in Nat, NEW n \in Nat, n <= m, Caught(doc, m, p), Last \in Nat
    PROVE  Caught(doc, n, p)
BY DEF Caught

\* A document proposal n does not name is where it was.
LEMMA CaughtPassed ==
    ASSUME TypeOK, NEW doc, NEW n \in 1..Last, NEW p \in Paths, Caught(doc, n, p),
           p \notin Names(report[n])
    PROVE  Caught(doc, n + 1, p)
<1>1. Before(n + 1, p) = Before(n, p) /\ Last \in Nat
  BY BeforeNext, ReportType
<1>2. \A f \in Fields : \E k \in (n + 1)..(Last + 1) : doc.fm[f] = Before(k, p).fm[f]
  <2> SUFFICES ASSUME NEW f \in Fields PROVE \E k \in (n + 1)..(Last + 1) : doc.fm[f] = Before(k, p).fm[f]
    OBVIOUS
  <2>1. PICK k \in n..(Last + 1) : doc.fm[f] = Before(k, p).fm[f]
    BY DEF Caught
  <2>2. CASE k = n
    BY <1>1, <2>1, <2>2
  <2>3. CASE k # n
    BY <1>1, <2>1, <2>3
  <2> QED BY <2>2, <2>3
<1> QED BY <1>2 DEF Caught

\* The value proposal n leaves in an undisturbed run is its own.
LEMMA BeforeField ==
    ASSUME TypeOK, Declarative, NEW n \in 1..Last, NEW p \in Names(report[n]), NEW f \in Fields
    PROVE  Before(n + 1, p).fm[f] = IF f = report[n].field THEN report[n].to ELSE Before(n, p).fm[f]
<1>1. p \in Paths /\ n \in 1..(Last + 1)
  BY ReportType
<1>2. Before(n, p) \in Docs
  BY <1>1, BeforeDoc
<1>3. Before(n + 1, p) = Effect(report[n], Before(n, p))
  BY <1>1, BeforeNext
<1> QED BY <1>2, <1>3, DeclaredTurn, FieldEffect

\* A value is skipped because it is there.
LEMMA VerdictSkips ==
    ASSUME NEW c, NEW current, c.type \in {"correct", "add", "set"}, Verdict(c, current) = "skip"
    PROVE  current = c.to
<1>1. CASE c.type = "correct"
  <2>1. Verdict(c, current) = IF current = c.to THEN "skip"
                              ELSE IF current = c.from /\ current # None THEN "change" ELSE "reject"
    BY <1>1, Zenon DEF Verdict
  <2> QED BY <2>1
<1>2. CASE c.type = "add"
  <2>1. Verdict(c, current) = IF current = c.to THEN "skip"
                              ELSE IF current = None THEN "change" ELSE "reject"
    BY <1>2, Zenon DEF Verdict
  <2> QED BY <2>1
<1>3. CASE c.type = "set"
  <2>1. Verdict(c, current) = IF current = c.to THEN "skip" ELSE "change"
    BY <1>3, Zenon DEF Verdict
  <2> QED BY <2>1
<1> QED BY <1>1, <1>2, <1>3

\* One it names and leaves alone, because the value is there or is another's.
LEMMA CaughtKept ==
    ASSUME TypeOK, Declarative, NEW doc, NEW n \in 1..Last, NEW p \in Names(report[n]), Caught(doc, n, p),
           Verdict(report[n], doc.fm[report[n].field]) # "change"
    PROVE  Caught(doc, n + 1, p)
<1>1. Last \in Nat
  BY ReportType
<1>2. \A f \in Fields : \E k \in (n + 1)..(Last + 1) : doc.fm[f] = Before(k, p).fm[f]
  <2> SUFFICES ASSUME NEW f \in Fields PROVE \E k \in (n + 1)..(Last + 1) : doc.fm[f] = Before(k, p).fm[f]
    OBVIOUS
  <2>1. PICK k \in n..(Last + 1) : doc.fm[f] = Before(k, p).fm[f]
    BY DEF Caught
  <2>2. CASE k # n
    BY <1>1, <2>1, <2>2
  <2>3. CASE k = n
    <3>1. Before(n + 1, p).fm[f] = IF f = report[n].field THEN report[n].to ELSE Before(n, p).fm[f]
      BY BeforeField
    <3>2. ASSUME f = report[n].field PROVE doc.fm[f] = report[n].to
      <4>1. Verdict(report[n], doc.fm[f]) # "reject"
        BY <2>1, <2>3, <3>2, DeclaredTurn
      <4>2. Verdict(report[n], doc.fm[f]) = "skip"
        BY <3>2, <4>1, VerdictCases, DeclaredTurn
      <4> QED BY <3>2, <4>2, VerdictSkips, DeclaredTurn
    <3>3. doc.fm[f] = Before(n + 1, p).fm[f]
      BY <2>1, <2>3, <3>1, <3>2
    <3> QED BY <1>1, <3>3
  <2> QED BY <2>2, <2>3
<1> QED BY <1>2 DEF Caught

\* One it changes.
LEMMA CaughtMade ==
    ASSUME TypeOK, Declarative, NEW doc, NEW n \in 1..Last, NEW p \in Names(report[n]), Caught(doc, n, p)
    PROVE  Caught(Effect(report[n], doc), n + 1, p)
<1>1. Last \in Nat
  BY ReportType
<1> DEFINE new == Effect(report[n], doc)
<1>2. /\ new \in Docs /\ new.section = doc.section /\ new.links = doc.links /\ new.sealed = doc.sealed
      /\ \A f \in Fields : new.fm[f] = IF f = report[n].field THEN report[n].to ELSE doc.fm[f]
  BY DeclaredTurn, FieldEffect DEF Caught
<1> HIDE DEF new
<1>3. \A f \in Fields : \E k \in (n + 1)..(Last + 1) : new.fm[f] = Before(k, p).fm[f]
  <2> SUFFICES ASSUME NEW f \in Fields PROVE \E k \in (n + 1)..(Last + 1) : new.fm[f] = Before(k, p).fm[f]
    OBVIOUS
  <2>1. Before(n + 1, p).fm[f] = IF f = report[n].field THEN report[n].to ELSE Before(n, p).fm[f]
    BY BeforeField
  <2>2. CASE f = report[n].field
    BY <1>1, <1>2, <2>1, <2>2
  <2>3. CASE f # report[n].field
    <3>1. PICK k \in n..(Last + 1) : doc.fm[f] = Before(k, p).fm[f]
      BY DEF Caught
    <3>2. CASE k = n
      BY <1>1, <1>2, <2>1, <2>3, <3>1, <3>2
    <3>3. CASE k # n
      BY <1>1, <1>2, <2>3, <3>1, <3>3
    <3> QED BY <3>2, <3>3
  <2> QED BY <2>2, <2>3
<1>4. Caught(new, n + 1, p)
  BY <1>2, <1>3 DEF Caught
<1> QED BY <1>4 DEF new

\* At the end of the report it is the document of the undisturbed run.
LEMMA CaughtUp ==
    ASSUME TypeOK, Declarative, NEW doc, NEW p \in Paths, Caught(doc, Last + 1, p)
    PROVE  doc = Before(Last + 1, p)
<1>1. Last \in Nat /\ Last + 1 \in 1..(Last + 1)
  BY ReportType
<1>2. \A f \in Fields : doc.fm[f] = Before(Last + 1, p).fm[f]
  <2> SUFFICES ASSUME NEW f \in Fields PROVE doc.fm[f] = Before(Last + 1, p).fm[f]
    OBVIOUS
  <2>1. PICK k \in (Last + 1)..(Last + 1) : doc.fm[f] = Before(k, p).fm[f]
    BY DEF Caught
  <2>2. k = Last + 1
    BY <1>1
  <2> QED BY <2>1, <2>2
<1>3. Before(Last + 1, p) \in Docs /\ doc \in Docs
  BY <1>1, BeforeDoc DEF Caught
<1>4. /\ doc.section = Before(Last + 1, p).section /\ doc.links = Before(Last + 1, p).links
      /\ doc.sealed = Before(Last + 1, p).sealed
  BY <1>1, BeforeDoc DEF Caught
<1>5. doc.fm = Before(Last + 1, p).fm
  BY <1>2, <1>3 DEF Docs, Frontmatter
<1> QED BY <1>3, <1>4, <1>5 DEF Docs

LEMMA CaughtPrimed ==
    ASSUME UNCHANGED <<report, start>>, NEW k, NEW p PROVE Before(k, p)' = Before(k, p)
BY Zenon DEF Before, AllEntries, Replay, Last
(***************************************************************************)
(* The invariant: how far the pass has brought each document.              *)
(***************************************************************************)
Undisturbed == mishaps = 0 \/ (mishaps = 1 /\ previous.outcome = "killed")
Fitting     == Declarative /\ \A p \in Applicable : Valid(Replay(start[p], AllEntries, p))

\* The current proposal has been applied to p.
Visited(p) == run.n <= Last /\ \E i \in 1..(run.j - 1) : Current.paths[i] = p
Reached(p) ==
    IF run.dry \/ run.phase \in {"idle", "read"} THEN 1
    ELSE IF run.phase \in {"apply", "write"} THEN IF Visited(p) THEN run.n + 1 ELSE run.n
    ELSE Last + 1

\* What the run holds of the documents is what they are.
Faithful ==
    /\ run.phase \in {"apply", "write"} => \A p \in Applicable : target[p].loaded
    /\ run.phase = "read" => run.todo \subseteq Applicable /\ \A p \in Applicable \ run.todo : target[p].loaded
    /\ run.phase \in {"read", "apply", "write"} /\ ~run.dry =>
          \A p \in Paths : target[p].loaded /\ ~(run.phase = "write" /\ p = Path) => target[p].fm = disk[p].fm
    /\ run.phase = "write" => ~run.dry /\ run.content = Effect(Current, disk[Path]) /\ run.fm = run.content.fm

Gained(p) == Caught(disk[p], Reached(p), p)

Checking ==
    /\ run.phase # "restore"
    /\ run.phase = "check" => ~run.dry /\ \A p \in run.todo : target[p].written
    /\ \A p \in Paths : target[p].written => p \in Applicable

Apace == (\A p \in Paths : Gained(p)) /\ Faithful /\ Checking

Recovering ==
    /\ previous.outcome = "killed" => mishaps # 0
    /\ Fitting /\ Undisturbed => Apace

LEMMA FittingPrimed ==
    ASSUME UNCHANGED <<report, start>>
    PROVE  Fitting' = Fitting /\ Applicable' = Applicable /\ Last' = Last
<1>1. Last' = Last /\ Applicable' = Applicable /\ AllEntries' = AllEntries
  BY Zenon DEF Last, Applicable, AllEntries
<1>2. Declarative' = Declarative
  <2>1. \A n, q : Before(n, q)' = Before(n, q)
    BY CaughtPrimed
  <2> QED BY <1>1, <2>1, Zenon DEF Declarative
<1>3. \A q : Replay(start[q], AllEntries, q)' = Replay(start[q], AllEntries, q)
  BY <1>1, Zenon DEF Replay
<1> QED BY <1>1, <1>2, <1>3, Zenon DEF Fitting, Valid

\* What a step has to show of one document.
LEMMA GainedNext ==
    ASSUME UNCHANGED <<report, start>>, NEW p, NEW d, d = disk'[p], NEW n, n = Reached(p)', Caught(d, n, p)
    PROVE  Gained(p)'
<1>1. Last' = Last
  BY FittingPrimed
<1>2. \A k : Before(k, p)' = Before(k, p)
  BY CaughtPrimed
<1>3. Caught(d, n, p)'
  BY <1>1, <1>2 DEF Caught
<1> QED BY <1>3 DEF Gained, Caught

LEMMA ReachedType ==
    ASSUME Typed, NEW p
    PROVE  Reached(p) \in 1..(Last + 1) /\ Reached(p) \in Nat
<1>1. Last \in Nat /\ run.n \in 1..(Last + 1)
  BY ReportType DEF Typed, TypeOK, Runs
<1>2. Visited(p) => run.n \in 1..Last
  BY <1>1 DEF Visited
<1> QED BY <1>1, <1>2 DEF Reached

\* Where the run does not write documents, or has not begun to.
LEMMA GainedStill ==
    ASSUME Typed, UNCHANGED <<report, start, disk>>, \A p \in Paths : Gained(p),
           \A p \in Paths : Reached(p)' = 1 \/ Reached(p)' = Reached(p)
    PROVE  \A p \in Paths : Gained(p)'
<1> SUFFICES ASSUME NEW p \in Paths PROVE Gained(p)'
  OBVIOUS
<1>1. PICK d : d = disk'[p]
  OBVIOUS
<1>2. PICK n : n = Reached(p)'
  OBVIOUS
<1>3. Caught(d, Reached(p), p)
  BY <1>1 DEF Gained
<1>4. Caught(d, n, p)
  <2>1. Reached(p) \in Nat /\ 1 <= Reached(p) /\ Last \in Nat
    BY ReachedType, ReportType DEF Typed
  <2>2. n = 1 \/ n = Reached(p)
    BY <1>2
  <2> QED BY <1>3, <2>1, <2>2, CaughtEarlier
<1> QED BY <1>1, <1>2, <1>4, GainedNext

\* The place of the pass, in such a report: a document that was read.
LEMMA PlaceOf ==
    ASSUME Typed, Fitting, Apace, run.phase \in {"apply", "write"}, run.n <= Last
    PROVE  /\ run.n \in 1..Last /\ Current = report[run.n] /\ run.j \in 1..Len(Current.paths)
           /\ Current.paths \in Seq(Paths)
           /\ Path \in Names(Current) /\ Path \in Paths /\ Path \in Applicable /\ target[Path].loaded
           /\ IsField /\ Current.field \in Fields /\ Current.to \in Values
           /\ Current.type \notin {"section", "link", "schema"}
           /\ Caught(disk[Path], run.n, Path) \/ run.dry
           /\ disk[Path] \in Docs /\ disk[Path] # None
<1>1. run.n \in 1..Last /\ Current = report[run.n] /\ Current.paths \in Seq(Paths)
  BY CurrentType DEF Current
<1>2. /\ Current.type \in {"correct", "add", "set"} /\ Current.field \in Fields /\ Current.to \in Values
      /\ Contained(Current) /\ Names(Current) # {}
  BY <1>1, DeclaredTurn DEF Fitting, Typed
<1>3. Path \in Names(Current) /\ Path \in Paths /\ run.j \in 1..Len(Current.paths)
  BY <1>2, CurrentType
<1>4. Path \in Applicable
  BY <1>1, <1>2, <1>3 DEF Applicable
<1>5. target[Path].loaded
  BY <1>4 DEF Apace, Faithful
<1>6. disk[Path] \in Docs /\ disk[Path] # None
  BY <1>3, DocAssumption DEF Apace, Gained, Caught
<1>7. ~run.dry => Caught(disk[Path], run.n, Path)
  <2> SUFFICES ASSUME ~run.dry PROVE Caught(disk[Path], run.n, Path)
    OBVIOUS
  <2>1. Reached(Path) \in {run.n, run.n + 1}
    BY DEF Reached
  <2>2. Caught(disk[Path], Reached(Path), Path)
    BY <1>3 DEF Apace, Gained
  <2>3. Last \in Nat /\ run.n \in Nat /\ run.n + 1 \in Nat
    BY <1>1, ReportType DEF Typed
  <2> QED BY <2>1, <2>2, <2>3, CaughtEarlier
<1> QED BY <1>1, <1>2, <1>3, <1>4, <1>5, <1>6, <1>7 DEF IsField, FieldTypes

\* The move to the next path brings every document along.
LEMMA MoveGained ==
    ASSUME Typed, Fitting, Apace, run.phase \in {"apply", "write"}, run.n <= Last, ~run.dry,
           run' = NextPath, UNCHANGED <<report, start>>,
           \A p \in Paths : p # Path => disk'[p] = disk[p],
           NEW made, made = disk'[Path], Caught(made, run.n + 1, Path)
    PROVE  \A p \in Paths : Gained(p)'
<1> SUFFICES ASSUME NEW p \in Paths PROVE Gained(p)'
  OBVIOUS
<1>1. /\ run.n \in 1..Last /\ Current = report[run.n] /\ run.j \in 1..Len(Current.paths)
      /\ Current.paths \in Seq(Paths) /\ Last \in Nat
  BY PlaceOf, ReportType DEF Typed
<1>2. run'.phase = "apply" /\ ~run'.dry
  BY PlaceIs DEF Passing
<1>3. Last' = Last
  BY FittingPrimed
<1>4. PICK d : d = disk'[p]
  OBVIOUS
<1>5. PICK n : n = Reached(p)'
  OBVIOUS
<1>6. Caught(d, IF Visited(p) THEN run.n + 1 ELSE run.n, p) \/ p = Path
  <2>1. Caught(disk[p], Reached(p), p)
    BY DEF Apace, Gained
  <2> QED BY <1>4, <2>1 DEF Reached
<1>7. p = Path => Caught(d, run.n + 1, p)
  BY <1>4
<1>8. CASE run.j < Len(Current.paths)
  <2>1. run'.n = run.n /\ run'.j = run.j + 1
    BY <1>8, PlaceIs DEF Passing
  <2>2. Current' = Current
    BY <2>1 DEF Current
  <2>3. Visited(p)' <=> Visited(p) \/ p = Path
    BY <1>1, <1>3, <2>1, <2>2, SMTT(20) DEF Visited, Path
  <2>4. n = IF Visited(p) \/ p = Path THEN run.n + 1 ELSE run.n
    BY <1>2, <1>5, <2>1, <2>3 DEF Reached
  <2>5. Caught(d, n, p)
    BY <1>6, <1>7, <2>4
  <2> QED BY <1>4, <1>5, <2>5, GainedNext
<1>9. CASE ~(run.j < Len(Current.paths))
  <2>1. run'.n = run.n + 1 /\ run'.j = 1
    BY <1>9, PlaceIs DEF Passing
  <2>2. ~Visited(p)'
    BY <2>1 DEF Visited
  <2>3. n = run.n + 1
    BY <1>2, <1>5, <2>1, <2>2 DEF Reached
  <2>4. CASE Visited(p) \/ p = Path
    <3>1. Caught(d, n, p)
      BY <1>6, <1>7, <2>3, <2>4
    <3> QED BY <1>4, <1>5, <3>1, GainedNext
  <2>5. CASE ~Visited(p) /\ p # Path
    <3>1. p \notin Names(Current)
      <4>1. run.j = Len(Current.paths)
        BY <1>1, <1>9
      <4>2. \A i \in 1..(run.j - 1) : Current.paths[i] # p
        BY <1>1, <2>5 DEF Visited
      <4>3. Current.paths[run.j] # p
        BY <2>5 DEF Path
      <4>4. \A i \in DOMAIN Current.paths : i \in 1..(run.j - 1) \/ i = run.j
        BY <1>1, <4>1
      <4> QED BY <4>2, <4>3, <4>4 DEF Names
    <3>2. Caught(d, run.n, p)
      BY <1>6, <2>5
    <3>3. Caught(d, n, p)
      BY <1>1, <2>3, <3>1, <3>2, CaughtPassed DEF Typed
    <3> QED BY <1>4, <1>5, <3>3, GainedNext
  <2> QED BY <2>4, <2>5
<1> QED BY <1>8, <1>9

\* A preview touches no document, whatever it composes.
LEMMA PreviewApace ==
    ASSUME Typed, Fitting, Apace, run.phase = "apply", run.n <= Last, run.dry,
           run' \in {NextPath, NextProposal}, UNCHANGED <<report, start, disk>>,
           \A p \in Paths : (target'[p].loaded <=> target[p].loaded) /\ (target'[p].written <=> target[p].written)
    PROVE  Apace'
<1>1. run'.phase = "apply" /\ run'.dry
  BY PlaceIs DEF Passing
<1>2. Applicable' = Applicable /\ Applicable \subseteq Paths
  BY FittingPrimed, ReportType DEF Applicable, Typed
<1>3. \A p \in Paths : Reached(p)' = 1
  BY <1>1 DEF Reached
<1>4. \A p \in Paths : Gained(p)'
  BY <1>3, GainedStill DEF Apace
<1>5. Faithful' /\ Checking'
  BY <1>1, <1>2 DEF Apace, Faithful, Checking
<1> QED BY <1>4, <1>5 DEF Apace

LEMMA SkipApace ==
    ASSUME Typed, Fitting, Apace, Skip
    PROVE  Apace'
<1>1. run.phase = "apply" /\ run.n <= Last /\ run' = NextPath /\ UNCHANGED <<report, start, disk, target>>
  BY DEF Skip, Applied, Applying, Hist
<1>2. CASE run.dry
  BY <1>1, <1>2, PreviewApace
<1>3. CASE ~run.dry
  <2>1. /\ Path \in Names(Current) /\ Path \in Paths /\ run.n \in 1..Last /\ Current = report[run.n]
        /\ Current.type # "link" /\ Caught(disk[Path], run.n, Path) /\ target[Path].loaded
        /\ Current.type \in {"correct", "add", "set"}
    BY <1>1, <1>3, PlaceOf DEF IsField, FieldTypes
  <2>2. FieldFits \in {"skip", "reject"}
    BY <2>1 DEF Skip
  <2>3. target[Path].fm = disk[Path].fm
    BY <1>1, <1>3, <2>1 DEF Apace, Faithful
  <2>4. Verdict(report[run.n], disk[Path].fm[report[run.n].field]) # "change"
    BY <2>1, <2>2, <2>3 DEF FieldFits
  <2>5. PICK made : made = disk[Path]
    OBVIOUS
  <2>6. Caught(made, run.n + 1, Path)
    BY <2>1, <2>4, <2>5, CaughtKept DEF Typed, Fitting
  <2>7. \A p \in Paths : Gained(p)'
    BY <1>1, <1>3, <2>5, <2>6, MoveGained
  <2>8. run'.phase = "apply" /\ ~run'.dry
    BY <1>1, <1>3, PlaceIs DEF Passing
  <2>9. Faithful' /\ Checking'
    <3>1. Applicable' = Applicable
      BY <1>1, FittingPrimed
    <3> QED BY <1>1, <1>3, <2>8, <3>1 DEF Apace, Faithful, Checking
  <2> QED BY <2>7, <2>9 DEF Apace
<1> QED BY <1>2, <1>3

\* What a handler that goes on makes of the document.
LEMMA RewritesField ==
    ASSUME Typed, Fitting, Apace, Changes, ~run.dry
    PROVE  /\ Rewritten = Effect(Current, disk[Path]) /\ Candidate = Rewritten.fm
           /\ ~NoRewrite
<1>1. run.phase = "apply" /\ run.n <= Last
  BY ChangesCases DEF Applied, Applying
<1>2. /\ Path \in Paths /\ target[Path].loaded /\ IsField /\ Current.field \in Fields /\ Current.to \in Values
      /\ Current.type \notin {"section", "link", "schema"} /\ disk[Path] \in Docs /\ disk[Path] # None
      /\ Current.type \in {"correct", "add", "set"}
  BY <1>1, PlaceOf DEF IsField, FieldTypes
<1>3. target[Path].fm = disk[Path].fm
  BY <1>1, <1>2 DEF Apace, Faithful
<1>4. Base = disk[Path]
  BY <1>2 DEF Base
<1>5. disk[Path].fm[Current.field] # Current.to
  <2>1. Verdict(Current, disk[Path].fm[Current.field]) = "change"
    BY <1>2, <1>3, ChangesCases DEF FieldFits
  <2> QED BY <1>2, <2>1, VerdictCases
<1>6. PICK doc : doc = disk[Path]
  OBVIOUS
<1>7. Candidate = [doc.fm EXCEPT ![Current.field] = Current.to] /\ Rewritten = [doc EXCEPT !.fm = Candidate]
  <2>1. Path \in Names(report[run.n]) /\ run.n \in 1..Last
    BY <1>1, PlaceOf
  <2>2. start[Path].sealed
    BY <2>1, Zenon DEF Fitting, Declarative
  <2>3. Caught(doc, run.n, Path)
    BY <1>1, <1>6, PlaceOf
  <2>4. doc.sealed
    BY <2>2, <2>3 DEF Caught
  <2> QED BY <1>2, <1>3, <1>4, <1>6, <2>4, Zenon DEF Candidate, Rewritten, RewriteFrontmatter
<1>8. doc \in Docs /\ doc.fm \in [Fields -> Values \cup {None}]
  BY <1>2, <1>6 DEF Docs, Frontmatter
<1>9. Effect(Current, doc) = [doc EXCEPT !.fm[Current.field] = Current.to]
  BY <1>2, EffectCases
<1>10. Rewritten = Effect(Current, doc) /\ Candidate = Rewritten.fm
  BY <1>7, <1>8, <1>9 DEF Docs
<1>11. Rewritten # doc
  <2>1. Candidate[Current.field] = Current.to
    BY <1>2, <1>7, <1>8
  <2> QED BY <1>5, <1>6, <1>10, <2>1
<1>12. ~NoRewrite
  BY <1>2, <1>4, <1>6, <1>11 DEF NoRewrite
<1> QED BY <1>6, <1>10, <1>12

LEMMA RefuseApace ==
    ASSUME Typed, Fitting, Apace, Refuse
    PROVE  Apace'
<1>1. run.phase = "apply" /\ run.n <= Last /\ run' = NextProposal /\ UNCHANGED <<report, start, disk>>
  BY ChangesCases DEF Refuse, Applied, Applying, Hist
<1>2. run.dry
  BY RewritesField DEF Refuse
<1>3. \A p \in Paths : (target'[p].loaded <=> target[p].loaded) /\ (target'[p].written <=> target[p].written)
  <2>1. target' = target \/ target' = [target EXCEPT ![Path].fm = Candidate]
    BY DEF Refuse, TouchedRecord
  <2> HIDE DEF Candidate
  <2> QED BY <2>1 DEF Typed, TypeOK, Targets
<1> QED BY <1>1, <1>2, <1>3, PreviewApace

LEMMA ComposeApace ==
    ASSUME Typed, Fitting, Apace, Preview
    PROVE  Apace'
<1>1. run.phase = "apply" /\ run.n <= Last /\ run' = NextPath /\ UNCHANGED <<report, start, disk>> /\ run.dry
  BY ChangesCases DEF Preview, Applied, Applying, Hist
<1>2. \A p \in Paths : (target'[p].loaded <=> target[p].loaded) /\ (target'[p].written <=> target[p].written)
  <2>1. target' = [target EXCEPT ![Path].fm = Candidate, ![Path].content = Rewritten]
    BY DEF Preview
  <2> HIDE DEF Candidate, Rewritten
  <2> QED BY <2>1 DEF Typed, TypeOK, Targets
<1> QED BY <1>1, <1>2, PreviewApace

LEMMA RewriteApace ==
    ASSUME Typed, Fitting, Apace, Rewrite
    PROVE  Apace'
<1>1. run.phase = "apply" /\ run.n <= Last /\ ~run.dry /\ UNCHANGED <<report, start, disk>>
      /\ target' = TouchedRecord
  BY ChangesCases DEF Rewrite, Applied, Applying, Hist
<1>2. Rewritten = Effect(Current, disk[Path]) /\ Candidate = Rewritten.fm
  BY <1>1, RewritesField DEF Rewrite
<1>3. /\ run'.phase = "write" /\ run'.n = run.n /\ run'.j = run.j /\ run'.dry = run.dry
      /\ run'.fm = Candidate /\ run'.content = Rewritten
  <2>1. run' = [run EXCEPT !.phase = "write", !.fm = Candidate, !.content = Rewritten]
    BY DEF Rewrite
  <2> HIDE DEF Candidate, Rewritten
  <2> QED BY <2>1 DEF Typed, TypeOK, Runs
<1>4. Current' = Current /\ Path' = Path /\ Applicable' = Applicable /\ Last' = Last
  BY <1>1, <1>3, FittingPrimed DEF Current, Path
<1>5. \A p \in Paths : Reached(p)' = Reached(p)
  BY <1>1, <1>3, <1>4 DEF Reached, Visited
<1>6. \A p \in Paths : Gained(p)'
  BY <1>1, <1>5, GainedStill DEF Apace
<1>7. \A p \in Paths : /\ target'[p].loaded <=> target[p].loaded
                       /\ target'[p].written <=> target[p].written
                       /\ p # Path => target'[p].fm = target[p].fm
  <2>1. target' = target \/ target' = [target EXCEPT ![Path].fm = Candidate]
    BY <1>1 DEF TouchedRecord
  <2> HIDE DEF Candidate
  <2> QED BY <2>1 DEF Typed, TypeOK, Targets
<1>8. Faithful'
  <2>1. \A p \in Applicable : target'[p].loaded
    BY <1>1, <1>7, ReportType DEF Apace, Faithful, Applicable, Typed
  <2>2. \A p \in Paths : target'[p].loaded /\ p # Path => target'[p].fm = disk'[p].fm
    BY <1>1, <1>7 DEF Apace, Faithful
  <2>3. run'.content = Effect(Current, disk[Path]) /\ run'.fm = run'.content.fm
    BY <1>2, <1>3
  <2>4. (run.content = Effect(Current, disk[Path]))'
    BY <1>1, <1>4, <2>3
  <2> QED BY <1>1, <1>3, <1>4, <2>1, <2>2, <2>3, <2>4 DEF Faithful
<1>9. Checking'
  BY <1>3, <1>4, <1>7 DEF Apace, Checking
<1> QED BY <1>6, <1>8, <1>9 DEF Apace

LEMMA WriteApace ==
    ASSUME Typed, Fitting, Apace, Write
    PROVE  Apace'
<1>1. /\ run.phase = "write" /\ run.n <= Last /\ run' = NextPath /\ UNCHANGED <<report, start>>
      /\ disk' = [disk EXCEPT ![Path] = run.content]
      /\ target' = [target EXCEPT ![Path].fm = run.fm, ![Path].content = run.content, ![Path].written = TRUE]
  BY DEF Write, Hist, Typed, Position
<1>2. /\ ~run.dry /\ run.content = Effect(Current, disk[Path]) /\ run.fm = run.content.fm
  BY <1>1 DEF Apace, Faithful
<1>3. /\ Path \in Names(Current) /\ Path \in Paths /\ Path \in Applicable /\ target[Path].loaded
      /\ run.n \in 1..Last /\ Current = report[run.n] /\ Caught(disk[Path], run.n, Path)
  BY <1>1, <1>2, PlaceOf
<1>4. PICK doc : doc = disk[Path]
  OBVIOUS
<1>5. PICK made : made = disk'[Path]
  OBVIOUS
<1>6. made = Effect(report[run.n], doc)
  BY <1>1, <1>2, <1>3, <1>4, <1>5 DEF Typed, TypeOK
<1>7. Caught(made, run.n + 1, Path)
  BY <1>3, <1>4, <1>6, CaughtMade DEF Typed, Fitting
<1>8. \A p \in Paths : p # Path => disk'[p] = disk[p]
  BY <1>1 DEF Typed, TypeOK
<1>9. \A p \in Paths : Gained(p)'
  BY <1>1, <1>2, <1>5, <1>7, <1>8, MoveGained
<1>10. run'.phase = "apply" /\ ~run'.dry
  BY <1>1, <1>2, PlaceIs DEF Passing
<1>11. Applicable' = Applicable /\ Applicable \subseteq Paths
  BY <1>1, FittingPrimed, ReportType DEF Applicable, Typed
<1>12. \A p \in Paths : /\ target'[p].loaded <=> target[p].loaded
                        /\ p # Path => target'[p].fm = target[p].fm /\ (target'[p].written <=> target[p].written)
                        /\ p = Path => target'[p].fm = run.fm
  BY <1>1 DEF Typed, TypeOK, Targets
<1>13. disk'[Path].fm = run.fm
  BY <1>1, <1>2, <1>3 DEF Typed, TypeOK
<1>14. Faithful'
  <2>1. \A p \in Paths : target'[p].loaded => target'[p].fm = disk'[p].fm
    <3> SUFFICES ASSUME NEW p \in Paths, target'[p].loaded PROVE target'[p].fm = disk'[p].fm
      OBVIOUS
    <3>1. CASE p = Path
      BY <1>12, <1>13, <3>1
    <3>2. CASE p # Path
      BY <1>1, <1>2, <1>8, <1>12, <3>2 DEF Apace, Faithful
    <3> QED BY <3>1, <3>2
  <2>2. \A p \in Applicable : target'[p].loaded
    BY <1>1, <1>11, <1>12 DEF Apace, Faithful
  <2> QED BY <1>10, <1>11, <2>1, <2>2 DEF Faithful
<1>15. Checking'
  <2>1. \A p \in Paths : target'[p].written => p \in Applicable
    BY <1>3, <1>12 DEF Apace, Checking
  <2> QED BY <1>10, <1>11, <2>1 DEF Checking
<1> QED BY <1>9, <1>14, <1>15 DEF Apace

LEMMA EndApplyApace ==
    ASSUME Typed, Fitting, Apace, EndApply
    PROVE  Apace'
<1>1. run.phase = "apply" /\ run.n > Last /\ UNCHANGED <<report, start, disk, target>>
  BY DEF EndApply, Hist
<1>2. /\ run'.dry = run.dry /\ run'.n = run.n /\ run'.phase \in {"done", "check"}
      /\ run'.phase = "check" => ~run.dry /\ run'.todo = Unchecked
  BY DEF EndApply, Typed, TypeOK, Runs
<1>3. run.n = Last + 1 /\ Last \in Nat /\ Last' = Last /\ Applicable' = Applicable
  BY <1>1, FittingPrimed, ReportType DEF Typed, TypeOK, Runs
<1>4. \A p \in Paths : Reached(p)' = Reached(p)
  BY <1>1, <1>2, <1>3 DEF Reached, Visited
<1>5. \A p \in Paths : Gained(p)'
  BY <1>1, <1>4, GainedStill DEF Apace
<1>6. Faithful' /\ Checking'
  BY <1>1, <1>2, <1>3 DEF Apace, Faithful, Checking, Unchecked
<1> QED BY <1>5, <1>6 DEF Apace

\* A document that is checked is valid.
LEMMA CheckApace ==
    ASSUME Typed, Fitting, Apace, NEW p \in Paths, Check(p), Well
    PROVE  Apace'
<1>1. run.phase = "check" /\ p \in run.todo /\ ~run.dry /\ UNCHANGED <<report, start, disk, target>>
  BY DEF Check, Hist, Apace, Checking
<1>2. p \in Applicable
  BY <1>1 DEF Apace, Checking
<1>3. disk[p] # None /\ Valid(disk[p])
  <2>1. Caught(disk[p], Last + 1, p)
    BY <1>1 DEF Apace, Gained, Reached
  <2>2. PICK d : d = disk[p]
    OBVIOUS
  <2>3. d = Replay(start[p], AllEntries, p)
    BY <2>1, <2>2, CaughtUp, BeforeLast DEF Typed, Fitting
  <2>4. d # None
    BY <2>1, <2>2, DocAssumption DEF Caught
  <2> QED BY <1>2, <2>2, <2>3, <2>4 DEF Fitting
<1>4. run' = Checked(p)
  <2>1. mishaps' = mishaps
    BY DEF Well
  <2>2. ~Mishap
    BY <2>1 DEF Mishap, Typed, TypeOK
  <2> QED BY <1>3, <2>2 DEF Check
<1>5. run'.phase \in {"check", "done"} /\ ~run'.dry /\ run'.todo \subseteq run.todo
  BY <1>1, <1>4 DEF Checked, Typed, TypeOK, Runs
<1>6. Last' = Last /\ Applicable' = Applicable
  BY <1>1, FittingPrimed
<1>7. \A q \in Paths : Reached(q)' = Reached(q)
  BY <1>1, <1>5, <1>6 DEF Reached
<1>8. \A q \in Paths : Gained(q)'
  BY <1>1, <1>7, GainedStill DEF Apace
<1>9. Faithful' /\ Checking'
  BY <1>1, <1>5, <1>6 DEF Apace, Faithful, Checking
<1> QED BY <1>8, <1>9 DEF Apace

LEMMA ReadApace ==
    ASSUME Typed, Fitting, Apace, NEW p \in Paths, Read(p)
    PROVE  Apace'
<1>1. run.phase = "read" /\ p \in run.todo /\ UNCHANGED <<report, start, disk>>
      /\ target' = [target EXCEPT ![p] = [Unread EXCEPT !.loaded = TRUE, !.fm = disk[p].fm, !.original = disk[p]]]
  BY DEF Read, Hist
<1>2. /\ run'.phase \in {"read", "apply"} /\ run'.n = run.n /\ run'.j = run.j /\ run'.dry = run.dry
      /\ run'.todo = run.todo \ {p}
      /\ run'.phase = "apply" => run.todo = {p}
  BY <1>1 DEF Read, ReadDone, Typed, TypeOK, Runs
<1>3. Last' = Last /\ Applicable' = Applicable /\ Applicable \subseteq Paths
  BY <1>1, FittingPrimed, ReportType DEF Applicable, Typed
<1>4. \A q \in Paths : Reached(q)' = 1
  <2>1. run.n = 1 /\ run.j = 1
    BY <1>1 DEF Typed, Position
  <2> QED BY <1>2, <2>1 DEF Reached, Visited
<1>5. \A q \in Paths : Gained(q)'
  BY <1>1, <1>4, GainedStill DEF Apace
<1>6. \A q \in Paths : /\ q # p => target'[q] = target[q]
                       /\ q = p => target'[q].loaded /\ target'[q].fm = disk[q].fm /\ ~target'[q].written
  BY <1>1 DEF Typed, TypeOK, Unread
<1>7. Faithful'
  <2>1. \A q \in Applicable \ run'.todo : target'[q].loaded
    BY <1>1, <1>2, <1>3, <1>6 DEF Apace, Faithful
  <2>2. run'.todo \subseteq Applicable /\ (run'.phase = "apply" => run'.todo = {})
    BY <1>1, <1>2 DEF Apace, Faithful
  <2>3. ~run.dry => \A q \in Paths : target'[q].loaded => target'[q].fm = disk'[q].fm
    BY <1>1, <1>6 DEF Apace, Faithful
  <2> QED BY <1>2, <1>3, <2>1, <2>2, <2>3 DEF Faithful
<1>8. Checking'
  BY <1>2, <1>3, <1>6 DEF Apace, Checking
<1> QED BY <1>5, <1>7, <1>8 DEF Apace

\* A run begins, for the first time or again, with the documents there are.
LEMMA BeginApace ==
    ASSUME Typed, Fitting, Apace, Begin
    PROVE  Apace'
<1>1. UNCHANGED <<report, start, disk>> /\ target' = [p \in Paths |-> Unread]
  BY DEF Begin
<1>2. /\ run'.n = 1 /\ run'.j = 1 /\ run'.todo = Applicable
      /\ run'.phase = IF Last = 0 THEN "done" ELSE IF Applicable = {} THEN "apply" ELSE "read"
  BY DEF Begin, Idle
<1>3. Last' = Last /\ Applicable' = Applicable /\ Applicable \subseteq Paths
  BY <1>1, FittingPrimed, ReportType DEF Applicable, Typed
<1>4. \A p \in Paths : Reached(p)' = 1
  BY <1>2, <1>3 DEF Reached, Visited
<1>5. \A p \in Paths : Gained(p)'
  BY <1>1, <1>4, GainedStill DEF Apace
<1>6. \A p \in Paths : ~target'[p].loaded /\ ~target'[p].written
  BY <1>1 DEF Unread
<1>7. Faithful' /\ Checking'
  BY <1>2, <1>3, <1>6 DEF Faithful, Checking
<1> QED BY <1>5, <1>7 DEF Apace

\* A kill leaves the documents as far as they came.
LEMMA KillApace ==
    ASSUME Typed, Fitting, Apace, Kill
    PROVE  Apace'
<1>1. UNCHANGED <<report, start, disk>> /\ target' = [p \in Paths |-> Unread]
  BY DEF Kill
<1>2. run'.phase = "idle"
  BY DEF Kill, Idle
<1>3. \A p \in Paths : Reached(p)' = 1
  BY <1>2 DEF Reached
<1>4. \A p \in Paths : Gained(p)'
  BY <1>1, <1>3, GainedStill DEF Apace
<1>5. \A p \in Paths : ~target'[p].loaded /\ ~target'[p].written
  BY <1>1 DEF Unread
<1>6. Faithful' /\ Checking'
  BY <1>2, <1>5 DEF Faithful, Checking
<1> QED BY <1>4, <1>6 DEF Apace

\* The steps that cannot happen: each proposal is applied, each document read.
LEMMA NoOther ==
    ASSUME Typed, Fitting, Apace
    PROVE  ~Dispose /\ ~NoTarget /\ ~Restore
<1>1. ~Restore
  BY DEF Restore, Apace, Checking
<1>2. ~NoTarget
  BY PlaceOf DEF NoTarget, Applied, Applying
<1>3. ASSUME Dispose PROVE FALSE
  <2>1. run.phase = "apply" /\ run.n <= Last
    BY <1>3 DEF Dispose, Applying
  <2>2. run.n \in 1..Last /\ Current = report[run.n]
    BY <2>1, PlaceOf
  <2>3. Contained(Current) /\ Names(Current) # {} /\ ~EngineChosen(Current) /\ Current.type # "schema"
    BY <2>2, DeclaredTurn DEF Typed, Fitting
  <2> QED BY <1>3, <2>3 DEF Dispose
<1> QED BY <1>1, <1>2, <1>3

LEMMA InitRecovering == Init => Recovering
<1> SUFFICES ASSUME Init PROVE Recovering
  OBVIOUS
<1>1. Typed
  BY InitTyped
<1>2. \A p \in Paths : Gained(p)
  <2> SUFFICES ASSUME NEW p \in Paths PROVE Gained(p)
    OBVIOUS
  <2>1. Last \in Nat /\ start[p] \in Docs /\ disk[p] = start[p]
    BY <1>1, ReportType DEF Init, Typed, TypeOK
  <2>2. Reached(p) = 1
    BY DEF Init, Idle, Reached
  <2>3. Before(1, p) = start[p] /\ 1 \in 1..(Last + 1)
    BY <1>1, <2>1, BeforeFirst DEF Typed
  <2>4. Caught(start[p], 1, p)
    BY <2>1, <2>3 DEF Caught
  <2> QED BY <2>1, <2>2, <2>4 DEF Gained
<1>3. Faithful /\ Checking
  BY DEF Init, Idle, Unread, Faithful, Checking
<1>4. previous.outcome # "killed"
  BY DEF Init
<1> QED BY <1>2, <1>3, <1>4 DEF Recovering, Apace

LEMMA NextRecovering ==
    ASSUME Typed, Recovering, [Next]_vars
    PROVE  Recovering'
<1>1. mishaps \in Nat
  BY DEF Typed, TypeOK
<1>2. ASSUME UNCHANGED vars PROVE Recovering'
  <2>1. UNCHANGED <<disk, report, run, target, ledger, previous, start, edited, ours, mishaps>>
    BY <1>2 DEF vars
  <2>2. Fitting' = Fitting /\ Last' = Last /\ Applicable' = Applicable
    BY <2>1, FittingPrimed
  <2>3. Undisturbed' = Undisturbed
    BY <2>1 DEF Undisturbed
  <2>4. ASSUME Fitting, Undisturbed PROVE Apace'
    <3>1. \A p \in Paths : Reached(p)' = Reached(p)
      BY <2>1, <2>2 DEF Reached, Visited, Current
    <3>2. \A p \in Paths : Gained(p)'
      BY <2>1, <2>4, <3>1, GainedStill DEF Recovering, Apace
    <3>3. Path' = Path /\ Current' = Current
      BY <2>1 DEF Path, Current
    <3>4. Effect(Current, disk[Path])' = Effect(Current, disk[Path])
      BY <2>1, <3>3
    <3>5. Faithful' /\ Checking'
      BY <2>1, <2>2, <2>4, <3>3, <3>4 DEF Recovering, Apace, Faithful, Checking
    <3> QED BY <3>2, <3>5 DEF Apace
  <2> QED BY <2>1, <2>2, <2>3, <2>4 DEF Recovering
<1>3. ASSUME Next PROVE (previous.outcome = "killed" => mishaps # 0)'
  <2>1. CASE Kill
    BY <1>1, <2>1 DEF Kill, Mishap
  <2>2. CASE ~Kill
    <3>0. Begin => previous' = previous \/ previous'.outcome = "done"
      BY DEF Begin
    <3>1. previous' = previous \/ previous'.outcome = "done"
      BY <1>3, <2>2, <3>0, Zenon DEF Next, Dispose, NoTarget, Skip, Refuse, Preview, Rewrite, Write, WriteFails,
         EndApply, Restore, RestoreFails, Read, ReadFails, Check, Edit, Hist
    <3>2. mishaps' = mishaps \/ mishaps' = mishaps + 1
      BY <1>3, <2>2, Zenon DEF Next, Begin, Dispose, NoTarget, Skip, Refuse, Preview, Rewrite, Write, WriteFails,
         EndApply, Restore, RestoreFails, Read, ReadFails, Check, Edit, Well, Mishap
    <3> QED BY <1>1, <3>1, <3>2 DEF Recovering
  <2> QED BY <2>1, <2>2
<1>4. ASSUME Next, Fitting', Undisturbed' PROVE Apace'
  <2>1. UNCHANGED <<report, start>>
    BY <1>4, Zenon DEF Next, Begin, Dispose, NoTarget, Skip, Refuse, Preview, Rewrite, Write, WriteFails,
       EndApply, Restore, RestoreFails, Read, ReadFails, Check, Edit, Kill, Hist
  <2>2. Fitting
    BY <1>4, <2>1, FittingPrimed
  <2>3. CASE Kill
    <3>1. Undisturbed
      BY <1>1, <1>4, <2>3 DEF Kill, Mishap, Undisturbed
    <3> QED BY <2>2, <2>3, <3>1, KillApace DEF Recovering
  <2>4. CASE Begin
    <3>1. Undisturbed
      BY <1>4, <2>4 DEF Begin, Well, Undisturbed
    <3> QED BY <2>2, <2>4, <3>1, BeginApace DEF Recovering
  <2>5. ASSUME previous' = previous, Well \/ Mishap PROVE Well /\ Undisturbed
    <3>1. ~Mishap
      BY <1>1, <1>4, <2>5 DEF Mishap, Undisturbed, Recovering
    <3> QED BY <1>4, <2>5, <3>1 DEF Well, Undisturbed
  <2>6. CASE Dispose \/ NoTarget \/ Skip \/ Refuse \/ Preview \/ Rewrite \/ Write \/ EndApply \/ Restore
    <3>1. previous' = previous /\ Well
      BY <2>6 DEF Dispose, NoTarget, Skip, Refuse, Preview, Rewrite, Write, EndApply, Restore, Hist
    <3>2. Apace
      BY <2>2, <2>5, <3>1 DEF Recovering
    <3> QED BY <2>2, <2>6, <3>2, NoOther, SkipApace, RefuseApace, ComposeApace, RewriteApace, WriteApace, EndApplyApace
  <2>7. ~WriteFails /\ ~RestoreFails /\ \A p \in Paths : ~Edit(p)
    <3>1. WriteFails \/ RestoreFails \/ (\E p \in Paths : Edit(p)) => previous' = previous /\ Mishap
      BY DEF WriteFails, RestoreFails, Edit, Hist
    <3> QED BY <1>1, <2>5, <3>1 DEF Well, Mishap
  <2>8. ASSUME NEW p \in Paths, Read(p) PROVE Apace'
    <3>1. previous' = previous /\ Well
      BY <2>8 DEF Read, Hist
    <3> QED BY <2>2, <2>5, <2>8, <3>1, ReadApace DEF Recovering
  <2>9. ASSUME NEW p \in Paths, ReadFails(p) PROVE FALSE
    <3>1. previous' = previous /\ (Well \/ Mishap)
      BY <2>9, Zenon DEF ReadFails, Hist
    <3>2. Well /\ Undisturbed
      BY <2>5, <3>1
    <3>3. disk[p] # None
      BY <2>2, <3>2, DocAssumption DEF Recovering, Apace, Gained, Caught
    <3> QED BY <1>1, <2>9, <3>2, <3>3 DEF ReadFails, Well, Mishap
  <2>10. ASSUME NEW p \in Paths, Check(p) PROVE Apace'
    <3>1. previous' = previous /\ (Well \/ Mishap)
      BY <2>10, Zenon DEF Check, Hist
    <3>2. Well /\ Undisturbed
      BY <2>5, <3>1
    <3> QED BY <2>2, <2>10, <3>2, CheckApace DEF Recovering
  <2> QED BY <1>4, <2>3, <2>4, <2>6, <2>7, <2>8, <2>9, <2>10 DEF Next
<1> QED BY <1>2, <1>3, <1>4 DEF Recovering

\* RerunRecovers: whatever step of a run a kill falls on, running the same
\* report again (docs/fix.md) ends with the documents of a run nobody disturbed,
\* provided every proposal fits the documents the report was made for and what
\* they come to is valid.
THEOREM RerunIsRecovery == Spec => []RerunRecovers
<1>1. Typed /\ Recovering => RerunRecovers
  <2> SUFFICES ASSUME Typed, Recovering, Done, ~run.dry, previous.outcome = "killed", mishaps = 1, Fitting,
                      NEW p \in Paths
               PROVE  disk[p] = Replay(start[p], AllEntries, p)
    BY DEF RerunRecovers, Fitting
  <2>1. Caught(disk[p], Last + 1, p)
    BY DEF Recovering, Undisturbed, Apace, Gained, Reached, Done
  <2> QED BY <2>1, CaughtUp, BeforeLast DEF Typed, Fitting
<1>2. Init => Typed /\ Recovering
  BY InitTyped, InitRecovering
<1>3. Typed /\ Recovering /\ [Next]_vars => Typed' /\ Recovering'
  BY NextTyped, NextRecovering
<1> QED BY <1>1, <1>2, <1>3, PTL DEF Spec
=============================================================================

-------------------------- MODULE FixCommandProofs --------------------------
(***************************************************************************)
(* Spec => NothingInvented, for every tree, schema, set of documents and   *)
(* fields: no run of fix gives a missing field a value of its own choice;  *)
(* what the document's text gives may be the empty value.  The argument:   *)
(* every proposal a report holds for a missing field is grounded in the    *)
(* scan it was made from, the in-memory records only ever take values from *)
(* proposals, and the documents only from those records.                   *)
(* Spec => []RowsTellTheDisk: what the last report of fix --all says was   *)
(* fixed differs from the scan, what it says was skipped is still missing. *)
(* Spec => []RepairsByPriority: a fix --all that reports has made of every *)
(* field what the scan alone determines, in whatever order the detectors'  *)
(* maps were ranged in, and kept every text saved before it was read.      *)
(***************************************************************************)
EXTENDS FixCommand, FiniteSetTheorems, Induction, TLAPS

\* A proposal fix --all may apply without --fill-missing.
Applicable(p) == ~(p.type = "add_field" /\ IsEngineChosen(p.source))

\* A value for a missing field that NothingInvented allows.
Supported(sc, d, f, v) == Grounded(sc, d, f, v) \/ Unmatched(sc, d, f, v)

\* p names a document and a field, and fills a missing field with grounds only.
Sourced(sc, p) ==
    /\ p.doc \in Docs /\ p.field \in Fields
    /\ Value(sc, p.doc, p.field) = Absent /\ Applicable(p) => Supported(sc, p.doc, p.field, p.to)

\* detectInferFromSiblings (sibling_infer.go:100-108): the value of an agreeing
\* majority is one that two other documents of the directory carry.
LEMMA SiblingsAgree ==
    ASSUME NEW sc, sc.valid \subseteq Docs, NEW s, NEW d \in Docs, NEW f, NEW v,
           Value(sc, d, f) = Absent,
           Agreement(sc, Voters(sc, s, d, f), f, v, 2, 6, 10)
    PROVE  Supported(sc, d, f, v)
<1> DEFINE V == {e \in Voters(sc, s, d, f) : Value(sc, e, f) = v}
           W == {e \in Docs \ {d} : Dir[e] = Dir[d] /\ Value(sc, e, f) = v}
<1>1. V \subseteq W
    BY DEF Voters, Siblings, Members
<1>2. IsFiniteSet(W)
    BY DocsAssumption, FS_Subset
<1>3. Cardinality(V) <= Cardinality(W) /\ Cardinality(V) \in Nat /\ Cardinality(W) \in Nat
    BY <1>1, <1>2, FS_Subset, FS_CardinalityType
<1>4. Cardinality(V) >= 2
    BY DEF Agreement, Votes
<1>5. Cardinality(W) >= 2
    BY <1>3, <1>4
<1> QED BY <1>5 DEF Supported, Grounded, Unmatched

\* A site is a (document, field) pair of the group that breaks the rule.
LEMMA SitesIn ==
    ASSUME NEW sc, sc.valid \subseteq Docs, NEW s, NEW rule, NEW x \in Sites(rule, sc, s)
    PROVE  /\ x[1] \in Docs /\ x[2] \in Fields /\ sc.eff[x[1]] = s
           /\ Breaks(rule, sc, x[1], x[2])
<1>1. x \in Members(sc, s) \X Fields /\ Breaks(rule, sc, x[1], x[2])
    BY DEF Sites
<1>2. x[1] \in Members(sc, s) /\ x[2] \in Fields
    BY <1>1
<1> QED BY <1>1, <1>2 DEF Members

\* The rules other than required are about a value that is there.
LEMMA BreaksHasValue ==
    ASSUME NEW sc, NEW d, NEW f, NEW rule \in {"enum", "type", "aggregate"}, Breaks(rule, sc, d, f)
    PROVE  Value(sc, d, f) # Absent
BY ValuesAssumption DEF Breaks, Natives

\* A proposal for a value that is there.
LEMMA Replaces ==
    ASSUME NEW sc, sc.valid \subseteq Docs, NEW s, NEW rule \in {"enum", "type", "aggregate"},
           NEW x \in Sites(rule, sc, s), NEW p, p.doc = x[1], p.field = x[2]
    PROVE  Sourced(sc, p)
<1>1. x[1] \in Docs /\ x[2] \in Fields /\ Breaks(rule, sc, x[1], x[2])
    BY SitesIn
<1>2. Value(sc, x[1], x[2]) # Absent
    BY <1>1, BreaksHasValue
<1> QED BY <1>1, <1>2 DEF Sourced

\* proposal.Analyze (proposal.go:139-235), detector by detector.
LEMMA AnalyzeSourced ==
    ASSUME NEW sc, sc.valid \subseteq Docs, NEW s \in Groups(sc), NEW p \in Analyze(sc, s)
    PROVE  Sourced(sc, p)
<1>1. CASE p \in MigrateValues(sc, s)
  <2>1. PICK x \in Misfits(sc, s) :
            p = Proposed("migrate_value", x[1], x[2], Value(sc, x[1], x[2]),
                         MigratedTo(Value(sc, x[1], x[2]), s, x[2]), "", 1)
    BY <1>1 DEF MigrateValues
  <2>2. x \in Sites("enum", sc, s) /\ p.doc = x[1] /\ p.field = x[2]
    BY <2>1 DEF Misfits, Proposed
  <2> QED BY <2>2, Replaces
<1>2. CASE p \in CorrectValues(sc, s)
  <2>1. PICK x \in Misfits(sc, s) :
            p = Proposed("correct_value", x[1], x[2], Value(sc, x[1], x[2]),
                         Closest(Value(sc, x[1], x[2]), Allowed(s, x[2])), "", 2)
    BY <1>2 DEF CorrectValues
  <2>2. x \in Sites("enum", sc, s) /\ p.doc = x[1] /\ p.field = x[2]
    BY <2>1, ZenonT(40) DEF Misfits, Proposed
  <2> QED BY <2>2, Replaces
<1>3. CASE p \in ExtractBodies(sc, s)
  <2>1. PICK x \in Sites("required", sc, s) :
            /\ sc.doc[x[1]].body[x[2]] # Absent
            /\ p = Proposed("extract_body", x[1], x[2], sc.doc[x[1]].body[x[2]],
                            FromBody(sc, s, x[1], x[2]), "", 3)
    BY <1>3 DEF ExtractBodies
  <2>2. /\ x[1] \in Docs /\ x[2] \in Fields /\ sc.eff[x[1]] = s
        /\ p.doc = x[1] /\ p.field = x[2] /\ p.to = FromBody(sc, s, x[1], x[2])
    BY <2>1, SitesIn DEF Proposed
  <2> QED BY <2>1, <2>2, Zenon DEF Sourced, Supported, Grounded, Unmatched
<1>4. CASE p \in InferFromSiblings(sc, s)
  <2>0. PICK x \in Sites("required", sc, s) :
            \E v : /\ Agreement(sc, Voters(sc, s, x[1], x[2]), x[2], v, 2, 6, 10)
                   /\ p = Proposed("infer_from_siblings", x[1], x[2], "", v, "", 4)
    BY <1>4 DEF InferFromSiblings
  <2>1. PICK v : /\ Agreement(sc, Voters(sc, s, x[1], x[2]), x[2], v, 2, 6, 10)
                 /\ p = Proposed("infer_from_siblings", x[1], x[2], "", v, "", 4)
    BY <2>0
  <2>2. x[1] \in Docs /\ x[2] \in Fields /\ p.doc = x[1] /\ p.field = x[2] /\ p.to = v
    BY <2>1, SitesIn DEF Proposed
  <2>3. ASSUME Value(sc, x[1], x[2]) = Absent PROVE Supported(sc, x[1], x[2], v)
    BY <2>1, <2>2, <2>3, SiblingsAgree
  <2> QED BY <2>2, <2>3 DEF Sourced
<1>5. CASE p \in AddFields(sc, s)
  <2>1. PICK x \in Sites("required", sc, s) :
            p = Proposed("add_field", x[1], x[2], "", AddFieldValue(s, x[2])[1],
                         AddFieldValue(s, x[2])[2], 5)
    BY <1>5 DEF AddFields
  <2>2. x[1] \in Docs /\ x[2] \in Fields /\ sc.eff[x[1]] = s
    BY SitesIn
  <2>3. p.doc = x[1] /\ p.field = x[2] /\ p.type = "add_field"
        /\ p.to = AddFieldValue(s, x[2])[1] /\ p.source = AddFieldValue(s, x[2])[2]
    BY <2>1 DEF Proposed
  <2>4. ~IsEngineChosen(p.source) => p.to = s.fields[x[2]].default /\ p.to # Blank
    BY <2>3 DEF AddFieldValue, IsEngineChosen
  <2> QED BY <2>2, <2>3, <2>4 DEF Sourced, Applicable, Supported, Grounded, Unmatched
<1>6. CASE p \in OutlierValues(sc, s)
  <2>0. PICK x \in Members(sc, s) \X Fields :
            /\ x[1] \in Sound(sc, s, x[1], x[2])
            /\ \E v : p = Proposed("correct_outlier", x[1], x[2], Value(sc, x[1], x[2]), v, "", 6)
    BY <1>6, ZenonT(40) DEF OutlierValues
  <2>1. x[1] \in Docs /\ x[2] \in Fields
    BY <2>0 DEF Members
  <2>2. Value(sc, x[1], x[2]) # Absent
    BY <2>0 DEF Sound, Voters
  <2>3. PICK v : p = Proposed("correct_outlier", x[1], x[2], Value(sc, x[1], x[2]), v, "", 6)
    BY <2>0
  <2>4. p.doc = x[1] /\ p.field = x[2]
    BY <2>3 DEF Proposed
  <2> QED BY <2>1, <2>2, <2>4 DEF Sourced
<1>7. CASE p \in TypeRepairs(sc, s)
  <2>1. PICK x \in Sites("type", sc, s) :
            p = Proposed("correct_value", x[1], x[2], Value(sc, x[1], x[2]),
                         Quoted[Value(sc, x[1], x[2])], "", 7)
    BY <1>7 DEF TypeRepairs
  <2>2. p.doc = x[1] /\ p.field = x[2]
    BY <2>1 DEF Proposed
  <2> QED BY <2>2, Replaces
<1> QED BY <1>1, <1>2, <1>3, <1>4, <1>5, <1>6, <1>7 DEF Analyze

\* The whole report of runFixAll (cmd/fix.go:261-286).
LEMMA ReportSourced ==
    ASSUME NEW sc, sc.valid \subseteq Docs, NEW pr, NEW p \in Report(sc, pr)
    PROVE  Sourced(sc, p)
<1>1. CASE \E s \in Groups(sc) : \E q \in Analyze(sc, s) : p = Later(q, 10 * Rank(sc, s))
  <2>0. PICK s \in Groups(sc) : \E q \in Analyze(sc, s) : p = Later(q, 10 * Rank(sc, s))
    BY <1>1
  <2>1. PICK q \in Analyze(sc, s) : p = Later(q, 10 * Rank(sc, s))
    BY <2>0
  <2>2. Sourced(sc, q)
    BY <2>1, AnalyzeSourced
  <2>3. p.doc = q.doc /\ p.field = q.field /\ p.to = q.to /\ p.type = q.type /\ p.source = q.source
    BY <2>1 DEF Later, Proposed
  <2> QED BY <2>2, <2>3 DEF Sourced, Applicable
<1>2. CASE \E s \in Groups(sc) : \E q \in PropagateAggregates(sc, s) :
               p = Later(q, 1000 + 10 * Rank(sc, s))
  <2>0. PICK s \in Groups(sc) : \E q \in PropagateAggregates(sc, s) : p = Later(q, 1000 + 10 * Rank(sc, s))
    BY <1>2
  <2>1. PICK q \in PropagateAggregates(sc, s) : p = Later(q, 1000 + 10 * Rank(sc, s))
    BY <2>0
  <2>2. PICK x \in Sites("aggregate", sc, s) :
            q = Proposed("propagate_aggregate", x[1], x[2], Value(sc, x[1], x[2]),
                         Derived(sc, x[1], x[2]), "", 8)
    BY <2>1 DEF PropagateAggregates
  <2>3. p.doc = x[1] /\ p.field = x[2]
    BY <2>1, <2>2 DEF Later, Proposed
  <2> QED BY <2>3, Replaces
<1> QED BY <1>1, <1>2 DEF Report

-----------------------------------------------------------------------------
(* The inductive invariant.  While fix --all applies, the in-memory records *)
(* hold in a field the scan found missing nothing, or a grounded value.     *)

Applying   == pc \in {"apply", "replace"}
DiskOfDocs == DOMAIN disk = Docs
QueueSourced == \A p \in queue : Sourced(scan, p)
MemoryGrounded ==
    /\ DOMAIN mem = Docs
    /\ ~fill => \A d \in Docs : \A f \in Fields :
          Value(scan, d, f) = Absent /\ mem[d][f] # Absent => Supported(scan, d, f, mem[d][f])
\* The text in hand has the file's own values or the record's, unless its author
\* has saved the document since it was read.
HandGrounded ==
    \A d \in Docs \ overtaken : InHand(d) =>
        \A f \in Fields : hand.text.fm[f] \in {disk[d].fm[f], mem[d][f]}
Prudent == DiskOfDocs /\ HandGrounded /\ (Applying => QueueSourced /\ MemoryGrounded)

LEMMA PrudentInit == Init => Prudent
BY TreesAssumption DEF Init, Prudent, DiskOfDocs, HandGrounded, InHand, Applying

\* runFixAll up to the loop over proposals (cmd/fix.go:198-290).
LEMMA PlanPrudent == ASSUME Prudent, Plan PROVE Prudent'
<1>1. scan'.valid \subseteq Docs /\ scan'.doc = disk /\ queue' = Report(scan', propagate)
    BY DEF Plan, ScanOf, Resolved
<1>2. QueueSourced'
    BY <1>1, ReportSourced DEF QueueSourced
<1>3. mem' = [d \in Docs |-> disk[d].fm]
    BY DEF Plan, Frontmatters
<1>4. \A d \in Docs : \A f \in Fields : mem'[d][f] = scan'.doc[d].fm[f]
    BY <1>1, <1>3
<1>5. MemoryGrounded'
    BY <1>3, <1>4 DEF MemoryGrounded, Value
<1> QED BY <1>2, <1>5 DEF Prudent, DiskOfDocs, HandGrounded, InHand, Plan

\* One proposal applied: what it leaves in the in-memory record, and in the file.
LEMMA CorrectedGrounded ==
    ASSUME Prudent, pc = "apply", ~fill, NEW p \in queue, ~Withheld(p),
           NEW d \in Docs, NEW f \in Fields,
           Value(scan, d, f) = Absent, Corrected(p)[d][f] # Absent
    PROVE  Supported(scan, d, f, Corrected(p)[d][f])
<1>1. QueueSourced /\ MemoryGrounded
    BY DEF Prudent, Applying
<1>2. p.doc \in Docs /\ p.field \in Fields /\ Sourced(scan, p) /\ Applicable(p)
    BY <1>1 DEF QueueSourced, Sourced, Withheld, Applicable
<1>3. CASE d # p.doc
  <2>1. Corrected(p)[d] = mem[d]
    BY <1>1, <1>3 DEF Corrected, MemoryGrounded
  <2> QED BY <1>1, <2>1 DEF MemoryGrounded
<1>4. CASE d = p.doc
  <2>1. Corrected(p)[d] = WithField(mem[d], p.field, p.to)
    BY <1>1, <1>4 DEF Corrected, MemoryGrounded
  <2>2. CASE f = p.field
    <3>1. Corrected(p)[d][f] = p.to
        BY <2>1, <2>2 DEF WithField
    <3> QED BY <1>2, <1>4, <2>2, <3>1 DEF Sourced
  <2>3. CASE f # p.field
    <3>1. Corrected(p)[d][f] = mem[d][f]
        BY <2>1, <2>3 DEF WithField
    <3> QED BY <1>1, <3>1 DEF MemoryGrounded
  <2> QED BY <2>2, <2>3
<1> QED BY <1>3, <1>4

\* The document as a rewrite leaves it: its own frontmatter, or the new one.
LEMMA RewrittenFm ==
    ASSUME NEW c, NEW fm, NEW f
    PROVE  Rewritten(c, fm).fm[f] \in {c.fm[f], fm[f]}
BY DEF Rewritten

LEMMA RewritePrudent == ASSUME Prudent, Rewrite PROVE Prudent'
<1>1. PICK p \in Due :
          /\ ~Withheld(p)
          /\ IF Result(p) # disk[p.doc]
             THEN /\ pc' = "replace" /\ mem' = Corrected(p)
                  /\ hand' = [proposal |-> p, text |-> Result(p)]
                  /\ UNCHANGED <<scan, queue>>
             ELSE Exit
    BY DEF Rewrite
<1>2. p \in queue /\ pc = "apply" /\ UNCHANGED <<disk, fill, overtaken>>
    BY <1>1 DEF Due, Rewrite, session, edited
<1>3. CASE Result(p) = disk[p.doc]
    BY <1>1, <1>2, <1>3 DEF Exit, Prudent, DiskOfDocs, HandGrounded, InHand, Applying
<1>4. CASE Result(p) # disk[p.doc]
  <2>1. mem' = Corrected(p) /\ hand' = [proposal |-> p, text |-> Result(p)] /\ UNCHANGED <<scan, queue>>
    BY <1>1, <1>4
  <2>2. hand'.proposal = p /\ hand'.text = Result(p)
    BY <2>1
  <2>3. QueueSourced'
    BY <1>2, <2>1 DEF Prudent, QueueSourced, Applying
  <2>4. DOMAIN mem' = Docs
    BY <1>2, <2>1 DEF Prudent, MemoryGrounded, Corrected, Applying
  <2>5. ~fill => \A d \in Docs : \A f \in Fields :
            Value(scan, d, f) = Absent /\ Corrected(p)[d][f] # Absent
                => Supported(scan, d, f, Corrected(p)[d][f])
    BY <1>1, <1>2, CorrectedGrounded
  <2>6. MemoryGrounded'
    BY <1>2, <2>1, <2>4, <2>5 DEF MemoryGrounded
  <2>7. ASSUME NEW f PROVE Result(p).fm[f] \in {disk[p.doc].fm[f], Corrected(p)[p.doc][f]}
    BY RewrittenFm DEF Result, WithLinks
  <2>8. HandGrounded'
    BY <1>2, <2>1, <2>2, <2>7 DEF HandGrounded, InHand
  <2> QED BY <1>2, <2>3, <2>6, <2>8 DEF Prudent, DiskOfDocs
<1> QED BY <1>3, <1>4

LEMMA ReplacePrudent == ASSUME Prudent, Replace PROVE Prudent'
<1>1. /\ pc = "replace" /\ pc' = "apply" /\ UNCHANGED <<fill, scan, mem>> /\ queue' \subseteq queue
      /\ \E c : disk' = [disk EXCEPT ![hand.proposal.doc] = c]
    BY DEF Replace, session
<1>2. QueueSourced'
    BY <1>1 DEF Prudent, QueueSourced, Applying
<1>3. MemoryGrounded'
    BY <1>1 DEF Prudent, MemoryGrounded, Applying
<1> QED BY <1>1, <1>2, <1>3 DEF Prudent, DiskOfDocs, HandGrounded, InHand

LEMMA PrudentNext == Prudent /\ [Next]_vars => Prudent'
<1> SUFFICES ASSUME Prudent, [Next]_vars PROVE Prudent'
    OBVIOUS
<1>1. CASE Plan
    BY <1>1, PlanPrudent
<1>2. CASE Rewrite \/ Replace
    BY <1>2, RewritePrudent, ReplacePrudent
<1>3. CASE Defer
  <2>1. queue' \subseteq queue /\ UNCHANGED <<disk, fill, pc, scan, mem>> /\ pc = "apply"
    BY <1>3 DEF Defer, session
  <2> QED BY <2>1 DEF Prudent, DiskOfDocs, QueueSourced, MemoryGrounded, HandGrounded, InHand, Applying
<1>4. CASE Preview \/ Emit
    BY <1>4 DEF Preview, Emit, Prudent, DiskOfDocs, HandGrounded, InHand, Applying
<1>5. CASE ApplyFails \/ EndNamed \/ FillFails \/ Kill
    BY <1>5 DEF ApplyFails, EndNamed, FillFails, Kill, Exit, Prudent, DiskOfDocs, HandGrounded, InHand, Applying
<1>6. CASE StartNamed
    BY <1>6 DEF StartNamed, Prudent, DiskOfDocs, HandGrounded, InHand, Applying
<1>7. CASE ReadFile
  <2>1. disk' = disk /\ pc' \notin {"apply", "replace"}
    BY <1>7 DEF ReadFile, Exit
  <2> QED BY <2>1 DEF Prudent, DiskOfDocs, HandGrounded, InHand, Applying
<1>8. CASE Truncate \/ Fill
    BY <1>8 DEF Truncate, Fill, Prudent, DiskOfDocs, HandGrounded, InHand, Applying
<1>9. CASE Edit
  <2>1. PICK e \in Edits : /\ disk' = [disk EXCEPT ![e[1]] = e[2]]
                           /\ overtaken' = IF InHand(e[1]) THEN overtaken \cup {e[1]} ELSE overtaken \ {e[1]}
    BY <1>9 DEF Edit
  <2>2. UNCHANGED <<fill, pc, scan, mem, queue, hand>>
    BY <1>9 DEF Edit, session, run
  <2>3. HandGrounded'
    <3> SUFFICES ASSUME NEW d \in Docs \ overtaken', InHand(d), NEW f \in Fields
                 PROVE  hand.text.fm[f] \in {disk'[d].fm[f], mem[d][f]}
      BY <2>2 DEF HandGrounded, InHand
    <3>1. d # e[1]
      BY <2>1
    <3>2. d \notin overtaken /\ disk'[d] = disk[d]
      BY <2>1, <3>1 DEF Prudent, DiskOfDocs
    <3> QED BY <3>2 DEF Prudent, HandGrounded
  <2> QED BY <2>1, <2>2, <2>3 DEF Prudent, DiskOfDocs, QueueSourced, MemoryGrounded, Applying
<1>10. CASE UNCHANGED vars
  <2>1. UNCHANGED <<disk, fill, pc, scan, mem, queue, hand, overtaken>>
    BY <1>10 DEF vars, session, run, edited
  <2> QED BY <2>1 DEF Prudent, DiskOfDocs, QueueSourced, MemoryGrounded, HandGrounded, InHand, Applying
<1> QED BY <1>1, <1>2, <1>3, <1>4, <1>5, <1>6, <1>7, <1>8, <1>9, <1>10
        DEF Next, FixAll, FixFile

-----------------------------------------------------------------------------
(* What a step writes.                                                     *)

\* WriteFileAtomic of a rewrite (internal/fix/fix.go:417-482) under --all.
LEMMA ReplaceInventsNothing ==
    ASSUME Prudent, Replace, ~fill, NEW d \in Docs \ overtaken, NEW f \in Fields,
           disk'[d].fm[f] \notin {disk[d].fm[f], Absent}, Value(scan, d, f) = Absent
    PROVE  Supported(scan, d, f, disk'[d].fm[f])
<1>1. pc = "replace" /\ disk' = [disk EXCEPT ![hand.proposal.doc] = hand.text]
    BY DEF Replace
<1>2. InHand(d) /\ disk'[d] = hand.text
    BY <1>1 DEF Prudent, DiskOfDocs, InHand
<1>3. disk'[d].fm[f] = mem[d][f] /\ mem[d][f] # Absent
    BY <1>2 DEF Prudent, HandGrounded
<1> QED BY <1>1, <1>3 DEF Prudent, MemoryGrounded, Applying

\* ApplyFixes (internal/fix/fix.go:119-158) leaves or fills from the schema.
LEMMA ApplyFixesGrounded ==
    ASSUME NEW sc, NEW d, NEW f \in Fields, Value(sc, d, f) = Absent,
           ApplyFixes(sc, d, FALSE)[f] # Absent
    PROVE  Supported(sc, d, f, ApplyFixes(sc, d, FALSE)[f])
<1> DEFINE s == sc.eff[d]
<1>1. ~Breaks("enum", sc, d, f)
    BY BreaksHasValue
<1>2. /\ ~IsEngineChosen(AddFieldValue(s, f)[2])
      /\ ApplyFixes(sc, d, FALSE)[f] = AddFieldValue(s, f)[1]
    BY <1>1 DEF ApplyFixes
<1>3. AddFieldValue(s, f)[1] = s.fields[f].default /\ s.fields[f].default # Blank
    BY <1>2 DEF AddFieldValue, IsEngineChosen
<1> QED BY <1>2, <1>3 DEF Supported, Grounded, Unmatched

\* os.WriteFile of the fixed text (cmd/fix.go:166).
LEMMA FillInventsNothing ==
    ASSUME Prudent, Fill, fill = FALSE, NEW d \in Docs, NEW f \in Fields,
           disk'[d].fm[f] \notin {disk[d].fm[f], Absent}, Value(scan, d, f) = Absent
    PROVE  Supported(scan, d, f, disk'[d].fm[f])
<1>1. d = Doc /\ disk'[d] = Rewritten(scan.doc[d], FixedFile)
    BY DEF Fill, Prudent, DiskOfDocs
<1>2. disk'[d].fm[f] \in {scan.doc[d].fm[f], FixedFile[f]}
    BY <1>1, RewrittenFm
<1>3. disk'[d].fm[f] = FixedFile[f]
    BY <1>2 DEF Value
<1>4. FixedFile = ApplyFixes(scan, d, FALSE)
    BY <1>1 DEF FixedFile
<1> QED BY <1>3, <1>4, ApplyFixesGrounded

Counted == fill \in BOOLEAN /\ faults \in Nat
LEMMA CountedAlways == Init /\ [][Next]_vars => []Counted
<1>1. Init => Counted
    BY DEF Init, Counted
<1>2. Counted /\ [Next]_vars => Counted'
  <2>1. [Next]_vars => fill' = fill /\ faults' \in {faults, faults + 1}
    BY DEF Next, FixAll, FixFile, Plan, Preview, Defer, Rewrite, Replace, ApplyFails, Emit, StartNamed,
           ReadFile, EndNamed, Truncate, Fill, FillFails, Kill, Edit, session, vars
  <2> QED BY <2>1 DEF Counted
<1> QED BY <1>1, <1>2, PTL

\* One step of either command.
LEMMA StepInventsNothing ==
    ASSUME Prudent, Counted, [Next]_vars, ~fill,
           NEW d \in Docs \ overtaken, NEW f \in Fields, Fills(d, f, disk'[d].fm[f])
    PROVE  Supported(scan, d, f, disk'[d].fm[f])
<1>1. /\ faults' = faults /\ Value(scan, d, f) = Absent
      /\ disk'[d].fm[f] \notin {disk[d].fm[f], Absent}
    BY DEF Fills
<1>2. CASE Replace
    BY <1>1, <1>2, ReplaceInventsNothing
<1>3. CASE Fill
    BY <1>1, <1>3, FillInventsNothing DEF Counted
<1>4. ~Truncate
  <2>1. Truncate => disk'[d].fm[f] \in {disk[d].fm[f], Absent}
    BY DEF Truncate, Emptied, Prudent, DiskOfDocs
  <2> QED BY <1>1, <2>1
<1>5. Next => disk' = disk \/ Replace \/ Fill \/ Truncate \/ Edit
    BY DEF Next, FixAll, FixFile, Plan, Preview, Defer, Rewrite, ApplyFails, Emit, StartNamed,
           ReadFile, EndNamed, FillFails, Kill, Exit
<1>6. ~Edit
    BY <1>1 DEF Edit, Counted
<1> QED BY <1>1, <1>2, <1>3, <1>4, <1>5, <1>6 DEF vars

\* detectAddField's gate and detectExtractBody (proposal.go:481-614), ApplyFixes'
\* gate (internal/fix/fix.go:55-61, 119-158), for every tree and schema: without
\* --fill-missing no command gives a missing field a value but the default the
\* schema declares, the one the document's text gives, one that two siblings carry,
\* or "" where that text names no member of the enum (Unmatched).
THEOREM FixInventsNothing == Spec => NothingInvented
<1>1. Spec => [](Prudent /\ Counted)
    BY PrudentInit, PrudentNext, CountedAlways, PTL DEF Spec
<1>2. Prudent /\ Counted /\ [Next]_vars =>
        [~fill =>
            \A d \in Docs \ overtaken : \A f \in Fields :
                Fills(d, f, disk'[d].fm[f]) => Supported(scan, d, f, disk'[d].fm[f])]_vars
    BY StepInventsNothing
<1> QED BY <1>1, <1>2, PTL DEF Spec, NothingInvented, Supported

-----------------------------------------------------------------------------
(* The report: every proposal is for a document of the scan whose schema    *)
(* resolved, and proposes another value than the one scanned.               *)

Sane(sc) ==
    /\ sc.valid \subseteq Docs
    /\ \A d \in Docs : IsDocument(sc.doc[d])
    /\ \A d \in sc.valid : IsSchema(sc.eff[d])

\* q is made for a document of group s, and changes what it scanned.
Changing(sc, s, q) ==
    /\ q.doc \in sc.valid /\ sc.eff[q.doc] = s /\ q.field \in Fields
    /\ q.to # Value(sc, q.doc, q.field)

LEMMA ClosestIn ==
    ASSUME NEW v, NEW candidates, v \notin candidates
    PROVE  Closest(v, candidates) = Blank \/ Closest(v, candidates) \in candidates
BY DEF Closest

LEMMA ClosestOr ==
    ASSUME NEW v, NEW candidates
    PROVE  Closest(v, candidates) = Blank \/ Closest(v, candidates) \in candidates
BY ClosestIn DEF Closest

\* The members of Sites are documents of the group and fields that break the rule.
LEMMA SiteOf ==
    ASSUME NEW sc, NEW s, NEW rule, NEW x \in Sites(rule, sc, s)
    PROVE  x[1] \in sc.valid /\ sc.eff[x[1]] = s /\ x[2] \in Fields /\ Breaks(rule, sc, x[1], x[2])
BY DEF Sites, Members

LEMMA EnumSite ==
    ASSUME NEW sc, NEW s, NEW x \in Sites("enum", sc, s)
    PROVE  Value(sc, x[1], x[2]) \notin Allowed(s, x[2])
BY SiteOf DEF Breaks

LEMMA RequiredSite ==
    ASSUME NEW sc, NEW s, NEW x \in Sites("required", sc, s)
    PROVE  Value(sc, x[1], x[2]) = Absent
BY SiteOf DEF Breaks

LEMMA FromBodyThere ==
    ASSUME NEW sc, Sane(sc), NEW d \in sc.valid, NEW f \in Fields, sc.doc[d].body[f] # Absent
    PROVE  FromBody(sc, sc.eff[d], d, f) # Absent
<1>1. d \in Docs /\ IsDocument(sc.doc[d]) /\ IsSchema(sc.eff[d])
  BY DEF Sane
<1>2. Canonical[sc.doc[d].body[f]] # Absent
  BY <1>1, ValuesAssumption DEF IsDocument
<1>3. Absent \notin Allowed(sc.eff[d], f) /\ Absent # Blank
  BY <1>1, ValuesAssumption DEF IsSchema
<1>4. Closest(Canonical[sc.doc[d].body[f]], Allowed(sc.eff[d], f)) # Absent
  BY <1>3, ClosestOr
<1> QED BY <1>2, <1>4 DEF FromBody

LEMMA AddFieldThere ==
    ASSUME NEW s, IsSchema(s), NEW f \in Fields
    PROVE  AddFieldValue(s, f)[1] # Absent
<1>1. s.fields[f].default # Absent /\ Absent # Blank /\ Absent \notin Allowed(s, f)
      /\ s.fields[f].values \in Seq(Allowed(s, f))
  BY ValuesAssumption DEF IsSchema
<1>2. s.fields[f].values # <<>> => s.fields[f].values[1] # Absent
  BY <1>1
<1> QED BY <1>1, <1>2 DEF AddFieldValue

\* proposal.Analyze, detector by detector, and proposal.PropagateAggregates.
LEMMA MigrateChanges ==
    ASSUME NEW sc, NEW s, NEW q \in MigrateValues(sc, s)
    PROVE  Changing(sc, s, q) /\ q.type = "migrate_value"
<1>1. PICK x \in Misfits(sc, s) :
          /\ Value(sc, x[1], x[2]) \in Structured
          /\ q = Proposed("migrate_value", x[1], x[2], Value(sc, x[1], x[2]),
                          MigratedTo(Value(sc, x[1], x[2]), s, x[2]), "", 1)
  BY DEF MigrateValues
<1>2. x \in Sites("enum", sc, s)
  BY DEF Misfits
<1>3. q.doc = x[1] /\ q.field = x[2] /\ q.to = MigratedTo(Value(sc, x[1], x[2]), s, x[2])
      /\ q.type = "migrate_value"
  BY <1>1 DEF Proposed
<1>4. Base[Value(sc, x[1], x[2])] # Value(sc, x[1], x[2])
  BY <1>1, ValuesAssumption DEF Structured
<1>5. MigratedTo(Value(sc, x[1], x[2]), s, x[2]) # Value(sc, x[1], x[2])
  BY <1>2, <1>4, EnumSite, ClosestOr DEF MigratedTo
<1> QED BY <1>2, <1>3, <1>5, SiteOf DEF Changing

LEMMA CorrectChanges ==
    ASSUME NEW sc, NEW s, NEW q \in CorrectValues(sc, s)
    PROVE  Changing(sc, s, q) /\ q.type = "correct_value"
<1>1. PICK x \in Misfits(sc, s) :
          /\ Closest(Value(sc, x[1], x[2]), Allowed(s, x[2])) # Blank
          /\ q = Proposed("correct_value", x[1], x[2], Value(sc, x[1], x[2]),
                          Closest(Value(sc, x[1], x[2]), Allowed(s, x[2])), "", 2)
  BY DEF CorrectValues
<1>2. x \in Sites("enum", sc, s)
  BY DEF Misfits
<1>3. q.doc = x[1] /\ q.field = x[2] /\ q.to = Closest(Value(sc, x[1], x[2]), Allowed(s, x[2]))
      /\ q.type = "correct_value"
  BY <1>1 DEF Proposed
<1>4. Closest(Value(sc, x[1], x[2]), Allowed(s, x[2])) # Value(sc, x[1], x[2])
  BY <1>1, <1>2, EnumSite, ClosestIn
<1> QED BY <1>2, <1>3, <1>4, SiteOf DEF Changing

LEMMA ExtractChanges ==
    ASSUME NEW sc, Sane(sc), NEW s, NEW q \in ExtractBodies(sc, s)
    PROVE  Changing(sc, s, q) /\ q.type = "extract_body"
<1>1. PICK x \in Sites("required", sc, s) :
          /\ sc.doc[x[1]].body[x[2]] # Absent
          /\ q = Proposed("extract_body", x[1], x[2], sc.doc[x[1]].body[x[2]],
                          FromBody(sc, s, x[1], x[2]), "", 3)
  BY DEF ExtractBodies
<1>2. q.doc = x[1] /\ q.field = x[2] /\ q.to = FromBody(sc, s, x[1], x[2]) /\ q.type = "extract_body"
  BY <1>1 DEF Proposed
<1>3. FromBody(sc, s, x[1], x[2]) # Absent
  <2>0. x \in Sites("required", sc, s)
    BY <1>1
  <2>1. x[1] \in sc.valid /\ x[2] \in Fields /\ sc.eff[x[1]] = s
    BY <2>0, SiteOf
  <2> QED BY <1>1, <2>1, FromBodyThere
<1> QED BY <1>2, <1>3, SiteOf, RequiredSite DEF Changing

LEMMA InferChanges ==
    ASSUME NEW sc, NEW s, NEW q \in InferFromSiblings(sc, s)
    PROVE  Changing(sc, s, q) /\ q.type = "infer_from_siblings"
<1>1. PICK x \in Sites("required", sc, s) :
          \E v \in Majority(sc, Voters(sc, s, x[1], x[2]), x[2]) :
              q = Proposed("infer_from_siblings", x[1], x[2], "", v, "", 4)
  BY DEF InferFromSiblings
<1>2. PICK v \in Majority(sc, Voters(sc, s, x[1], x[2]), x[2]) :
          q = Proposed("infer_from_siblings", x[1], x[2], "", v, "", 4)
  BY <1>1
<1>3. q.doc = x[1] /\ q.field = x[2] /\ q.to = v /\ q.type = "infer_from_siblings"
  BY <1>2 DEF Proposed
<1>4. PICK e \in Voters(sc, s, x[1], x[2]) : v = Value(sc, e, x[2])
  BY <1>2 DEF Majority
<1>5. v # Absent
  BY <1>4 DEF Voters
<1> QED BY <1>3, <1>5, SiteOf, RequiredSite DEF Changing

LEMMA AddChanges ==
    ASSUME NEW sc, Sane(sc), NEW s, NEW q \in AddFields(sc, s)
    PROVE  /\ Changing(sc, s, q) /\ q.type = "add_field"
           /\ Value(sc, q.doc, q.field) = Absent
           /\ q.source = AddFieldValue(s, q.field)[2]
           /\ <<q.doc, q.field>> \notin Keys(ExtractBodies(sc, s) \cup InferFromSiblings(sc, s))
<1>1. PICK x \in Sites("required", sc, s) \ Keys(ExtractBodies(sc, s) \cup InferFromSiblings(sc, s)) :
          q = Proposed("add_field", x[1], x[2], "", AddFieldValue(s, x[2])[1],
                       AddFieldValue(s, x[2])[2], 5)
  BY DEF AddFields
<1>2. q.doc = x[1] /\ q.field = x[2] /\ q.to = AddFieldValue(s, x[2])[1] /\ q.type = "add_field"
      /\ q.source = AddFieldValue(s, x[2])[2]
  BY <1>1 DEF Proposed
<1>3. x = <<x[1], x[2]>>
  BY DEF Sites
<1>4. /\ x[1] \in sc.valid /\ sc.eff[x[1]] = s /\ x[2] \in Fields
      /\ Value(sc, x[1], x[2]) = Absent
  <2>1. x \in Sites("required", sc, s)
    BY <1>1
  <2> QED BY <2>1, SiteOf, RequiredSite
<1>5. AddFieldValue(s, x[2])[1] # Absent
  BY <1>4, AddFieldThere DEF Sane
<1>6. <<q.doc, q.field>> = x
  BY <1>2, <1>3
<1> QED BY <1>1, <1>2, <1>4, <1>5, <1>6 DEF Changing

LEMMA OutlierChanges ==
    ASSUME NEW sc, NEW s, NEW q \in OutlierValues(sc, s)
    PROVE  /\ Changing(sc, s, q) /\ q.type = "correct_outlier"
           /\ Value(sc, q.doc, q.field) # Absent
<1>1. PICK x \in Members(sc, s) \X Fields :
          /\ x[1] \in Sound(sc, s, x[1], x[2])
          /\ \E v \in Dissents(sc, s, x[1], x[2]) :
                q = Proposed("correct_outlier", x[1], x[2], Value(sc, x[1], x[2]), v, "", 6)
  BY DEF OutlierValues
<1>2. PICK v \in Dissents(sc, s, x[1], x[2]) :
          q = Proposed("correct_outlier", x[1], x[2], Value(sc, x[1], x[2]), v, "", 6)
  BY <1>1
<1>3. q.doc = x[1] /\ q.field = x[2] /\ q.to = v /\ q.type = "correct_outlier"
  BY <1>2 DEF Proposed
<1>4. v # Value(sc, x[1], x[2]) /\ x[1] \in sc.valid /\ sc.eff[x[1]] = s /\ x[2] \in Fields
  BY <1>2 DEF Dissents, Members
<1>5. Value(sc, x[1], x[2]) # Absent
  BY <1>1 DEF Sound, Voters
<1> QED BY <1>3, <1>4, <1>5 DEF Changing

LEMMA TypeChanges ==
    ASSUME NEW sc, NEW s, NEW q \in TypeRepairs(sc, s)
    PROVE  /\ Changing(sc, s, q) /\ q.type = "correct_value"
           /\ Value(sc, q.doc, q.field) # Absent
<1>1. PICK x \in Sites("type", sc, s) :
          q = Proposed("correct_value", x[1], x[2], Value(sc, x[1], x[2]),
                       Quoted[Value(sc, x[1], x[2])], "", 7)
  BY DEF TypeRepairs
<1>2. q.doc = x[1] /\ q.field = x[2] /\ q.to = Quoted[Value(sc, x[1], x[2])]
      /\ q.type = "correct_value"
  BY <1>1 DEF Proposed
<1>3. Value(sc, x[1], x[2]) \in DOMAIN Quoted
  BY SiteOf DEF Breaks, Natives
<1> QED BY <1>2, <1>3, SiteOf, ValuesAssumption DEF Changing

LEMMA PropagateChanges ==
    ASSUME NEW sc, NEW s, NEW q \in PropagateAggregates(sc, s)
    PROVE  /\ Changing(sc, s, q) /\ q.type = "propagate_aggregate"
           /\ Value(sc, q.doc, q.field) # Absent
<1>1. PICK x \in Sites("aggregate", sc, s) :
          q = Proposed("propagate_aggregate", x[1], x[2], Value(sc, x[1], x[2]),
                       Derived(sc, x[1], x[2]), "", 8)
  BY DEF PropagateAggregates
<1>2. q.doc = x[1] /\ q.field = x[2] /\ q.to = Derived(sc, x[1], x[2])
      /\ q.type = "propagate_aggregate"
  BY <1>1 DEF Proposed
<1>3. Derived(sc, x[1], x[2]) # Value(sc, x[1], x[2]) /\ Value(sc, x[1], x[2]) # Absent
  BY SiteOf DEF Breaks
<1> QED BY <1>2, <1>3, SiteOf DEF Changing

LEMMA AnalyzeChanges ==
    ASSUME NEW sc, Sane(sc), NEW s, NEW q \in Analyze(sc, s) \cup PropagateAggregates(sc, s)
    PROVE  /\ Changing(sc, s, q)
           /\ Value(sc, q.doc, q.field) = Absent =>
                \/ q \in AddFields(sc, s)
                \/ <<q.doc, q.field>> \in Keys(ExtractBodies(sc, s) \cup InferFromSiblings(sc, s))
<1>1. CASE q \in MigrateValues(sc, s) \/ q \in CorrectValues(sc, s)
  <2>0. PICK x \in Misfits(sc, s) : \E type, to, turn :
            q = Proposed(type, x[1], x[2], Value(sc, x[1], x[2]), to, "", turn)
    BY <1>1 DEF MigrateValues, CorrectValues
  <2>1. x \in Sites("enum", sc, s) /\ q.doc = x[1] /\ q.field = x[2]
    <3>1. PICK type, to, turn : q = Proposed(type, x[1], x[2], Value(sc, x[1], x[2]), to, "", turn)
      BY <2>0
    <3>2. x \in Sites("enum", sc, s)
      BY DEF Misfits
    <3> QED BY <3>1, <3>2 DEF Proposed
  <2>2. Value(sc, q.doc, q.field) # Absent
    BY <2>1, SiteOf, BreaksHasValue
  <2> QED BY <1>1, <2>2, MigrateChanges, CorrectChanges
<1>2. CASE q \in ExtractBodies(sc, s) \/ q \in InferFromSiblings(sc, s)
  BY <1>2, ExtractChanges, InferChanges DEF Keys
<1>3. CASE q \in AddFields(sc, s)
  BY <1>3, AddChanges
<1>4. CASE q \in OutlierValues(sc, s) \/ q \in TypeRepairs(sc, s) \/ q \in PropagateAggregates(sc, s)
  BY <1>4, OutlierChanges, TypeChanges, PropagateChanges
<1> QED BY <1>1, <1>2, <1>3, <1>4 DEF Analyze

LEMMA ReportParts ==
    ASSUME NEW sc, NEW pr, NEW p \in Report(sc, pr)
    PROVE  \E s \in Groups(sc) : \E q \in Analyze(sc, s) \cup PropagateAggregates(sc, s) :
              /\ p.doc = q.doc /\ p.field = q.field /\ p.to = q.to
              /\ p.type = q.type /\ p.source = q.source /\ p.from = q.from
BY DEF Report, Later, Proposed

\* A report proposes another value than the one scanned.
LEMMA ReportChanges ==
    ASSUME NEW sc, Sane(sc), NEW pr, NEW p \in Report(sc, pr)
    PROVE  p.doc \in sc.valid /\ p.field \in Fields /\ p.to # Value(sc, p.doc, p.field)
<1>1. PICK s \in Groups(sc) : \E q \in Analyze(sc, s) \cup PropagateAggregates(sc, s) :
          p.doc = q.doc /\ p.field = q.field /\ p.to = q.to
  BY ReportParts
<1>2. PICK q \in Analyze(sc, s) \cup PropagateAggregates(sc, s) :
          p.doc = q.doc /\ p.field = q.field /\ p.to = q.to
  BY <1>1
<1>3. Changing(sc, s, q)
  BY AnalyzeChanges
<1> QED BY <1>2, <1>3 DEF Changing

\* A missing field gets no value from elsewhere in a report that proposes an
\* engine-chosen one for it.
ByEngine(p) == p.type = "add_field" /\ IsEngineChosen(p.source)

LEMMA EngineAlone ==
    ASSUME NEW sc, Sane(sc), NEW pr, NEW p \in Report(sc, pr), ByEngine(p),
           NEW o \in Report(sc, pr), o.doc = p.doc, o.field = p.field
    PROVE  Value(sc, p.doc, p.field) = Absent /\ ByEngine(o)
<1>1. PICK s \in Groups(sc) : \E q \in Analyze(sc, s) \cup PropagateAggregates(sc, s) :
          p.doc = q.doc /\ p.field = q.field /\ p.type = q.type /\ p.source = q.source
  BY ReportParts
<1>2. PICK q \in Analyze(sc, s) \cup PropagateAggregates(sc, s) :
          p.doc = q.doc /\ p.field = q.field /\ p.type = q.type /\ p.source = q.source
  BY <1>1
<1>3. q \in AddFields(sc, s)
  BY <1>2, MigrateChanges, CorrectChanges, ExtractChanges, InferChanges, OutlierChanges, TypeChanges,
     PropagateChanges DEF ByEngine, Analyze
<1>4. PICK r \in Groups(sc) : \E n \in Analyze(sc, r) \cup PropagateAggregates(sc, r) :
          o.doc = n.doc /\ o.field = n.field /\ o.type = n.type /\ o.source = n.source
  BY ReportParts
<1>5. PICK n \in Analyze(sc, r) \cup PropagateAggregates(sc, r) :
          o.doc = n.doc /\ o.field = n.field /\ o.type = n.type /\ o.source = n.source
  BY <1>4
<1>6. Changing(sc, s, q) /\ Changing(sc, r, n)
  BY AnalyzeChanges
<1>7. r = s /\ n.doc = q.doc /\ n.field = q.field
  BY <1>2, <1>5, <1>6 DEF Changing
<1>8. /\ Value(sc, q.doc, q.field) = Absent /\ q.source = AddFieldValue(s, q.field)[2]
      /\ <<q.doc, q.field>> \notin Keys(ExtractBodies(sc, s) \cup InferFromSiblings(sc, s))
  BY <1>3, AddChanges
<1>9. n \in AddFields(sc, s)
  BY <1>7, <1>8, AnalyzeChanges
<1>10. n.type = "add_field" /\ n.source = AddFieldValue(s, n.field)[2]
  BY <1>9, AddChanges
<1> QED BY <1>2, <1>5, <1>7, <1>8, <1>10 DEF ByEngine

-----------------------------------------------------------------------------
(* What the apply loop has made of the documents so far.                    *)

Documents == \A d \in Docs : IsDocument(disk[d]) /\ (eff[d] # Broken => IsSchema(eff[d]))

\* The documents, what is applied and what is left once the rewrite in hand has
\* reached its file.
Handled == IF pc = "replace" THEN {hand.proposal} ELSE {}
Done    == applied \cup Handled
Left    == queue \ Handled
Coming  == [d \in Docs |-> IF InHand(d) THEN hand.text ELSE disk[d]]

\* A document nobody edited since the scan: what has been applied to it, its
\* record and its content.
FollowedBy(d, c, done) ==
    /\ c.closed = scan.doc[d].closed
    /\ scan.doc[d].links \subseteq c.links
    /\ (\A p \in done : p.doc # d) => c = scan.doc[d]
    /\ c.closed => c.fm = mem[d]
    /\ ~c.closed => /\ c.fm = scan.doc[d].fm
                    /\ (\E p \in done : p.doc = d) => c.links # scan.doc[d].links
    /\ \A f \in Fields :
          IF \E p \in done : p.doc = d /\ p.field = f
          THEN mem[d][f] # Value(scan, d, f) ELSE mem[d][f] = Value(scan, d, f)
Followed(d) == FollowedBy(d, Coming[d], Done)

Following ==
    /\ scan = [doc |-> scan.doc, eff |-> eff, valid |-> Resolved] /\ Sane(scan)
    /\ Left \cup Done \cup skipped \subseteq Report(scan, propagate)
    /\ \A p \in skipped : ByEngine(p) /\ ~fill
    /\ \A p \in Done : ~Withheld(p)
    /\ \A d \in Docs \ disturbed : Followed(d)
    /\ \A d \in Docs : IsDocument(Coming[d])

\* With nothing in hand, it is what there is.
LEMMA NothingInHand ==
    ASSUME DiskOfDocs, pc # "replace"
    PROVE  (\A d \in Docs : Coming[d] = disk[d]) /\ Done = applied /\ Left = queue /\ ~\E d : InHand(d)
BY DEF DiskOfDocs, Coming, Done, Left, Handled, InHand

RowsTell ==
    /\ \A d \in Docs \ disturbed : d \in batch.fixed <=> disk[d] # scan.doc[d]
    /\ \A p \in batch.skipped : p.doc \notin disturbed => disk[p.doc].fm[p.field] = Absent
    /\ batch.fixed \subseteq Resolved

Telling ==
    /\ DiskOfDocs /\ Documents
    /\ pc # "idle" => batch = None
    /\ Applying => DOMAIN mem = Docs /\ Following
    /\ pc \in {"truncate", "fill"} => \A d \in Docs : IsDocument(scan.doc[d])
    /\ batch # None /\ ~batch.dry => RowsTell

\* runFixAll reads every document and proposes; nothing is applied yet.
LEMMA PlanTelling == ASSUME Telling, Plan PROVE Telling'
<1>1. /\ scan' = [doc |-> disk, eff |-> eff, valid |-> Resolved]
      /\ queue' = Report(scan', propagate) /\ applied' = {} /\ skipped' = {}
      /\ UNCHANGED <<disk, eff, propagate, fill>> /\ batch' = None
      /\ mem' = [d \in Docs |-> disk[d].fm]
  BY DEF Plan, ScanOf, Frontmatters, session
<1>2. Resolved' = Resolved /\ Resolved \subseteq Docs
  BY <1>1 DEF Resolved
<1>3. Sane(scan')
  BY <1>1 DEF Sane, Telling, Documents, Resolved
<1>a. /\ \A d \in Docs : Coming'[d] = disk[d]
      /\ Done' = {} /\ Left' = queue'
  <2>1. pc' # "replace"
    BY DEF Plan
  <2> QED BY <1>1, <2>1 DEF Coming, Done, Left, Handled, InHand
<1>4. \A d \in Docs : Followed(d)'
  BY <1>1, <1>a DEF Followed, FollowedBy, Value
<1>5. Following'
  <2>1. \A d \in Docs : IsDocument(Coming'[d])
    BY <1>a DEF Telling, Documents
  <2> QED BY <1>1, <1>2, <1>3, <1>4, <1>a, <2>1 DEF Following
<1> QED BY <1>1, <1>5 DEF Telling, DiskOfDocs, Documents

\* One proposal taken in hand for a document nobody edited: content and done are
\* what there will be.
LEMMA RewriteFollowed ==
    ASSUME Telling, pc = "apply", NEW p \in Due, ~Withheld(p), Result(p) # disk[p.doc],
           mem' = Corrected(p), scan' = scan,
           NEW d \in Docs \ disturbed, NEW content, NEW done,
           content = (IF d = p.doc THEN Result(p) ELSE disk[d]), done = applied \cup {p}
    PROVE  FollowedBy(d, content, done)'
<1>1. /\ FollowedBy(d, disk[d], applied) /\ DOMAIN mem = Docs /\ DOMAIN disk = Docs
      /\ IsDocument(disk[d])
  BY NothingInHand DEF Telling, Following, DiskOfDocs, Documents, Followed, Applying
<1>2. p \in Report(scan, propagate) /\ Sane(scan)
  BY NothingInHand DEF Due, Telling, Following, Applying
<1>3. p.doc \in Docs /\ p.field \in Fields /\ p.to # Value(scan, p.doc, p.field)
  BY <1>2, ReportChanges DEF Sane
<1>4. CASE d # p.doc
  <2>1. content = disk[d] /\ mem'[d] = mem[d]
    BY <1>1, <1>4 DEF Corrected
  <2>2. \A q \in done : q.doc = d => q \in applied
    BY <1>4
  <2> QED BY <1>1, <2>1, <2>2 DEF FollowedBy, Value
<1>5. CASE d = p.doc
  <2>1. content = Result(p) /\ mem'[d] = Corrected(p)[d] /\ Corrected(p)[d] = WithField(mem[d], p.field, p.to)
    BY <1>1, <1>3, <1>5 DEF Corrected
  <2>2. \A f \in Fields : mem'[d][f] = IF f = p.field THEN p.to ELSE mem[d][f]
    BY <2>1 DEF WithField
  <2>3. \A f \in Fields :
           IF \E q \in done : q.doc = d /\ q.field = f
           THEN mem'[d][f] # Value(scan, d, f) ELSE mem'[d][f] = Value(scan, d, f)
    <3> SUFFICES ASSUME NEW f \in Fields
                 PROVE  IF \E q \in done : q.doc = d /\ q.field = f
                        THEN mem'[d][f] # Value(scan, d, f) ELSE mem'[d][f] = Value(scan, d, f)
      OBVIOUS
    <3>1. CASE f = p.field
      BY <1>3, <1>5, <2>2, <3>1
    <3>2. CASE f # p.field
      <4>1. (\E q \in done : q.doc = d /\ q.field = f) <=> \E q \in applied : q.doc = d /\ q.field = f
        BY <3>2
      <4> QED BY <1>1, <2>2, <3>2, <4>1 DEF FollowedBy
    <3> QED BY <3>1, <3>2
  <2>4. ~\A q \in done : q.doc # d
    BY <1>5
  <2>5. CASE disk[d].closed
    <3>1. PICK new : new = Rewritten(disk[d], mem'[d])
      OBVIOUS
    <3>2. new.fm = mem'[d] /\ new.links = disk[d].links /\ new.closed = TRUE
      BY <2>5, <3>1 DEF Rewritten
    <3>3. content = new \/ content = WithLinks(new, {p.from})
      BY <1>5, <2>1, <3>1 DEF Result
    <3>4. content.fm = mem'[d] /\ content.closed = TRUE /\ disk[d].links \subseteq content.links
      BY <3>2, <3>3 DEF WithLinks
    <3>5. disk[d].closed = TRUE
      BY <1>1, <2>5 DEF IsDocument
    <3>6. scan.doc[d].closed = TRUE /\ scan.doc[d].links \subseteq content.links
      BY <1>1, <3>4, <3>5 DEF FollowedBy
    <3> QED BY <2>3, <2>4, <3>4, <3>6 DEF FollowedBy, Value
  <2>6. CASE ~disk[d].closed
    <3>1. Rewritten(disk[d], Corrected(p)[d]) = disk[d]
      BY <2>6 DEF Rewritten
    <3>2. content = WithLinks(disk[d], {p.from})
      BY <1>5, <2>1, <3>1 DEF Result
    <3>3. /\ content.fm = disk[d].fm /\ content.closed = disk[d].closed
          /\ content.links = disk[d].links \cup {p.from}
      BY <3>2 DEF WithLinks
    <3>4. p.from \notin disk[d].links
      <4>1. SUFFICES ASSUME p.from \in disk[d].links PROVE FALSE
        OBVIOUS
      <4>2. disk[d].links \cup {p.from} = disk[d].links
        BY <4>1
      <4>3. content = disk[d]
        BY <1>1, <3>2, <4>2 DEF WithLinks, IsDocument
      <4> QED BY <1>5, <2>1, <4>3
    <3>5. content.links # scan.doc[d].links /\ scan.doc[d].links \subseteq content.links
      BY <1>1, <3>3, <3>4 DEF FollowedBy
    <3> QED BY <1>1, <2>3, <2>4, <2>6, <3>3, <3>5 DEF FollowedBy, Value
  <2> QED BY <2>5, <2>6
<1> QED BY <1>4, <1>5

LEMMA RewrittenIsDocument ==
    ASSUME NEW c, IsDocument(c), NEW fm, NEW vs
    PROVE  IsDocument(Rewritten(c, fm)) /\ IsDocument(WithLinks(Rewritten(c, fm), vs))
<1>1. \A x, y : LET r == [fm |-> x, body |-> c.body, links |-> y, closed |-> c.closed] IN IsDocument(r)
  BY DEF IsDocument
<1>2. CASE c.closed
  <2>1. c.closed = TRUE
    BY <1>2 DEF IsDocument
  <2> QED BY <1>1, <1>2, <2>1 DEF Rewritten, WithLinks
<1>3. CASE ~c.closed
  BY <1>1, <1>3 DEF Rewritten, WithLinks
<1> QED BY <1>2, <1>3

LEMMA RewriteTelling == ASSUME Telling, Rewrite PROVE Telling'
<1>1. PICK p \in Due :
          /\ ~Withheld(p)
          /\ IF Result(p) # disk[p.doc]
             THEN /\ pc' = "replace" /\ mem' = Corrected(p)
                  /\ hand' = [proposal |-> p, text |-> Result(p)]
                  /\ UNCHANGED <<scan, queue, applied, skipped, files, batch>>
             ELSE Exit
  BY DEF Rewrite
<1>2. pc = "apply" /\ UNCHANGED <<disk, eff, propagate, fill, disturbed>> /\ batch = None
      /\ Resolved' = Resolved
  BY DEF Rewrite, session, edited, Telling, Resolved
<1>3. CASE Result(p) = disk[p.doc]
  BY <1>1, <1>2, <1>3 DEF Exit, Telling, DiskOfDocs, Documents, Applying
<1>4. CASE Result(p) # disk[p.doc]
  <2>1. /\ mem' = Corrected(p) /\ hand' = [proposal |-> p, text |-> Result(p)] /\ pc' = "replace"
        /\ UNCHANGED <<scan, queue, applied, skipped, batch>>
    BY <1>1, <1>4
  <2>2. p \in queue /\ Following /\ DOMAIN mem = Docs /\ Left = queue /\ Done = applied
    BY <1>1, <1>2, NothingInHand DEF Due, Telling, Applying
  <2>3. hand'.proposal = p /\ hand'.text = Result(p)
    BY <2>1
  <2>4. p.doc \in Docs
    BY <2>2, ReportChanges DEF Following, Sane
  <2>5. IsDocument(Result(p))
    BY <2>4, RewrittenIsDocument DEF Telling, Documents, Result
  <2>6. /\ \A d \in Docs : Coming'[d] = IF d = p.doc THEN Result(p) ELSE disk[d]
        /\ Done' = applied \cup {p} /\ Left' = queue \ {p}
    BY <1>2, <2>1, <2>3 DEF Coming, Done, Left, Handled, InHand
  <2>7. \A d \in Docs \ disturbed' : Followed(d)'
    <3> SUFFICES ASSUME NEW d \in Docs \ disturbed PROVE FollowedBy(d, Coming[d], Done)'
      BY <1>2 DEF Followed
    <3>1. PICK content, done : /\ content = Coming'[d] /\ done = Done'
                               /\ content = (IF d = p.doc THEN Result(p) ELSE disk[d])
                               /\ done = applied \cup {p}
      BY <2>6
    <3>2. FollowedBy(d, content, done)'
      BY <1>1, <1>2, <1>4, <2>1, <3>1, RewriteFollowed
    <3> QED BY <3>1, <3>2 DEF FollowedBy
  <2>8. Left' \cup Done' \cup skipped' = Left \cup Done \cup skipped
    BY <2>1, <2>2, <2>6
  <2>9. \A q \in Done' : ~Withheld(q)'
    BY <1>1, <1>2, <2>2, <2>6 DEF Following, Withheld
  <2>10. \A d \in Docs : IsDocument(Coming'[d])
    BY <2>5, <2>6 DEF Telling, Documents
  <2>11. Following'
    BY <1>2, <2>1, <2>2, <2>7, <2>8, <2>9, <2>10 DEF Following
  <2>12. DOMAIN mem' = Docs
    BY <2>1, <2>2 DEF Corrected
  <2> QED BY <1>2, <2>1, <2>11, <2>12 DEF Telling, DiskOfDocs, Documents
<1> QED BY <1>3, <1>4

\* Nothing that a rewrite takes in hand changes with its replacement.
LEMMA ReplaceComes ==
    ASSUME DiskOfDocs, Replace
    PROVE  /\ \A d \in Docs : Coming'[d] = Coming[d] /\ disk'[d] = Coming[d]
           /\ Done' = Done /\ Left' = Left
<1>1. /\ pc = "replace" /\ pc' = "apply" /\ disk' = [disk EXCEPT ![hand.proposal.doc] = hand.text]
      /\ queue' = queue \ {hand.proposal} /\ applied' = applied \cup {hand.proposal}
  BY DEF Replace
<1>2. \A d \in Docs : disk'[d] = IF d = hand.proposal.doc THEN hand.text ELSE disk[d]
  BY <1>1 DEF DiskOfDocs
<1>3. \A d \in Docs : disk'[d] = Coming[d]
  BY <1>1, <1>2 DEF Coming, InHand
<1>4. \A d \in Docs : Coming'[d] = disk'[d]
  BY <1>1 DEF Coming, InHand
<1> QED BY <1>1, <1>3, <1>4 DEF Done, Left, Handled

LEMMA ReplaceTelling == ASSUME Telling, Replace PROVE Telling'
<1>1. /\ pc = "replace" /\ pc' = "apply" /\ batch' = None
      /\ UNCHANGED <<eff, propagate, fill, disturbed, scan, mem, skipped>>
      /\ Resolved' = Resolved /\ DOMAIN disk' = DOMAIN disk
  BY DEF Replace, session, edited, Telling, Resolved
<1>2. /\ \A d \in Docs : Coming'[d] = Coming[d] /\ disk'[d] = Coming[d]
      /\ Done' = Done /\ Left' = Left
  BY ReplaceComes DEF Telling
<1>3. Following /\ DOMAIN mem = Docs
  BY <1>1 DEF Telling, Applying
<1>4. \A d \in Docs \ disturbed' : Followed(d)'
  BY <1>1, <1>2, <1>3 DEF Following, Followed, FollowedBy, Value
<1>5. Following'
  BY <1>1, <1>2, <1>3, <1>4 DEF Following, Withheld
<1>6. DiskOfDocs' /\ Documents'
  BY <1>1, <1>2, <1>3 DEF Telling, DiskOfDocs, Documents, Following
<1> QED BY <1>1, <1>3, <1>5, <1>6 DEF Telling

LEMMA DeferTelling == ASSUME Telling, Defer PROVE Telling'
<1>1. PICK p \in Due : Withheld(p) /\ queue' = queue \ {p} /\ skipped' = skipped \cup {p}
  BY DEF Defer
<1>2. /\ UNCHANGED <<disk, eff, fill, propagate, pc, scan, mem, applied, batch, disturbed>>
      /\ pc = "apply" /\ Resolved' = Resolved
  BY DEF Defer, session, edited, Resolved
<1>3. Following /\ p \in queue
  BY <1>1, <1>2 DEF Telling, Due, Applying
<1>a. /\ \A d \in Docs : Coming[d] = disk[d] /\ Coming'[d] = disk[d]
      /\ Done = applied /\ Done' = applied /\ Left = queue /\ Left' = queue'
  BY <1>2, NothingInHand DEF Telling, Coming, Done, Left, Handled, InHand
<1>4. Left' \cup Done' \cup skipped' = Left \cup Done \cup skipped
  BY <1>1, <1>2, <1>3, <1>a
<1>5. \A d \in Docs : Followed(d)' <=> Followed(d)
  BY <1>2, <1>a DEF Followed, FollowedBy, Value
<1>6. \A q \in skipped' : ByEngine(q) /\ ~fill'
  BY <1>1, <1>2, <1>3 DEF Following, Withheld, ByEngine
<1>7. Following'
  BY <1>2, <1>3, <1>4, <1>5, <1>6, <1>a DEF Following, Withheld
<1> QED BY <1>2, <1>7 DEF Telling, DiskOfDocs, Documents, Applying

\* The envelope: what was applied is what the documents show.
LEMMA EmitTelling == ASSUME Telling, Emit PROVE Telling'
<1>1. /\ batch' = [dry |-> FALSE, fixed |-> {p.doc : p \in applied}, skipped |-> skipped,
                   suggested |-> SchemaSuggestions(scan), complete |-> Resolved = Docs]
      /\ pc' = "idle" /\ pc = "apply" /\ UNCHANGED <<disk, eff, scan, disturbed>>
      /\ Resolved' = Resolved
  BY DEF Emit, Emitted, session, edited, Resolved
<1>2. /\ Following /\ Done = applied
      /\ \A d \in Docs : Coming[d] = disk[d]
  BY <1>1, NothingInHand DEF Telling, Applying
<1>3. ASSUME NEW d \in Docs \ disturbed
      PROVE  (\E p \in applied : p.doc = d) <=> disk[d] # scan.doc[d]
  <2>1. Followed(d)
    BY <1>2 DEF Following
  <2>2. ASSUME NEW p \in applied, p.doc = d, disk[d].closed
        PROVE  disk[d] # scan.doc[d]
    <3>1. p.field \in Fields
      BY <1>2, ReportChanges DEF Following
    <3> QED BY <1>2, <2>1, <2>2, <3>1 DEF Followed, FollowedBy, Value
  <2> QED BY <1>2, <2>1, <2>2 DEF Followed, FollowedBy
<1>4. ASSUME NEW p \in skipped, p.doc \notin disturbed
      PROVE  disk[p.doc].fm[p.field] = Absent
  <2>1. p \in Report(scan, propagate) /\ ByEngine(p) /\ ~fill /\ Sane(scan)
    BY <1>2 DEF Following
  <2>2. p.doc \in Docs /\ p.field \in Fields /\ Value(scan, p.doc, p.field) = Absent
    BY <2>1, ReportChanges, EngineAlone DEF Sane
  <2>3. ~\E o \in applied : o.doc = p.doc /\ o.field = p.field
    <3>1. SUFFICES ASSUME NEW o \in applied, o.doc = p.doc, o.field = p.field PROVE FALSE
      OBVIOUS
    <3>2. o \in Report(scan, propagate) /\ ~Withheld(o)
      BY <1>2 DEF Following
    <3>3. ByEngine(o)
      BY <2>1, <3>1, <3>2, EngineAlone
    <3> QED BY <2>1, <3>2, <3>3 DEF Withheld, ByEngine
  <2>4. Followed(p.doc)
    BY <1>2, <1>4, <2>2 DEF Following
  <2> QED BY <1>2, <2>2, <2>3, <2>4 DEF Followed, FollowedBy, Value
<1>5. \A p \in applied : p.doc \in Resolved
  BY <1>2, ReportChanges DEF Following
<1>6. RowsTell'
  BY <1>1, <1>3, <1>4, <1>5 DEF RowsTell
<1> QED BY <1>1, <1>6 DEF Telling, DiskOfDocs, Documents, Applying

\* An author saves a document: what is said of the others still holds.
LEMMA EditTelling == ASSUME Telling, Edit PROVE Telling'
<1>1. PICK e \in Edits : disk' = [disk EXCEPT ![e[1]] = e[2]] /\ disturbed' = disturbed \cup {e[1]}
  BY DEF Edit
<1>2. UNCHANGED <<eff, fill, propagate, pc, scan, mem, queue, applied, skipped, hand, batch>>
      /\ Resolved' = Resolved
  BY DEF Edit, session, run, Resolved
<1>3. IsDocument(e[2])
  BY TreesAssumption
<1>4. DiskOfDocs' /\ Documents'
  BY <1>1, <1>2, <1>3 DEF Telling, DiskOfDocs, Documents
<1>5. \A d \in Docs \ disturbed' : d \notin disturbed /\ disk'[d] = disk[d]
  BY <1>1 DEF Telling, DiskOfDocs
<1>a. Done' = Done /\ Left' = Left
  BY <1>2 DEF Done, Left, Handled
<1>b. \A d \in Docs \ disturbed' : Coming'[d] = Coming[d]
  BY <1>2, <1>5 DEF Coming, InHand
<1>6. \A d \in Docs \ disturbed' : Followed(d) => Followed(d)'
  BY <1>2, <1>a, <1>b DEF Followed, FollowedBy, Value
<1>c. Following => \A d \in Docs : IsDocument(Coming'[d])
  <2> SUFFICES ASSUME Following, NEW d \in Docs PROVE IsDocument(Coming'[d])
    OBVIOUS
  <2>1. Coming'[d] = IF InHand(d) THEN hand.text ELSE disk'[d]
    BY <1>2 DEF Coming, InHand
  <2>2. InHand(d) => Coming[d] = hand.text
    BY DEF Coming
  <2> QED BY <1>4, <2>1, <2>2 DEF Following, Documents
<1>7. Following => Following'
  BY <1>2, <1>5, <1>6, <1>a, <1>c DEF Following, Withheld
<1>8. RowsTell => RowsTell'
  BY <1>1, <1>2, <1>5 DEF RowsTell, Telling, DiskOfDocs
<1> QED BY <1>2, <1>4, <1>7, <1>8 DEF Telling, Applying

LEMMA InitTelling == Init => Telling
<1> SUFFICES ASSUME Init PROVE Telling
  OBVIOUS
<1>1. PICK tree \in Trees : disk = tree.doc /\ eff = tree.eff
  BY DEF Init
<1>2. /\ DOMAIN tree.doc = Docs
      /\ \A d \in Docs : IsDocument(tree.doc[d]) /\ (tree.eff[d] # Broken => IsSchema(tree.eff[d]))
  BY TreesAssumption
<1>3. DOMAIN disk = Docs /\ Documents
  BY <1>1, <1>2, Zenon DEF Documents
<1> QED BY <1>3 DEF Init, Telling, DiskOfDocs, Applying

\* fix <file>...: each document stays one, and nothing is reported.
LEMMA FilesTelling ==
    ASSUME Telling, Truncate \/ Fill \/ ReadFile \/ StartNamed
    PROVE  Telling'
<1>1. UNCHANGED eff
  BY DEF Truncate, Fill, ReadFile, StartNamed, session
<1>2. batch' = None /\ pc' \notin {"apply", "replace"}
  BY DEF Truncate, Fill, ReadFile, StartNamed, Exit, Telling
<1>3. CASE ReadFile \/ StartNamed
  <2>1. disk' = disk
    BY <1>3 DEF ReadFile, StartNamed
  <2>2. pc' \in {"truncate", "fill"} => scan' = ScanOf(disk)
    BY <1>3 DEF ReadFile, StartNamed, Exit
  <2>3. pc' \in {"truncate", "fill"} => \A d \in Docs : IsDocument(scan'.doc[d])
    BY <2>2 DEF ScanOf, Telling, Documents
  <2> QED BY <1>1, <1>2, <2>1, <2>3 DEF Telling, DiskOfDocs, Documents, Applying
<1>4. CASE Truncate
  <2>1. IsDocument(Emptied)
    BY DEF IsDocument, Emptied
  <2>2. disk' = [disk EXCEPT ![Doc] = Emptied] /\ pc = "truncate" /\ scan' = scan
    BY <1>4 DEF Truncate, run
  <2> QED BY <1>1, <1>2, <2>1, <2>2 DEF Telling, DiskOfDocs, Documents, Applying
<1>5. CASE Fill
  <2>1. disk' = [disk EXCEPT ![Doc] = Rewritten(scan.doc[Doc], FixedFile)] /\ pc = "fill" /\ pc' = "file"
    BY <1>5 DEF Fill
  <2>2. Doc \in Docs => IsDocument(Rewritten(scan.doc[Doc], FixedFile))
    BY <2>1, RewrittenIsDocument DEF Telling
  <2> QED BY <1>1, <1>2, <2>1, <2>2 DEF Telling, DiskOfDocs, Documents, Applying
<1> QED BY <1>3, <1>4, <1>5

LEMMA ExitTelling ==
    ASSUME Telling, Exit, UNCHANGED <<disk, eff>>, pc # "idle"
    PROVE  Telling'
BY DEF Telling, Exit, DiskOfDocs, Documents, Applying

LEMMA NextTelling == Telling /\ [Next]_vars => Telling'
<1> SUFFICES ASSUME Telling, [Next]_vars PROVE Telling'
  OBVIOUS
<1>1. CASE ApplyFails \/ EndNamed \/ FillFails \/ Kill
  BY <1>1, ExitTelling DEF ApplyFails, EndNamed, FillFails, Kill, session
<1>2. CASE Preview
  <2>1. batch'.dry = TRUE /\ pc' = "idle" /\ UNCHANGED <<disk, eff>>
    BY <1>2 DEF Preview, Emitted, session
  <2> QED BY <2>1 DEF Telling, DiskOfDocs, Documents, Applying
<1>3. CASE UNCHANGED vars
  <2>1. /\ UNCHANGED <<disk, eff, fill, propagate, pc, scan, mem, queue, applied, skipped, hand, batch, disturbed>>
        /\ Resolved' = Resolved
    BY <1>3 DEF vars, session, run, edited, Resolved
  <2>2. Done' = Done /\ Left' = Left /\ Coming' = Coming
    BY <2>1 DEF Done, Left, Handled, Coming, InHand
  <2>3. \A d \in Docs : Followed(d) <=> Followed(d)'
    BY <2>1, <2>2 DEF Followed, FollowedBy, Value
  <2>4. Following => Following'
    BY <2>1, <2>2, <2>3 DEF Following, Withheld
  <2> QED BY <2>1, <2>4 DEF Telling, DiskOfDocs, Documents, RowsTell, Applying
<1> QED BY <1>1, <1>2, <1>3, PlanTelling, RewriteTelling, ReplaceTelling, DeferTelling, EmitTelling,
           EditTelling, FilesTelling DEF Next, FixAll, FixFile

\* proposalsToFixResults (cmd/fix.go): the envelope of fix --all tells the disk,
\* for every tree, schema and order of proposals, with writes that fail, kills
\* and edits: a row says fixed exactly when its document is no longer what was
\* scanned, unless its author saved it meanwhile; a proposal reported as
\* skipped left its field missing; a document that does not resolve is not fixed.
THEOREM RowsTellTrue == Spec => []RowsTellTheDisk
<1>1. Telling => RowsTellTheDisk
  BY DEF Telling, RowsTell, RowsTellTheDisk, Reported
<1> QED BY <1>1, InitTelling, NextTelling, PTL DEF Spec

-----------------------------------------------------------------------------
(* What a report says of one field of one document: detector by detector,   *)
(* when it proposes a value, which one, and in which turn.                  *)

On(q, d, f) == q.doc = d /\ q.field = f

LEMMA SiteFor ==
    ASSUME NEW sc, NEW d \in sc.valid, NEW f \in Fields, NEW rule, Breaks(rule, sc, d, f)
    PROVE  <<d, f>> \in Sites(rule, sc, sc.eff[d])
BY DEF Sites, Members

LEMMA PairOf ==
    ASSUME NEW sc, NEW s, NEW rule, NEW x \in Sites(rule, sc, s)
    PROVE  x = <<x[1], x[2]>>
BY DEF Sites

LEMMA BreaksRequired ==
    ASSUME NEW sc, NEW d, NEW f, Breaks("required", sc, d, f)
    PROVE  Value(sc, d, f) = Absent
BY DEF Breaks

LEMMA BreaksEnum ==
    ASSUME NEW sc, NEW d, NEW f, Breaks("enum", sc, d, f)
    PROVE  /\ Value(sc, d, f) \notin {Absent} \cup Natives
           /\ IsEnum(sc.eff[d], f) /\ Value(sc, d, f) \notin Allowed(sc.eff[d], f)
BY DEF Breaks

LEMMA BreaksType ==
    ASSUME NEW sc, NEW d, NEW f, Breaks("type", sc, d, f)
    PROVE  Value(sc, d, f) \in Natives
BY DEF Breaks

LEMMA MigrateAt ==
    ASSUME NEW sc, NEW d \in sc.valid, NEW f \in Fields
    PROVE  /\ \A q \in MigrateValues(sc, sc.eff[d]) : On(q, d, f) =>
                 /\ Breaks("enum", sc, d, f) /\ Value(sc, d, f) \in Structured \ {Blank}
                 /\ q.to = MigratedTo(Value(sc, d, f), sc.eff[d], f)
                 /\ q.turn = 1 /\ q.type = "migrate_value"
           /\ Breaks("enum", sc, d, f) /\ Value(sc, d, f) \in Structured \ {Blank} =>
                 \E q \in MigrateValues(sc, sc.eff[d]) : On(q, d, f)
<1> DEFINE s == sc.eff[d]
<1>1. ASSUME NEW q \in MigrateValues(sc, s), On(q, d, f)
      PROVE  /\ Breaks("enum", sc, d, f) /\ Value(sc, d, f) \in Structured \ {Blank}
             /\ q.to = MigratedTo(Value(sc, d, f), s, f)
             /\ q.turn = 1 /\ q.type = "migrate_value"
  <2>1. PICK x \in Misfits(sc, s) :
            /\ Value(sc, x[1], x[2]) \in Structured
            /\ q = Proposed("migrate_value", x[1], x[2], Value(sc, x[1], x[2]),
                            MigratedTo(Value(sc, x[1], x[2]), s, x[2]), "", 1)
    BY <1>1 DEF MigrateValues
  <2>2. x \in Sites("enum", sc, s) /\ Value(sc, x[1], x[2]) # Blank
    BY DEF Misfits
  <2>3. x[1] = d /\ x[2] = f /\ q.turn = 1 /\ q.type = "migrate_value"
        /\ q.to = MigratedTo(Value(sc, x[1], x[2]), s, x[2])
    <3>1. q.doc = x[1] /\ q.field = x[2] /\ q.turn = 1 /\ q.type = "migrate_value"
          /\ q.to = MigratedTo(Value(sc, x[1], x[2]), s, x[2])
      BY <2>1 DEF Proposed
    <3> QED BY <1>1, <3>1 DEF On
  <2> QED BY <2>1, <2>2, <2>3, SiteOf
<1>2. ASSUME Breaks("enum", sc, d, f), Value(sc, d, f) \in Structured \ {Blank}
      PROVE  \E q \in MigrateValues(sc, s) : On(q, d, f)
  <2>1. <<d, f>> \in Misfits(sc, s)
    BY <1>2, SiteFor DEF Misfits
  <2>2. PICK x : x = <<d, f>>
    OBVIOUS
  <2>3. x[1] = d /\ x[2] = f
    BY <2>2
  <2>4. PICK q : q = Proposed("migrate_value", x[1], x[2], Value(sc, x[1], x[2]),
                              MigratedTo(Value(sc, x[1], x[2]), s, x[2]), "", 1)
    OBVIOUS
  <2>5. q \in MigrateValues(sc, s)
    BY <1>2, <2>1, <2>2, <2>3, <2>4, Zenon DEF MigrateValues
  <2>9. q.doc = x[1] /\ q.field = x[2]
    BY <2>4 DEF Proposed
  <2> QED BY <2>3, <2>5, <2>9 DEF On
<1> QED BY <1>1, <1>2

LEMMA CorrectAt ==
    ASSUME NEW sc, NEW d \in sc.valid, NEW f \in Fields
    PROVE  /\ \A q \in CorrectValues(sc, sc.eff[d]) : On(q, d, f) =>
                 /\ Breaks("enum", sc, d, f) /\ Value(sc, d, f) \notin Structured \cup {Blank}
                 /\ Closest(Value(sc, d, f), Allowed(sc.eff[d], f)) # Blank
                 /\ q.to = Closest(Value(sc, d, f), Allowed(sc.eff[d], f))
                 /\ q.turn = 2 /\ q.type = "correct_value"
           /\ /\ Breaks("enum", sc, d, f) /\ Value(sc, d, f) \notin Structured \cup {Blank}
              /\ Closest(Value(sc, d, f), Allowed(sc.eff[d], f)) # Blank
              => \E q \in CorrectValues(sc, sc.eff[d]) : On(q, d, f)
<1> DEFINE s == sc.eff[d]
           v == Value(sc, d, f)
<1>1. ASSUME NEW q \in CorrectValues(sc, s), On(q, d, f)
      PROVE  /\ Breaks("enum", sc, d, f) /\ v \notin Structured \cup {Blank}
             /\ Closest(v, Allowed(s, f)) # Blank /\ q.to = Closest(v, Allowed(s, f))
             /\ q.turn = 2 /\ q.type = "correct_value"
  <2>1. PICK x \in Misfits(sc, s) \ Keys(MigrateValues(sc, s)) :
            /\ Closest(Value(sc, x[1], x[2]), Allowed(s, x[2])) # Blank
            /\ q = Proposed("correct_value", x[1], x[2], Value(sc, x[1], x[2]),
                            Closest(Value(sc, x[1], x[2]), Allowed(s, x[2])), "", 2)
    BY <1>1 DEF CorrectValues
  <2>2. x \in Sites("enum", sc, s) /\ Value(sc, x[1], x[2]) # Blank /\ x \in Misfits(sc, s)
    BY <2>1 DEF Misfits
  <2>3. x[1] = d /\ x[2] = f /\ q.turn = 2 /\ q.type = "correct_value"
        /\ q.to = Closest(Value(sc, x[1], x[2]), Allowed(s, x[2]))
    <3>1. q.doc = x[1] /\ q.field = x[2] /\ q.turn = 2 /\ q.type = "correct_value"
          /\ q.to = Closest(Value(sc, x[1], x[2]), Allowed(s, x[2]))
      BY <2>1 DEF Proposed
    <3> QED BY <1>1, <3>1 DEF On
  <2>4. x = <<d, f>>
    BY <2>2, <2>3, PairOf
  <2>5. Breaks("enum", sc, d, f)
    BY <2>2, <2>3, SiteOf
  <2>6. ASSUME v \in Structured PROVE FALSE
    <3>1. PICK m \in MigrateValues(sc, s) : On(m, d, f)
      BY <2>2, <2>3, <2>5, <2>6, MigrateAt
    <3>2. <<d, f>> \in Keys(MigrateValues(sc, s))
      BY <3>1 DEF Keys, On
    <3> QED BY <2>1, <2>4, <3>2
  <2> QED BY <2>1, <2>2, <2>3, <2>5, <2>6
<1>2. ASSUME Breaks("enum", sc, d, f), v \notin Structured \cup {Blank},
             Closest(v, Allowed(s, f)) # Blank
      PROVE  \E q \in CorrectValues(sc, s) : On(q, d, f)
  <2>1. <<d, f>> \in Misfits(sc, s)
    BY <1>2, SiteFor DEF Misfits
  <2>2. <<d, f>> \notin Keys(MigrateValues(sc, s))
    <3>1. SUFFICES ASSUME NEW m \in MigrateValues(sc, s), <<d, f>> = <<m.doc, m.field>>
                   PROVE  FALSE
      BY DEF Keys
    <3>2. On(m, d, f)
      BY <3>1 DEF On
    <3> QED BY <1>2, <3>2, MigrateAt
  <2>3. PICK x : x = <<d, f>>
    OBVIOUS
  <2>4. x[1] = d /\ x[2] = f
    BY <2>3
  <2>5. PICK q : q = Proposed("correct_value", x[1], x[2], Value(sc, x[1], x[2]),
                              Closest(Value(sc, x[1], x[2]), Allowed(s, x[2])), "", 2)
    OBVIOUS
  <2>6. q \in CorrectValues(sc, s)
    BY <1>2, <2>1, <2>2, <2>3, <2>4, <2>5, Zenon DEF CorrectValues
  <2>9. q.doc = x[1] /\ q.field = x[2]
    BY <2>5 DEF Proposed
  <2> QED BY <2>4, <2>6, <2>9 DEF On
<1> QED BY <1>1, <1>2

LEMMA ExtractAt ==
    ASSUME NEW sc, NEW d \in sc.valid, NEW f \in Fields
    PROVE  /\ \A q \in ExtractBodies(sc, sc.eff[d]) : On(q, d, f) =>
                 /\ Breaks("required", sc, d, f) /\ sc.doc[d].body[f] # Absent
                 /\ q.to = FromBody(sc, sc.eff[d], d, f)
                 /\ q.turn = 3 /\ q.type = "extract_body"
           /\ Breaks("required", sc, d, f) /\ sc.doc[d].body[f] # Absent =>
                 \E q \in ExtractBodies(sc, sc.eff[d]) : On(q, d, f)
<1> DEFINE s == sc.eff[d]
<1>1. ASSUME NEW q \in ExtractBodies(sc, s), On(q, d, f)
      PROVE  /\ Breaks("required", sc, d, f) /\ sc.doc[d].body[f] # Absent
             /\ q.to = FromBody(sc, s, d, f)
             /\ q.turn = 3 /\ q.type = "extract_body"
  <2>1. PICK x \in Sites("required", sc, s) :
            /\ sc.doc[x[1]].body[x[2]] # Absent
            /\ q = Proposed("extract_body", x[1], x[2], sc.doc[x[1]].body[x[2]],
                            FromBody(sc, s, x[1], x[2]), "", 3)
    BY <1>1 DEF ExtractBodies
  <2>2. x[1] = d /\ x[2] = f /\ q.turn = 3 /\ q.type = "extract_body"
        /\ q.to = FromBody(sc, s, x[1], x[2])
    <3>1. q.doc = x[1] /\ q.field = x[2] /\ q.turn = 3 /\ q.type = "extract_body"
          /\ q.to = FromBody(sc, s, x[1], x[2])
      BY <2>1 DEF Proposed
    <3> QED BY <1>1, <3>1 DEF On
  <2> QED BY <2>1, <2>2, SiteOf
<1>2. ASSUME Breaks("required", sc, d, f), sc.doc[d].body[f] # Absent
      PROVE  \E q \in ExtractBodies(sc, s) : On(q, d, f)
  <2>1. <<d, f>> \in Sites("required", sc, s)
    BY <1>2, SiteFor
  <2>2. PICK x : x = <<d, f>>
    OBVIOUS
  <2>3. x[1] = d /\ x[2] = f
    BY <2>2
  <2>4. PICK q : q = Proposed("extract_body", x[1], x[2], sc.doc[x[1]].body[x[2]],
                              FromBody(sc, s, x[1], x[2]), "", 3)
    OBVIOUS
  <2>5. q \in ExtractBodies(sc, s)
    BY <1>2, <2>1, <2>2, <2>3, <2>4, Zenon DEF ExtractBodies
  <2>9. q.doc = x[1] /\ q.field = x[2]
    BY <2>4 DEF Proposed
  <2> QED BY <2>3, <2>5, <2>9 DEF On
<1> QED BY <1>1, <1>2

LEMMA TypeAt ==
    ASSUME NEW sc, NEW d \in sc.valid, NEW f \in Fields
    PROVE  /\ \A q \in TypeRepairs(sc, sc.eff[d]) : On(q, d, f) =>
                 /\ Breaks("type", sc, d, f) /\ q.to = Quoted[Value(sc, d, f)]
                 /\ q.turn = 7 /\ q.type = "correct_value"
           /\ Breaks("type", sc, d, f) => \E q \in TypeRepairs(sc, sc.eff[d]) : On(q, d, f)
<1> DEFINE s == sc.eff[d]
<1>1. ASSUME NEW q \in TypeRepairs(sc, s), On(q, d, f)
      PROVE  /\ Breaks("type", sc, d, f) /\ q.to = Quoted[Value(sc, d, f)]
             /\ q.turn = 7 /\ q.type = "correct_value"
  <2>1. PICK x \in Sites("type", sc, s) :
            q = Proposed("correct_value", x[1], x[2], Value(sc, x[1], x[2]),
                         Quoted[Value(sc, x[1], x[2])], "", 7)
    BY <1>1 DEF TypeRepairs
  <2>2. q.doc = x[1] /\ q.field = x[2] /\ q.turn = 7 /\ q.type = "correct_value"
        /\ q.to = Quoted[Value(sc, x[1], x[2])]
    BY <2>1 DEF Proposed
  <2> QED BY <1>1, <2>2, SiteOf DEF On
<1>2. ASSUME Breaks("type", sc, d, f)
      PROVE  \E q \in TypeRepairs(sc, s) : On(q, d, f)
  <2>1. <<d, f>> \in Sites("type", sc, s)
    BY <1>2, SiteFor
  <2>2. PICK x : x = <<d, f>>
    OBVIOUS
  <2>3. x[1] = d /\ x[2] = f
    BY <2>2
  <2>4. PICK q : q = Proposed("correct_value", x[1], x[2], Value(sc, x[1], x[2]),
                              Quoted[Value(sc, x[1], x[2])], "", 7)
    OBVIOUS
  <2>5. q \in TypeRepairs(sc, s)
    BY <2>1, <2>2, <2>3, <2>4, Zenon DEF TypeRepairs
  <2>6. q.doc = x[1] /\ q.field = x[2]
    BY <2>4 DEF Proposed
  <2> QED BY <2>3, <2>5, <2>6 DEF On
<1> QED BY <1>1, <1>2

LEMMA InferAt ==
    ASSUME NEW sc, NEW d \in sc.valid, NEW f \in Fields
    PROVE  /\ \A q \in InferFromSiblings(sc, sc.eff[d]) : On(q, d, f) =>
                 /\ Breaks("required", sc, d, f) /\ d \notin Index /\ IsEnum(sc.eff[d], f)
                 /\ Agreement(sc, Voters(sc, sc.eff[d], d, f), f, q.to, 2, 6, 10)
                 /\ q.turn = 4 /\ q.type = "infer_from_siblings"
           /\ Breaks("required", sc, d, f) /\ d \notin Index /\ IsEnum(sc.eff[d], f) =>
                 \A v : Agreement(sc, Voters(sc, sc.eff[d], d, f), f, v, 2, 6, 10) =>
                    \E q \in InferFromSiblings(sc, sc.eff[d]) : On(q, d, f)
<1> DEFINE s == sc.eff[d]
           Told(x, v) == Proposed("infer_from_siblings", x[1], x[2], "", v, "", 4)
           Agreed(x) == {w \in Majority(sc, Voters(sc, s, x[1], x[2]), x[2]) :
                           Agreement(sc, Voters(sc, s, x[1], x[2]), x[2], w, 2, 6, 10)}
           Asked == {y \in Sites("required", sc, s) : y[1] \notin Index /\ IsEnum(s, y[2])}
<1>0. InferFromSiblings(sc, s) = UNION {{Told(x, v) : v \in Agreed(x)} : x \in Asked}
  BY Zenon DEF InferFromSiblings
<1> HIDE DEF Told
<1>1. ASSUME NEW q \in InferFromSiblings(sc, s), On(q, d, f)
      PROVE  /\ Breaks("required", sc, d, f) /\ d \notin Index /\ IsEnum(s, f)
             /\ Agreement(sc, Voters(sc, s, d, f), f, q.to, 2, 6, 10)
             /\ q.turn = 4 /\ q.type = "infer_from_siblings"
  <2>1. PICK x \in Asked : \E v \in Agreed(x) : q = Told(x, v)
    BY <1>0, <1>1
  <2>2. PICK v \in Agreed(x) : q = Told(x, v)
    BY <2>1
  <2>3. q.doc = x[1] /\ q.field = x[2] /\ q.turn = 4 /\ q.type = "infer_from_siblings" /\ q.to = v
    BY <2>2 DEF Proposed, Told
  <2>4. x[1] = d /\ x[2] = f
    BY <1>1, <2>3 DEF On
  <2>5. x \in Sites("required", sc, s) /\ x[1] \notin Index /\ IsEnum(s, x[2])
    BY <2>1
  <2>6. Agreement(sc, Voters(sc, s, x[1], x[2]), x[2], v, 2, 6, 10)
    BY <2>2
  <2>7. Breaks("required", sc, d, f)
    BY <2>4, <2>5, SiteOf
  <2> QED BY <2>3, <2>4, <2>5, <2>6, <2>7
<1>2. ASSUME Breaks("required", sc, d, f), d \notin Index, IsEnum(s, f),
             NEW v, Agreement(sc, Voters(sc, s, d, f), f, v, 2, 6, 10)
      PROVE  \E q \in InferFromSiblings(sc, s) : On(q, d, f)
  <2>1. <<d, f>> \in Sites("required", sc, s)
    BY <1>2, SiteFor
  <2>2. PICK x : x = <<d, f>>
    OBVIOUS
  <2>3. x[1] = d /\ x[2] = f
    BY <2>2
  <2>4. x \in Asked
    BY <1>2, <2>1, <2>2, <2>3
  <2>5. v \in Agreed(x)
    BY <1>2, <2>3 DEF Agreement
  <2>6. PICK q : q = Told(x, v)
    OBVIOUS
  <2>7. q \in InferFromSiblings(sc, s)
    <3> HIDE DEF Agreed, Asked
    <3> QED BY <1>0, <2>4, <2>5, <2>6
  <2>8. q.doc = x[1] /\ q.field = x[2]
    BY <2>6 DEF Proposed, Told
  <2> QED BY <2>3, <2>7, <2>8 DEF On
<1> QED BY <1>1, <1>2

LEMMA AddAt ==
    ASSUME NEW sc, NEW d \in sc.valid, NEW f \in Fields
    PROVE  /\ \A q \in AddFields(sc, sc.eff[d]) : On(q, d, f) =>
                 /\ Breaks("required", sc, d, f)
                 /\ q.to = AddFieldValue(sc.eff[d], f)[1]
                 /\ q.source = AddFieldValue(sc.eff[d], f)[2]
                 /\ q.turn = 5 /\ q.type = "add_field"
                 /\ \A o \in ExtractBodies(sc, sc.eff[d]) \cup InferFromSiblings(sc, sc.eff[d]) :
                       ~On(o, d, f)
           /\ /\ Breaks("required", sc, d, f)
              /\ \A o \in ExtractBodies(sc, sc.eff[d]) \cup InferFromSiblings(sc, sc.eff[d]) :
                    ~On(o, d, f)
              => \E q \in AddFields(sc, sc.eff[d]) : On(q, d, f)
<1> DEFINE s == sc.eff[d]
           Found == ExtractBodies(sc, s) \cup InferFromSiblings(sc, s)
<1>0. <<d, f>> \in Keys(Found) <=> \E o \in Found : On(o, d, f)
  BY DEF Keys, On
<1>1. ASSUME NEW q \in AddFields(sc, s), On(q, d, f)
      PROVE  /\ Breaks("required", sc, d, f)
             /\ q.to = AddFieldValue(s, f)[1] /\ q.source = AddFieldValue(s, f)[2]
             /\ q.turn = 5 /\ q.type = "add_field" /\ \A o \in Found : ~On(o, d, f)
  <2>1. PICK x \in Sites("required", sc, s) \ Keys(Found) :
            q = Proposed("add_field", x[1], x[2], "", AddFieldValue(s, x[2])[1],
                         AddFieldValue(s, x[2])[2], 5)
    BY <1>1 DEF AddFields
  <2>2. q.doc = x[1] /\ q.field = x[2] /\ q.turn = 5 /\ q.type = "add_field"
        /\ q.to = AddFieldValue(s, x[2])[1] /\ q.source = AddFieldValue(s, x[2])[2]
    BY <2>1 DEF Proposed
  <2>3. x[1] = d /\ x[2] = f
    BY <1>1, <2>2 DEF On
  <2>4. x \in Sites("required", sc, s) /\ x \notin Keys(Found)
    BY <2>1
  <2>5. x = <<d, f>> /\ Breaks("required", sc, d, f)
    BY <2>3, <2>4, PairOf, SiteOf
  <2> HIDE DEF Found
  <2> QED BY <1>0, <2>2, <2>3, <2>4, <2>5
<1>2. ASSUME Breaks("required", sc, d, f), \A o \in Found : ~On(o, d, f)
      PROVE  \E q \in AddFields(sc, s) : On(q, d, f)
  <2>1. <<d, f>> \in Sites("required", sc, s)
    BY <1>2, SiteFor
  <2>2. PICK x : x = <<d, f>>
    OBVIOUS
  <2>3. x[1] = d /\ x[2] = f
    BY <2>2
  <2>4. x \in Sites("required", sc, s) \ Keys(Found)
    <3> HIDE DEF Found
    <3> QED BY <1>0, <1>2, <2>1, <2>2
  <2>5. PICK q : q = Proposed("add_field", x[1], x[2], "", AddFieldValue(s, x[2])[1],
                              AddFieldValue(s, x[2])[2], 5)
    OBVIOUS
  <2>6. q \in AddFields(sc, s)
    BY <2>4, <2>5, Zenon DEF AddFields
  <2>7. q.doc = x[1] /\ q.field = x[2]
    BY <2>5 DEF Proposed
  <2> QED BY <2>3, <2>6, <2>7 DEF On
<1> QED BY <1>1, <1>2

LEMMA OutlierAt ==
    ASSUME NEW sc, NEW d \in sc.valid, NEW f \in Fields
    PROVE  /\ \A q \in OutlierValues(sc, sc.eff[d]) : On(q, d, f) =>
                 /\ IsEnum(sc.eff[d], f) /\ d \in Sound(sc, sc.eff[d], d, f)
                 /\ q.to \in Dissents(sc, sc.eff[d], d, f)
                 /\ q.turn = 6 /\ q.type = "correct_outlier"
           /\ IsEnum(sc.eff[d], f) /\ d \in Sound(sc, sc.eff[d], d, f)
                /\ Dissents(sc, sc.eff[d], d, f) # {}
              => \E q \in OutlierValues(sc, sc.eff[d]) : On(q, d, f)
<1> DEFINE s == sc.eff[d]
           Told(x, v) == Proposed("correct_outlier", x[1], x[2], Value(sc, x[1], x[2]), v, "", 6)
           Voting == {y \in Members(sc, s) \X Fields :
                         IsEnum(s, y[2]) /\ y[1] \in Sound(sc, s, y[1], y[2])}
<1>0. OutlierValues(sc, s) = UNION {{Told(x, v) : v \in Dissents(sc, s, x[1], x[2])} : x \in Voting}
  BY Zenon DEF OutlierValues
<1> HIDE DEF Told
<1>1. ASSUME NEW q \in OutlierValues(sc, s), On(q, d, f)
      PROVE  /\ IsEnum(s, f) /\ d \in Sound(sc, s, d, f) /\ q.to \in Dissents(sc, s, d, f)
             /\ q.turn = 6 /\ q.type = "correct_outlier"
  <2>1. PICK x \in Voting : \E v \in Dissents(sc, s, x[1], x[2]) : q = Told(x, v)
    BY <1>0, <1>1
  <2>2. PICK v \in Dissents(sc, s, x[1], x[2]) : q = Told(x, v)
    BY <2>1
  <2>3. q.doc = x[1] /\ q.field = x[2] /\ q.turn = 6 /\ q.type = "correct_outlier" /\ q.to = v
    BY <2>2 DEF Proposed, Told
  <2>4. x[1] = d /\ x[2] = f
    BY <1>1, <2>3 DEF On
  <2> QED BY <2>1, <2>2, <2>3, <2>4
<1>2. ASSUME IsEnum(s, f), d \in Sound(sc, s, d, f), Dissents(sc, s, d, f) # {}
      PROVE  \E q \in OutlierValues(sc, s) : On(q, d, f)
  <2>1. PICK v : v \in Dissents(sc, s, d, f)
    BY <1>2
  <2>2. PICK x : x = <<d, f>>
    OBVIOUS
  <2>3. x[1] = d /\ x[2] = f
    BY <2>2
  <2>4. x \in Voting
    BY <1>2, <2>2, <2>3 DEF Members
  <2>5. PICK q : q = Told(x, v)
    OBVIOUS
  <2>6. q \in OutlierValues(sc, s)
    <3> HIDE DEF Voting
    <3> QED BY <1>0, <2>1, <2>3, <2>4, <2>5
  <2>7. q.doc = x[1] /\ q.field = x[2]
    BY <2>5 DEF Proposed, Told
  <2> QED BY <2>3, <2>6, <2>7 DEF On
<1> QED BY <1>1, <1>2

Spells(sc, d, f) == \A e \in Below[d] : Value(sc, e, f) \in Spelled \cup {Absent}

LEMMA PropagateAt ==
    ASSUME NEW sc, NEW d \in sc.valid, NEW f \in Fields
    PROVE  /\ \A q \in PropagateAggregates(sc, sc.eff[d]) : On(q, d, f) =>
                 /\ Breaks("aggregate", sc, d, f) /\ Spells(sc, d, f)
                 /\ q.to = Derived(sc, d, f)
                 /\ q.turn = 8 /\ q.type = "propagate_aggregate"
           /\ Breaks("aggregate", sc, d, f) /\ Spells(sc, d, f)
              => \E q \in PropagateAggregates(sc, sc.eff[d]) : On(q, d, f)
<1> DEFINE s == sc.eff[d]
<1>1. ASSUME NEW q \in PropagateAggregates(sc, s), On(q, d, f)
      PROVE  /\ Breaks("aggregate", sc, d, f) /\ Spells(sc, d, f) /\ q.to = Derived(sc, d, f)
             /\ q.turn = 8 /\ q.type = "propagate_aggregate"
  <2>1. PICK x \in Sites("aggregate", sc, s) :
            /\ \A e \in Below[x[1]] : Value(sc, e, x[2]) \in Spelled \cup {Absent}
            /\ q = Proposed("propagate_aggregate", x[1], x[2], Value(sc, x[1], x[2]),
                            Derived(sc, x[1], x[2]), "", 8)
    BY <1>1 DEF PropagateAggregates
  <2>2. q.doc = x[1] /\ q.field = x[2] /\ q.turn = 8 /\ q.type = "propagate_aggregate"
        /\ q.to = Derived(sc, x[1], x[2])
    BY <2>1 DEF Proposed
  <2>3. x[1] = d /\ x[2] = f
    BY <1>1, <2>2 DEF On
  <2>4. Breaks("aggregate", sc, d, f)
    BY <2>3, SiteOf
  <2> QED BY <2>1, <2>2, <2>3, <2>4 DEF Spells
<1>2. ASSUME Breaks("aggregate", sc, d, f), Spells(sc, d, f)
      PROVE  \E q \in PropagateAggregates(sc, s) : On(q, d, f)
  <2>1. <<d, f>> \in Sites("aggregate", sc, s)
    BY <1>2, SiteFor
  <2>2. PICK x : x = <<d, f>>
    OBVIOUS
  <2>3. x[1] = d /\ x[2] = f
    BY <2>2
  <2>4. PICK q : q = Proposed("propagate_aggregate", x[1], x[2], Value(sc, x[1], x[2]),
                              Derived(sc, x[1], x[2]), "", 8)
    OBVIOUS
  <2>5. x \in {y \in Sites("aggregate", sc, s) :
                  \A e \in Below[y[1]] : Value(sc, e, y[2]) \in Spelled \cup {Absent}}
    BY <1>2, <2>1, <2>2, <2>3 DEF Spells
  <2>6. q \in PropagateAggregates(sc, s)
    BY <2>4, <2>5, Zenon DEF PropagateAggregates
  <2>7. q.doc = x[1] /\ q.field = x[2]
    BY <2>4 DEF Proposed
  <2> QED BY <2>3, <2>6, <2>7 DEF On
<1> QED BY <1>1, <1>2

\* Two values cannot both be held by more of the voters than any other.
LEMMA MajorityOne ==
    ASSUME NEW sc, NEW voters \in SUBSET Docs, NEW f,
           NEW v \in Majority(sc, voters, f), NEW w \in Majority(sc, voters, f)
    PROVE  v = w
<1>1. IsFiniteSet(voters)
  BY DocsAssumption, FS_Subset
<1>2. \A u : Votes(sc, voters, f, u) \in Nat
  <2> SUFFICES ASSUME NEW u PROVE Votes(sc, voters, f, u) \in Nat
    OBVIOUS
  <2>1. IsFiniteSet({e \in voters : Value(sc, e, f) = u})
    BY <1>1, FS_Subset
  <2> QED BY <2>1, FS_CardinalityType DEF Votes
<1>3. v # w => Votes(sc, voters, f, w) < Votes(sc, voters, f, v)
               /\ Votes(sc, voters, f, v) < Votes(sc, voters, f, w)
  BY DEF Majority
<1> QED BY <1>2, <1>3

LEMMA VotersIn ==
    ASSUME NEW sc, Sane(sc), NEW d, NEW f, NEW s
    PROVE  Voters(sc, s, d, f) \subseteq Docs /\ Sound(sc, s, d, f) \subseteq Docs
BY DEF Sane, Sound, Voters, Siblings, Members

LEMMA AgreementOne ==
    ASSUME NEW sc, NEW voters \in SUBSET Docs, NEW f, NEW n, NEW num, NEW den,
           NEW v, Agreement(sc, voters, f, v, n, num, den),
           NEW w, Agreement(sc, voters, f, w, n, num, den)
    PROVE  v = w /\ \E e \in voters : v = Value(sc, e, f)
<1>1. v \in Majority(sc, voters, f) /\ w \in Majority(sc, voters, f)
  BY DEF Agreement
<1> QED BY <1>1, MajorityOne DEF Majority

\* The first document of a group in scan order ranks it.
LEMMA RankNat ==
    ASSUME NEW sc, Sane(sc), NEW s \in Groups(sc)
    PROVE  Rank(sc, s) \in Nat
<1> DEFINE M == Members(sc, s)
           T == {Position(d) : d \in M}
<1>1. M # {} /\ M \subseteq Docs
  BY DEF Groups, Members, Sane
<1>2. \A d \in M : Position(d) \in DOMAIN ScanOrder /\ ScanOrder[Position(d)] = d
  BY <1>1, DocsAssumption DEF Position
<1>3. DOMAIN ScanOrder = 1..Len(ScanOrder)
  BY DocsAssumption
<1>4. T \in SUBSET Nat /\ T # {}
  <2>1. \A d \in M : Position(d) \in Nat
    BY <1>2, <1>3
  <2> QED BY <1>1, <2>1
<1>5. PICK x \in T : \A y \in T : x <= y
  <2> HIDE DEF T
  <2> QED BY <1>4, LeastNatural
<1>6. PICK d \in M : x = Position(d)
  BY <1>5
<1>7. x \in DOMAIN ScanOrder /\ ScanOrder[x] \in M /\ \A e \in M : x <= Position(e)
  BY <1>2, <1>5, <1>6
<1>8. Rank(sc, s) \in DOMAIN ScanOrder
  <2> HIDE DEF T
  <2> QED BY <1>7 DEF Rank
<1> QED BY <1>3, <1>8

\* A proposal of the report, and the detector's it stands for.
Shifted(p, q, n) ==
    /\ p.doc = q.doc /\ p.field = q.field /\ p.to = q.to /\ p.type = q.type
    /\ p.source = q.source /\ p.turn = q.turn + n

LEMMA LaterShifts == \A q, n : Shifted(Later(q, n), q, n)
BY DEF Shifted, Later, Proposed

OfGroup(sc, s)    == {Later(p, 10 * Rank(sc, s)) : p \in Analyze(sc, s)}
AfterGroup(sc, s) == {Later(p, 1000 + 10 * Rank(sc, s)) : p \in PropagateAggregates(sc, s)}

LEMMA ReportIs ==
    ASSUME NEW sc, NEW pr
    PROVE  /\ \A p \in Report(sc, pr) : \E s \in Groups(sc) :
                 p \in OfGroup(sc, s) \/ (pr /\ p \in AfterGroup(sc, s))
           /\ \A s \in Groups(sc) : OfGroup(sc, s) \subseteq Report(sc, pr)
           /\ pr => \A s \in Groups(sc) : AfterGroup(sc, s) \subseteq Report(sc, pr)
<1>1. Report(sc, pr) = (UNION {OfGroup(sc, s) : s \in Groups(sc)})
                         \cup IF pr THEN UNION {AfterGroup(sc, s) : s \in Groups(sc)} ELSE {}
  BY DEF Report, OfGroup, AfterGroup
<1> QED BY <1>1

LEMMA ReportFrom ==
    ASSUME NEW sc, Sane(sc), NEW pr, NEW p \in Report(sc, pr)
    PROVE  /\ p.doc \in sc.valid /\ sc.eff[p.doc] \in Groups(sc)
           /\ \E q : \/ /\ q \in Analyze(sc, sc.eff[p.doc])
                        /\ Shifted(p, q, 10 * Rank(sc, sc.eff[p.doc]))
                     \/ /\ pr /\ q \in PropagateAggregates(sc, sc.eff[p.doc])
                        /\ Shifted(p, q, 1000 + 10 * Rank(sc, sc.eff[p.doc]))
<1>1. CASE \E s \in Groups(sc) : \E q \in Analyze(sc, s) : p = Later(q, 10 * Rank(sc, s))
  <2>1. PICK s \in Groups(sc) : \E q \in Analyze(sc, s) : p = Later(q, 10 * Rank(sc, s))
    BY <1>1
  <2>2. PICK q \in Analyze(sc, s) : p = Later(q, 10 * Rank(sc, s))
    BY <2>1
  <2>3. Shifted(p, q, 10 * Rank(sc, s))
    BY <2>2, LaterShifts
  <2>4. Changing(sc, s, q)
    BY AnalyzeChanges
  <2>5. p.doc \in sc.valid /\ sc.eff[p.doc] = s
    BY <2>3, <2>4 DEF Changing, Shifted
  <2> QED BY <2>2, <2>3, <2>5
<1>2. CASE pr /\ \E s \in Groups(sc) : \E q \in PropagateAggregates(sc, s) :
                    p = Later(q, 1000 + 10 * Rank(sc, s))
  <2>1. PICK s \in Groups(sc) : \E q \in PropagateAggregates(sc, s) :
                    p = Later(q, 1000 + 10 * Rank(sc, s))
    BY <1>2
  <2>2. PICK q \in PropagateAggregates(sc, s) : p = Later(q, 1000 + 10 * Rank(sc, s))
    BY <2>1
  <2>3. Shifted(p, q, 1000 + 10 * Rank(sc, s))
    BY <2>2, LaterShifts
  <2>4. Changing(sc, s, q)
    BY AnalyzeChanges
  <2>5. p.doc \in sc.valid /\ sc.eff[p.doc] = s
    BY <2>3, <2>4 DEF Changing, Shifted
  <2> QED BY <1>2, <2>2, <2>3, <2>5
<1>3. (\E s \in Groups(sc) : p \in OfGroup(sc, s)) \/ (pr /\ \E s \in Groups(sc) : p \in AfterGroup(sc, s))
  BY ReportIs
<1> QED BY <1>1, <1>2, <1>3 DEF OfGroup, AfterGroup

LEMMA ReportTakes ==
    ASSUME NEW sc, NEW pr, NEW s \in Groups(sc), NEW q \in Analyze(sc, s)
    PROVE  \E p \in Report(sc, pr) : Shifted(p, q, 10 * Rank(sc, s))
<1>1. Later(q, 10 * Rank(sc, s)) \in Report(sc, pr)
  BY ReportIs DEF OfGroup
<1> QED BY <1>1, LaterShifts

LEMMA ReportTakesLast ==
    ASSUME NEW sc, NEW s, NEW q \in PropagateAggregates(sc, s),
           NEW R, AfterGroup(sc, s) \subseteq R
    PROVE  \E p \in R : Shifted(p, q, 1000 + 10 * Rank(sc, s))
<1>1. Later(q, 1000 + 10 * Rank(sc, s)) \in R
  BY DEF AfterGroup
<1> QED BY <1>1, LaterShifts

(* What the scan alone determines, case by case.                            *)

Agreeing(sc, d, f) ==
    {v \in Allowed(sc.eff[d], f) \cup {Value(sc, e, f) : e \in Docs} :
        /\ d \notin Index /\ IsEnum(sc.eff[d], f)
        /\ Agreement(sc, Voters(sc, sc.eff[d], d, f), f, v, 2, 6, 10)}

LEMMA AgreeingOne ==
    ASSUME NEW sc, Sane(sc), NEW d, NEW f, d \notin Index, IsEnum(sc.eff[d], f),
           NEW v, Agreement(sc, Voters(sc, sc.eff[d], d, f), f, v, 2, 6, 10)
    PROVE  Agreeing(sc, d, f) = {v}
<1>1. Voters(sc, sc.eff[d], d, f) \in SUBSET Docs
  BY VotersIn
<1>2. \E e \in Docs : v = Value(sc, e, f)
  BY <1>1, AgreementOne
<1>3. v \in Agreeing(sc, d, f)
  BY <1>2 DEF Agreeing
<1>4. \A w \in Agreeing(sc, d, f) : v = w
  BY <1>1, AgreementOne DEF Agreeing
<1> QED BY <1>3, <1>4

LEMMA MissingIs ==
    ASSUME NEW sc, NEW d, NEW f
    PROVE  /\ \A v : Agreeing(sc, d, f) = {v} => Missing(sc, d, f) = v
           /\ Agreeing(sc, d, f) = {} /\ sc.doc[d].body[f] # Absent =>
                 Missing(sc, d, f) = FromBody(sc, sc.eff[d], d, f)
           /\ Agreeing(sc, d, f) = {} /\ sc.doc[d].body[f] = Absent =>
                 Missing(sc, d, f) = IF fill \/ sc.eff[d].fields[f].default # Blank
                                     THEN AddFieldValue(sc.eff[d], f)[1] ELSE Absent
<1>1. Missing(sc, d, f) =
        CASE Agreeing(sc, d, f) # {} -> CHOOSE v \in Agreeing(sc, d, f) : TRUE
          [] Agreeing(sc, d, f) = {} /\ sc.doc[d].body[f] # Absent -> FromBody(sc, sc.eff[d], d, f)
          [] OTHER -> IF fill \/ sc.eff[d].fields[f].default # Blank
                      THEN AddFieldValue(sc.eff[d], f)[1] ELSE Absent
  BY Zenon DEF Missing, Agreeing
<1>2. ASSUME NEW v, Agreeing(sc, d, f) = {v} PROVE Missing(sc, d, f) = v
  <2>1. (CHOOSE w \in Agreeing(sc, d, f) : TRUE) = v
    BY <1>2
  <2>2. Agreeing(sc, d, f) # {}
    BY <1>2
  <2> QED BY <1>1, <2>1, <2>2, Zenon
<1>3. ASSUME Agreeing(sc, d, f) = {}, sc.doc[d].body[f] # Absent
      PROVE  Missing(sc, d, f) = FromBody(sc, sc.eff[d], d, f)
  BY <1>1, <1>3, Zenon
<1>4. ASSUME Agreeing(sc, d, f) = {}, sc.doc[d].body[f] = Absent
      PROVE  Missing(sc, d, f) = IF fill \/ sc.eff[d].fields[f].default # Blank
                                 THEN AddFieldValue(sc.eff[d], f)[1] ELSE Absent
  BY <1>1, <1>4, Zenon
<1> QED BY <1>2, <1>3, <1>4

Others(sc, d, f) ==
    {w \in Allowed(sc.eff[d], f) \ {Value(sc, d, f)} :
        /\ IsEnum(sc.eff[d], f) /\ d \notin Index
        /\ Agreement(sc, Sound(sc, sc.eff[d], d, f), f, w, 3, 3, 4)}

LEMMA RepairedIs ==
    ASSUME NEW sc, NEW d, NEW f
    PROVE  /\ Breaks("required", sc, d, f) => Repaired(sc, d, f) = Missing(sc, d, f)
           /\ Breaks("enum", sc, d, f) /\ Value(sc, d, f) \in Structured \ {Blank} =>
                 Repaired(sc, d, f) = MigratedTo(Value(sc, d, f), sc.eff[d], f)
           /\ /\ Breaks("enum", sc, d, f) /\ Value(sc, d, f) \notin Structured \cup {Blank}
              /\ Closest(Value(sc, d, f), Allowed(sc.eff[d], f)) # Blank
              => Repaired(sc, d, f) = Closest(Value(sc, d, f), Allowed(sc.eff[d], f))
           /\ Breaks("type", sc, d, f) => Repaired(sc, d, f) = Quoted[Value(sc, d, f)]
           /\ /\ ~HasError(sc, d, f) /\ Value(sc, d, f) \notin {Absent, Blank}
              /\ Others(sc, d, f) # {}
              => Repaired(sc, d, f) = CHOOSE w \in Others(sc, d, f) : TRUE
           /\ /\ ~Breaks("required", sc, d, f) /\ ~Breaks("type", sc, d, f)
              /\ Breaks("enum", sc, d, f) =>
                    \/ Value(sc, d, f) = Blank
                    \/ /\ Value(sc, d, f) \notin Structured
                       /\ Closest(Value(sc, d, f), Allowed(sc.eff[d], f)) = Blank
              /\ ~HasError(sc, d, f) /\ Value(sc, d, f) \notin {Absent, Blank} =>
                    Others(sc, d, f) = {}
              => Repaired(sc, d, f) = Value(sc, d, f)
<1> DEFINE s == sc.eff[d]
           v == Value(sc, d, f)
           near == Closest(v, Allowed(s, f))
           req == Breaks("required", sc, d, f)
           enum == Breaks("enum", sc, d, f)
           type == Breaks("type", sc, d, f)
           err == HasError(sc, d, f)
           others == Others(sc, d, f)
<1>1. Repaired(sc, d, f) =
        CASE req -> Missing(sc, d, f)
          [] enum /\ v \in Structured \ {Blank} -> MigratedTo(v, s, f)
          [] enum /\ v \notin Structured \cup {Blank} /\ near # Blank -> near
          [] type -> Quoted[v]
          [] OTHER -> IF ~err /\ v \notin {Absent, Blank} /\ others # {}
                      THEN CHOOSE w \in others : TRUE ELSE v
  BY Zenon DEF Repaired, Others
<1>2. req => ~enum /\ ~type
  BY ValuesAssumption DEF Breaks, Natives
<1>3. enum => ~type
  BY DEF Breaks
<1>4. req \/ enum \/ type => err
  BY DEF HasError
<1> HIDE DEF near, req, enum, type, err, others, v, s
<1>5. req => Repaired(sc, d, f) = Missing(sc, d, f)
  BY <1>1, <1>2, Zenon
<1>6. enum /\ v \in Structured \ {Blank} => Repaired(sc, d, f) = MigratedTo(v, s, f)
  <2> SUFFICES ASSUME enum, v \in Structured \ {Blank} PROVE Repaired(sc, d, f) = MigratedTo(v, s, f)
    OBVIOUS
  <2>1. ~req /\ ~type /\ ~(v \notin Structured \cup {Blank})
    BY <1>2, <1>3
  <2> QED BY <1>1, <2>1, Zenon
<1>7. enum /\ v \notin Structured \cup {Blank} /\ near # Blank => Repaired(sc, d, f) = near
  <2> SUFFICES ASSUME enum, v \notin Structured \cup {Blank}, near # Blank
               PROVE  Repaired(sc, d, f) = near
    OBVIOUS
  <2>1. ~req /\ ~type /\ ~(v \in Structured \ {Blank})
    BY <1>2, <1>3
  <2> QED BY <1>1, <2>1, Zenon
<1>8. type => Repaired(sc, d, f) = Quoted[v]
  <2> SUFFICES ASSUME type PROVE Repaired(sc, d, f) = Quoted[v]
    OBVIOUS
  <2>1. ~req /\ ~enum
    BY <1>2, <1>3
  <2> QED BY <1>1, <2>1, Zenon
<1>9. ~err /\ v \notin {Absent, Blank} /\ others # {} => Repaired(sc, d, f) = CHOOSE w \in others : TRUE
  BY <1>1, <1>4, Zenon
<1>10. ASSUME ~req, ~type, enum => v = Blank \/ (v \notin Structured /\ near = Blank),
              ~err /\ v \notin {Absent, Blank} => others = {}
       PROVE  Repaired(sc, d, f) = v
  <2>1. ~(enum /\ v \in Structured \ {Blank})
    BY <1>10
  <2>2. ~(enum /\ v \notin Structured \cup {Blank} /\ near # Blank)
    BY <1>10
  <2>3. ~(~err /\ v \notin {Absent, Blank} /\ others # {})
    BY <1>10
  <2> QED BY <1>1, <1>10, <2>1, <2>2, <2>3, Zenon
<1> USE DEF near, req, enum, type, err, others, v, s
<1> QED BY <1>5, <1>6, <1>7, <1>8, <1>9, <1>10, Zenon

\* The outliers are exactly the sound values other than the agreed one.
LEMMA OthersAre ==
    ASSUME NEW sc, Sane(sc), NEW d \in sc.valid, NEW f
    PROVE  /\ d \in Sound(sc, sc.eff[d], d, f) <=>
                 ~HasError(sc, d, f) /\ Value(sc, d, f) \notin {Absent, Blank} /\ d \notin Index
           /\ IsEnum(sc.eff[d], f) /\ d \notin Index =>
                 Others(sc, d, f) = Dissents(sc, sc.eff[d], d, f)
           /\ ~(IsEnum(sc.eff[d], f) /\ d \notin Index) => Others(sc, d, f) = {}
           /\ \A v, w \in Dissents(sc, sc.eff[d], d, f) : v = w
<1> DEFINE s == sc.eff[d]
<1>1. ~HasError(sc, d, f) => Value(sc, d, f) \notin Natives
  BY DEF HasError, Breaks
<1>2. d \in Members(sc, s)
  BY DEF Members
<1>3. d \in Sound(sc, s, d, f) <=>
         ~HasError(sc, d, f) /\ Value(sc, d, f) \notin {Absent, Blank} /\ d \notin Index
  BY <1>1, <1>2 DEF Sound, Voters, Siblings
<1>4. Sound(sc, s, d, f) \in SUBSET Docs
  BY VotersIn
<1>5. ASSUME IsEnum(s, f), d \notin Index
      PROVE  Others(sc, d, f) = Dissents(sc, s, d, f)
  <2>1. ASSUME NEW w, Agreement(sc, Sound(sc, s, d, f), f, w, 3, 3, 4)
        PROVE  w \in Allowed(s, f)
    <3>1. PICK e \in Sound(sc, s, d, f) : w = Value(sc, e, f)
      BY <1>4, <2>1, AgreementOne
    <3>2. sc.eff[e] = s /\ Value(sc, e, f) \notin {Absent} \cup Natives /\ ~HasError(sc, e, f)
      BY DEF Sound, Voters, Siblings, Members
    <3>3. ~Breaks("enum", sc, e, f)
      BY <3>2 DEF HasError
    <3> QED BY <1>5, <3>1, <3>2, <3>3 DEF Breaks
  <2>2. \A w : w \in Others(sc, d, f) <=>
                  /\ w \in Allowed(s, f) /\ w # Value(sc, d, f)
                  /\ Agreement(sc, Sound(sc, s, d, f), f, w, 3, 3, 4)
    BY <1>5 DEF Others
  <2>3. \A w : w \in Dissents(sc, s, d, f) <=>
                  /\ w # Value(sc, d, f) /\ Agreement(sc, Sound(sc, s, d, f), f, w, 3, 3, 4)
    BY DEF Dissents, AgreedOn, Agreement
  <2> QED BY <2>1, <2>2, <2>3
<1>6. ~(IsEnum(s, f) /\ d \notin Index) => Others(sc, d, f) = {}
  BY DEF Others
<1>7. ASSUME NEW v \in Dissents(sc, s, d, f), NEW w \in Dissents(sc, s, d, f) PROVE v = w
  <2>1. v \in Majority(sc, Sound(sc, s, d, f), f) /\ w \in Majority(sc, Sound(sc, s, d, f), f)
    BY DEF Dissents, AgreedOn
  <2> QED BY <1>4, <2>1, MajorityOne
<1> QED BY <1>3, <1>5, <1>6, <1>7

\* Nothing but the detector of the broken rule proposes for a field.
LEMMA AnalyzeOn ==
    ASSUME NEW sc, Sane(sc), NEW d \in sc.valid, NEW f \in Fields,
           NEW q \in Analyze(sc, sc.eff[d]), On(q, d, f)
    PROVE  /\ Breaks("required", sc, d, f) =>
                 \/ q \in ExtractBodies(sc, sc.eff[d])
                 \/ q \in InferFromSiblings(sc, sc.eff[d])
                 \/ q \in AddFields(sc, sc.eff[d])
           /\ Breaks("enum", sc, d, f) =>
                 q \in MigrateValues(sc, sc.eff[d]) \/ q \in CorrectValues(sc, sc.eff[d])
           /\ Breaks("type", sc, d, f) => q \in TypeRepairs(sc, sc.eff[d])
           /\ ~Breaks("required", sc, d, f) /\ ~Breaks("enum", sc, d, f) /\ ~Breaks("type", sc, d, f)
                 => q \in OutlierValues(sc, sc.eff[d])
<1> DEFINE s == sc.eff[d]
<1>1. /\ Breaks("required", sc, d, f) =>
             ~Breaks("enum", sc, d, f) /\ ~Breaks("type", sc, d, f) /\ HasError(sc, d, f)
      /\ Breaks("enum", sc, d, f) => ~Breaks("type", sc, d, f) /\ HasError(sc, d, f)
      /\ Breaks("type", sc, d, f) => HasError(sc, d, f)
  BY ValuesAssumption DEF Breaks, Natives, HasError
<1>2. q \in MigrateValues(sc, s) => Breaks("enum", sc, d, f)
  BY MigrateAt
<1>3. q \in CorrectValues(sc, s) => Breaks("enum", sc, d, f)
  BY CorrectAt
<1>4. q \in ExtractBodies(sc, s) => Breaks("required", sc, d, f)
  BY ExtractAt
<1>5. q \in InferFromSiblings(sc, s) => Breaks("required", sc, d, f)
  BY InferAt
<1>6. q \in AddFields(sc, s) => Breaks("required", sc, d, f)
  BY AddAt
<1>7. q \in TypeRepairs(sc, s) => Breaks("type", sc, d, f)
  BY TypeAt
<1>8. q \in OutlierValues(sc, s) => ~HasError(sc, d, f)
  BY OutlierAt, OthersAre
<1> QED BY <1>1, <1>2, <1>3, <1>4, <1>5, <1>6, <1>7, <1>8 DEF Analyze

\* The proposals of one group on a field: the latest that is not withheld
\* carries the value the scan determines; without one the value stands.
LEMMA AnalyzeDecides ==
    ASSUME NEW sc, Sane(sc), NEW d \in sc.valid, NEW f \in Fields,
           NEW q \in Analyze(sc, sc.eff[d]), On(q, d, f), ~Withheld(q),
           \A o \in Analyze(sc, sc.eff[d]) : On(o, d, f) /\ ~Withheld(o) => o.turn <= q.turn
    PROVE  q.to = Repaired(sc, d, f)
<1> DEFINE s == sc.eff[d]
           v == Value(sc, d, f)
<1>1. CASE Breaks("required", sc, d, f)
  <2>1. Repaired(sc, d, f) = Missing(sc, d, f)
    BY <1>1, RepairedIs
  <2>2. CASE \E o \in InferFromSiblings(sc, s) : On(o, d, f)
    <3>1. PICK o \in InferFromSiblings(sc, s) : On(o, d, f)
      BY <2>2
    <3>2. o.turn = 4 /\ o.type = "infer_from_siblings" /\ o \in Analyze(sc, s)
      BY <3>1, InferAt DEF Analyze
    <3>3. 4 <= q.turn
      BY <3>1, <3>2 DEF Withheld
    <3>4. q \notin ExtractBodies(sc, s)
      BY <3>3, ExtractAt
    <3>5. q \notin AddFields(sc, s)
      BY <3>1, AddAt
    <3>6. q \in InferFromSiblings(sc, s)
      BY <1>1, <3>4, <3>5, AnalyzeOn
    <3>7. /\ d \notin Index /\ IsEnum(s, f)
          /\ Agreement(sc, Voters(sc, s, d, f), f, q.to, 2, 6, 10)
      BY <3>6, InferAt
    <3>8. Agreeing(sc, d, f) = {q.to}
      BY <3>7, AgreeingOne
    <3> QED BY <2>1, <3>8, MissingIs
  <2>3. CASE \A o \in InferFromSiblings(sc, s) : ~On(o, d, f)
    <3>1. Agreeing(sc, d, f) = {}
      BY <1>1, <2>3, InferAt DEF Agreeing
    <3>2. CASE q \in ExtractBodies(sc, s)
      BY <2>1, <3>1, <3>2, ExtractAt, MissingIs
    <3>3. CASE q \in AddFields(sc, s)
      <4>1. /\ q.to = AddFieldValue(s, f)[1] /\ q.source = AddFieldValue(s, f)[2]
            /\ q.type = "add_field"
            /\ \A o \in ExtractBodies(sc, s) : ~On(o, d, f)
        BY <3>3, AddAt
      <4>2. sc.doc[d].body[f] = Absent
        BY <1>1, <4>1, ExtractAt
      <4>3. fill \/ s.fields[f].default # Blank
        <5>1. s.fields[f].default = Blank => IsEngineChosen(AddFieldValue(s, f)[2])
          BY DEF AddFieldValue, IsEngineChosen
        <5> QED BY <4>1, <5>1 DEF Withheld
      <4> QED BY <2>1, <3>1, <4>1, <4>2, <4>3, MissingIs
    <3> QED BY <1>1, <2>3, <3>2, <3>3, AnalyzeOn
  <2> QED BY <2>2, <2>3
<1>2. CASE Breaks("enum", sc, d, f)
  <2>1. CASE q \in MigrateValues(sc, s)
    BY <2>1, MigrateAt, RepairedIs
  <2>2. CASE q \in CorrectValues(sc, s)
    BY <2>2, CorrectAt, RepairedIs
  <2> QED BY <1>2, <2>1, <2>2, AnalyzeOn
<1>3. CASE Breaks("type", sc, d, f)
  <2>1. q \in TypeRepairs(sc, s)
    BY <1>3, AnalyzeOn
  <2> QED BY <1>3, <2>1, TypeAt, RepairedIs
<1>4. CASE ~Breaks("required", sc, d, f) /\ ~Breaks("enum", sc, d, f) /\ ~Breaks("type", sc, d, f)
  <2>1. q \in OutlierValues(sc, s)
    BY <1>4, AnalyzeOn
  <2>2. /\ IsEnum(s, f) /\ d \in Sound(sc, s, d, f) /\ q.to \in Dissents(sc, s, d, f)
    BY <2>1, OutlierAt
  <2>3. /\ ~HasError(sc, d, f) /\ v \notin {Absent, Blank} /\ d \notin Index
        /\ Others(sc, d, f) = Dissents(sc, s, d, f)
        /\ \A x, y \in Dissents(sc, s, d, f) : x = y
    BY <2>2, OthersAre
  <2>4. Repaired(sc, d, f) = CHOOSE w \in Others(sc, d, f) : TRUE
    BY <2>2, <2>3, RepairedIs
  <2>5. Others(sc, d, f) = {q.to}
    BY <2>2, <2>3
  <2>6. (CHOOSE w \in Others(sc, d, f) : TRUE) = q.to
    BY <2>5
  <2> QED BY <2>4, <2>6
<1> QED BY <1>1, <1>2, <1>3, <1>4

LEMMA AnalyzeKeeps ==
    ASSUME NEW sc, Sane(sc), NEW d \in sc.valid, NEW f \in Fields,
           \A o \in Analyze(sc, sc.eff[d]) : On(o, d, f) => Withheld(o)
    PROVE  Repaired(sc, d, f) = Value(sc, d, f)
<1> DEFINE s == sc.eff[d]
           v == Value(sc, d, f)
<1>1. \A o \in Analyze(sc, s) : On(o, d, f) => o.type = "add_field"
  BY DEF Withheld
<1>2. CASE Breaks("required", sc, d, f)
  <2>1. \A o \in ExtractBodies(sc, s) \cup InferFromSiblings(sc, s) : ~On(o, d, f)
    BY <1>1, ExtractAt, InferAt DEF Analyze
  <2>2. PICK q \in AddFields(sc, s) : On(q, d, f)
    BY <1>2, <2>1, AddAt
  <2>3. Withheld(q) /\ q.source = AddFieldValue(s, f)[2]
    BY <2>2, AddAt DEF Analyze
  <2>4. ~fill /\ s.fields[f].default = Blank
    BY <2>3 DEF Withheld, AddFieldValue, IsEngineChosen
  <2>5. sc.doc[d].body[f] = Absent
    BY <1>2, <2>1, ExtractAt
  <2>6. Agreeing(sc, d, f) = {}
    BY <1>2, <2>1, InferAt DEF Agreeing
  <2>7. Missing(sc, d, f) = Absent
    BY <2>4, <2>5, <2>6, MissingIs
  <2> QED BY <1>2, <2>7, RepairedIs, BreaksRequired
<1>3. CASE ~Breaks("required", sc, d, f)
  <2>1. ~Breaks("type", sc, d, f)
    <3>1. \A o \in TypeRepairs(sc, s) : ~On(o, d, f)
      BY <1>1, TypeAt DEF Analyze
    <3> QED BY <3>1, TypeAt
  <2>2. Breaks("enum", sc, d, f) => v = Blank \/ (v \notin Structured /\ Closest(v, Allowed(s, f)) = Blank)
    <3>1. \A o \in MigrateValues(sc, s) \cup CorrectValues(sc, s) : ~On(o, d, f)
      BY <1>1, MigrateAt, CorrectAt DEF Analyze
    <3> QED BY <3>1, MigrateAt, CorrectAt
  <2>3. ~HasError(sc, d, f) /\ v \notin {Absent, Blank} => Others(sc, d, f) = {}
    <3> SUFFICES ASSUME ~HasError(sc, d, f), v \notin {Absent, Blank}, IsEnum(s, f), d \notin Index
                 PROVE  Others(sc, d, f) = {}
      BY OthersAre
    <3>1. d \in Sound(sc, s, d, f) /\ Others(sc, d, f) = Dissents(sc, s, d, f)
      BY OthersAre
    <3>2. \A o \in OutlierValues(sc, s) : ~On(o, d, f)
      BY <1>1, OutlierAt DEF Analyze
    <3> QED BY <3>1, <3>2, OutlierAt
  <2> QED BY <1>3, <2>1, <2>2, <2>3, RepairedIs
<1> QED BY <1>2, <1>3

LEMMA TurnOf ==
    ASSUME NEW sc, Sane(sc), NEW s
    PROVE  /\ \A q \in Analyze(sc, s) : q.turn \in 1..7
           /\ \A q \in PropagateAggregates(sc, s) : q.turn = 8 /\ q.type = "propagate_aggregate"
<1>1. ASSUME NEW q \in Analyze(sc, s) \cup PropagateAggregates(sc, s)
      PROVE  q.doc \in sc.valid /\ sc.eff[q.doc] = s /\ q.field \in Fields /\ On(q, q.doc, q.field)
  BY AnalyzeChanges DEF Changing, On
<1>2. ASSUME NEW q \in Analyze(sc, s) PROVE q.turn \in 1..7
  <2>1. q.doc \in sc.valid /\ sc.eff[q.doc] = s /\ q.field \in Fields /\ On(q, q.doc, q.field)
    BY <1>1
  <2>2. q \in MigrateValues(sc, s) => q.turn = 1
    BY <2>1, MigrateAt
  <2>3. q \in CorrectValues(sc, s) => q.turn = 2
    BY <2>1, CorrectAt
  <2>4. q \in ExtractBodies(sc, s) => q.turn = 3
    BY <2>1, ExtractAt
  <2>5. q \in InferFromSiblings(sc, s) => q.turn = 4
    BY <2>1, InferAt
  <2>6. q \in AddFields(sc, s) => q.turn = 5
    BY <2>1, AddAt
  <2>7. q \in OutlierValues(sc, s) => q.turn = 6
    BY <2>1, OutlierAt
  <2>8. q \in TypeRepairs(sc, s) => q.turn = 7
    BY <2>1, TypeAt
  <2> QED BY <2>2, <2>3, <2>4, <2>5, <2>6, <2>7, <2>8 DEF Analyze
<1>3. ASSUME NEW q \in PropagateAggregates(sc, s)
      PROVE  q.turn = 8 /\ q.type = "propagate_aggregate"
  <2>1. q.doc \in sc.valid /\ sc.eff[q.doc] = s /\ q.field \in Fields /\ On(q, q.doc, q.field)
    BY <1>1
  <2> QED BY <2>1, PropagateAt
<1> QED BY <1>2, <1>3

LEMMA ReportTurn ==
    ASSUME NEW sc, Sane(sc), NEW pr, NEW p \in Report(sc, pr)
    PROVE  p.turn \in Nat
<1> DEFINE s == sc.eff[p.doc]
<1>1. s \in Groups(sc)
  BY ReportFrom
<1>2. Rank(sc, s) \in Nat
  BY <1>1, RankNat
<1>3. PICK q : \/ q \in Analyze(sc, s) /\ Shifted(p, q, 10 * Rank(sc, s))
               \/ q \in PropagateAggregates(sc, s) /\ Shifted(p, q, 1000 + 10 * Rank(sc, s))
  BY ReportFrom
<1>4. q.turn \in Nat /\ (p.turn = q.turn + 10 * Rank(sc, s) \/ p.turn = q.turn + (1000 + 10 * Rank(sc, s)))
  <2>1. q.turn \in 1..7 \/ q.turn = 8
    BY <1>3, TurnOf
  <2>2. q.turn \in Nat
    BY <2>1
  <2> QED BY <1>3, <2>2 DEF Shifted
<1> QED BY <1>2, <1>4

LEMMA ShiftedOn ==
    ASSUME NEW p, NEW q, NEW n, Shifted(p, q, n)
    PROVE  /\ (Withheld(p) <=> Withheld(q)) /\ p.to = q.to /\ p.turn = q.turn + n
           /\ \A d, f : On(p, d, f) <=> On(q, d, f)
BY DEF Shifted, Withheld, On

\* The latest proposal of a report on a field that is not withheld carries the
\* value the scan determines.
LEMMA ReportDecides ==
    ASSUME NEW sc, Sane(sc), NEW p \in Report(sc, propagate), NEW d, NEW f, On(p, d, f), ~Withheld(p),
           \A o \in Report(sc, propagate) : On(o, d, f) /\ ~Withheld(o) => o.turn <= p.turn
    PROVE  p.to = Expected(sc, d, f)
<1> DEFINE s == sc.eff[d]
<1>1. p.doc = d /\ p.field = f /\ d \in sc.valid /\ s \in Groups(sc) /\ f \in Fields
  BY ReportFrom, ReportChanges DEF On
<1>2. PICK k : k = Rank(sc, s)
  OBVIOUS
<1>3. k \in Nat
  BY <1>1, <1>2, RankNat
<1>4. PICK q : \/ q \in Analyze(sc, s) /\ Shifted(p, q, 10 * k)
               \/ propagate /\ q \in PropagateAggregates(sc, s) /\ Shifted(p, q, 1000 + 10 * k)
  BY <1>1, <1>2, ReportFrom
<1>5. On(q, d, f) /\ ~Withheld(q) /\ p.to = q.to
  BY <1>4, ShiftedOn
<1>6. CASE propagate /\ Breaks("aggregate", sc, d, f) /\ Spells(sc, d, f)
  <2>1. PICK a \in PropagateAggregates(sc, s) : On(a, d, f)
    BY <1>1, <1>6, PropagateAt
  <2>2. a.turn = 8 /\ ~Withheld(a)
    BY TurnOf DEF Withheld
  <2>9. AfterGroup(sc, s) \subseteq Report(sc, propagate)
    BY <1>1, <1>6, ReportIs
  <2>3. PICK o \in Report(sc, propagate) : Shifted(o, a, 1000 + 10 * k)
    BY <1>2, <2>9, ReportTakesLast
  <2>4. On(o, d, f) /\ ~Withheld(o) /\ o.turn = 8 + (1000 + 10 * k)
    BY <2>1, <2>2, <2>3, ShiftedOn
  <2>5. 8 + (1000 + 10 * k) <= p.turn
    BY <2>4
  <2>6. q \in PropagateAggregates(sc, s)
    <3>1. SUFFICES ASSUME q \in Analyze(sc, s), Shifted(p, q, 10 * k) PROVE FALSE
      BY <1>4
    <3>2. q.turn \in 1..7 /\ p.turn = q.turn + 10 * k
      BY <3>1, TurnOf, ShiftedOn
    <3> QED BY <1>3, <2>5, <3>2
  <2>7. q.to = Derived(sc, d, f)
    BY <1>1, <1>5, <2>6, PropagateAt
  <2>8. Expected(sc, d, f) = Derived(sc, d, f)
    BY <1>1, <1>6 DEF Expected, Spells
  <2> QED BY <1>5, <2>7, <2>8
<1>7. CASE ~(propagate /\ Breaks("aggregate", sc, d, f) /\ Spells(sc, d, f))
  <2>1. q \in Analyze(sc, s) /\ Shifted(p, q, 10 * k)
    <3>1. ~(propagate /\ q \in PropagateAggregates(sc, s))
      BY <1>1, <1>5, <1>7, PropagateAt
    <3> QED BY <1>4, <3>1
  <2>2. ASSUME NEW o \in Analyze(sc, s), On(o, d, f), ~Withheld(o)
        PROVE  o.turn <= q.turn
    <3>1. PICK r \in Report(sc, propagate) : Shifted(r, o, 10 * k)
      BY <1>1, <1>2, ReportTakes
    <3>2. On(r, d, f) /\ ~Withheld(r) /\ r.turn = o.turn + 10 * k
      BY <2>2, <3>1, ShiftedOn
    <3>3. r.turn <= p.turn /\ p.turn = q.turn + 10 * k
      BY <2>1, <3>2, ShiftedOn
    <3>4. o.turn \in 1..7 /\ q.turn \in 1..7
      BY <2>1, TurnOf
    <3> QED BY <1>3, <3>2, <3>3, <3>4
  <2>3. q.to = Repaired(sc, d, f)
    BY <1>1, <1>5, <2>1, <2>2, AnalyzeDecides
  <2>4. Expected(sc, d, f) = Repaired(sc, d, f)
    BY <1>1, <1>7 DEF Expected, Spells
  <2> QED BY <1>5, <2>3, <2>4
<1> QED BY <1>6, <1>7

LEMMA ReportKeeps ==
    ASSUME NEW sc, Sane(sc), NEW d, NEW f \in Fields,
           \A o \in Report(sc, propagate) : On(o, d, f) => Withheld(o)
    PROVE  Expected(sc, d, f) = Value(sc, d, f)
<1> DEFINE s == sc.eff[d]
<1>1. CASE d \notin sc.valid
  BY <1>1 DEF Expected
<1>2. CASE d \in sc.valid
  <2>1. s \in Groups(sc)
    BY <1>2 DEF Groups
  <2>2. ~(propagate /\ Breaks("aggregate", sc, d, f) /\ Spells(sc, d, f))
    <3>1. SUFFICES ASSUME propagate, Breaks("aggregate", sc, d, f), Spells(sc, d, f) PROVE FALSE
      OBVIOUS
    <3>2. PICK a \in PropagateAggregates(sc, s) : On(a, d, f)
      BY <1>2, <3>1, PropagateAt
    <3>3. ~Withheld(a)
      BY TurnOf DEF Withheld
    <3>6. AfterGroup(sc, s) \subseteq Report(sc, propagate)
      BY <2>1, <3>1, ReportIs
    <3>4. PICK o \in Report(sc, propagate) : Shifted(o, a, 1000 + 10 * Rank(sc, s))
      BY <3>6, ReportTakesLast
    <3>5. On(o, d, f) /\ ~Withheld(o)
      BY <3>2, <3>3, <3>4, ShiftedOn
    <3> QED BY <3>5
  <2>3. ASSUME NEW q \in Analyze(sc, s), On(q, d, f) PROVE Withheld(q)
    <3>1. PICK o \in Report(sc, propagate) : Shifted(o, q, 10 * Rank(sc, s))
      BY <2>1, ReportTakes
    <3> QED BY <2>3, <3>1, ShiftedOn
  <2>4. Repaired(sc, d, f) = Value(sc, d, f)
    BY <1>2, <2>3, AnalyzeKeeps
  <2> QED BY <1>2, <2>2, <2>4 DEF Expected, Spells
<1> QED BY <1>1, <1>2

-----------------------------------------------------------------------------
(* The apply loop takes the proposals in the order of their turns, so that  *)
(* a record holds what the latest one applied to it says.                   *)

Latest(d, f) ==
    (\E p \in Done : On(p, d, f)) =>
        \E p \in Done : /\ On(p, d, f) /\ mem[d][f] = p.to
                        /\ \A o \in Done : On(o, d, f) => o.turn <= p.turn

Ordering ==
    /\ Left \cup Done \cup skipped = Report(scan, propagate)
    /\ \A p \in skipped : Withheld(p)
    /\ \A p \in Done : \A q \in Left : p.turn <= q.turn
    /\ \A d \in Docs \ disturbed : Coming[d].body = scan.doc[d].body
    /\ \A d \in Docs \ disturbed : \A f \in Fields : Latest(d, f)

\* The body of a document its author saved: that text, or the one scanned when
\* the save fell between the reading and the replacement.
Kept(d, b) ==
    \/ \E e \in Edits : e[1] = d /\ b = e[2].body
    \/ d \in overtaken /\ b = scan.doc[d].body
SavedText == \A d \in Docs \cap disturbed : Kept(d, disk[d].body) /\ Kept(d, Coming[d].body)

Determined ==
    \A d \in Docs \ disturbed :
        /\ \A f \in Fields : disk[d].fm[f] = IF disk[d].closed THEN Expected(scan, d, f)
                                             ELSE Value(scan, d, f)
        /\ disk[d].body = scan.doc[d].body

Deciding ==
    /\ Applying => Ordering /\ SavedText
    /\ batch # None /\ ~batch.dry => Determined /\ SavedText

LEMMA PlanDeciding == ASSUME Telling, Plan PROVE Deciding'
<1>1. /\ scan' = ScanOf(disk) /\ queue' = Report(scan', propagate) /\ applied' = {} /\ skipped' = {}
      /\ UNCHANGED <<disk, propagate>> /\ batch' = None /\ disturbed' = {} /\ pc' # "replace"
  BY DEF Plan, session
<1>2. /\ \A d \in Docs : Coming'[d] = disk[d]
      /\ Done' = {} /\ Left' = queue'
  BY <1>1 DEF Coming, Done, Left, Handled, InHand
<1>3. \A d \in Docs : Coming'[d].body = scan'.doc[d].body
  BY <1>1, <1>2 DEF ScanOf
<1>4. \A d, f : Latest(d, f)'
  BY <1>2 DEF Latest
<1>5. Ordering'
  BY <1>1, <1>2, <1>3, <1>4 DEF Ordering
<1> QED BY <1>1, <1>5 DEF Deciding, SavedText

LEMMA ResultBody == ASSUME NEW p PROVE Result(p).body = disk[p.doc].body
<1>1. Rewritten(disk[p.doc], Corrected(p)[p.doc]).body = disk[p.doc].body
  BY DEF Rewritten
<1> QED BY <1>1 DEF Result, WithLinks

\* One more proposal taken in hand: no later in turn than what is left, no
\* earlier than what was applied.
LEMMA RewriteOrdering ==
    ASSUME Telling, Ordering, pc = "apply", NEW p \in Due, ~Withheld(p), Result(p) # disk[p.doc],
           mem' = Corrected(p), hand' = [proposal |-> p, text |-> Result(p)], pc' = "replace",
           UNCHANGED <<disk, scan, queue, applied, skipped, propagate, fill, disturbed>>
    PROVE  /\ Ordering'
           /\ \A d \in Docs : Coming'[d].body = disk[d].body
<1>1. /\ p \in queue /\ Sane(scan) /\ DOMAIN mem = Docs
      /\ \A q \in queue : p.turn <= q.turn
      /\ Left = queue /\ Done = applied /\ \A d \in Docs : Coming[d] = disk[d]
  BY NothingInHand DEF Due, Telling, Following, Applying
<1>2. p \in Report(scan, propagate)
  BY <1>1 DEF Ordering
<1>3. p.doc \in Docs /\ p.field \in Fields /\ p.turn \in Nat
  BY <1>1, <1>2, ReportChanges, ReportTurn DEF Sane
<1>a. hand'.proposal = p /\ hand'.text = Result(p)
  OBVIOUS
<1>b. Done' = applied \cup {p} /\ Left' = queue \ {p}
  BY <1>a DEF Done, Left, Handled
<1>4. Left' \cup Done' \cup skipped' = Report(scan', propagate')
  <2>1. Left' \cup Done' \cup skipped' = Left \cup Done \cup skipped
    BY <1>1, <1>b
  <2> QED BY <2>1 DEF Ordering
<1>5. \A q \in skipped' : Withheld(q)'
  BY DEF Ordering, Withheld
<1>6. \A q \in Done' : \A r \in Left' : q.turn <= r.turn
  BY <1>1, <1>b DEF Ordering
<1>7. Result(p).body = disk[p.doc].body
  BY ResultBody
<1>8. \A d \in Docs : Coming'[d].body = disk[d].body
  BY <1>7, <1>a DEF Coming, InHand
<1>9. \A d \in Docs \ disturbed' : Coming'[d].body = scan'.doc[d].body
  BY <1>1, <1>8 DEF Ordering
<1>10. ASSUME NEW d \in Docs \ disturbed, NEW f \in Fields PROVE Latest(d, f)'
  <2>1. Latest(d, f)
    BY DEF Ordering
  <2>2. CASE On(p, d, f)
    <3>1. mem'[d][f] = p.to
      BY <1>1, <1>3, <2>2 DEF On, Corrected, WithField
    <3>2. \A o \in Done' : o.turn <= p.turn
      BY <1>1, <1>3, <1>b DEF Ordering
    <3> QED BY <1>b, <2>2, <3>1, <3>2 DEF Latest
  <2>3. CASE ~On(p, d, f)
    <3>1. mem'[d][f] = mem[d][f]
      <4>1. CASE d = p.doc
        <5>1. mem'[d] = WithField(mem[d], p.field, p.to) /\ f # p.field
          BY <1>1, <1>3, <2>3, <4>1 DEF On, Corrected
        <5> QED BY <5>1 DEF WithField
      <4>2. CASE d # p.doc
        BY <1>1, <4>2 DEF Corrected
      <4> QED BY <4>1, <4>2
    <3>2. \A o \in Done' : On(o, d, f) => o \in Done
      BY <1>1, <1>b, <2>3
    <3>3. Done \subseteq Done'
      BY <1>1, <1>b
    <3> QED BY <2>1, <3>1, <3>2, <3>3 DEF Latest
  <2> QED BY <2>2, <2>3
<1> QED BY <1>4, <1>5, <1>6, <1>8, <1>9, <1>10 DEF Ordering

LEMMA RewriteDeciding == ASSUME Telling, Deciding, Rewrite PROVE Deciding'
<1>1. PICK p \in Due :
          /\ ~Withheld(p)
          /\ IF Result(p) # disk[p.doc]
             THEN /\ pc' = "replace" /\ mem' = Corrected(p)
                  /\ hand' = [proposal |-> p, text |-> Result(p)]
                  /\ UNCHANGED <<scan, queue, applied, skipped, files, batch>>
             ELSE Exit
  BY DEF Rewrite
<1>2. pc = "apply" /\ UNCHANGED <<disk, propagate, fill, disturbed, overtaken>> /\ batch = None
      /\ Ordering /\ SavedText
  BY DEF Rewrite, session, edited, Telling, Deciding, Applying
<1>3. CASE Result(p) = disk[p.doc]
  BY <1>1, <1>2, <1>3 DEF Exit, Deciding, Applying
<1>4. CASE Result(p) # disk[p.doc]
  <2>1. /\ mem' = Corrected(p) /\ hand' = [proposal |-> p, text |-> Result(p)] /\ pc' = "replace"
        /\ UNCHANGED <<scan, queue, applied, skipped, batch>>
    BY <1>1, <1>4
  <2>2. Ordering' /\ \A d \in Docs : Coming'[d].body = disk[d].body
    BY <1>1, <1>2, <1>4, <2>1, RewriteOrdering
  <2>3. SavedText'
    BY <1>2, <2>1, <2>2 DEF SavedText, Kept
  <2> QED BY <1>2, <2>1, <2>2, <2>3 DEF Deciding
<1> QED BY <1>3, <1>4

LEMMA ReplaceDeciding == ASSUME Telling, Deciding, Replace PROVE Deciding'
<1>1. /\ pc = "replace" /\ pc' = "apply" /\ batch = None /\ batch' = None
      /\ UNCHANGED <<propagate, fill, disturbed, overtaken, scan, mem, skipped>>
      /\ Ordering /\ SavedText
  BY DEF Replace, session, edited, Telling, Deciding, Applying
<1>2. /\ \A d \in Docs : Coming'[d] = Coming[d] /\ disk'[d] = Coming[d]
      /\ Done' = Done /\ Left' = Left
  BY ReplaceComes DEF Telling
<1>3. \A d, f : Latest(d, f)' <=> Latest(d, f)
  BY <1>1, <1>2 DEF Latest
<1>4. \A q : Withheld(q)' <=> Withheld(q)
  BY <1>1 DEF Withheld
<1>5. Ordering'
  BY <1>1, <1>2, <1>3, <1>4 DEF Ordering
<1>6. SavedText'
  BY <1>1, <1>2 DEF SavedText, Kept
<1> QED BY <1>1, <1>5, <1>6 DEF Deciding

LEMMA DeferDeciding == ASSUME Telling, Deciding, Defer PROVE Deciding'
<1>1. PICK p \in Due : Withheld(p) /\ queue' = queue \ {p} /\ skipped' = skipped \cup {p}
  BY DEF Defer
<1>2. /\ UNCHANGED <<disk, fill, propagate, pc, scan, mem, applied, hand, batch, disturbed, overtaken>>
      /\ pc = "apply" /\ Ordering /\ SavedText /\ batch = None /\ p \in queue
  BY <1>1 DEF Defer, session, edited, Telling, Deciding, Due, Applying
<1>a. /\ \A d \in Docs : Coming[d] = disk[d] /\ Coming'[d] = disk[d]
      /\ Done = applied /\ Done' = applied /\ Left = queue /\ Left' = queue'
  BY <1>2, NothingInHand DEF Telling, Coming, Done, Left, Handled, InHand
<1>3. Left' \cup Done' \cup skipped' = Left \cup Done \cup skipped
  BY <1>1, <1>2, <1>a
<1>4. \A q \in skipped' : Withheld(q)'
  BY <1>1, <1>2 DEF Ordering, Withheld
<1>5. \A d, f : Latest(d, f)' <=> Latest(d, f)
  BY <1>2, <1>a DEF Latest
<1>6. \A q \in Done' : \A r \in Left' : q.turn <= r.turn
  BY <1>1, <1>2, <1>a DEF Ordering
<1>7. Ordering'
  BY <1>2, <1>3, <1>4, <1>5, <1>6, <1>a DEF Ordering
<1>8. SavedText'
  BY <1>2, <1>a DEF SavedText, Kept
<1> QED BY <1>2, <1>7, <1>8 DEF Deciding

\* Every proposal was applied or withheld: each field of each document is what
\* the latest one says, or what it was.
LEMMA EmitDetermined ==
    ASSUME Telling, Ordering, pc = "apply", queue = {},
           NEW d \in Docs \ disturbed, NEW f \in Fields
    PROVE  disk[d].fm[f] = IF disk[d].closed THEN Expected(scan, d, f) ELSE Value(scan, d, f)
<1>0. Done = applied /\ Left = queue /\ Coming[d] = disk[d]
  BY NothingInHand DEF Telling
<1>1. /\ Sane(scan) /\ FollowedBy(d, disk[d], applied)
      /\ (\A p \in applied : ~Withheld(p)) /\ IsDocument(disk[d])
  BY <1>0 DEF Telling, Following, Documents, Followed, Applying
<1>2. applied \cup skipped = Report(scan, propagate) /\ \A p \in skipped : Withheld(p)
  BY <1>0 DEF Ordering
<1>3. CASE ~disk[d].closed
  BY <1>1, <1>3 DEF FollowedBy, Value
<1>4. CASE disk[d].closed /\ \E p \in applied : On(p, d, f)
  <2>1. PICK p \in applied : /\ On(p, d, f) /\ mem[d][f] = p.to
                             /\ \A o \in applied : On(o, d, f) => o.turn <= p.turn
    BY <1>0, <1>4 DEF Ordering, Latest
  <2>2. p \in Report(scan, propagate) /\ ~Withheld(p)
    BY <1>1, <1>2
  <2>3. \A o \in Report(scan, propagate) : On(o, d, f) /\ ~Withheld(o) => o.turn <= p.turn
    BY <1>2, <2>1
  <2>4. p.to = Expected(scan, d, f)
    BY <1>1, <2>1, <2>2, <2>3, ReportDecides
  <2>5. disk[d].fm = mem[d]
    BY <1>1, <1>4 DEF FollowedBy
  <2> QED BY <1>4, <2>1, <2>4, <2>5
<1>5. CASE disk[d].closed /\ \A p \in applied : ~On(p, d, f)
  <2>1. \A o \in Report(scan, propagate) : On(o, d, f) => Withheld(o)
    BY <1>2, <1>5
  <2>2. Expected(scan, d, f) = Value(scan, d, f)
    BY <1>1, <2>1, ReportKeeps
  <2>3. disk[d].fm = mem[d] /\ mem[d][f] = Value(scan, d, f)
    BY <1>1, <1>5 DEF FollowedBy, On
  <2> QED BY <1>5, <2>2, <2>3
<1> QED BY <1>3, <1>4, <1>5

LEMMA ExpectedSame ==
    ASSUME UNCHANGED <<scan, propagate, fill>>, NEW d, NEW f
    PROVE  Expected(scan, d, f)' = Expected(scan, d, f)
<1>1. Missing(scan, d, f)' = Missing(scan, d, f)
  BY DEF Missing
<1>2. Repaired(scan, d, f)' = Repaired(scan, d, f)
  BY <1>1 DEF Repaired
<1> QED BY <1>2 DEF Expected

LEMMA EmitDeciding == ASSUME Telling, Deciding, Emit PROVE Deciding'
<1>1. /\ UNCHANGED <<disk, fill, propagate, scan, disturbed, overtaken>>
      /\ pc = "apply" /\ pc' = "idle" /\ queue = {} /\ Ordering /\ SavedText
  BY DEF Emit, session, edited, Deciding, Applying
<1>2. \A d \in Docs : Coming[d] = disk[d] /\ Coming'[d] = disk[d]
  BY <1>1 DEF Coming, InHand
<1>3. Determined
  BY <1>1, <1>2, EmitDetermined DEF Determined, Ordering
<1>4. Determined'
  BY <1>1, <1>3, ExpectedSame DEF Determined, Value
<1>5. SavedText'
  BY <1>1, <1>2 DEF SavedText, Kept
<1> QED BY <1>1, <1>4, <1>5 DEF Deciding, Applying

\* An author saves a document: the text saved stays, unless a rewrite of that
\* document was in hand, which puts back the text it had.
LEMMA EditDeciding == ASSUME Telling, Deciding, Edit PROVE Deciding'
<1>1. PICK e \in Edits : /\ disk' = [disk EXCEPT ![e[1]] = e[2]]
                         /\ disturbed' = disturbed \cup {e[1]}
                         /\ overtaken' = IF InHand(e[1]) THEN overtaken \cup {e[1]}
                                         ELSE overtaken \ {e[1]}
  BY DEF Edit
<1>2. UNCHANGED <<fill, propagate, pc, scan, mem, queue, applied, skipped, hand, batch>>
  BY DEF Edit, session, run
<1>3. \A d \in Docs \ disturbed' : d \notin disturbed /\ disk'[d] = disk[d]
  BY <1>1 DEF Telling, DiskOfDocs
<1>a. Done' = Done /\ Left' = Left
  BY <1>2 DEF Done, Left, Handled
<1>b. \A d \in Docs : Coming'[d] = IF InHand(d) THEN Coming[d] ELSE disk'[d]
  BY <1>2 DEF Coming, InHand
<1>4. SavedText /\ (Applying => Ordering) => SavedText'
  <2> SUFFICES ASSUME SavedText, Applying => Ordering, NEW d \in Docs, d \in disturbed'
               PROVE  Kept(d, disk[d].body)' /\ Kept(d, Coming[d].body)'
    BY DEF SavedText
  <2>1. CASE d = e[1]
    <3>1. Kept(d, disk[d].body)'
      BY <1>1, <2>1 DEF Telling, DiskOfDocs, Kept
    <3>2. CASE ~InHand(d)
      BY <1>b, <3>1, <3>2
    <3>3. CASE InHand(d)
      <4>1. Coming'[d] = Coming[d] /\ d \in overtaken' /\ scan' = scan
        BY <1>1, <1>2, <1>b, <2>1, <3>3
      <4>2. d \in disturbed => Kept(d, Coming[d].body)
        BY DEF SavedText
      <4>3. d \notin disturbed => Coming[d].body = scan.doc[d].body
        BY <3>3 DEF InHand, Applying, Ordering
      <4> QED BY <3>1, <4>1, <4>2, <4>3 DEF Kept
    <3> QED BY <3>2, <3>3
  <2>2. CASE d # e[1]
    <3>1. d \in disturbed /\ disk'[d] = disk[d] /\ Coming'[d] = Coming[d]
      <4>1. disk'[d] = disk[d]
        BY <1>1, <2>2 DEF Telling, DiskOfDocs
      <4> QED BY <1>1, <1>b, <2>2, <4>1 DEF Coming
    <3>2. (d \in overtaken' <=> d \in overtaken) /\ scan' = scan
      BY <1>1, <1>2, <2>2
    <3> QED BY <3>1, <3>2 DEF SavedText, Kept
  <2> QED BY <2>1, <2>2
<1>5. Determined => Determined'
  BY <1>2, <1>3, ExpectedSame DEF Determined, Value
<1>6. \A d, f : Latest(d, f) <=> Latest(d, f)'
  BY <1>2, <1>a DEF Latest
<1>7. \A p : Withheld(p)' <=> Withheld(p)
  BY <1>2 DEF Withheld
<1>8. \A d \in Docs \ disturbed' : Coming'[d] = Coming[d]
  BY <1>3, <1>b DEF Coming
<1>9. Ordering => Ordering'
  BY <1>2, <1>3, <1>6, <1>7, <1>8, <1>a DEF Ordering
<1>10. batch # None => ~Applying
  BY DEF Telling, Applying
<1> QED BY <1>2, <1>4, <1>5, <1>9, <1>10 DEF Deciding, Applying

LEMMA StillDeciding == ASSUME Deciding, UNCHANGED vars PROVE Deciding'
<1>1. UNCHANGED <<disk, fill, propagate, pc, scan, mem, queue, applied, skipped, hand, batch,
                  disturbed, overtaken>>
  BY DEF vars, session, run, edited
<1>2. Done' = Done /\ Left' = Left /\ Coming' = Coming
  BY <1>1 DEF Done, Left, Handled, Coming, InHand
<1>3. SavedText => SavedText'
  BY <1>1, <1>2 DEF SavedText, Kept
<1>4. Determined => Determined'
  BY <1>1, ExpectedSame DEF Determined, Value
<1>5. \A d, f : Latest(d, f) <=> Latest(d, f)'
  BY <1>1, <1>2 DEF Latest
<1>6. \A p : Withheld(p)' <=> Withheld(p)
  BY <1>1 DEF Withheld
<1>7. Ordering => Ordering'
  BY <1>1, <1>2, <1>5, <1>6 DEF Ordering
<1> QED BY <1>1, <1>3, <1>4, <1>7 DEF Deciding, Applying

LEMMA NextDeciding == ASSUME Telling, Deciding, [Next]_vars PROVE Deciding'
<1>1. CASE ApplyFails \/ EndNamed \/ FillFails \/ Kill
  <2>1. Exit /\ pc # "idle"
    BY <1>1 DEF ApplyFails, EndNamed, FillFails, Kill
  <2> QED BY <2>1 DEF Exit, Deciding, Telling, Applying
<1>2. CASE Truncate \/ Fill \/ ReadFile \/ StartNamed
  <2>1. batch' = None /\ pc' \notin {"apply", "replace"}
    BY <1>2 DEF Truncate, Fill, ReadFile, StartNamed, Exit, Telling
  <2> QED BY <2>1 DEF Deciding, Applying
<1>3. CASE Preview
  <2>1. batch'.dry = TRUE /\ pc' = "idle"
    BY <1>3 DEF Preview, Emitted
  <2> QED BY <2>1 DEF Deciding, Applying
<1> QED BY <1>1, <1>2, <1>3, PlanDeciding, RewriteDeciding, ReplaceDeciding, DeferDeciding,
           EmitDeciding, EditDeciding, StillDeciding DEF Next, FixAll, FixFile

\* runFixAll (cmd/fix.go) and fix.ApplyProposals: for every tree, set of
\* schemas, order of the detectors' maps and of the scan, and every failed
\* write, kill or edit, a fix --all that reports has made of each field what
\* the scan alone determines by the documented precedence, and of a document
\* its author saved meanwhile the text saved; when the save fell between the
\* reading of the text and the replacement of the file, a text it had before.
\* The argument: the proposals are applied in the order of their turns, so a
\* record holds what the latest of them says of a field, and among those of one
\* turn there is one, because no two values can both be the majority's; a
\* rewrite carries the body of the text it read, which is the scanned one until
\* an author saves another.
THEOREM RepairsAsDetermined == Spec => []RepairsByPriority
<1>1. Init => Deciding
  BY DEF Init, Deciding, Applying
<1>2. Telling /\ Deciding => RepairsByPriority
  <2> SUFFICES ASSUME Deciding, Reported, NEW d \in Docs
               PROVE  IF d \in disturbed
                      THEN LET saved == {e[2].body : e \in {x \in Edits : x[1] = d}} IN
                           disk[d].body \in saved
                           \/ (d \in overtaken /\ disk[d].body = scan.doc[d].body)
                      ELSE /\ \A f \in Fields :
                                 disk[d].fm[f] = IF disk[d].closed THEN Expected(scan, d, f)
                                                 ELSE Value(scan, d, f)
                           /\ disk[d].body = scan.doc[d].body
    BY DEF RepairsByPriority
  <2>1. Determined /\ SavedText
    BY DEF Deciding, Reported
  <2>2. CASE d \in disturbed
    <3>1. Kept(d, disk[d].body)
      BY <2>1, <2>2 DEF SavedText
    <3> QED BY <2>2, <3>1 DEF Kept
  <2>3. CASE d \notin disturbed
    BY <2>1, <2>3 DEF Determined
  <2> QED BY <2>2, <2>3
<1>3. Telling /\ Deciding /\ [Next]_vars => Deciding'
  BY NextDeciding
<1> QED BY <1>1, <1>2, <1>3, InitTelling, NextTelling, PTL DEF Spec
=============================================================================

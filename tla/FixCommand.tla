----------------------------- MODULE FixCommand -----------------------------
(***************************************************************************)
(* `rootline fix` over a tree that is fixed again and again: `fix --all`   *)
(* (scan, propose, apply proposal by proposal, report) and `fix <file>...` *)
(* (each file read, fixed in memory and rewritten in place), with writes   *)
(* that fail, commands that are killed and documents edited meanwhile.     *)
(*                                                                         *)
(* The in-memory frontmatter of a record outlives each proposal: an apply  *)
(* step sets one field of it and rewrites the file's whole frontmatter     *)
(* from it, over the text the file holds by then.  Reading that text and   *)
(* replacing the file are two steps, and what is saved between them is     *)
(* lost; the replacement itself is one, AtomicWrite says why.  The write   *)
(* of `fix <file>` truncates first and fills after, two steps as well.     *)
(***************************************************************************)
EXTENDS FixRules

CONSTANTS
    Broken,       \* stands for the schema of a document whose chain does not resolve
    Trees,        \* the trees, [doc, eff], a session may start from
    Named,        \* the argument lists of fix <file>...
    Edits,        \* the (document, content) pairs an author may save meanwhile
    MaxFaults,    \* bound on failed writes, kills and edits together
    None          \* no scan or rewrite in memory, or no envelope emitted

ASSUME TreesAssumption ==
    /\ \A tree \in Trees :
          /\ DOMAIN tree.doc = Docs
          /\ \A d \in Docs :
                /\ IsDocument(tree.doc[d])
                /\ tree.eff[d] # Broken => IsSchema(tree.eff[d])
    /\ \A e \in Edits : IsDocument(e[2])

VARIABLES
    disk,      \* content of each document
    eff,       \* its effective schema, or Broken
    fill,      \* --fill-missing on every command of this session
    propagate, \* not --no-propagate
    pc,
    scan,      \* what the last fix --all, or the file in hand, was read as
    mem,       \* frontmatter of the in-memory records
    queue,     \* proposals still to apply
    applied, skipped,
    hand,      \* the proposal in hand and the text it rewrites a file to, or None
    files,     \* the arguments fix <file>... has still to do
    batch,     \* the envelope the last command emitted, or None
    disturbed, \* documents edited since the last scan
    overtaken, \* those whose last edit came while a rewrite of them was in hand
    faults

session == <<eff, fill, propagate>>
run     == <<scan, mem, queue, applied, skipped, hand>>
edited  == <<disturbed, overtaken>>
vars    == <<disk, session, pc, run, files, batch, edited, faults>>

Resolved    == {d \in Docs : eff[d] # Broken}
ScanOf(t)   == [doc |-> t, eff |-> eff, valid |-> Resolved]
Frontmatters(t) == [d \in Docs |-> t[d].fm]
Emptied     == [fm |-> [f \in Fields |-> Absent], body |-> [f \in Fields |-> Absent],
                links |-> {}, closed |-> TRUE]

Init ==
    /\ \E tree \in Trees : disk = tree.doc /\ eff = tree.eff
    /\ fill \in BOOLEAN /\ propagate \in BOOLEAN
    /\ pc = "idle" /\ scan = None /\ mem = None
    /\ queue = {} /\ applied = {} /\ skipped = {} /\ hand = None /\ files = <<>>
    /\ batch = None /\ disturbed = {} /\ overtaken = {} /\ faults = 0

\* The process ends and its memory with it: an error return emits nothing.
Exit ==
    /\ pc' = "idle" /\ scan' = None /\ mem' = None
    /\ queue' = {} /\ applied' = {} /\ skipped' = {} /\ hand' = None /\ files' = <<>>
    /\ UNCHANGED batch

-----------------------------------------------------------------------------
(* fix --all                                                               *)

\* proposalsToFixResults and appendInvalidFixResults: a row is fixed when a
\* proposal of the report names it; an unresolved record is never fixed.
EmittedWhole(dry, ps, left) ==
    [dry |-> dry, fixed |-> {p.doc : p \in ps \cup left}, skipped |-> left,
     suggested |-> SchemaSuggestions(scan), complete |-> Resolved = Docs]
Emitted(dry, ps, left) ==
    [dry |-> dry, fixed |-> {p.doc : p \in ps}, skipped |-> left,
     suggested |-> SchemaSuggestions(scan), complete |-> Resolved = Docs]

Plan ==
    /\ pc = "idle"
    /\ scan' = ScanOf(disk) /\ mem' = Frontmatters(disk)
    /\ queue' = Report(scan', propagate)
    /\ applied' = {} /\ skipped' = {} /\ batch' = None /\ disturbed' = {} /\ overtaken' = {}
    /\ \E dry \in BOOLEAN : pc' = IF dry THEN "preview" ELSE "apply"
    /\ UNCHANGED <<disk, session, hand, files, faults>>

\* Dry run: the report itself, or a failed batch whose rows are all unfixed.
Preview ==
    /\ pc = "preview"
    /\ batch' = Emitted(TRUE, IF Resolved = Docs THEN queue ELSE {}, {})
    /\ pc' = "idle" /\ queue' = {} /\ mem' = None
    /\ UNCHANGED <<disk, session, scan, applied, skipped, hand, files, edited, faults>>

Due == {p \in queue : \A q \in queue : p.turn <= q.turn}

Withheld(p) == p.type = "add_field" /\ IsEngineChosen(p.source) /\ ~fill

\* An engine-chosen value is put aside unless --fill-missing.
Defer ==
    /\ pc = "apply"
    /\ \E p \in Due : Withheld(p) /\ queue' = queue \ {p} /\ skipped' = skipped \cup {p}
    /\ UNCHANGED <<disk, session, pc, scan, mem, applied, hand, files, batch, edited, faults>>

Corrected(p) == [mem EXCEPT ![p.doc] = WithField(@, p.field, p.to)]
Result(p) ==
    LET new == Rewritten(disk[p.doc], Corrected(p)[p.doc])
    IN  IF p.type = "migrate_value" THEN WithLinks(new, {p.from}) ELSE new

\* One proposal: the field is set in the record, the text read and rewritten in
\* memory.  A rewrite that changes nothing ends the command, what it applied so
\* far stays and nothing is reported.
Rewrite ==
    /\ pc = "apply"
    /\ \E p \in Due :
          /\ ~Withheld(p)
          /\ IF Result(p) # disk[p.doc]
             THEN /\ pc' = "replace" /\ mem' = Corrected(p)
                  /\ hand' = [proposal |-> p, text |-> Result(p)]
                  /\ UNCHANGED <<scan, queue, applied, skipped, files, batch>>
             ELSE Exit
    /\ UNCHANGED <<disk, session, edited, faults>>

\* WriteFileAtomic, over whatever the file holds by now.
Replace ==
    /\ pc = "replace" /\ pc' = "apply" /\ hand' = None
    /\ disk' = [disk EXCEPT ![hand.proposal.doc] = hand.text]
    /\ queue' = queue \ {hand.proposal} /\ applied' = applied \cup {hand.proposal}
    /\ UNCHANGED <<session, scan, mem, skipped, files, batch, edited, faults>>

\* A file that cannot be read, or not replaced.
ApplyFails ==
    /\ faults < MaxFaults /\ faults' = faults + 1
    /\ pc = "replace" \/ (pc = "apply" /\ \E p \in Due : ~Withheld(p))
    /\ Exit /\ UNCHANGED <<disk, session, edited>>

Emit ==
    /\ pc = "apply" /\ queue = {}
    /\ batch' = Emitted(FALSE, applied, skipped) /\ pc' = "idle" /\ mem' = None
    /\ applied' = {} /\ skipped' = {}
    /\ UNCHANGED <<disk, session, scan, queue, hand, files, edited, faults>>

-----------------------------------------------------------------------------
(* fix <file>...                                                           *)

StartNamed ==
    /\ pc = "idle"
    /\ \E args \in Named : files' = args
    /\ pc' = "file" /\ scan' = None /\ batch' = None /\ disturbed' = {} /\ overtaken' = {}
    /\ UNCHANGED <<disk, session, mem, queue, applied, skipped, hand, faults>>

Doc == Head(files)
FixedFile == ApplyFixes(scan, Doc, fill)

\* Read, extracted and fixed in memory; the command ends at a schema that does
\* not resolve or at a rewrite that changes nothing.
ReadFile ==
    /\ pc = "file" /\ files # <<>>
    /\ LET fm == ApplyFixes(ScanOf(disk), Doc, fill)
       IN  IF eff[Doc] = Broken \/ (fm # disk[Doc].fm /\ ~disk[Doc].closed) THEN Exit
           ELSE /\ scan' = ScanOf(disk)
                /\ IF fm = disk[Doc].fm THEN files' = Tail(files) /\ UNCHANGED pc
                   ELSE pc' = "truncate" /\ UNCHANGED files
                /\ UNCHANGED <<mem, queue, applied, skipped, hand, batch>>
    /\ UNCHANGED <<disk, session, edited, faults>>

EndNamed ==
    /\ pc = "file" /\ files = <<>>
    /\ Exit /\ UNCHANGED <<disk, session, edited, faults>>

\* os.WriteFile: the file is opened truncated, then filled.
Truncate ==
    /\ pc = "truncate" /\ pc' = "fill"
    /\ disk' = [disk EXCEPT ![Doc] = Emptied]
    /\ UNCHANGED <<session, run, files, batch, edited, faults>>

Fill ==
    /\ pc = "fill" /\ pc' = "file" /\ files' = Tail(files)
    /\ disk' = [disk EXCEPT ![Doc] = Rewritten(scan.doc[Doc], FixedFile)]
    /\ UNCHANGED <<session, run, batch, edited, faults>>

\* The file cannot be opened, or the disk fills up once it is.
FillFails ==
    /\ pc \in {"truncate", "fill"} /\ faults < MaxFaults /\ faults' = faults + 1
    /\ Exit /\ UNCHANGED <<disk, session, edited>>

-----------------------------------------------------------------------------
(* The environment.                                                        *)

Kill ==
    /\ pc # "idle" /\ faults < MaxFaults /\ faults' = faults + 1
    /\ Exit /\ UNCHANGED <<disk, session, edited>>

InHand(d) == pc = "replace" /\ hand.proposal.doc = d

Edit ==
    /\ faults < MaxFaults /\ faults' = faults + 1
    /\ \E e \in Edits : /\ disk' = [disk EXCEPT ![e[1]] = e[2]]
                        /\ disturbed' = disturbed \cup {e[1]}
                        /\ overtaken' = IF InHand(e[1]) THEN overtaken \cup {e[1]}
                                        ELSE overtaken \ {e[1]}
    /\ UNCHANGED <<session, pc, run, files, batch>>

FixAll == Plan \/ Preview \/ Defer \/ Rewrite \/ Replace \/ ApplyFails \/ Emit
FixFile == StartNamed \/ ReadFile \/ EndNamed \/ Truncate \/ Fill \/ FillFails
Next == FixAll \/ FixFile \/ Kill \/ Edit

-----------------------------------------------------------------------------
(* Properties.                                                             *)

\* What a finished fix --all leaves in field f of document d: the aggregate
\* when there is one to propagate, else the repair of the value it scanned.
Missing(sc, d, f) ==
    LET s == sc.eff[d]
        agreed == {v \in Allowed(s, f) \cup {Value(sc, e, f) : e \in Docs} :
                     /\ d \notin Index /\ IsEnum(s, f)
                     /\ Agreement(sc, Voters(sc, s, d, f), f, v, 2, 6, 10)}
    IN  CASE agreed # {} -> CHOOSE v \in agreed : TRUE
          [] agreed = {} /\ sc.doc[d].body[f] # Absent -> FromBody(sc, s, d, f)
          [] OTHER -> IF fill \/ s.fields[f].default # Blank
                      THEN AddFieldValue(s, f)[1] ELSE Absent

Repaired(sc, d, f) ==
    LET s == sc.eff[d]
        v == Value(sc, d, f)
        near == Closest(v, Allowed(s, f))
        others == {w \in Allowed(s, f) \ {v} :
                     IsEnum(s, f) /\ d \notin Index
                     /\ Agreement(sc, Sound(sc, s, d, f), f, w, 3, 3, 4)}
    IN  CASE Breaks("required", sc, d, f) -> Missing(sc, d, f)
          [] Breaks("enum", sc, d, f) /\ v \in Structured \ {Blank} -> MigratedTo(v, s, f)
          [] Breaks("enum", sc, d, f) /\ v \notin Structured \cup {Blank} /\ near # Blank -> near
          [] Breaks("type", sc, d, f) -> Quoted[v]
          [] OTHER -> IF ~HasError(sc, d, f) /\ v \notin {Absent, Blank} /\ others # {}
                      THEN CHOOSE w \in others : TRUE ELSE v

Expected(sc, d, f) ==
    IF d \notin sc.valid THEN Value(sc, d, f)
    ELSE IF /\ propagate /\ Breaks("aggregate", sc, d, f)
            /\ \A e \in Below[d] : Value(sc, e, f) \in Spelled \cup {Absent}
    THEN Derived(sc, d, f) ELSE Repaired(sc, d, f)

Reported == pc = "idle" /\ batch # None /\ ~batch.dry

\* Whatever order the detectors' maps are ranged in and however the proposals
\* of one document meet in its in-memory record, a fix --all that reports has
\* made of each document what the scan alone determines, by the documented
\* precedence; a document whose frontmatter block it cannot rewrite keeps the
\* values scanned.  One its author saved meanwhile keeps the text saved, unless
\* a rewrite of it was in hand: then the text is one it had before.
RepairsByPriority ==
    Reported => \A d \in Docs :
        IF d \in disturbed
        THEN LET saved == {e[2].body : e \in {x \in Edits : x[1] = d}} IN
             disk[d].body \in saved \/ (d \in overtaken /\ disk[d].body = scan.doc[d].body)
        ELSE /\ \A f \in Fields :
                   disk[d].fm[f] = IF disk[d].closed THEN Expected(scan, d, f)
                                   ELSE Value(scan, d, f)
             /\ disk[d].body = scan.doc[d].body

\* A row of the report says fixed exactly when the document is no longer what
\* was scanned, and a proposal reported as skipped left its field missing:
\* the envelope accounts for the disk, unresolved records included.
RowsTellTheDisk ==
    Reported =>
        /\ \A d \in Docs \ disturbed : d \in batch.fixed <=> disk[d] # scan.doc[d]
        /\ \A p \in batch.skipped :
              p.doc \notin disturbed => disk[p.doc].fm[p.field] = Absent
        /\ batch.fixed \subseteq Resolved

\* Where a value for a missing field may come from.
Grounded(sc, d, f, v) ==
    \/ v = sc.eff[d].fields[f].default /\ v # Blank
    \/ sc.doc[d].body[f] # Absent /\ v = FromBody(sc, sc.eff[d], d, f) /\ v # Blank
    \/ Cardinality({e \in Docs \ {d} : Dir[e] = Dir[d] /\ Value(sc, e, f) = v}) >= 2

\* The text says of the field what no member of its enum is close to, and the
\* field is filled with "" (proposal.go:522-535).
Unmatched(sc, d, f, v) ==
    v = Blank /\ sc.doc[d].body[f] # Absent /\ FromBody(sc, sc.eff[d], d, f) = Blank

\* A step that puts value v in a field that was missing, and is no edit.
Fills(d, f, v) ==
    /\ faults' = faults /\ v = disk'[d].fm[f]
    /\ v \notin {disk[d].fm[f], Absent} /\ Value(scan, d, f) = Absent

\* Without --fill-missing no step of either command, killed or not, puts a
\* value in a field that was missing unless the schema declares it, the
\* document's own text gives it, or two siblings carry that value; and the empty
\* one only where the text names no member of the enum (Unmatched: what
\* SignalKept denies).  A document saved while its rewrite was in hand is
\* exempt: it gets back what it had.
NothingInvented ==
    [][~fill =>
        \A d \in Docs \ overtaken : \A f \in Fields :
            LET v == disk'[d].fm[f] IN
            Fills(d, f, v) => Grounded(scan, d, f, v) \/ Unmatched(scan, d, f, v)]_vars

\* fix.go: "A value the engine picked because the schema declared none is not
\* data — writing it would erase the very signal the missing field was raising.
\* It is proposed for review, not applied, unless asked for."  It fails (see
\* MCFixSignal.cfg) where the document's text is Unmatched.
SignalKept == [][~fill => \A d \in Docs : \A f \in Fields : ~Fills(d, f, Blank)]_vars

\* Nothing to write: what is proposed would be set aside.
Settled ==
    \A p \in Report(ScanOf(disk), propagate) :
        p.type = "add_field" /\ IsEngineChosen(p.source) /\ ~fill

\* Someone who reruns fix --all gets, once faults and edits stop, to a tree in
\* which it finds nothing left to write, provided every document has a
\* frontmatter block it can rewrite.
Settles == [](\A d \in Docs : disk[d].closed) => <>[]Settled

-----------------------------------------------------------------------------
\* A command that was started goes on, and someone keeps running fix --all.
Spec ==
    /\ Init /\ [][Next]_vars
    /\ WF_vars(Preview \/ Defer \/ Rewrite \/ Replace \/ Emit)
    /\ WF_vars(ReadFile \/ EndNamed \/ Truncate \/ Fill)
    /\ SF_vars(Plan /\ pc' = "apply")
=============================================================================

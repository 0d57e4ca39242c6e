------------------------------ MODULE FixRules ------------------------------
(***************************************************************************)
(* What `rootline fix` reads from a tree and what it proposes: the         *)
(* findings of rules.Validate it acts on, the aggregate an index file      *)
(* should store, and the detectors of internal/proposal in the order       *)
(* proposal.Analyze and runFixAll put them in.                             *)
(*                                                                         *)
(* A document is [fm, body, links, closed]: `fm` the frontmatter value of  *)
(* each field, `body` what its text says of it as `**field**: value`,      *)
(* `links` the migration links in its text, and `closed` whether           *)
(* RewriteFrontmatter finds the end of its frontmatter block.  A scan is   *)
(* [doc, eff, valid]: the documents as read, the effective schema of each  *)
(* and the ones whose schema resolved.  Values are names: fuzzy.Match,     *)
(* ParseBlockingInfo, the value table of internal/proposal and the quoting *)
(* of native YAML scalars are functions over them.                         *)
(***************************************************************************)
EXTENDS Integers, Sequences, FiniteSets

CONSTANTS
    Docs,            \* the records of the scanned tree
    ScanOrder,       \* the order the scan returns them in
    Dir,             \* the directory of each
    Index,           \* the ones named README.md
    Below,           \* the documents under an index file's directory
    Fields,
    Absent, Blank,   \* no such key, and the empty string
    Near,            \* the candidates fuzzy.Match accepts for a value
    Base,            \* of a value with blocking information, its base
    Canonical,       \* the value table applied to body text
    Quoted,          \* of a scalar YAML reads natively, its exact string
    Spelled,         \* the values the aggregate expression names
    Rollup(_)        \* what the aggregate expression makes of a set of values

ASSUME DocsAssumption ==
    /\ IsFiniteSet(Docs) /\ ScanOrder \in Seq(Docs)
    /\ \A d \in Docs : \E i \in DOMAIN ScanOrder : ScanOrder[i] = d
\* Blocking information and quotation marks make another value; the value
\* table makes a value of whatever a document's text says.
ASSUME ValuesAssumption ==
    /\ Absent \notin DOMAIN Quoted /\ Absent # Blank
    /\ \A v \in DOMAIN Base : Base[v] # v
    /\ \A v \in DOMAIN Quoted : Quoted[v] # v
    /\ \A v \in DOMAIN Canonical : Canonical[v] # Absent

Structured == DOMAIN Base
Natives    == DOMAIN Quoted

Allowed(s, f) == {s.fields[f].values[i] : i \in DOMAIN s.fields[f].values}
IsEnum(s, f)  == s.fields[f].type = "enum" /\ s.fields[f].values # <<>>

\* A document, and a schema that resolved: no key is declared to be missing.
IsDocument(c) ==
    /\ c = [fm |-> c.fm, body |-> c.body, links |-> c.links, closed |-> c.closed]
    /\ c.closed \in BOOLEAN
    /\ \A f \in Fields : c.body[f] \in DOMAIN Canonical \cup {Absent}
IsSchema(s) ==
    \A f \in Fields : /\ s.fields[f].values \in Seq(Allowed(s, f)) /\ Absent \notin Allowed(s, f)
                      /\ s.fields[f].default # Absent

\* fuzzy.Match: the value itself, a close candidate, or "".
Closest(v, candidates) ==
    IF v \in candidates THEN v
    ELSE IF Near[v] \cap candidates = {} THEN Blank
    ELSE CHOOSE w \in Near[v] \cap candidates : TRUE

Value(sc, d, f) == sc.doc[d].fm[f]

\* AggregateAll: the value an index file's aggregate computes; runFixAll
\* computes none over a population it could not resolve completely.
Derived(sc, d, f) ==
    IF d \in Index /\ sc.valid = Docs /\ f \in sc.eff[d].aggregate
    THEN Rollup({Value(sc, e, f) : e \in Below[d] \ Index} \ {Absent})
    ELSE Absent

\* rules.Validate: whether field f of document d breaks the rule.
Breaks(rule, sc, d, f) ==
    LET s == sc.eff[d]
        v == Value(sc, d, f)
    IN  \/ /\ rule = "required" /\ v = Absent
           /\ s.fields[f].required
           /\ ~(d \in Index /\ f \in s.aggregate)
        \/ /\ rule = "enum" /\ v \notin {Absent} \cup Natives
           /\ IsEnum(s, f) /\ v \notin Allowed(s, f)
        \/ rule = "type" /\ v \in Natives
        \/ rule = "aggregate" /\ v # Absent /\ Derived(sc, d, f) \notin {Absent, v}

HasError(sc, d, f) ==
    \E rule \in {"required", "enum", "type", "aggregate"} : Breaks(rule, sc, d, f)

-----------------------------------------------------------------------------
(* The groups of records with one effective schema, in scan order.         *)

Position(d) == CHOOSE i \in DOMAIN ScanOrder : ScanOrder[i] = d
Members(sc, s) == {d \in sc.valid : sc.eff[d] = s}
Groups(sc)     == {sc.eff[d] : d \in sc.valid}
Rank(sc, s)    == CHOOSE i \in DOMAIN ScanOrder :
                     /\ ScanOrder[i] \in Members(sc, s)
                     /\ \A d \in Members(sc, s) : i <= Position(d)

(* The detectors.  A proposal is [type, doc, field, from, to, source,      *)
(* turn]: proposals apply in the order of their turns, and those of one    *)
(* turn, which the code collects by ranging over maps, in any order.       *)

Proposed(type, d, f, from, to, source, turn) ==
    [type |-> type, doc |-> d, field |-> f, from |-> from, to |-> to,
     source |-> source, turn |-> turn]

Sites(rule, sc, s) == {x \in Members(sc, s) \X Fields : Breaks(rule, sc, x[1], x[2])}
Keys(ps)           == {<<p.doc, p.field>> : p \in ps}

\* An enum value the message carries out intact: "" does not survive it.
Misfits(sc, s) == {x \in Sites("enum", sc, s) : Value(sc, x[1], x[2]) # Blank}

MigratedTo(v, s, f) ==
    LET near == Closest(Base[v], Allowed(s, f)) IN IF near = Blank THEN Base[v] ELSE near

MigrateValues(sc, s) ==
    {Proposed("migrate_value", x[1], x[2], Value(sc, x[1], x[2]),
              MigratedTo(Value(sc, x[1], x[2]), s, x[2]), "", 1)
        : x \in {y \in Misfits(sc, s) : Value(sc, y[1], y[2]) \in Structured}}

CorrectValues(sc, s) ==
    {Proposed("correct_value", x[1], x[2], Value(sc, x[1], x[2]),
              Closest(Value(sc, x[1], x[2]), Allowed(s, x[2])), "", 2)
        : x \in {y \in Misfits(sc, s) \ Keys(MigrateValues(sc, s)) :
                    Closest(Value(sc, y[1], y[2]), Allowed(s, y[2])) # Blank}}

\* The value found in the text, through the table, then to the closest member
\* of the enum: "" when there is none.
FromBody(sc, s, d, f) ==
    LET mapped == Canonical[sc.doc[d].body[f]]
    IN  IF s.fields[f].values = <<>> THEN mapped ELSE Closest(mapped, Allowed(s, f))

ExtractBodies(sc, s) ==
    {Proposed("extract_body", x[1], x[2], sc.doc[x[1]].body[x[2]],
              FromBody(sc, s, x[1], x[2]), "", 3)
        : x \in {y \in Sites("required", sc, s) : sc.doc[y[1]].body[y[2]] # Absent}}

\* majorityValue over the documents of `voters`: the values held by more of
\* them than any other value.
Votes(sc, voters, f, v) == Cardinality({e \in voters : Value(sc, e, f) = v})
Majority(sc, voters, f) ==
    {v \in {Value(sc, e, f) : e \in voters} :
        \A w \in {Value(sc, e, f) : e \in voters} \ {v} :
            Votes(sc, voters, f, w) < Votes(sc, voters, f, v)}

Siblings(sc, s, d)  == {e \in Members(sc, s) \ Index : Dir[e] = Dir[d]}
Voters(sc, s, d, f) == {e \in Siblings(sc, s, d) :
                           Value(sc, e, f) \notin {Absent, Blank} \cup Natives}
Agreement(sc, voters, f, v, atLeast, num, den) ==
    /\ v \in Majority(sc, voters, f)
    /\ Votes(sc, voters, f, v) >= atLeast
    /\ den * Votes(sc, voters, f, v) >= num * Cardinality(voters)

InferFromSiblings(sc, s) ==
    UNION {{Proposed("infer_from_siblings", x[1], x[2], "", v, "", 4)
              : v \in {w \in Majority(sc, Voters(sc, s, x[1], x[2]), x[2]) :
                          Agreement(sc, Voters(sc, s, x[1], x[2]), x[2], w, 2, 6, 10)}}
             : x \in {y \in Sites("required", sc, s) :
                         y[1] \notin Index /\ IsEnum(s, y[2])}}

\* AddFieldValue: the declared default, or a value the engine picks.
AddFieldValue(s, f) ==
    IF s.fields[f].default # Blank THEN <<s.fields[f].default, "schema_default">>
    ELSE IF s.fields[f].values # <<>> THEN <<s.fields[f].values[1], "enum_first">>
    ELSE <<Blank, "empty">>
IsEnumFirst(source)    == source = "enum_first"
IsEngineChosen(source) == source \in {"enum_first", "empty"}

AddFieldsBesideSiblings(sc, s) ==
    {Proposed("add_field", x[1], x[2], "", AddFieldValue(s, x[2])[1], AddFieldValue(s, x[2])[2], 5)
        : x \in Sites("required", sc, s) \ Keys(ExtractBodies(sc, s))}
AddFields(sc, s) ==
    {Proposed("add_field", x[1], x[2], "", AddFieldValue(s, x[2])[1], AddFieldValue(s, x[2])[2], 5)
        : x \in Sites("required", sc, s)
                \ Keys(ExtractBodies(sc, s) \cup InferFromSiblings(sc, s))}

Sound(sc, s, d, f) == {e \in Voters(sc, s, d, f) : ~HasError(sc, e, f)}
AgreedOn(sc, s, d, f) == {v \in Majority(sc, Sound(sc, s, d, f), f) :
                            Agreement(sc, Sound(sc, s, d, f), f, v, 3, 3, 4)}
Dissents(sc, s, d, f) == AgreedOn(sc, s, d, f) \ {Value(sc, d, f)}
OutlierValues(sc, s) ==
    UNION {{Proposed("correct_outlier", x[1], x[2], Value(sc, x[1], x[2]), v, "", 6)
              : v \in Dissents(sc, s, x[1], x[2])}
             : x \in {y \in Members(sc, s) \X Fields :
                         IsEnum(s, y[2]) /\ y[1] \in Sound(sc, s, y[1], y[2])}}

TypeRepairs(sc, s) ==
    {Proposed("correct_value", x[1], x[2], Value(sc, x[1], x[2]),
              Quoted[Value(sc, x[1], x[2])], "", 7) : x \in Sites("type", sc, s)}

\* Schema-surface: an invalid value two documents share and none migrates away.
ExtendEnum(sc, s) ==
    {<<s, x[2], Value(sc, x[1], x[2])>>
        : x \in {y \in Misfits(sc, s) :
                    /\ Value(sc, y[1], y[2]) \notin Structured
                    /\ \E z \in Misfits(sc, s) : z[1] # y[1] /\ z[2] = y[2]
                          /\ Value(sc, z[1], z[2]) = Value(sc, y[1], y[2])}}

Analyze(sc, s) ==
    MigrateValues(sc, s) \cup CorrectValues(sc, s) \cup ExtractBodies(sc, s)
      \cup InferFromSiblings(sc, s) \cup AddFields(sc, s) \cup OutlierValues(sc, s)
      \cup TypeRepairs(sc, s)

\* An index file whose stored value is not the computed one, when the
\* expression names every value found below it.
PropagateAggregates(sc, s) ==
    {Proposed("propagate_aggregate", x[1], x[2], Value(sc, x[1], x[2]),
              Derived(sc, x[1], x[2]), "", 8)
        : x \in {y \in Sites("aggregate", sc, s) :
                    \A e \in Below[y[1]] : Value(sc, e, y[2]) \in Spelled \cup {Absent}}}

\* The data proposals of runFixAll: group by group, then the aggregates.
Later(p, n) == Proposed(p.type, p.doc, p.field, p.from, p.to, p.source, p.turn + n)
Report(sc, propagate) ==
    (UNION {{Later(p, 10 * Rank(sc, s)) : p \in Analyze(sc, s)} : s \in Groups(sc)})
      \cup IF propagate
           THEN UNION {{Later(p, 1000 + 10 * Rank(sc, s)) : p \in PropagateAggregates(sc, s)}
                         : s \in Groups(sc)}
           ELSE {}
SchemaSuggestions(sc) == UNION {ExtendEnum(sc, s) : s \in Groups(sc)}

-----------------------------------------------------------------------------
(* RewriteFrontmatter and ApplyFixes.                                      *)

\* The document with its frontmatter replaced; the original, when the end of
\* the block is not where RewriteFrontmatter looks for it.
Rewritten(c, fm) ==
    IF c.closed THEN [fm |-> fm, body |-> c.body, links |-> c.links, closed |-> TRUE] ELSE c
WithLinks(c, vs) ==
    [fm |-> c.fm, body |-> c.body, links |-> c.links \cup vs, closed |-> c.closed]
WithField(fm, f, v) == [g \in Fields |-> IF g = f THEN v ELSE fm[g]]

\* What fix of a named file makes of its frontmatter, reading the schema alone.
ApplyFixes(sc, d, fillMissing) ==
    LET s == sc.eff[d]
        closest(f) == Closest(Value(sc, d, f), Allowed(s, f))
    IN  [f \in Fields |->
            IF Breaks("required", sc, d, f)
               /\ (fillMissing \/ ~IsEngineChosen(AddFieldValue(s, f)[2]))
            THEN AddFieldValue(s, f)[1]
            ELSE IF Breaks("enum", sc, d, f) /\ closest(f) # Blank THEN closest(f)
            ELSE Value(sc, d, f)]
=============================================================================

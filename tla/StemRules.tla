------------------------------ MODULE StemRules ------------------------------
(***************************************************************************)
(* What a .stem says and what it does to a record: internal/rules, the     *)
(* parser, the merge, the compatibility check and the validator, as        *)
(* operators without state.                                                *)
(*                                                                         *)
(* A file is None (absent), Garbage (not YAML) or what was written in it.  *)
(* A record is its frontmatter, its body sections, its links, and the      *)
(* patterns its path matches.  A pattern is a name: glob matching happens  *)
(* in the choice of a record's matches.                                    *)
(***************************************************************************)
EXTENDS Naturals, Sequences, SequencesExt

CONSTANTS
    Fields,     \* names of schema fields
    Texts,      \* texts of scalar values, the empty text among them
    Selectors,  \* body sources: body.h1, body.section["..."]
    Patterns,   \* globs of match, required.match and excludes
    LinkTypes,  \* link types
    None,       \* absent: a file, a value, an optional attribute
    Garbage     \* a file that is not YAML; a selector with several matches

ASSUME StemRulesAssumption ==
    /\ None # Garbage
    /\ \A x \in {None, Garbage} : x \notin Fields \cup Texts \cup Selectors \cup Patterns
    /\ {"inherit", "none"} \cap Selectors = {}

(***************************************************************************)
(* Declarations.  "legacy" stands for the types that are not supported,    *)
(* "" for none; "info" for the severities that are not known, "" for none. *)
(* The source key is absent ("inherit"), empty or null ("none"), or names  *)
(* a selector.  A field may be declared null.                              *)
(***************************************************************************)
Types      == {"string", "enum", "integer", "legacy", ""}
Severities == {"off", "warn", "error", "info", ""}
RuleNames  == {"exists", "non_empty", "enum", "requires", "unknown"}

Declarations ==
    [type : Types, values : SUBSET Texts, required : BOOLEAN,
     requiredMatch : (SUBSET Patterns) \cup {None}, match : (SUBSET Patterns) \cup {None},
     excludes : Patterns \cup {None}, severity : Severities,
     source : Selectors \cup {"inherit", "none"}]

\* A rule: `field` is the field a requires rule asks for, `when` its condition,
\* if it has one.
Rules == [rule : RuleNames, field : Fields, when : (Fields \X Texts) \cup {None},
          severity : Severities]

\* structural.subdirs; zero and FALSE mean not declared.
Structural == [min : Nat, max : Nat, index : BOOLEAN]
NoStructure == [min |-> 0, max |-> 0, index |-> FALSE]

Stems == [version : 0..2, root : BOOLEAN,
          schema : UNION {[F -> Declarations \cup {None}] : F \in SUBSET Fields},
          validate : SUBSET Rules, aggregate : SUBSET Fields,
          allowed : SUBSET LinkTypes, structural : Structural]

\* The two marks are no content.
ASSUME MarksAssumption == None \notin Declarations /\ None \notin Stems /\ Garbage \notin Stems

EmptyStem == [version |-> 0, root |-> FALSE, schema |-> <<>>, validate |-> {},
              aggregate |-> {}, allowed |-> {}, structural |-> NoStructure]

(***************************************************************************)
(* ParseStem.  Bad is the parse error; a healthy file comes back with the  *)
(* severities it omits set to "error".  required: {match: ...} sets        *)
(* Required too.                                                           *)
(***************************************************************************)
Bad == Garbage

Parses(file) ==
    /\ file # Garbage
    /\ file.version = 2
    /\ \A f \in DOMAIN file.schema : file.schema[f] # None
    /\ \A r \in file.validate : r.rule # "unknown"

WithSeverity(x) == IF x.severity = "" THEN [x EXCEPT !.severity = "error"] ELSE x

ParsedField(d) ==
    WithSeverity([d EXCEPT !.required = d.required \/ d.requiredMatch # None])

ParseStem(file) ==
    IF Parses(file)
    THEN [file EXCEPT !.schema   = [f \in DOMAIN file.schema |-> ParsedField(file.schema[f])],
                      !.validate = {WithSeverity(r) : r \in file.validate}]
    ELSE Bad

\* loadOptionalStem: nothing to parse where there is no file.
Load(file) == IF file = None THEN None ELSE ParseStem(file)

(***************************************************************************)
(* MergeStemFiles.  A child's declaration replaces its parent's, except    *)
(* that an omitted source is inherited and a severity is never lowered.    *)
(* Rules accumulate; links.allowed and structural are replaced when the    *)
(* child declares them.                                                    *)
(***************************************************************************)
Strictness == [off |-> 0, warn |-> 1, error |-> 2]
Known(severity) == severity \in DOMAIN Strictness
Looser(s, t)    == Known(s) /\ Known(t) /\ Strictness[s] < Strictness[t]

MergeField(parent, child) ==
    [child EXCEPT !.source   = IF child.source = "inherit" THEN parent.source ELSE child.source,
                  !.severity = IF Looser(child.severity, parent.severity) THEN parent.severity
                                                                          ELSE child.severity]

MergeSchema(parent, child) ==
    [f \in DOMAIN parent \cup DOMAIN child |->
        IF f \notin DOMAIN child THEN parent[f]
        ELSE IF f \notin DOMAIN parent THEN child[f]
        ELSE MergeField(parent[f], child[f])]

MergeStem(parent, child) ==
    [version    |-> child.version,
     root       |-> FALSE,
     schema     |-> MergeSchema(parent.schema, child.schema),
     validate   |-> parent.validate \cup child.validate,
     aggregate  |-> parent.aggregate \cup child.aggregate,
     allowed    |-> IF child.allowed = {} THEN parent.allowed ELSE child.allowed,
     structural |-> IF child.structural = NoStructure THEN parent.structural ELSE child.structural]

\* What a walk down the tree has merged after n levels.  Where a level has no
\* .stem, or one that does not parse, nothing is added.
MergeStemFiles(stems) ==
    LET merged[n \in 0..Len(stems)] ==
            IF n = 0 THEN EmptyStem
            ELSE IF stems[n] \in {None, Bad} THEN merged[n - 1]
            ELSE MergeStem(merged[n - 1], stems[n])
    IN  merged

(***************************************************************************)
(* CheckFieldCompatibility: the constraints in which a child's declaration *)
(* loosens the merged declaration of its ancestors.                        *)
(***************************************************************************)
Selector(d) == IF d.source \in Selectors THEN d.source ELSE None

SourceIncompatible(parent, child) ==
    child.source # "inherit" /\ Selector(child) # Selector(parent)

TypeIncompatible(parent, child) ==
    parent.type # child.type /\ ~(parent.type = "string" /\ child.type = "enum")

\* Mutation: values in common are enough.
ValuesDisjoint(parent, child) ==
    /\ parent.type = "enum" /\ child.type = "enum"
    /\ parent.values # {} /\ child.values # {} /\ child.values \cap parent.values = {}
ValuesIncompatible(parent, child) ==
    /\ parent.type = "enum" /\ child.type = "enum"
    /\ parent.values # {} /\ child.values # {}
    /\ ~(child.values \subseteq parent.values)

RequiredIncompatible(parent, child) ==
    parent.required /\ ~child.required /\ child.requiredMatch = None

SeverityIncompatible(parent, child) == Looser(child.severity, parent.severity)

Incompatible(parent, child) ==
    \/ SourceIncompatible(parent, child) \/ TypeIncompatible(parent, child)
    \/ ValuesIncompatible(parent, child) \/ RequiredIncompatible(parent, child)
    \/ SeverityIncompatible(parent, child)

\* validateMonotonicStructural: bounds are compared when both declare them.
StructureLoosened(parent, child) ==
    \/ parent.min > 0 /\ child.min > 0 /\ child.min < parent.min
    \/ parent.max > 0 /\ child.max > 0 /\ child.max > parent.max

\* ValidateFieldDeclaration: the contract of a single declaration.
ValidDeclaration(d) == d.type \in {"string", "integer"} \/ (d.type = "enum" /\ d.values # {})

(***************************************************************************)
(* Records and their validation: Validate.                                 *)
(***************************************************************************)
Data == [kind : {"string", "integer"}, text : Texts]
Strings == {d \in Data : d.kind = "string"}

Records == [fm : [Fields -> Data \cup {None}], body : [Selectors -> Strings \cup {None, Garbage}],
            matches : SUBSET Patterns, index : BOOLEAN, links : SUBSET LinkTypes]

\* FilterSchemaByMatch, for one field.
Applies(d, r)  == d.match = None \/ d.match \cap r.matches # {}
Resolved(d, r) == [d EXCEPT !.required = IF d.requiredMatch = None THEN d.required
                                         ELSE d.requiredMatch \cap r.matches # {}]

FilterSchemaByMatch(schema, r) ==
    [f \in {g \in DOMAIN schema : Applies(schema[g], r)} |-> Resolved(schema[f], r)]

\* ResolveFieldValue: the frontmatter first, then the source; Garbage is the
\* error of an ambiguous source.
FieldValue(r, f, d) ==
    IF r.fm[f] # None THEN r.fm[f]
    ELSE IF d.source \in Selectors THEN r.body[d.source] ELSE None

\* requiredCheckApplies.
RequiredCheckApplies(d, aggregated, r) == ~(aggregated /\ r.index) /\ d.excludes \notin r.matches

\* ValidateFieldValue: representation, then the values of an enum.
FitsType(d, value) ==
    CASE d.type = "string"  -> value.kind = "string"
      [] d.type = "enum"    -> value.kind = "string" /\ value.text \in d.values
      [] d.type = "integer" -> value.kind = "integer"
      [] OTHER              -> TRUE

\* The schema check of one field: what is wrong with it, if anything.
FieldVerdict(d, aggregated, r, f) ==
    LET value == FieldValue(r, f, d)
    IN  IF d.severity = "off" THEN "ok"
        ELSE IF value = Garbage THEN "source"
        ELSE IF value = None
        THEN IF d.required /\ RequiredCheckApplies(d, aggregated, r) THEN "required" ELSE "ok"
        ELSE IF FitsType(d, value) THEN "ok" ELSE "contract"

\* ResolveEffectiveField, as the explicit rules see a field.
RuleValue(schema, r, f) ==
    IF f \in DOMAIN schema THEN FieldValue(r, f, schema[f]) ELSE r.fm[f]

\* conditionMatchesRecord, where Garbage is the error of an ambiguous source.
Condition(schema, r, when) ==
    IF when = None THEN TRUE
    ELSE LET value == RuleValue(schema, r, when[1])
         IN  IF value = Garbage THEN Garbage ELSE value # None /\ value.text = when[2]

RuleFails(schema, r, rule) ==
    LET value   == RuleValue(schema, r, rule.field)
        missing == value \in {None, Garbage}
    IN  CASE rule.rule = "exists"    -> missing
          [] rule.rule = "non_empty" -> missing \/ (value.kind = "string" /\ value.text = "")
          [] rule.rule = "enum"      -> /\ rule.field \in DOMAIN schema
                                        /\ schema[rule.field].values # {}
                                        /\ value # None
                                        /\ (missing \/ value.text \notin schema[rule.field].values)
          [] rule.rule = "requires"  -> LET matched == Condition(schema, r, rule.when)
                                        IN  matched = Garbage \/ (matched # FALSE /\ missing)

\* A finding rejects the record unless it is a warning (NewValidationResult).
Rejecting(severity) == severity \notin {"off", "warn"}

\* A failed source or contract hides the explicit rules on its field; a
\* requires rule is on no field.
Rejected(stem, r) ==
    LET schema == FilterSchemaByMatch(stem.schema, r)
        Verdict(f) == FieldVerdict(schema[f], f \in stem.aggregate, r, f)
        Hidden(rule) == /\ rule.rule # "requires" /\ rule.field \in DOMAIN schema
                        /\ Verdict(rule.field) \in {"source", "contract"}
    IN  \/ \E f \in DOMAIN schema : Verdict(f) # "ok" /\ Rejecting(schema[f].severity)
        \/ \E rule \in stem.validate : /\ Rejecting(rule.severity) /\ ~Hidden(rule)
                                       /\ RuleFails(schema, r, rule)
        \/ stem.allowed # {} /\ ~(r.links \subseteq stem.allowed)

\* ValidateDirectory, of a directory with so many subdirectories, so many of
\* which hold an index file.
StructureFails(s, children, indexed) ==
    \/ s.min > 0 /\ children < s.min
    \/ s.max > 0 /\ children > s.max
    \/ s.index /\ indexed < children
=============================================================================

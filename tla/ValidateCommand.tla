--------------------------- MODULE ValidateCommand ---------------------------
(***************************************************************************)
(* rootline validate (cmd/rootline/validate.go): of a tree (--all), which  *)
(* a gate runs, and of named files, which a hook runs.  Both answer with   *)
(* one envelope (internal/rules/result.go): a row per document, the        *)
(* directories, the health of the .stem files, and notices of the run.     *)
(***************************************************************************)
EXTENDS GraphCommand

CONSTANTS
    Rollup(_)   \* what an expression of a .stem makes of documents' values, or None

\* The rest of a tree: invalid and advised, documents that break a rule of the
\* schema, as an error or as a warning; misshapen, directories that break their
\* structural rules; value[f], a field every document may have, None without;
\* derives, aggregates, demands: the directories whose .stem derives that field
\* from a document and its siblings, aggregates it in an index file from the
\* documents below, asks that it exists.
DocumentTypes(t) ==
    /\ t.invalid \subseteq Files /\ t.advised \subseteq Files /\ t.misshapen \subseteq Dirs
    /\ DOMAIN t.value = Files
    /\ t.derives \subseteq Places /\ t.aggregates \subseteq Places /\ t.demands \subseteq Places

(***************************************************************************)
(* One document.                                                           *)
(***************************************************************************)
\* MergeStemFiles: what a .stem of the chain declares, the schema has.
Declares(s, f, declaring) == Chain(s, Dir(f)) \cap declaring # {}
Index(f) == f[Len(f)] = Readme

\* The rules of the field, of which derived is what the run has computed: an
\* index file must not store another value than its aggregate, and a field that
\* must exist may be a derived one.
FieldRules(s, f, derived) ==
    {r \in {<<"aggregate", f>>} : /\ Index(f) /\ Declares(s, f, tree.aggregates)
                                 /\ {tree.value[f], derived} \cap {None} = {} /\ derived # tree.value[f]}
    \cup {r \in {<<"exists", f>>} : Declares(s, f, tree.demands) /\ {tree.value[f], derived} = {None}}

\* The rules it breaks; root is where links that begin with "/" start.  A field
\* to be read from the body that is there twice is one, too.
RulesBroken(s, f, root, derived) ==
    {r \in {<<"schema", f>>} : f \in tree.invalid} \cup {r \in {<<"advice", f>>} : f \in tree.advised}
    \cup {r \in {<<"source", f>>} : f \in tree.ambiguous} \cup FieldRules(s, f, derived)
    \cup CheckLinks(Disk, Nothing, root, Dir(f), Schema(s, f), tree.links[f])

Warnings == {"advice", "link_unverifiable", "excluded"}
Valid(row) == \A r \in row : r[1] \in Warnings

\* excludedFromGovernance: the two filters of a scan, from the boundary of the
\* document's own chain or, without one, from the working directory.
\* Mutation: only the .stemignore beside the document.
IgnoredBeside(top, f) == f \in tree.ignores[Dir(f)]

IgnoredFrom(top, f) == \E d \in Places : IsPrefix(top, d) /\ IsStrictPrefix(d, f) /\ f \in tree.ignores[d]

Excluded(s, f) ==
    IF Resolve(s, Dir(f)) = "governed"
    THEN IgnoredFrom(Topmost(Chain(s, Dir(f))), f) \/ f \in tree.outOfScope
    ELSE IgnoredFrom(Root, f)

RowsWith(rows, f, row) == [g \in DOMAIN rows \cup {f} |-> IF g = f THEN row ELSE rows[g]]
Row(f, row)   == [cmd EXCEPT !.rows = RowsWith(@, f, row), !.at = @ + 1]
Unresolved(f) == {<<"unresolved", f>>}

(***************************************************************************)
(* NewValidationEnvelope, validationBatchHasFailure.                       *)
(***************************************************************************)
Fail(c, strict) ==
    \/ \E f \in DOMAIN c.rows : ~Valid(c.rows[f]) \/ (strict /\ c.rows[f] # {})
    \/ c.structural # {} \/ c.health
    \/ c.notices \ {"no records"} # {} \/ (strict /\ c.notices # {})

Envelope(c) ==
    \E strict \in BOOLEAN :
        /\ cmd' = [c EXCEPT !.phase = "done"]
        /\ report' = [report EXCEPT ![c.name] =
              [kind |-> "envelope", rows |-> c.rows, structural |-> c.structural, drift |-> c.drift,
               notices |-> c.notices, strict |-> strict, ok |-> ~Fail(c, strict)]]

Now(name, phase) == cmd.name = name /\ cmd.phase = phase
Quiet            == UNCHANGED <<scanVars, graphVars>>

(***************************************************************************)
(* validate --all.                                                         *)
(***************************************************************************)
\* ValidateStemHealth, of which only what cannot be parsed is taken here.
Health ==
    /\ Now("all", "health")
    /\ cmd' = [cmd EXCEPT !.phase = "scan", !.health = \E d \in Dirs : stems[d] = "broken"]
    /\ BeginScan(TRUE, FALSE)
    /\ UNCHANGED <<graphVars, report>>

\* A tree that cannot be scanned is a notice, not an error of the command.
AllScanned ==
    /\ Now("all", "scan") /\ scan.phase = "done"
    /\ IF scan.out.kind # "records" THEN Envelope([cmd EXCEPT !.notices = {"scan failed"}])
       ELSE cmd' = [cmd EXCEPT !.phase = "boundary", !.records = scan.out.records] /\ UNCHANGED report
    /\ Quiet

CheckBoundary ==
    /\ Now("all", "boundary")
    /\ cmd' = [cmd EXCEPT !.phase = "derive",
                  !.notices = @ \cup Notice(stems, Root)
                                \cup {n \in {"no records"} : cmd.records = <<>>}]
    /\ UNCHANGED report /\ Quiet

\* DeriveAll, over the records S of the scan: of each whose schema derives the
\* field, what the expression makes of its value and its siblings'.
Held(S) == {tree.value[f] : f \in S} \ {None}
DeriveAll(s, S) ==
    [f \in Files |-> IF f \in S /\ Declares(s, f, tree.derives)
                     THEN Rollup(Held({g \in S : Dir(g) = Dir(f)})) ELSE None]

\* AggregateAll: of each index file, what the expression makes of the values of
\* the other documents below it; one that does not evaluate changes nothing.
Total(S, f) == Rollup(Held({g \in S : ~Index(g) /\ IsStrictPrefix(Dir(f), g)}))
AggregateAll(s, S, derived) ==
    [f \in Files |-> IF /\ f \in S /\ Index(f) /\ Declares(s, f, tree.aggregates)
                        /\ Total(S, f) # None
                     THEN Total(S, f) ELSE derived[f]]

\* DeriveAllSimple, EnrichBuiltinsSimple, AggregateAllSimple: when one record's
\* schema cannot be resolved, or its field is ambiguous, no record is checked.
Derivations == <<"derive", "builtins", "aggregate", "where">>

Derivation(phase) ==
    CASE phase = "derive"    -> DeriveAll(stems, Records)
      [] phase = "aggregate" -> AggregateAll(stems, Records, cmd.derived)
      [] OTHER               -> cmd.derived

Derive(i) ==
    LET stuck == Broken(Records) \/ Stopped
                 \/ (Derivations[i] = "builtins" /\ tree.ambiguous \cap Records # {})
    IN
    /\ Now("all", Derivations[i])
    /\ IF stuck
       THEN Envelope([cmd EXCEPT !.notices = @ \cup {"unresolved"},
                                 !.rows = [f \in Records |-> Unresolved(f)]])
       ELSE /\ cmd' = [cmd EXCEPT !.phase = Derivations[i + 1], !.derived = Derivation(Derivations[i])]
            /\ UNCHANGED report
    /\ Quiet

FilterAll ==
    /\ Now("all", "where")
    /\ cmd' = [cmd EXCEPT !.phase = "corpus", !.records = Kept(@, tree.where)]
    /\ UNCHANGED report /\ Quiet

\* validateCorpusSurfaces, its documents, and the directories from each up to
\* the end of the scan or of its governance.
Above(f) == {d \in Dirs : IsStrictPrefix(d, f) /\ IsPrefix(Topmost(Chain(stems, Dir(f))), d)}

ValidateRecord ==
    LET f == cmd.records[cmd.at] IN
    /\ Now("all", "corpus") /\ cmd.at <= Len(cmd.records)
    /\ cmd' = IF Resolve(stems, Dir(f)) = "governed"
              THEN [Row(f, RulesBroken(stems, f, Root, cmd.derived[f])) EXCEPT !.visited = @ \cup Above(f)]
              ELSE [Row(f, Unresolved(f)) EXCEPT !.notices = @ \cup {"unresolved"}]
    /\ UNCHANGED report /\ Quiet

\* Those directories, each by its own chain.
ValidateDirectories ==
    LET unread == {d \in cmd.visited : Resolve(stems, d) # "governed"} IN
    /\ Now("all", "corpus") /\ cmd.at > Len(cmd.records)
    /\ cmd' = [cmd EXCEPT !.phase = "drift",
                  !.structural = (cmd.visited \ unread) \cap tree.misshapen,
                  !.notices = @ \cup {n \in {"unresolved"} : unread # {}}]
    /\ UNCHANGED report /\ Quiet

\* groupByParentDir, DetectDrift: a README whose field differs from the one
\* value its siblings have.  Drift is reported and never fails the run.
Drifts(d) ==
    LET index    == Append(d, Readme)
        siblings == {f \in Records : Dir(f) = d /\ f # index /\ tree.value[f] # None}
    IN  /\ index \in Records /\ tree.value[index] # None
        /\ Cardinality({tree.value[f] : f \in siblings}) = 1
        /\ \A f \in siblings : tree.value[f] # tree.value[index]

DetectDrift ==
    LET indexed == {d \in Dirs : Append(d, Readme) \in Records}
        unread  == {d \in indexed : Resolve(stems, d) # "governed"}
    IN
    /\ Now("all", "drift")
    /\ Envelope([cmd EXCEPT !.drift = {d \in indexed \ unread : Drifts(d)},
                            !.notices = @ \cup {n \in {"unresolved"} : unread # {}}])
    /\ Quiet

(***************************************************************************)
(* validate <file...>: here every known file there is, in the walk's order.*)
(***************************************************************************)
ThereNow == Kept(Walk, Known \ gone)

NameFiles ==
    /\ Now("file", "files")
    /\ cmd' = [cmd EXCEPT !.phase = "each", !.records = ThereNow]
    /\ UNCHANGED report /\ Quiet

\* A file that is gone or cannot be extracted ends the command without an
\* envelope, but for one that is excluded.  Nothing is derived.
ValidateFile ==
    LET f == cmd.records[cmd.at]
        said(row) == [Row(f, row) EXCEPT !.notices = @ \cup Notice(stems, Dir(f))]
    IN
    /\ Now("file", "each") /\ cmd.at <= Len(cmd.records)
    /\ IF f \in gone THEN Fails("not found")
       ELSE IF Excluded(stems, f) THEN cmd' = Row(f, {<<"excluded", f>>}) /\ UNCHANGED report
       ELSE IF Resolve(stems, Dir(f)) # "governed"
       THEN cmd' = [said(Unresolved(f)) EXCEPT !.notices = @ \cup {"unresolved"}] /\ UNCHANGED report
       ELSE IF f \in tree.bad THEN Fails("extraction")
       ELSE cmd' = said(RulesBroken(stems, f, Topmost(Chain(stems, Dir(f))), None)) /\ UNCHANGED report
    /\ Quiet

FilesDone ==
    /\ Now("file", "each") /\ cmd.at > Len(cmd.records)
    /\ Envelope(cmd)
    /\ Quiet

ValidateNext ==
    \/ Health \/ AllScanned \/ CheckBoundary \/ FilterAll \/ ValidateRecord
    \/ ValidateDirectories \/ DetectDrift \/ NameFiles \/ ValidateFile \/ FilesDone
    \/ \E i \in 1..3 : Derive(i)
=============================================================================

---------------------------- MODULE MCSchemaApply ----------------------------
(***************************************************************************)
(* Constant values for checking SchemaApply with TLC: a project with one   *)
(* directory p and two below it, and one field.                            *)
(***************************************************************************)
EXTENDS SchemaApply, TLC

P  == <<"p">>
PA == <<"p", "a">>
PB == <<"p", "b">>
MCDirs      == {<<>>, P, PA, PB}
MCPopulated == {P, PA}

Declare(type, values, required) ==
    [Undeclared EXCEPT !.type = type, !.values = values, !.required = required]
Stem(root, d) == [EmptyStem EXCEPT !.version = 2, !.root = root, !.schema = [f \in {"f"} |-> d]]

Text     == Declare("string", {}, TRUE)
Pair     == Declare("enum", {"x", "y"}, TRUE)
One      == Declare("enum", {"x"}, TRUE)
Sourced  == [Text EXCEPT !.source = "h1"]
Optional == Declare("string", {}, FALSE)
Warned   == [Pair EXCEPT !.severity = "warn"]
Untyped  == Declare("", {}, TRUE)
Matched  == [One EXCEPT !.match = {"m"}]
Legacy   == [Stem(FALSE, Text) EXCEPT !.version = 1]
Rule(rule, severity) == [rule |-> rule, field |-> "f", when |-> None, severity |-> severity]
Ruled    == [Stem(TRUE, [Text EXCEPT !.required = FALSE]) EXCEPT
                !.validate = {Rule("non_empty", ""), Rule("enum", "error")}, !.allowed = {"ref"},
                !.structural = [min |-> 1, max |-> 2, index |-> TRUE]]
Ruling   == [Stem(FALSE, Declare("enum", {"x", ""}, FALSE)) EXCEPT !.validate = {Rule("exists", "warn")}]
Deep     == [EmptyStem EXCEPT !.version = 2, !.structural = [min |-> 2, max |-> 0, index |-> FALSE]]
Shallow  == [Deep EXCEPT !.structural.min = 1]

Tree(top, p, a, b) == [d \in MCDirs |-> CASE d = <<>> -> top [] d = P -> p [] d = PA -> a [] OTHER -> b]
MCHierarchies ==
    {Tree(None, None, None, None),
     Tree(Stem(TRUE, Text), None, None, None),
     Tree(Stem(TRUE, Text), Stem(FALSE, Pair), Stem(FALSE, One), None),
     Tree(Stem(FALSE, Pair), None, None, Stem(FALSE, One)),
     Tree(Stem(FALSE, Sourced), Stem(TRUE, Text), None, Deep),
     Tree(Ruled, None, Ruling, None),
     Tree(Stem(TRUE, Text), None, None, Garbage),
     Tree(Legacy, None, Stem(TRUE, Pair), None),
     Tree(None, None, Stem(TRUE, Untyped), None),
     Tree(Garbage, None, Stem(FALSE, Pair), None)}

Create(dir, file) == [agent |-> FALSE, op |-> "create_stem", named |-> TRUE, target |-> dir, file |-> file]
Apply(root, force, dry, proposals) ==
    [kind |-> "proposals", root |-> root, force |-> force, dry |-> dry,
     proposals |-> proposals, inferences |-> <<>>]
Analysis(root, dry, agent, type, values, required) ==
    [kind |-> "analyze", root |-> root, force |-> FALSE, dry |-> dry, proposals |-> <<>>,
     inferences |-> [f \in {"f"} |-> [agent |-> agent, type |-> type, values |-> values,
                                      required |-> required]]]

MCReports ==
    {<<Create(P, Stem(FALSE, Pair)), Create(PA, Stem(FALSE, One))>>,
     <<Create(PA, Stem(FALSE, Text)), Create(P, Stem(FALSE, One))>>,
     <<Create(PA, Stem(FALSE, One)), Create(PA, Stem(FALSE, Optional))>>,
     <<Create(P, Stem(TRUE, Optional))>>,
     <<Create(PB, Stem(FALSE, Sourced)), Create(PB, Stem(FALSE, Warned))>>,
     <<Create(P, Deep), Create(PA, Shallow)>>, <<Create(P, Ruling), Create(PB, Stem(FALSE, Pair))>>,
     <<Create(PA, Stem(FALSE, Matched))>>}
MCOddReports ==
    {<<[Create(PA, Deep) EXCEPT !.agent = TRUE], [Create(PA, Deep) EXCEPT !.named = FALSE],
       [Create(PA, Deep) EXCEPT !.op = "other"], Create(<<>>, Deep), Create(PB, Deep)>>,
     <<Create(PA, Deep), Create(PA, None), Create(PA, Garbage), Create(PA, Stem(FALSE, Untyped))>>}

MCRequests ==
    {Apply(P, force, dry, report) : force \in BOOLEAN, dry \in BOOLEAN, report \in MCReports}
    \cup {Apply(P, FALSE, FALSE, report) : report \in MCOddReports}
    \cup {Apply(<<>>, TRUE, FALSE, <<Create(<<>>, Stem(TRUE, One))>>),
          Analysis(P, FALSE, TRUE, "enum", {}, TRUE)}
    \cup {Analysis(root, dry, FALSE, "", {"x", "z"}, TRUE) : root \in {P, PA}, dry \in BOOLEAN}
    \cup {Analysis(PA, FALSE, FALSE, type, {}, FALSE) : type \in {"integer", "enum"}}
MCEdits == {None, Garbage, Stem(FALSE, Optional)}

Record(value, heading, matches) ==
    [fm |-> [f \in Fields |-> value], body |-> [h \in Selectors |-> heading], matches |-> matches,
     index |-> FALSE, links |-> {"ref"}]
Value(text)  == [kind |-> "string", text |-> text]
MCSamples ==
    {Record(None, None, {}), Record(None, Value("y"), {}), Record(None, Garbage, {}),
     Record(Value("y"), None, {}), Record(Value(""), None, {}), Record([kind |-> "integer", text |-> "x"], None, {"m"})}

\* An analysis of p/a, which has no .stem of its own.
MCOutsideTrees    == {Tree([Stem(TRUE, Text) EXCEPT !.schema = <<>>], None, None,
                           Stem(FALSE, Declare("integer", {}, FALSE))),
                      Tree(Stem(TRUE, Optional), None, None, Stem(FALSE, Pair))}
MCOutsideRequests == {Analysis(PA, dry, FALSE, "", {"x", "z"}, TRUE) : dry \in BOOLEAN}
                     \cup {Apply(P, FALSE, FALSE, <<Create(PA, Stem(FALSE, One))>>)}
=============================================================================

--------------------------- MODULE MCReadSession ---------------------------
(***************************************************************************)
(* A tree p with a.md, b.md and s/README.md, s/b.md, and the directory     *)
(* above it, in six families: every graph on three documents, links of     *)
(* every kind under every links: block, every way the boundary may be      *)
(* declared, what documents and directories may have wrong, a field that   *)
(* is computed and asked for, and scans of a tree that changes.            *)
(***************************************************************************)
EXTENDS ReadSession

above == <<>>
p == <<"p">>
s == <<"p", "s">>
a == <<"p", "a.md">>
b == <<"p", "b.md">>
r == <<"p", "s", "README.md">>
c == <<"p", "s", "b.md">>

MCWalk    == <<p, a, b, s, r, c>>
MCLexical == <<a, b, r, c>>
MCDirs    == {p, s}
MCOuter   == {above}
MCKnown   == {a, b, r, c}
MCGit     == {p}
MCMd      == [n \in {"a", "b", "x"} |-> CASE n = "a" -> "a.md" [] n = "b" -> "b.md" [] n = "x" -> "x.md"]

(***************************************************************************)
(* The parts of a tree.                                                    *)
(***************************************************************************)
Link(comps) == [comps |-> comps, anchored |-> FALSE, spelling |-> "plain",
                style |-> "wiki", type |-> "ref", anchor |-> Nothing]
Declared == [d \in Places |-> IF d = p THEN "root" ELSE "none"]
Sub      == [Declared EXCEPT ![s] = "plain"]
NoLinks  == [f \in Files |-> {}]
NoIgnore == [d \in Places |-> {}]
NoSchema == [d \in Places |-> Nothing]
NoValue  == [f \in Files |-> None]

Base == [ignores |-> NoIgnore, outOfScope |-> {}, bad |-> {}, absent |-> {}, stems |-> Declared,
         hidden |-> {}, quoted |-> {}, schema |-> NoSchema, links |-> NoLinks, where |-> Files,
         ambiguous |-> {}, headings |-> [f \in {b} |-> {"h"}],
         invalid |-> {}, advised |-> {}, misshapen |-> {}, value |-> NoValue,
         derives |-> {}, aggregates |-> {}, demands |-> {}]

Whole == <<"graph", "all", "file">>

(***************************************************************************)
(* Graphs: what each of a, b, r links to; which directory asks for cycles. *)
(***************************************************************************)
Three == {a, b, r}
To3(x, y) ==
    IF x = r THEN Link(CASE y = a -> <<"..", "a">> [] y = b -> <<"..", "b">> [] y = r -> <<"README.md">>)
    ELSE Link(CASE y = a -> <<"a">> [] y = b -> <<"b">> [] y = r -> <<"s">>)

Graphs ==
    {[tree |-> [Base EXCEPT !.absent = {c}, !.stems = Sub,
                   !.links = [f \in Files |-> IF f \in Three THEN {To3(f, y) : y \in g[f]} ELSE {}],
                   !.schema = [d \in Places |-> IF d \in opt THEN [Plain EXCEPT !.cycles = TRUE]
                                                ELSE IF d = s THEN Plain ELSE Nothing]],
      todo |-> <<"graph">>] :
        <<g, opt>> \in {x \in [Three -> SUBSET Three] \X {{p}, {s}} : x[2] = {s} \/ x[1][a] = {b}}}

(***************************************************************************)
(* Links.                                                                  *)
(***************************************************************************)
Corpora ==
    {[NoLinks EXCEPT ![a] = {Link(<<"b">>), [Link(<<"b">>) EXCEPT !.style = "markdown"],
                             [Link(<<"b">>) EXCEPT !.anchor = "h"], [Link(<<"b">>) EXCEPT !.anchor = "z"]}],
     [NoLinks EXCEPT ![r] = {Link(<<"a">>), Link(<<"b">>), Link(<<"..", "..", "p", "b.md">>),
                             [Link(<<"b.md">>) EXCEPT !.style = "markdown"]}],
     [NoLinks EXCEPT ![c] = {[Link(<<"a.md">>) EXCEPT !.style = "markdown", !.anchored = TRUE],
                             [Link(<<"a.md">>) EXCEPT !.style = "markdown", !.spelling = "blank"],
                             [Link(<<"x">>) EXCEPT !.type = "dep"], Link(<<"..", "s">>)}],
     [NoLinks EXCEPT ![b] = {Link(<<"..", "a">>), Link(<<"y", "..", "a">>), Link(<<"s">>),
                             [Link(<<"b">>) EXCEPT !.spelling = "percent"]},
                     ![r] = {[Link(<<"a.md">>) EXCEPT !.style = "markdown"], Link(<<"..", "b">>)}]}

Blocks == {k \in [styles : {{}, {"wiki", "markdown"}}, rules : {{}, {"ref"}}, fallback : BOOLEAN,
                   resolve : BOOLEAN, anchors : BOOLEAN, encoding : BOOLEAN, cycles : {FALSE}] :
              k.encoding = k.anchors}

LinkTrees ==
    {[tree |-> [Base EXCEPT !.links = l, !.stems = st, !.schema = [NoSchema EXCEPT ![p] = k]], todo |-> Whole] :
        l \in Corpora, <<st, k>> \in {x \in {Declared, Sub} \X Blocks : x[1] = Sub => x[2].rules = {}}}

(***************************************************************************)
(* Boundaries.                                                             *)
(***************************************************************************)
Boundaries ==
    {[tree |-> [Base EXCEPT !.stems = st, !.hidden = h, !.quoted = q], todo |-> t] :
        st \in [Places -> StemStates], h \in {{}, {s}}, q \in {{}, {p}},
        t \in {<<"graph">>, <<"all">>, <<"file">>}}

(***************************************************************************)
(* Documents: any two of the things that may be wrong.                     *)
(***************************************************************************)
Variants(t) ==
    {t, [t EXCEPT !.invalid = {c}], [t EXCEPT !.advised = {a}], [t EXCEPT !.misshapen = {s}],
     [t EXCEPT !.ambiguous = {b}], [t EXCEPT !.ignores[p] = {c}], [t EXCEPT !.ignores[s] = {c}],
     [t EXCEPT !.ignores[above] = {a}], [t EXCEPT !.outOfScope = {b}], [t EXCEPT !.bad = {c}],
     [t EXCEPT !.where = {a}], [t EXCEPT !.absent = {a, b, r}], [t EXCEPT !.stems = Sub],
     [t EXCEPT !.stems[s] = "root"], [t EXCEPT !.stems[p] = "none"],
     [t EXCEPT !.value = [f \in Files |-> IF f = r THEN 1 ELSE 2]]}

Documents == {[tree |-> t, todo |-> Whole] : t \in UNION {Variants(u) : u \in Variants(Base)}}

(***************************************************************************)
(* A field: the value two documents have and the index file's, where it is *)
(* computed, and whether a document is hidden.                             *)
(***************************************************************************)
MCRollup(V) == IF Cardinality(V) = 1 THEN CHOOSE v \in V : TRUE ELSE None

Fielded ==
    {[tree |-> [Base EXCEPT !.absent = {b}, !.stems = st, !.ignores[s] = i,
                   !.value = [f \in Files |-> CASE f = a -> x [] f = c -> y [] f = r -> z [] OTHER -> None],
                   !.derives = d, !.aggregates = g, !.demands = m],
      todo |-> <<"all", "file">>] :
        st \in {Declared, Sub}, i \in {{}, {c}}, x \in {None, 1}, y \in {None, 1}, z \in {None, 1, 2},
        d \in {{}, {p}, {s}}, g \in {{}, {p}}, m \in {{}, {p}}}

(***************************************************************************)
(* Scans, of three documents, that something happens to.                   *)
(***************************************************************************)
Scans ==
    {[tree |-> [Base EXCEPT !.ignores = i, !.outOfScope = o, !.bad = x, !.absent = {r} \cup z, !.stems = st,
                   !.links = [NoLinks EXCEPT ![b] = {Link(<<"a">>)}]],
      todo |-> t] :
        i \in {NoIgnore, [NoIgnore EXCEPT ![p] = {c}], [NoIgnore EXCEPT ![s] = {c}]},
        o \in {{}, {a}}, x \in {{}, {a}, {b, c}}, z \in {{}, {a}},
        st \in {Declared, Sub, [Declared EXCEPT ![p] = "none"]}, t \in {<<"graph">>, <<"all">>, <<"file">>}}

MCSessions == Graphs \cup LinkTrees \cup Boundaries \cup Documents \cup Fielded \cup Scans
MCTrees    == {x.tree : x \in MCSessions}
MCFieldTrees == {x.tree : x \in Fielded}

\* Bound: things happen to the trees of Scans only, which have no README.
MCMishaps == mishaps > 0 => r \in tree.absent /\ ~(b \in tree.absent)
=============================================================================

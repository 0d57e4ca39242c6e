---------------------------- MODULE LinkResolve ----------------------------
(***************************************************************************)
(* Where a link leads: the resolver that validate, graph, query and the    *)
(* writing commands share (internal/rules/link_resolve.go), the checks     *)
(* validate makes of it (link_checks.go) and the preparation graph makes   *)
(* (link_prepare.go, link_filter.go, link_schema_scope.go).                *)
(*                                                                         *)
(* disk is [files, dirs, headings]: the paths there are and, per file, the *)
(* anchors of its headings.  over is a file about to be written, or None.  *)
(* There are no symbolic links, and names differ as the file system says.  *)
(***************************************************************************)
EXTENDS Naturals, Sequences, FiniteSets, SequencesExt

CONSTANTS
    Readme,     \* the name README.md
    Md,         \* Md[n]: the name n.md, for the names n without the suffix
    Nothing     \* no path, no schema, no anchor

\* A link as written: its components, whether it begins with "/", and how its
\* blanks are spelt; and its resolution, the path of the node it leads to.
Links(names, types, anchors) ==
    [comps : Seq(names), anchored : BOOLEAN, spelling : {"plain", "percent", "blank"},
     style : {"wiki", "markdown"}, type : types, anchor : anchors \cup {Nothing}]

(***************************************************************************)
(* ResolveLinkTarget.                                                      *)
(***************************************************************************)
\* filepath.Clean: "x/.." vanishes whether x exists or not.
Clean(comps) ==
    FoldLeft(LAMBDA acc, c : IF c = "." THEN acc
                             ELSE IF c = ".." /\ acc # <<>> /\ Last(acc) # ".." THEN Front(acc)
                             ELSE Append(acc, c),
             <<>>, comps)

Parent(p)       == IF p = <<>> THEN p ELSE Front(p)
Within(root, p) == root = Nothing \/ IsPrefix(root, p)

\* newProspectiveLinkOverlay ignores a file outside the root.
Overlaid(over, root) == IF over # Nothing /\ Within(root, over) THEN {over} ELSE {}

Exists(disk, over, p) == p \in disk.files \cup disk.dirs \cup over

\* findEntry: the names in d, nothing when d is outside the root.
Listing(disk, over, root, d) ==
    IF ~Within(root, d) THEN {}
    ELSE {Last(p) : p \in {q \in disk.files \cup disk.dirs \cup over : q # <<>> /\ Front(q) = d}}

\* inferMarkdown: only a wikilink, only its last component.
Inferred(disk, over, root, d, link, name, last) ==
    IF last /\ link.style = "wiki" /\ name \in DOMAIN Md /\ Md[name] \in Listing(disk, over, root, d)
    THEN Append(d, Md[name]) ELSE Nothing

Descend(disk, over, root, base, link) ==
    LET comps == Clean(link.comps)
        at[n \in 0..Len(comps)] ==
            IF n = 0 THEN base
            ELSE LET here == at[n-1] IN
                 IF here = Nothing THEN Nothing
                 ELSE IF comps[n] = ".." THEN Parent(here)
                 ELSE IF comps[n] \in Listing(disk, over, root, here) THEN Append(here, comps[n])
                 ELSE Inferred(disk, over, root, here, link, comps[n], n = Len(comps))
    IN  at[Len(comps)]

\* The path a link leads to, or Nothing.  A directory stands for its README.
ResolveTarget(disk, over, root, dir, link) ==
    LET here  == Overlaid(over, root)
        found == Descend(disk, here, root, IF link.anchored THEN root ELSE dir, link)
    IN  IF (link.anchored /\ root = Nothing) \/ found = Nothing THEN Nothing
        ELSE IF ~Within(root, found) \/ ~Exists(disk, here, found) THEN Nothing
        ELSE IF found \notin disk.dirs \/ found \in here THEN found
        ELSE IF Readme \in Listing(disk, here, root, found) THEN Append(found, Readme)
        ELSE Nothing

(***************************************************************************)
(* The effective links: block of a record, Nothing when none governs it.   *)
(***************************************************************************)
LinkSchemas(types) ==
    [styles : SUBSET {"wiki", "markdown"}, rules : SUBSET types, fallback : BOOLEAN,
     resolve : BOOLEAN, anchors : BOOLEAN, encoding : BOOLEAN, cycles : BOOLEAN]

Styles(schema) ==
    IF schema = Nothing \/ schema.styles = {} THEN {"wiki"} ELSE schema.styles

\* FilterLinksByStyles, FilterLinksByTypedRules: no typed rule filters nothing.
OfStyle(links, schema) == {l \in links : l.style \in Styles(schema)}
OfType(links, schema)  == {l \in links : schema = Nothing \/ schema.rules = {} \/ l.type \in schema.rules}

CycleFailureScope(schema) == schema # Nothing /\ schema.cycles

(***************************************************************************)
(* CheckLinks: the rules a record's links break.                           *)
(***************************************************************************)
Anchored(disk, link, to) ==
    link.anchor = Nothing \/ to \notin DOMAIN disk.headings \/ link.anchor \in disk.headings[to]

CheckLink(disk, over, root, dir, schema, link) ==
    LET to == ResolveTarget(disk, over, root, dir, link) IN
    (IF schema.encoding /\ link.spelling = "blank" THEN {"link_encoding"} ELSE {})
    \cup
    (IF ~schema.resolve /\ ~schema.anchors THEN {}
     ELSE IF to = Nothing
     THEN IF ~schema.resolve THEN {}
          ELSE IF schema.fallback THEN {"link_unverifiable"} ELSE {"link_resolve"}
     ELSE IF schema.anchors /\ ~Anchored(disk, link, to) THEN {"link_anchor"} ELSE {})

\* The pairs of a rule and the link that breaks it.
CheckLinks(disk, over, root, dir, schema, links) ==
    UNION {CheckLink(disk, over, root, dir, schema, l) \X {l} : l \in OfStyle(links, schema)}

(***************************************************************************)
(* PrepareLinks: the node a link leads to.                                 *)
(***************************************************************************)
\* basenameIndex: the records a bare name stands for.
Named(records, link) ==
    IF Len(link.comps) # 1 \/ link.anchored \/ link.spelling = "percent" THEN {}
    ELSE {r \in records : LET n == link.comps[1]
                          IN  Last(r) = n \/ (n \in DOMAIN Md /\ Md[n] = Last(r))}

\* An unresolved link keeps its text, which is a node's key when it spells the
\* node's path from the root.
Text(root, link) ==
    IF link.anchored \/ link.spelling = "percent" THEN Nothing ELSE root \o link.comps

Prepared(disk, root, dir, schema, records, link) ==
    LET to    == ResolveTarget(disk, Nothing, root, dir, link)
        named == Named(records, link)
        edge(resolved, key) == [link |-> link, resolved |-> resolved, key |-> key]
    IN  IF to # Nothing THEN edge(TRUE, to)
        ELSE IF schema # Nothing /\ schema.fallback /\ Cardinality(named) = 1
        THEN edge(TRUE, CHOOSE r \in named : TRUE)
        ELSE edge(FALSE, Text(root, link))
=============================================================================

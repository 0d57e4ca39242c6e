----------------------------- MODULE RepairDocs -----------------------------
(***************************************************************************)
(* Governed documents and repair proposals: what `rootline repair apply`   *)
(* reads, decides on and writes (internal/fix/repair.go, fix.go).          *)
(*                                                                         *)
(* A document is its frontmatter, the lines of one section and its links   *)
(* in order.  It is sealed unless it ends with the frontmatter's closing   *)
(* "---" and no line break: the extractor reads the fields of such a       *)
(* document (frontmatter.go:44-52), RewriteFrontmatter does not find where *)
(* they end (fix.go:186-189).  A proposal names one field, or the section, *)
(* or one link.                                                            *)
(***************************************************************************)
EXTENDS Naturals, Sequences

CONSTANTS
    Fields,     \* frontmatter fields a proposal can name
    Values,     \* values of a field, lines of a section, targets of a link
    Paths,      \* document paths as a report spells them, one per file
    None        \* no such field, no such heading, no such file

Frontmatter == [Fields -> Values \cup {None}]
Docs == [fm : Frontmatter, section : Seq(Values) \cup {None}, links : Seq(Values),
         sealed : BOOLEAN]

\* A document that ends with its frontmatter has no body.
Real(doc) == ~doc.sealed => doc.section = None /\ doc.links = <<>>

ASSUME DocAssumption == None \notin Values /\ None \notin Docs

(***************************************************************************)
(* Proposals.  The types are those of one handler: "correct" stands for    *)
(* CorrectValue, MigrateValue, CorrectOutlier and PropagateAggregate;      *)
(* "add" for AddField, ExtractBody, InferFromChildren, InferFromSiblings;  *)
(* "schema" for every type whose surface is not repair.                    *)
(***************************************************************************)
Types == {"correct", "add", "set", "section", "link", "schema"}

Proposals == [type : Types, field : Fields \cup {None}, from : Values \cup {None},
              to : Values, mode : {"replace", "append", "create"}, engine : BOOLEAN,
              paths : Seq(Paths)]

Names(p) == {p.paths[j] : j \in DOMAIN p.paths}

\* transformSetSection: None when the heading is missing and mode is not create.
SetSection(lines, p) ==
    IF lines = None THEN IF p.mode = "create" THEN <<p.to>> ELSE None
    ELSE IF p.mode = "replace" THEN <<p.to>> ELSE Append(lines, p.to)

\* replaceOnce: the first link equal to from.
ReplaceOnce(links, from, to) ==
    LET at == {n \in DOMAIN links : links[n] = from}
    IN  IF at = {} THEN links
        ELSE [links EXCEPT ![CHOOSE n \in at : \A k \in at : n <= k] = to]

\* RewriteFrontmatter: the whole frontmatter in place of the document's, if it
\* finds where that ends.
RewriteFrontmatter(doc, fm) == IF doc.sealed THEN [doc EXCEPT !.fm = fm] ELSE doc

\* What applying p to a whole document means, whoever applies it.  A section
\* that is created ends the line before it.
Effect(p, doc) ==
    CASE p.type \in {"correct", "add", "set"} -> [doc EXCEPT !.fm[p.field] = p.to]
      [] p.type = "section" -> [doc EXCEPT !.section = SetSection(@, p), !.sealed = TRUE]
      [] p.type = "link"    -> [doc EXCEPT !.links = ReplaceOnce(@, p.from, p.to)]
      [] OTHER              -> doc

\* Mutation: correct_value does not look at the value it replaces.
VerdictBlind(p, current) ==
    CASE p.type = "correct" -> IF current # None THEN "change" ELSE "reject"
      [] p.type = "add"     -> IF current = p.to THEN "skip"
                               ELSE IF current = None THEN "change" ELSE "reject"
      [] p.type = "set"     -> IF current = p.to THEN "skip" ELSE "change"

\* The frontmatter handlers' verdict on the value a record holds.
Verdict(p, current) ==
    CASE p.type = "correct" -> IF current = p.to THEN "skip"
                               ELSE IF current = p.from /\ current # None THEN "change" ELSE "reject"
      [] p.type = "add"     -> IF current = p.to THEN "skip"
                               ELSE IF current = None THEN "change" ELSE "reject"
      [] p.type = "set"     -> IF current = p.to THEN "skip" ELSE "change"
=============================================================================

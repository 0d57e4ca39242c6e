--------------------------- MODULE MCRepairApply ---------------------------
(***************************************************************************)
(* Constant values for checking RepairApply with TLC.                      *)
(***************************************************************************)
EXTENDS RepairApply, TLC

\* "status" is an optional enum that never accepts "bad"; "owner" is required.
MCFields  == {"status", "owner"}
MCValues  == {"todo", "done", "bad"}
MCAllowed == [f \in MCFields |-> IF f = "status" THEN {"todo", "done", None} ELSE {"todo", "done"}]

Proposal(type, field, from, to, paths) ==
    [type |-> type, field |-> field, from |-> from, to |-> to, mode |-> "replace",
     engine |-> FALSE, paths |-> paths]
Correct(f, a, b, ps) == Proposal("correct", f, a, b, ps)
Add(f, v, ps)        == Proposal("add", f, None, v, ps)
SetTo(f, v, ps)      == Proposal("set", f, None, v, ps)
Section(m, v, ps)    == [Proposal("section", None, None, v, ps) EXCEPT !.mode = m]
Relink(a, b, ps)     == Proposal("link", None, a, b, ps)

Document(status, owner, section, links) ==
    [fm |-> ("status" :> status @@ "owner" :> owner), section |-> section, links |-> links,
     sealed |-> TRUE]

MCDocs == {Document("bad", None, <<"todo">>, <<"bad", "bad">>),
           Document("todo", "done", None, <<"bad">>)}
\* ... and one that ends with its frontmatter.
MCOpen  == [Document("bad", None, None, <<>>) EXCEPT !.sealed = FALSE]
MCDisks == {d \in [{"a", "b", "out", "loop"} -> MCDocs \cup {MCOpen}] :
                /\ d["out"] = d["a"] /\ d["loop"] = d["a"]
                /\ d["b"] # MCOpen
                /\ d["a"] = MCOpen => d["b"].fm["status"] = "bad"}
MCEdits == {None, Document("todo", "todo", <<>>, <<>>)}

\* Repairs of one document and of both, some of which end invalid.
MCFieldProposals ==
    {Correct("status", "bad", "todo", <<"a", "b">>), Correct("status", "todo", "done", <<"a">>),
     Add("owner", "todo", <<"b", "a">>), SetTo("status", "bad", <<"a">>),
     SetTo("owner", "done", <<"a">>)}
MCOtherProposals ==
    {Section("append", "done", <<"a">>), Section("create", "todo", <<"b">>),
     Section("replace", "todo", <<"a", "b">>), Relink("bad", "done", <<"a", "b">>),
     [Add("owner", "todo", <<"a">>) EXCEPT !.engine = TRUE],
     Proposal("schema", "status", None, "bad", <<"a">>), Add("owner", "done", <<"a", "out">>),
     Add("owner", "done", <<"loop", "b">>)}
MCProposals == MCFieldProposals \cup MCOtherProposals

\* The pairs that compose a field with a field or a body edit, or two body
\* edits of one document; and an empty report and proposal.
MCReports ==
    {<<>>, <<SetTo("owner", "todo", <<>>), SetTo("owner", "todo", <<"b">>)>>}
    \cup {<<p>> : p \in MCFieldProposals} \cup {<<p, q>> : p \in MCFieldProposals, q \in MCProposals}
    \cup {<<q, p>> : p \in {SetTo("owner", "done", <<"a">>)}, q \in MCOtherProposals}
    \cup {<<Relink("bad", "done", <<"a", "b">>), Relink("bad", "todo", <<"a">>)>>,
          <<Section("append", "done", <<"a">>), Section("append", "todo", <<"a">>)>>}
=============================================================================

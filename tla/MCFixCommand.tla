---------------------------- MODULE MCFixCommand ----------------------------
(* Five documents of one directory, README.md among them, two fields: an    *)
(* enum whose README value aggregates the others, and a string.             *)
EXTENDS FixCommand

CONSTANTS r, a, b, c, d

MCDocs  == {r, a, b, c, d}
MCScanOrder == <<r, a, b, c, d>>
MCDir   == [x \in MCDocs |-> "docs"]
MCIndex == {r}
MCBelow == [x \in MCDocs |-> IF x = r THEN {a, b, c, d} ELSE {}]
MCFields == {"state", "owner"}

\* "Doen" is close to "Done"; "Odd" to nothing; "Hecho" is in the value table.
MCValues == {"Done", "Todo", "Doen", "Odd", "Hecho", "Done (by T1)", "Odd (by T2)",
             "7", "'7'", "ann", "eve", "", "none"}
MCNear   == [v \in MCValues |-> CASE v = "Doen" -> {"Done"} [] v = "Hecho" -> {} [] OTHER -> {}]
MCBase   == [v \in {"Done (by T1)", "Odd (by T2)"} |->
                IF v = "Done (by T1)" THEN "Done" ELSE "Odd"]
MCCanonical == [v \in MCValues \ {"none"} |-> IF v = "Hecho" THEN "Done" ELSE v]
MCQuoted == [v \in {"7"} |-> "'7'"]
MCSpelled == {"Done", "Todo"}
MCRollup(vs) == IF vs = {"Done"} THEN "Done" ELSE "Todo"

Field(type, values, required, default) ==
    [type |-> type, values |-> values, required |-> required, default |-> default]
Schema(state, owner, aggregate) ==
    [fields |-> [f \in MCFields |-> IF f = "state" THEN state ELSE owner],
     aggregate |-> aggregate]
Plain == Schema(Field("enum", <<"Todo", "Done">>, TRUE, ""),
                Field("string", <<>>, TRUE, "ann"), {})
Summed == Schema(Field("enum", <<"Todo", "Done">>, TRUE, ""),
                 Field("string", <<>>, TRUE, ""), {"state"})
Narrow == Schema(Field("enum", <<"Todo">>, TRUE, "Todo"),
                 Field("string", <<>>, FALSE, ""), {})

Page(state, owner, inText) ==
    [fm |-> [f \in MCFields |-> IF f = "state" THEN state ELSE owner],
     body |-> [f \in MCFields |-> IF f = "state" THEN inText ELSE "none"],
     links |-> {}, closed |-> TRUE]
Firsts == {Page(v, "ann", "none") : v \in {"Done", "Doen", "Done (by T1)", "Odd (by T2)"}}
      \cup {Page("none", "ann", w) : w \in {"none", "Hecho", "Odd"}}
Rests == {<<"Done", "Done", "Done">>, <<"Done", "Done", "none">>, <<"Done", "Done", "Todo">>,
          <<"Doen", "Doen", "none">>, <<"Todo", "none", "">>}
Tree(top, first, rest) ==
    [x \in MCDocs |->
        CASE x = r -> Page(top[1], "eve", "none") [] x = a -> first
          [] x = b -> Page(rest[1], top[2], "none") [] x = c -> Page(rest[2], "eve", "none")
          [] x = d -> Page(rest[3], "eve", "none")]
Contents ==
    {Tree(<<"Todo", "7">>, first, rest) : first \in Firsts, rest \in Rests}
    \cup {Tree(top, first, rest) : top \in {<<"Doen", "none">>, <<"none", "7">>}, first \in Firsts,
                                  rest \in {<<"Done", "Done", "none">>, <<"Doen", "Doen", "none">>}}
Schemas == {[x \in MCDocs |-> Plain], [x \in MCDocs |-> Summed],
            [x \in MCDocs |-> IF x = d THEN Broken ELSE Summed],
            [x \in MCDocs |-> IF x \in {a, d} THEN Narrow ELSE Plain]}
Unclosed(t, x) == [t EXCEPT ![x] = [@ EXCEPT !.closed = FALSE]]
MCTrees == {[doc |-> t, eff |-> s] : t \in Contents, s \in Schemas}
    \cup {[doc |-> Unclosed(t, y), eff |-> [x \in MCDocs |-> Plain]]
           : t \in {u \in Contents : u[r].fm["state"] = "Doen"}, y \in {a, c}}
MCNamed == {<<b, a>>}
MCEdits == {<<a, Page("Odd", "ann", "Hecho")>>}
=============================================================================

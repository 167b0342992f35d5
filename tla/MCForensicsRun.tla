--------------------------- MODULE MCForensicsRun ---------------------------
(* A commander with two candidates, and a second one whose labels or absence  *)
(* vary.  The database takes two versions: candidate a is drawn from cards    *)
(* that fail each filter, lack each kind of data, or are credited and not.    *)
EXTENDS ForensicsRun

MCNames == {"cmdr", "alt", "a", "b"}
MCOrder == [n \in MCNames |-> CASE n = "a" -> 1 [] n = "alt" -> 2 [] n = "b" -> 3 [] n = "cmdr" -> 4]
MCRules == {"loot", "tokens"}
MCDecks == {<<"cmdr">>, <<"alt">>, <<"alt", "cmdr">>}
MCFixture == <<"alt", "cmdr">>
MCDiscount == <<10>>
MCWeight == <<100, 63, 50, 43>>
MCWindows == {<<0, 1>>, <<1, 1>>, <<0, 5>>}
MCStaples == [p \in {"C", "W", "U"} |-> IF p = "C" THEN {"b"} ELSE {}]

Fine == [pips |-> {"W"}, legal |-> 1, types |-> "edh", cmc |-> 2, rank |-> 500]
Both(r) == {<<r, "synergy">>, <<r, "anti_synergy">>}

\* [row, gives, ports] of candidate a; an empty row is no row.
Candidates ==
    {[row |-> {[Fine EXCEPT ![x[1]] = x[2]]}, gives |-> {<<"loot", "synergy">>}, ports |-> "formed"] :
        x \in {<<"rank", 500>>, <<"legal", 0>>, <<"legal", Null>>, <<"pips", {"U"}>>,
               <<"types", "non_edh">>, <<"types", "none">>, <<"cmc", Null>>}}
    \cup {[row |-> {Fine}, gives |-> g, ports |-> p] :
        g \in {{}, Both("loot"), {<<"tokens", "synergy">>}}, p \in {"formed"}}
    \cup {[row |-> {Fine}, gives |-> {}, ports |-> p] : p \in {"none", "unknown"}}
    \cup {[row |-> {}, gives |-> {}, ports |-> "none"]}

Content(a, pips, asks) ==
    LET cards == {"cmdr", "alt", "b"} \cup {n \in {"a"} : a.row # {}}
    IN  [card |-> [n \in cards |-> CASE n = "cmdr" -> [Fine EXCEPT !.pips = pips]
                                     [] n = "a" -> CHOOSE r \in a.row : TRUE
                                     [] n = "alt" -> [Fine EXCEPT !.cmc = 5]
                                     [] n = "b" -> [Fine EXCEPT !.pips = {}, !.rank = Null]],
         asks |-> [n \in MCNames |-> IF n = "cmdr" THEN asks ELSE IF n = "alt" THEN {"loot"} ELSE {}],
         gives |-> [n \in MCNames |-> CASE n = "a" -> a.gives
                                        [] n = "b" -> {<<"tokens", "synergy">>}
                                        [] OTHER -> {<<"loot", "synergy">>}],
         ports |-> [n \in MCNames |-> IF n = "a" THEN a.ports ELSE "formed"]]

Typical == CHOOSE c \in Candidates : c.row = {Fine} /\ c.gives = {<<"loot", "synergy">>}

\* Either the candidate or the commander changes; the last is a commander gone.
MCHistories ==
    {<<Content(Typical, {"W"}, {"loot"}), Content(a, {"W"}, {"loot"})>> : a \in Candidates}
    \cup {<<Content(a, {"W"}, {"loot", "tokens"}), Content(Typical, p, {"tokens"})>> :
              a \in Candidates, p \in {{"W"}, {"U"}}}
    \cup {<<Content(Typical, {"W"}, {"loot"}),
            [Content(Typical, {"W"}, {"loot"}) EXCEPT !.card = [n \in {"alt", "a", "b"} |-> @[n]]]>>}

\* The client sees the candidate lose its row or its pool, or the commander its colours.
MCClientHistories ==
    {<<Content(Typical, {"W"}, {"loot"}), Content(a, {"W"}, {"loot"})>> :
        a \in {x \in Candidates : x.row = {} \/ <<"tokens", "synergy">> \in x.gives}}
    \cup {<<Content(a, {"W"}, {"loot", "tokens"}), Content(Typical, {"U"}, {"tokens"})>> :
        a \in {x \in Candidates : x = Typical \/ x.gives = Both("loot")}}

MCLabels == [c \in {"cmdr", "alt"} |->
    IF c = "alt" THEN [l \in {} |-> 0]
    ELSE [l \in {"a // z", "b", "gone", "alt"} |-> IF l = "alt" THEN 2 ELSE 5]]
MCFrontFace == [l \in {"a // z"} |-> "a"]
=============================================================================

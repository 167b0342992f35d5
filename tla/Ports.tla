-------------------------------- MODULE Ports -------------------------------
(***************************************************************************)
(* What the complement rules read: rows of the tables card_ports and cards.*)
(*                                                                         *)
(* A valid_filter such as "Creature.Other+YouCtrl,Card.Self" is the        *)
(* sequence of its comma-separated alternatives, each the sequence of its  *)
(* tokens: <<<<"Creature","Other","YouCtrl">>, <<"Card","Self">>>>.  The   *)
(* base of an alternative is its first token, and a substring test is a    *)
(* test for a token (Mentions).  raw_line is the set of words its readers  *)
(* search for, and clause holds the values they cut out of it by regular   *)
(* expression ('Affected': '...', 'ValidTarget': '...', ...), as filters.  *)
(***************************************************************************)
EXTENDS Integers, Sequences, SequencesExt, FiniteSets

\* A column that is NULL or '' is "" or <<>>; readers treat the two alike.
Blank == [type |-> "", event |-> "", filter |-> <<>>, origin |-> "", dest |-> "",
          counter |-> "", combat |-> FALSE, cond |-> FALSE, target |-> "", subtype |-> "",
          repl |-> "", result |-> "", player |-> "", scope |-> <<>>, kw |-> "", branch |-> "root",
          svar |-> "", exec |-> "", raw |-> {}, clause |-> << >>]

Port(t, e) == [Blank EXCEPT !.type = t, !.event = e]

\* Tokens that contain another token as a substring.
Within ==
    {<<"Creature", "nonCreature">>, <<"Land", "nonLand">>, <<"Artifact", "nonArtifact">>,
     <<"P1P1", "counters_GE1_P1P1">>, <<"counters", "counters_GE1_P1P1">>,
     <<"GE", "counters_GE1_P1P1">>, <<"cmc", "cmcLE3">>, <<"cmc", "cmcGE5">>,
     <<"LE", "cmcLE3">>, <<"GE", "powerGE4">>, <<"power", "powerGE4">>, <<"power", "powerLE2">>,
     <<"Opponent", "OpponentCtrl">>, <<"Spirit", "nonSpirit">>, <<"Token", "nonToken">>,
     <<"token", "nontoken">>, <<"Self", "nonSelf">>, <<"Legendary", "nonLegendary">>}

\* Tokens that do not start with a capital letter.
LowerCase ==
    ({t[2] : t \in Within} \ {"OpponentCtrl"}) \cup
    {"token", "modified", "attacking", "blocking", "tapped", "untapped", "equipped",
     "enchanted", "withFlying", "kicked", "counters", "cmc", "power"}

Tokens(f)      == UNION {ToSet(f[i]) : i \in DOMAIN f}
\* `w in f`
Mentions(f, w) == \E t \in Tokens(f) : t = w \/ <<w, t>> \in Within
MentionsAny(f, W) == \E w \in W : Mentions(f, w)
\* alt.split(".")[0].split("+")[0]
Base(alt)      == IF alt = <<>> THEN "" ELSE alt[1]
Bases(f)       == {Base(f[i]) : i \in DOMAIN f}
\* f.startswith("Card.Self")
StartsCardSelf(f) == f # <<>> /\ IsPrefix(<<"Card", "Self">>, f[1])
SelfAlt(alt)   == IsPrefix(<<"Card", "Self">>, alt)

\* The value of a clause of raw_line, <<>> if the line has none.
Clause(p, name) == IF name \in DOMAIN p.clause THEN p.clause[name] ELSE <<>>
HasClause(p, name) == name \in DOMAIN p.clause

\* A zone column may be a list, as in 'Graveyard,Exile'; instr(zone, z) > 0.
ZoneHas(zone, z) == zone = z \/ <<zone, z>> \in {<<"Graveyard,Exile", "Graveyard">>, <<"Graveyard,Exile", "Exile">>,
                                                 <<"Hand,Graveyard", "Hand">>, <<"Hand,Graveyard", "Graveyard">>}

Is(p, t, E)    == p.type = t /\ p.event \in E
HasPort(P, t, E) == \E p \in P : Is(p, t, E)

\* One row of cards with the rows of card_ports that carry its name.
Card(name, types, subs, ports) ==
    [name |-> name, types |-> types, supers |-> {}, subs |-> subs, ports |-> ports,
     cmc |-> 3, power |-> 2, tough |-> 2, kws |-> {}]

\* A PortComplement between the commander and the candidate at hand.
Complement(rule, cmdr_event, cand_event, group) ==
    [rule |-> rule, cmdr |-> cmdr_event, cand |-> cand_event, group |-> group]

When(cond, S) == IF cond THEN S ELSE {}

\* The first non-empty set of a sequence of sets: a loop with a `seen` set that
\* reports a card under the first key that finds it.
FirstFound(sets) == UNION {sets[i] : i \in {j \in DOMAIN sets : \A k \in 1..(j - 1) : sets[k] = {}}}

\* The same of a loop over rows.
FirstOf(ports, Found(_)) == FirstFound([i \in DOMAIN ports |-> Found(ports[i])])
=============================================================================

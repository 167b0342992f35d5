------------------------------- MODULE Filters ------------------------------
(***************************************************************************)
(* How a filter is taken apart and matched: attributes.py, the event map   *)
(* of port_graph/event_maps.py with its match qualities, and the filter    *)
(* helpers of graph_engine.py and complement_rules/core.py.                *)
(***************************************************************************)
EXTENDS Ports

CARD_TYPES == {"Artifact", "Creature", "Enchantment", "Instant", "Land", "Planeswalker", "Sorcery",
               "Tribal", "Battle", "Permanent", "Card", "Spell", "Token"}
CONTROLLER_QUALIFIERS == {"YouCtrl", "OppCtrl", "Self", "Other", "Any", "You", "Opponent"}
ZONE_QUALIFIERS == {"Battlefield", "Graveyard", "Hand", "Library", "Exile", "Stack", "Command"}

\* A leading "!" is kept in the token.
Negations == [t \in {"!token", "!Black", "!Creature", "!Goblin"} |->
                 CASE t = "!token" -> "token" [] t = "!Black" -> "Black"
                   [] t = "!Creature" -> "Creature" [] t = "!Goblin" -> "Goblin"]
Negated(t) == t \in DOMAIN Negations
Bare(t)    == IF Negated(t) THEN Negations[t] ELSE t

classify_attr_token(t) ==
    CASE t = ""                           -> "unknown"
      [] t \in CARD_TYPES                 -> "type"
      [] t \in {"Legendary", "Basic", "Snow", "World"} -> "supertype"
      [] t \in {"White", "Blue", "Black", "Red", "Green", "Colorless", "Multicolor",
                "W", "U", "B", "R", "G", "C"} -> "color"
      [] t \in {"Flying", "Deathtouch", "Lifelink", "Trample", "Haste", "Menace", "Defender"} -> "keyword"
      [] t \in CONTROLLER_QUALIFIERS      -> "controller"
      [] t \in ZONE_QUALIFIERS            -> "zone"
      [] t \in {"cmcLE3", "cmcGE5"}       -> "cmc_cmp"
      [] t \in {"powerGE4", "powerLE2"}   -> "power_cmp"
      [] t \in {"P1P1", "M1M1"}           -> "counter_type"
      [] OTHER                            -> "subtype"

\* Splitting a text only at "." and "+" (or "_") leaves the last token of one
\* alternative and the first of the next joined by their comma.
Fused(f) ==
    LET upto[n \in 0..Len(f)] ==
            IF n = 0 THEN <<>>
            ELSE IF upto[n - 1] = <<>> \/ f[n] = <<>> THEN upto[n - 1] \o f[n]
            ELSE Front(upto[n - 1]) \o <<Last(upto[n - 1]) \o "," \o f[n][1]>> \o Tail(f[n])
    IN  upto[Len(f)]

\* The attribute row of a token, the rows of a filter in order, and as a set.
Attribute(t)      == [kind |-> classify_attr_token(Bare(t)), value |-> Bare(t), negated |-> Negated(t)]
explode_filter(f) ==
    LET tokens == SelectSeq(Fused(f), LAMBDA t : t # "")
    IN  [i \in DOMAIN tokens |-> Attribute(tokens[i])]
Attributes(f)     == {Attribute(t) : t \in ToSet(Fused(f)) \ {""}}

Runtime(attr) ==
    \/ attr.kind \in {"controller", "cmc_cmp"}
    \/ attr.kind = "subtype" /\ attr.value \in {"Other", "attacking", "tapped", "untapped", "kicked", "blocking",
           "enchanted", "equipped", "noToken", "nonToken", "token", "OppCtrl", "YouCtrl"}

\* (required, forbidden) of a filter that has been compiled for matching cards.
Static(f) == {a \in Attributes(f) : ~Runtime(a)}

\* _card_attrs_for_filter; kws holds with<Keyword>.
CardAttrs(card) ==
    {<<"type", t>> : t \in card.types} \cup {<<"supertype", t>> : t \in card.supers} \cup
    {<<"subtype", t>> : t \in card.subs} \cup {<<"subtype", t>> : t \in card.kws}

filter_card_match(f, card) ==
    /\ f # <<>>
    /\ \A a \in Static(f) : a.negated <=> <<a.kind, a.value>> \notin CardAttrs(card)

trigger_only_matches_self(f) == f # <<>> /\ \A i \in DOMAIN f : SelfAlt(f[i])

\* _trigger_filter_constraint: the constraints of all alternatives together.
trigger_filter_constraint(f) == UNION {Static(<<f[i]>>) : i \in {j \in DOMAIN f : ~SelfAlt(f[j])}}

CATCH_ALL_TRIGGERS   == {"SpellCast", "LandPlayed", "Attacks", "AttackerBlocked", "BecomesTarget"}
SELF_EVENT_TRIGGERS  == {"ChangesZone", "ChangesZoneAll", "Sacrificed", "Discarded", "Milled", "Drawn"}
PRODUCING_EFFECTS    == {"Token", "ChangeZone", "ChangeZoneAll", "Animate", "CopyPermanent"}

-----------------------------------------------------------------------------
\* A TokenScript clause is a sequence of scripts, each the sequence of its
\* parts: g_1_1_insect is <<"g", "1", "1", "Insect">>.  Case is not kept.
Digits == {"0", "1", "2", "3"}

\* Colour and type letters and "x" are single letters that are not digits: an X/X
\* token takes the branch of the artifact layout.
Letters == {"a", "x", "g"}

token_subtype(scripts) ==
    LET parts == Fused(scripts)
    IN  IF Len(parts) < 3 THEN ""
        ELSE IF parts[2] \in Letters THEN parts[3]
        ELSE IF Len(parts) >= 5 /\ parts[4] = "a" THEN parts[5]
        ELSE IF Len(parts) >= 4 THEN parts[4]
        ELSE parts[Len(parts)]

HasPT(script) == \E i \in 2..(Len(script) - 2) : {script[i], script[i + 1]} \subseteq Digits \cup {"x"}

classify_token_script(script) ==
    IF \/ \E i \in 2..(Len(script) - 1) : script[i] = "a"
       \/ ToSet(script) \cap {"Treasure", "Food", "Clue", "Blood", "Gold", "Map", "Powerstone"} # {}
    THEN "Artifact" ELSE "Creature"

\* The words after the first power/toughness pair.
token_script_subtypes(script) ==
    IF ~HasPT(script) THEN {}
    ELSE LET at == CHOOSE i \in 2..(Len(script) - 2) :
                       /\ {script[i], script[i + 1]} \subseteq Digits \cup {"x"}
                       /\ \A j \in 2..(i - 1) : ~({script[j], script[j + 1]} \subseteq Digits \cup {"x"})
         IN  ToSet(SubSeq(script, at + 2, Len(script))) \ (Digits \cup {"x"})

\* None stands for an ambiguous effect.
None == {<<"none", "">>}

effect_produced_attrs(p) ==
    LET orNone(S) == IF S = {} THEN None ELSE S
    IN  CASE p.event = "Token" ->
                 LET scripts == ToSet(Clause(p, "TokenScript"))
                 IN  orNone({<<"type", classify_token_script(s)>> : s \in scripts} \cup
                            {<<"subtype", t>> : t \in UNION {token_script_subtypes(s) : s \in scripts}})
          [] p.event \in {"ChangeZone", "ChangeZoneAll"} ->
                 IF p.dest \notin {"", "Battlefield"} THEN {}
                 ELSE orNone({<<a.kind, a.value>> : a \in
                          {b \in UNION {Attributes(<<Clause(p, "ChangeType")[i]>>)
                                        : i \in DOMAIN Clause(p, "ChangeType")} : ~Runtime(b) /\ ~b.negated}})
          [] p.event = "CopyPermanent" -> None
          [] OTHER -> {}

-----------------------------------------------------------------------------
\* The match qualities, trigger first.
zones_compatible(t, e)      == t.dest \in {"", "Any", "*"} \/ e.dest \in {"", t.dest}
zone_dest_battlefield(t, e) == t.dest \in {"Battlefield", ""}
counters_compatible(t, e)   == t.counter = "" \/ e.counter \in {"", t.counter}

Quality(q, t, e) ==
    CASE q = "always"                -> TRUE
      [] q = "zone_compatible"       -> zones_compatible(t, e)
      [] q = "zone_dest_battlefield" -> zone_dest_battlefield(t, e)
      [] q = "counter_compatible"    -> counters_compatible(t, e)
      [] OTHER                       -> FALSE   \* tribe_match, color_match: reserved

\* data/event_match_seed.json: <<trigger, effect, quality>> and <<cost, trigger>>.
EventMatch ==
    {<<"ChangesZone", e, "zone_dest_battlefield">> : e \in {"Token", "CopyPermanent", "Animate"}} \cup
    {<<"ChangesZone", e, "zone_compatible">> : e \in {"ChangeZone", "ChangeZoneAll"}} \cup
    {<<"CounterAdded", e, "counter_compatible">> : e \in {"PutCounter", "PutCounterAll"}} \cup
    {<<"CounterAdded", e, "always">> : e \in {"Proliferate", "MultiplyCounter"}} \cup
    {<<t, "*", "always">> : t \in CATCH_ALL_TRIGGERS} \cup
    {<<"DamageDone", e, "always">> : e \in {"DealDamage", "DamageAll", "AddPhase"}} \cup
    {<<"Taps", e, "always">> : e \in {"Tap", "TapAll", "TapOrUntap"}} \cup
    {<<"Untaps", e, "always">> : e \in {"Untap", "UntapAll", "TapOrUntap"}} \cup
    {<<p[1], p[2], "always">> : p \in
        {<<"LifeGained", "GainLife">>, <<"Sacrificed", "Sacrifice">>, <<"Sacrificed", "SacrificeAll">>,
         <<"Discarded", "Discard">>, <<"Drawn", "Draw">>, <<"TapsForMana", "Mana">>,
         <<"Proliferate", "Proliferate">>, <<"Investigated", "Investigate">>, <<"Surveil", "Surveil">>,
         <<"LifeLost", "LoseLife">>, <<"BecomeMonarch", "BecomeMonarch">>}}

CostFeeds ==
    {<<"sacrifice", "Sacrificed">>, <<"discard", "Discarded">>, <<"mill", "Milled">>, <<"pay_life", "LifeLost">>,
     <<"tap", "Taps">>, <<"tap_type", "Taps">>} \cup
    {<<c, "Exiled">> : c \in {"exile", "exile_from_grave", "exile_from_hand", "exile_from_top"}}

match_event(t, e) ==
    LET rows == {m \in EventMatch : m[1] = t.event}
    IN  /\ t.event # "" /\ e.event # ""
        /\ IF rows = {} THEN t.event = e.event
           ELSE \E m \in rows : m[2] \in {"*", e.event} /\ Quality(m[3], t, e)

-----------------------------------------------------------------------------
\* The player a filter names.  "Player.Opponent" and "+Opp..." are an Opponent
\* token behind another one.
parse_scope_string(f) ==
    LET behind(w) == \E i \in DOMAIN f : \E j \in 2..Len(f[i]) : f[i][j] = w
    IN  IF Mentions(f, "OppCtrl") \/ Mentions(f, "OppOwn") \/ behind("Opponent") \/ f = <<<<"Opponent">>>> THEN "opp"
        ELSE IF Mentions(f, "YouCtrl") \/ Mentions(f, "YouOwn") \/ behind("You") \/ f = <<<<"You">>>> THEN "you"
        ELSE "any"

parse_cand_scope(p) ==
    IF p.filter = <<>> /\ p.event \in {"Sacrifice", "Discard", "Draw", "GainLife"} THEN "you"
    ELSE parse_scope_string(p.filter)

scope_compatible(a, b) == "any" \in {a, b} \/ a = b

SCOPED_TRIGGER_EVENTS == {"Sacrificed", "Discarded", "Drawn", "LifeLost", "LifeGained"}

first_value(attrs) == IF attrs = <<>> THEN "" ELSE attrs[1].value

\* The type or subtype that names a port's pool.
extract_filter_group(f) ==
    LET of(kind) == SelectSeq(explode_filter(f), LAMBDA a : a.kind = kind /\ ~a.negated)
    IN  first_value(of("subtype") \o of("type"))

effect_matches_filter_group(p, fg) ==
    \/ p.event \notin PRODUCING_EFFECTS
    \/ effect_produced_attrs(p) = None
    \/ <<classify_attr_token(fg), fg>> \in effect_produced_attrs(p)

cost_filter_group(p) ==
    IF p.event # "sacrifice" THEN ""
    ELSE IF p.target = "self" THEN "self_sac"
    ELSE IF "mana" \in p.raw THEN "paid_outlet" ELSE "free_outlet"   \* mana: a digit or a colour beside Sac<...> and T
=============================================================================

----------------------------- MODULE FeederRules ----------------------------
(***************************************************************************)
(* complement_rules/utility/axis_feeders.py and resource_feeders.py: the   *)
(* commander scales with, or pays with, one resource (an axis), and the    *)
(* candidates that feed it are reported under the strongest of their tiers.*)
(* The letters bound by SVar:..:Count$ValidHand, the subjects of tapXType  *)
(* and the compared thresholds are clauses of their lines.                 *)
(***************************************************************************)
EXTENDS DensityRules

\* One complement per card, under the first tier it belongs to.
Tiered(rule, axis, tiers) ==
    FirstFound([i \in DOMAIN tiers |-> When(tiers[i][2], {Complement(rule, axis, tiers[i][1], "")})])

CounterGates == [counters_GE1_P1P1 |-> "P1P1", counters_GE1_M1M1 |-> "M1M1"]
GatedCounters(f) == {CounterGates[t] : t \in Tokens(f) \cap DOMAIN CounterGates}
\* The first alternative is about the card itself.
is_self_qualified(f) == "Self" \in ToSet(f[1])

\* A card whose only sacrifice is of itself does not go on distributing counters.
only_self_sac_cost(card) ==
    LET sacs(T) == \E p \in Rows(card) : Is(p, "cost", {"sacrifice"}) /\ p.target \in T
    IN  sacs({"self"}) /\ ~sacs({"any", "other"})

PutsCounters(card, C, Test(_)) ==
    SomeRow(card, "effect", {"PutCounter", "PutCounterAll"}, LAMBDA p : p.counter \in C /\ Test(p.filter))
OnCreatures(f)     == f = <<>> \/ Mentions(f, "Creature")
OnSelf(f)          == Mentions(f, "Self")
OnOtherCreatures(f) == Mentions(f, "Creature") /\ ~Mentions(f, "Self")
EtbCounter(card, C) == HasPort(Rows(card), "keyword", {"etbCounter:" \o c : c \in C})

find_counter_axis_feeders(cmdr, card) ==
    LET axes == UNION {GatedCounters(p.filter) : p \in
                    {q \in Rows(cmdr) : /\ q.type \in {"trigger", "scales_with", "static"}
                                        /\ GatedCounters(q.filter) # {} /\ ~is_self_qualified(q.filter)}}
        payoff(p) == \/ p.type = "scales_with" /\ GatedCounters(p.filter) \cap axes # {}
                     \/ Is(p, "static", {"Continuous"}) /\ GatedCounters(Clause(p, "Affected")) \cap axes # {}
    IN  When(axes # {},
             Tiered("counter_axis_feeder", "counter_axis",
                    <<<<"counter_axis_payoff", \E p \in Rows(card) : payoff(p)>>,
                      <<"counter_producer", PutsCounters(card, axes, OnCreatures) /\ ~only_self_sac_cost(card)>>,
                      <<"etb_counter_keyword", EtbCounter(card, axes)>>,
                      <<"self_recur_keyword", "P1P1" \in axes /\ HasPort(Rows(card), "keyword", {"Persist", "Undying", "Modular"})>>>>))

MODIFIED_NON_AXIS_KEYS == {"TargetsValid", "TriggerDescription", "Description", "SpellDescription",
                           "StackDescription", "PrecostDesc"}
\* The filter decides alone when it names the qualifier; otherwise one clause of the
\* line has to, about more than the card itself and outside a description.
modified_axis(p) ==
    LET named == {c \in DOMAIN p.clause : "modified" \in Tokens(p.clause[c])}
    IN  /\ p.type \in {"trigger", "scales_with", "static", "effect", "cost", "replacement"}
        /\ IF "modified" \in Tokens(p.filter) THEN ~is_self_qualified(p.filter)
           ELSE IF named = {} THEN "modified" \in p.raw
           ELSE \E c \in named \ MODIFIED_NON_AXIS_KEYS : ~is_self_qualified(p.clause[c])

find_modified_axis_feeders(cmdr, card) ==
    When(\E p \in Rows(cmdr) : modified_axis(p),
         Tiered("modified_axis_feeder", "modified_axis",
                <<<<"modified_p1p1_doubler", \E p \in Rows(card) : /\ Is(p, "replacement", {"AddCounter"})
                        /\ {"ValidCounterType", "P1P1", "AddOneMoreCounters"} \subseteq p.raw>>,
                  <<"modified_p1p1_producer", PutsCounters(card, {"P1P1"}, OnCreatures) /\ ~only_self_sac_cost(card)>>,
                  <<"modified_self_grower", PutsCounters(card, {"P1P1"}, OnSelf) /\ IsCreature(card)>>,
                  <<"modified_proliferate", HasPort(Rows(card), "effect", {"Proliferate"})>>,
                  <<"modified_etb_keyword", EtbCounter(card, {"P1P1"}) \/ HasPort(Rows(card), "keyword", {"Modular"})>>>>))

\* An amount of at least three, or a variable one.
Big(f) == f # <<>> /\ f[1][1] \in {"3", "X", "Y", "Z"}

find_cardpower_axis_feeders(cmdr, card) ==
    When(HasPort(Rows(cmdr), "scales_with", {"CardPower"}),
         Tiered("cardpower_axis_feeder", "cardpower_axis",
                <<<<"cardpower_big_attachment", /\ card.subs \cap {"Equipment", "Aura"} # {}
                        /\ \E p \in Rows(card) : p.type = "static" /\ Big(Clause(p, "AddPower"))>>,
                  <<"cardpower_p1p1_producer", PutsCounters(card, {"P1P1"}, OnOtherCreatures) /\ ~only_self_sac_cost(card)>>>>))

\* What a commander taps: permanents, artifacts or Food, and else creatures.
tap_type_axis(P) ==
    LET class(head) == CASE head = "Permanent" -> "permanent"
                         [] head \in {"Artifact", "Food"} -> "artifact"
                         [] OTHER -> "creature"
        heads == UNION {Bases(Clause(p, "tapXType")) : p \in {q \in P : Is(q, "cost", {"tap_type"})}}
    IN  {class(h) : h \in heads \ {""}}

find_tap_type_feeders(cmdr, card) ==
    LET axis  == tap_type_axis(Rows(cmdr))
        names == {"Permanent"} \cup When(axis \cap {"creature", "permanent"} # {}, {"Creature"})
                               \cup When(axis \cap {"artifact", "permanent"} # {}, {"Artifact"})
        others(p) == "'ValidCard': 'Card.Self'" \notin p.raw /\ p.raw \cap names # {}
    IN  When(axis # {},
             Tiered("tap_type_feeder", "tap_type_cost",
                    <<<<"tap_type_sustained_untap", SomeRow(card, "static", {"UntapOtherPlayer"}, others)>>,
                      <<"tap_type_phase_untap", /\ HasPort(Rows(card), "trigger", {"Phase"})
                            /\ SomeRow(card, "effect", {"UntapAll"}, LAMBDA p : MentionsAny(p.filter, names))>>>>))

SMALL_HAND_COMPARES == {"LE0", "LE1", "EQ0", "GE2", "GE3"}
\* The hand is counted, and nowhere compared with a small number.
is_big_hand_commander(P) ==
    LET hand == UNION {Bases(Clause(p, "ValidHand")) : p \in P}
    IN  /\ hand # {}
        /\ ~\E p \in P : /\ Bases(Clause(p, "CheckSVar")) \cap hand # {}
                         /\ Bases(Clause(p, "SVarCompare")) \cap SMALL_HAND_COMPARES # {}

find_hand_size_feeders(cmdr, card) ==
    When(is_big_hand_commander(Rows(cmdr)),
         Tiered("hand_size_feeder", "hand_size_axis",
                <<<<"hand_size_no_max", SomeRow(card, "static", {"Continuous"}, LAMBDA p : "'SetMaxHandSize': 'Unlimited'" \in p.raw)>>>>))

\* The discarded types are a Python set: a card that returns several of them has any
\* of their names.
find_cost_payoff_complements(cmdr, card) ==
    LET types == {p.subtype : p \in {q \in Rows(cmdr) : Is(q, "cost", {"discard"})}} \ {"", "Card", "Hand", "CARDNAME", "NICKNAME"}
        found(t, e, cond) == When(cond, {Complement("cost_payoff", "discard_" \o t, e, "")})
        returns(t) == SomeRow(card, "effect", {"ChangeZone"}, LAMBDA p : p.origin = "Graveyard" /\ Mentions(p.filter, t))
    IN  When(types # {},
             FirstFound(<<UNION {found(t, "graveyard_return", returns(t)) : t \in types},
                          found("Land", "Retrace", HasPort(Rows(card), "keyword", {"Retrace"})),
                          found("Land", "Dredge", HasPort(Rows(card), "keyword", {"Dredge"}))>>))

-----------------------------------------------------------------------------
find_gy_fuel_feeders(cmdr, card) ==
    When(\E p \in Rows(cmdr) : Is(p, "cost", {"exile_from_grave"}) /\ p.target = "any",
         Tiered("gy_fuel_feeder", "gy_fuel_cost",
                <<<<"gy_fuel_self_mill", SomeRow(card, "effect", {"Mill"}, LAMBDA p :
                        /\ Clause(p, "Defined") = <<<<"You">>>> /\ p.raw \cap {"Opponent", "EachPlayer"} = {}
                        /\ Big(Clause(p, "NumCards")))>>>>))

find_lifegain_feeders(cmdr, card) ==
    LET amplifies(p) == /\ Clause(p, "ValidPlayer") = <<<<"You">>>> /\ "'Prevent': 'True'" \notin p.raw
                        /\ p.raw \cap {"GainDouble", "'ReplaceWith': 'GainLife'", "ReplaceGain"} # {}
        enters == SomeRow(card, "trigger", {"ChangesZone"}, LAMBDA p : Mentions(p.filter, "Creature") /\ p.dest = "Battlefield")
    IN  When(HasPort(Rows(cmdr), "scales_with", {"LifeYouGainedThisTurn"}),
             Tiered("lifegain_feeder", "lifegain_axis",
                    <<<<"lifegain_amp", SomeRow(card, "replacement", {"GainLife"}, amplifies)>>,
                      <<"lifegain_etb_trigger", enters /\ HasPort(Rows(card), "effect", {"GainLife"})>>>>))

\* A life total scales both ways; one of these says that more is better.
UpBiased(p) ==
    \/ Is(p, "replacement", {"GainLife"}) /\ Clause(p, "ValidPlayer") = <<<<"You">>>> /\ "'Prevent': 'True'" \notin p.raw
    \/ Is(p, "static", {"Continuous"}) /\ Bases(Clause(p, "SVarCompare")) \cap {"GTY", "GEZ", "GE2", "GE3"} # {}

find_life_total_feeders(cmdr, card) ==
    LET axis(P) == HasPort(P, "scales_with", {"YourLifeTotal"})
        gains == \E p \in Rows(card) : \/ Is(p, "keyword", {"Lifelink"}) \/ Is(p, "replacement", {"GainLife"})
                                       \/ Is(p, "effect", {"GainLife"}) /\ p.filter = <<<<"You">>>>
    IN  When(axis(Rows(cmdr)) /\ \E p \in Rows(cmdr) : UpBiased(p),
             Tiered("life_total_feeder", "life_total_axis", <<<<"life_total_peer", axis(Rows(card)) /\ gains>>>>))

\* A land is returned as a cost, and hand size or X is not what the commander is about.
find_land_bounce_feeders(cmdr, card) ==
    When(/\ \E p \in Rows(cmdr) : Is(p, "cost", {"return"}) /\ p.target = "any" /\ p.subtype = "Land"
         /\ ~HasPort(Rows(cmdr), "scales_with", {"xPaid", "ValidHand Card.YouOwn"}),
         Tiered("land_bounce_feeder", "land_bounce_cost",
                <<<<"land_bounce_extra_drops", SomeRow(card, "static", {"Continuous"}, LAMBDA p : "AdjustLandPlays" \in p.raw)>>,
                  <<"land_bounce_gy_recur", SomeRow(card, "effect", {"ChangeZone"}, LAMBDA p :
                        p.origin = "Graveyard" /\ Mentions(p.filter, "Land") /\ "Opponent" \notin p.raw)>>>>))

CREATURE_DIED_AXIS ==
    {"ThisTurnEntered_Graveyard_from_Battlefield_Creature", "ThisTurnEntered_Graveyard_from_Battlefield_Creature.YouCtrl"}
find_creature_died_feeders(cmdr, card) ==
    LET axis(P) == HasPort(P, "scales_with", CREATURE_DIED_AXIS)
    IN  When(axis(Rows(cmdr)), Tiered("creature_died_feeder", "creature_died_axis", <<<<"creature_died_peer", axis(Rows(card))>>>>))
=============================================================================

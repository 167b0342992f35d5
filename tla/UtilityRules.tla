---------------------------- MODULE UtilityRules ----------------------------
(***************************************************************************)
(* complement_rules/utility: doublers.py, untap.py, landfall.py,           *)
(* flicker.py, political.py and counters.py.                               *)
(***************************************************************************)
EXTENDS FeederRules

Pool(rule, cmdr_event, cand_event, cond) == When(cond, {Complement(rule, cmdr_event, cand_event, "")})

DAMAGE_AMP_RESULTS  == {"DmgTwice", "DmgTriple", "DmgPlus", "DmgPlus1", "DmgPlus2", "Dmg2", "Dmg3", "HarshDmg"}
PING_TRIGGER_EVENTS == {"SpellCast", "Phase", "LandPlayed", "TapsForMana", "Drawn", "Discarded", "Sacrificed", "ChangesZone"}
Amplifies(p) ==
    /\ Is(p, "replacement", {"DamageDone"}) /\ p.result \in DAMAGE_AMP_RESULTS
    /\ p.raw \cap {"'Prevent': 'True'", "'PreventionEffect': 'True'"} = {}
\* Without a target all damage is amplified.
replacement_targets_opponent(p) ==
    HasClause(p, "ValidTarget") => MentionsAny(Clause(p, "ValidTarget"), {"Opponent", "OppCtrl"})

find_damage_doubler_synergy(cmdr, card) ==
    LET pings == /\ SomeRow(card, "effect", {"DealDamage"}, LAMBDA p : MentionsAny(p.filter, {"Opponent", "Player", "Each"}))
                 /\ HasPort(Rows(card), "trigger", PING_TRIGGER_EVENTS)
    IN  When(\E p \in Rows(cmdr) : Amplifies(p) /\ replacement_targets_opponent(p),
             Tiered("damage_doubler_synergy", "damage_amp",
                    <<<<"damage_amp_stack", \E p \in Rows(card) : Amplifies(p)>>, <<"damage_pinger", pings>>>>))

find_mana_doubler_synergy(cmdr, card) ==
    Pool("mana_doubler", "TapsForMana", "ProduceMana_doubler",
         /\ HasPort(Rows(cmdr), "trigger", {"TapsForMana"})
         /\ \E p \in Rows(card) : p.type = "replacement" /\ p.repl = "ProduceMana")

CASCADE_VALUE_EFFECTS == {"Draw", "Destroy", "DestroyAll", "Token", "ChangeZone", "ChangeZoneAll", "DealDamage",
                          "GainControl", "Mill", "Mana"}
find_cascade_value(cmdr, card) ==
    When(/\ HasPort(Rows(cmdr), "keyword", {"Cascade"})
         /\ card.cmc >= 5 /\ HasPort(Rows(card), "effect", CASCADE_VALUE_EFFECTS),
         {Complement("cascade_value", "Cascade", "high_cmc_value", IF card.cmc >= 7 THEN "cascade_high" ELSE "cascade_mid")})

-----------------------------------------------------------------------------
find_multicolor_untap(cmdr, card) ==
    Pool("multicolor_untap", "untap_effect", "eachcolor_dork",
         /\ HasPort(Rows(cmdr), "effect", {"TapOrUntap", "Untap", "UntapAll"})
         /\ SomeRow(card, "effect", {"Mana"}, LAMBDA p : "EachColorAmong" \in p.raw))

UntapsCreatures(card) == SomeRow(card, "effect", {"Untap"}, LAMBDA p : OnCreatures(p.filter))

\* The mana dorks leave out the untappers; the utility creatures leave out nothing.
find_untap_synergy(cmdr, card) ==
    LET taps   == HasPort(Rows(card), "cost", {"tap"})
        untaps == HasPort(Rows(cmdr), "effect", {"TapOrUntap", "Untap"})
        engine == Pool("untap_synergy", "tap_ability", "Untap", HasPort(Rows(cmdr), "cost", {"tap"}) /\ UntapsCreatures(card))
    IN  FirstFound(<<engine, Pool("untap_synergy", "untap_effect", "tap_mana",
                                  untaps /\ taps /\ HasPort(Rows(card), "effect", {"Mana"}))>>)
        \cup Pool("untap_synergy", "untap_effect", "tap_utility",
                  untaps /\ taps /\ HasPort(Rows(card), "effect", {"Draw", "Token", "Mill", "Destroy"}))

find_untap_combo(cmdr, card) ==
    Pool("untap_combo", "tap_engine", "broad_untap",
         /\ \/ HasPort(Rows(cmdr), "cost", {"tap", "tap_type"}) /\ HasPort(Rows(cmdr), "effect", {"Mana"})
            \/ HasPort(Rows(cmdr), "trigger", {"TapsForMana"})
         /\ untap_combo(card))

find_creature_untap_engine(cmdr, card) ==
    Pool("creature_untap_engine", "tap_for_mana", "creature_untap",
         /\ HasPort(Rows(cmdr), "cost", {"tap"}) /\ HasPort(Rows(cmdr), "effect", {"Mana"})
         /\ UntapsCreatures(card))

-----------------------------------------------------------------------------
Landfall(p) == Is(p, "trigger", {"ChangesZone"}) /\ Mentions(p.filter, "Land") /\ p.dest = "Battlefield"
ExtraLands(p) == p.type = "static" /\ "AdjustLandPlays" \in p.raw

find_extra_land_plays(cmdr, card) ==
    Pool("effect_feeds_trigger", "extra_land_plays", "ChangesZone_Land",
         (\E p \in Rows(cmdr) : ExtraLands(p)) /\ \E p \in Rows(card) : Landfall(p))

port_cares_about_lands(p) ==
    \/ Landfall(p)
    \/ /\ Is(p, "effect", {"ChangeZone", "ChangeZoneAll"}) /\ Mentions(p.filter, "Land")
       /\ p.origin = "Graveyard" /\ p.dest = "Battlefield"

has_creatures_are_lands_static(P) ==
    \E p \in P : /\ Is(p, "static", {"Continuous"})
                 /\ Mentions(Clause(p, "Affected"), "Creature") /\ Mentions(Clause(p, "AddType"), "Land")

find_creatures_as_lands_landfall(cmdr, card) ==
    Pool("creatures_as_lands_landfall", "creatures_are_lands", "landfall_payoff",
         /\ has_creatures_are_lands_static(Rows(cmdr))
         /\ \E p \in Rows(card) : /\ Landfall(p) \/ Is(p, "trigger", {"LandPlayed"})
                                  /\ ~MentionsAny(p.filter, {"OppCtrl", "OppOwn", "Opponent"}))

\* The replayed cards are lands behind a qualifier (Land.YouOwn).
find_landfall_enablers(cmdr, card) ==
    LET replays(p) == /\ Is(p, "static", {"Continuous"}) /\ {"'MayPlay'", "'Graveyard'"} \subseteq p.raw
                      /\ \E i \in DOMAIN Clause(p, "Affected") :
                             Len(Clause(p, "Affected")[i]) > 1 /\ Base(Clause(p, "Affected")[i]) = "Land"
        found(e, cond) == Pool("landfall_enabler", "landfall_trigger", e, cond)
    IN  When(\E p \in Rows(cmdr) : port_cares_about_lands(p),
             FirstFound(<<found("extra_land_plays", \E p \in Rows(card) : ExtraLands(p) /\ p.event = "Continuous"),
                          found("land_from_graveyard", \E p \in Rows(card) : replays(p))>>))

-----------------------------------------------------------------------------
Exiles(p)  == Is(p, "effect", {"ChangeZone"}) /\ p.origin = "Battlefield" /\ p.dest = "Exile"
Returns(p) == Is(p, "effect", {"ChangeZone"}) /\ p.origin \in {"Exile", "All"} /\ p.dest = "Battlefield"

\* The commander's own entry is worth repeating; a zone change only when it exiles
\* until the commander leaves.
find_flicker_synergy(cmdr, card) ==
    LET P == Rows(cmdr)
        C == Rows(card)
        worth(p) == \/ Is(p, "effect", {"Dig", "GenericChoice", "GainControl", "Detain"})
                    \/ Exiles(p) /\ "ReturnAbility" \in p.raw
    IN  Pool("flicker_synergy", "self_etb", "flicker",
             /\ \E p \in P : Is(p, "trigger", {"ChangesZone"}) /\ trigger_only_matches_self(p.filter) /\ p.dest = "Battlefield"
             /\ \E p \in P : worth(p)
             /\ \E p \in C : Exiles(p)
             /\ \E p \in C : Returns(p) \/ p.event = "DelayedTrigger")

find_flicker_payoffs(cmdr, card) ==
    Pool("flicker_payoff", "flicker_effect", "etb_creature",
         /\ \E p \in Rows(cmdr) : Exiles(p)
         /\ \E p \in Rows(cmdr) : Returns(p)
         /\ IsCreature(card)
         /\ SomeRow(card, "trigger", {"ChangesZone"}, LAMBDA p : p.dest = "Battlefield" /\ \E i \in DOMAIN p.filter : SelfAlt(p.filter[i]))
         /\ HasPort(Rows(card), "effect", {"Draw", "Destroy", "GainControl", "Dig", "ChangeZone", "Mana", "Token", "Untap", "Mill"}))

-----------------------------------------------------------------------------
OPPONENT_TRIGGER_TO_EFFECT ==
    [Discarded |-> <<"Discard">>, Sacrificed |-> <<"Sacrifice", "SacrificeAll">>, Drawn |-> <<"Draw">>]
\* "Opp", "Each" or "Player" in a filter.
OpponentFacing(f) == MentionsAny(f, {"OppCtrl", "OppOwn", "Opponent", "Each", "Player"})
OPPONENT_FILTERS ==
    {<<<<"Player", "Opponent">>>>} \cup
    {<<<<t>>>> : t \in {"Opponent", "Player", "Targeted", "TargetedPlayer", "TriggeredPlayer",
                        "TriggeredDefendingPlayer", "TriggeredTarget", "TargetedController"}}
DRAW_FILTERS == {<<<<"Player", "Opponent">>>>} \cup {<<<<t>>>> : t \in {"Opponent", "Player", "Targeted", "TargetedPlayer"}}

\* The effects a trigger wants are tried in their order.
forced_effect(card, p) ==
    LET forces(e) == SomeRow(card, "effect", {e}, LAMBDA r :
            IF e = "Draw" THEN r.filter \in DRAW_FILTERS \/ Mentions(r.filter, "Each") ELSE r.filter \in OPPONENT_FILTERS)
    IN  FirstOf(OPPONENT_TRIGGER_TO_EFFECT[p.event], LAMBDA e : Pool("opponent_forcing", p.event, "force_" \o e, forces(e)))

find_opponent_forcing(cmdr, card) ==
    FirstOf(cmdr.ports, LAMBDA p :
        When(Is(p, "trigger", DOMAIN OPPONENT_TRIGGER_TO_EFFECT) /\ OpponentFacing(p.filter), forced_effect(card, p)))

\* A payoff that accumulates with every draw, and a wheel: a draw beside the discard
\* of a whole hand.
find_wheel_synergy(cmdr, card) ==
    LET accumulates == HasPort(Rows(cmdr), "effect", {"Token", "PutCounter"})
        draws(p) == /\ Is(p, "trigger", {"Drawn"})
                    /\ OpponentFacing(p.filter) \/ (accumulates /\ (p.filter = <<>> \/ MentionsAny(p.filter, {"YouCtrl", "YouOwn"})))
    IN  Pool("wheel_synergy", "Drawn", "wheel",
             /\ \E p \in Rows(cmdr) : draws(p)
             /\ HasPort(Rows(card), "effect", {"Draw"})
             /\ SomeRow(card, "effect", {"Discard"}, LAMBDA p : Clause(p, "Mode") = <<<<"Hand">>>>))

find_counter_target_payoff(cmdr, card) ==
    Pool("counter_target_payoff", "PutCounter_P1P1", "counter_receiver",
         /\ HasPort(Rows(cmdr), "scales_with", {"YourCountersExperience"}) /\ PutsCounters(cmdr, {"P1P1"}, OnOtherCreatures)
         /\ \E p \in Rows(card) : \/ Is(p, "trigger", {"CounterAdded"}) /\ p.counter \in {"", "P1P1"}
                                  \/ Is(p, "scales_with", {"CardCounters.P1P1"}))
=============================================================================

------------------------------ MODULE RuleGates -----------------------------
(***************************************************************************)
(* complement_rules/registry.py: for each rule, which single port of a     *)
(* commander would activate it.  The auditors attribute coverage by these  *)
(* gates, written again beside the helpers they mirror.                    *)
(***************************************************************************)
EXTENDS StaticRules, SupplyRules, UtilityRules, PairRules

\* The first alternative does not name the card itself.
Others(f) == f = <<>> \/ "Self" \notin {Bare(t) : t \in ToSet(f[1])}
MainOf(f) == IF f = <<>> THEN "" ELSE Base(f[1])

formal_gate(id, p) ==
    LET events == CASE id = "trigger_effect" -> {m[1] : m \in EventMatch}
                    [] id = "cost_feeds_trigger" -> {c[2] : c \in CostFeeds}
                    [] id = "trigger_resonance" -> RESONANT_TRIGGERS
                    [] id = "effect_resonance" -> RESONANT_EFFECTS \cup {"ChangeZone", "ChangeZoneAll"}
                    [] id = "replacement_resonance" -> {"PutCounter", "PutCounterAll", "Proliferate", "Token", "Draw", "GainLife", "Mana"}
                    [] id = "replacement_producer" -> {"AddCounter", "CreateToken", "Draw", "DrawCards", "GainLife", "ProduceMana", "Mill"}
                    [] id = "replacement_blocks" -> {"DamageDone", "Milled", "Drawn", "LifeGained", "LifeLost", "Discarded"}
                    [] id = "sacrifice_cluster" -> {"Sacrificed", "LifeLost"}
                    [] id = "effect_feeds_trigger" -> {m[2] : m \in {n \in EventMatch : n[1] \notin CATCH_ALL_TRIGGERS}}
                           \ {"ChangeZone", "ChangeZoneAll", "Token", "CopyPermanent", "Animate", "DealDamage", "DamageAll", "Draw"}
    IN  \E rule \in COMPLEMENT_RULES : rule.id = id /\ Is(p, rule.cmdr, events)

modified_axis_gate(p) ==
    /\ p.type \in {"trigger", "scales_with", "static", "effect", "cost", "replacement"}
    /\ \/ "modified" \in Tokens(p.filter) /\ Others(p.filter)
       \/ "modified" \in p.raw \/ \E c \in DOMAIN p.clause : "modified" \in Tokens(p.clause[c])

\* Mutant: damage without a target is no longer that of everybody.
DoublerWithTarget(p) == Amplifies(p) /\ MentionsAny(Clause(p, "ValidTarget"), {"Opponent", "OppCtrl"})

damage_doubler_gate(p) ==
    Amplifies(p) /\ (HasClause(p, "ValidTarget") => MentionsAny(Clause(p, "ValidTarget"), {"Opponent", "OppCtrl"}))

counter_axis_gate(p) ==
    /\ p.type \in {"trigger", "scales_with", "static"}
    /\ MentionsAny(p.filter, {"counters_GE1_P1P1", "counters_GE1_M1M1"}) /\ Others(p.filter)

opponent_forcing_gate(p) ==
    Is(p, "trigger", {"Discarded", "Sacrificed", "Drawn"}) /\ MentionsAny(p.filter, {"OppCtrl", "OppOwn", "Opponent", "EachPlayer"})

aristocrats_death_bridge_gate(p) ==
    \/ Is(p, "cost", {"sacrifice"}) /\ p.subtype = "Creature" /\ p.target # "self"
    \/ Is(p, "trigger", {"ChangesZone"}) /\ ZoneHas(p.origin, "Battlefield") /\ ZoneHas(p.dest, "Graveyard")

etb_self_gate(p) ==
    Is(p, "trigger", {"ChangesZone"}) /\ p.dest = "Battlefield" /\ (p.filter = <<>> \/ Mentions(p.filter, "Self"))

combat_enhancer_gate(p) ==
    \/ Is(p, "trigger", {"DamageDone"}) /\ p.combat
    \/ Is(p, "trigger", {"Attacks"}) /\ Mentions(p.filter, "Self")

graveyard_play_gate(p) ==
    \/ Is(p, "effect", {"ChangeZone", "ChangeZoneAll", "Play", "PlayLand"}) /\ p.origin = "Graveyard"
    \/ Is(p, "static", {"Continuous"}) /\ "'AddKeyword'" \in p.raw /\ p.raw \cap GRAVEYARD_REPLAY_KEYWORDS # {}

artifact_recursion_gate(p) ==
    /\ FromGraveyard(p) \/ Is(p, "effect", {"CopyPermanent"})
    /\ Mentions(p.filter, "Artifact") \/ "Artifact" \in p.raw

copy_synergy_gate(p) ==
    Is(p, "effect", {"CopyPermanent"}) /\ (Mentions(p.filter, "Creature") \/ p.raw \cap {"'Populate'", "Creature"} # {})

dies_drain_gate(p) ==
    \/ /\ Is(p, "trigger", {"ChangesZone"}) /\ p.origin = "Battlefield" /\ p.dest = "Graveyard"
       /\ \/ MainOf(p.filter) \in {"Creature", "Permanent"}
          \/ MainOf(p.filter) = "Card" /\ Mentions(p.filter, "P1P1")
    \/ /\ Is(p, "static", {"Panharmonicon"})
       /\ {"'Origin':'Battlefield'", "'Destination':'Graveyard'", "'ValidCause':'Creature'"} \subseteq p.raw

subject_zone_feeder_gate(p) ==
    /\ Is(p, "trigger", {"ChangesZone"}) /\ p.dest = "Graveyard"
    /\ MainOf(p.filter) \in {"Land", "Artifact", "Enchantment", "Planeswalker"}

cost_reducer_gate(p) ==
    /\ Is(p, "trigger", {"SpellCast"})
    /\ MentionsAny(p.filter, {"Instant", "Sorcery", "Creature", "Artifact", "Enchantment", "Aura", "Equipment", "nonCreature"})

edict_feeder_gate(p) ==
    /\ p.type = "trigger" /\ edict_benefits_from_trigger(p.filter)
    /\ p.event = "Sacrificed" \/ (p.event = "ChangesZone" /\ p.dest = "Graveyard" /\ Others(p.filter))

landfall_enabler_gate(p) ==
    \/ Is(p, "trigger", {"LandPlayed"})
    \/ Is(p, "trigger", {"ChangesZone"}) /\ Mentions(p.filter, "Land")
    \/ FromGraveyard(p) /\ p.dest = "Battlefield" /\ (Mentions(p.filter, "Land") \/ "Land" \in p.raw)

token_producer_gate(p) ==
    /\ Is(p, "trigger", {"ChangesZone"}) /\ p.dest = "Battlefield"
    /\ ~Mentions(p.filter, "!token") /\ Others(p.filter) /\ MainOf(p.filter) = "Creature"
    /\ ~MentionsAny(<<p.filter[1]>>, TOKEN_PRODUCER_REJECTING_FRAGMENTS)

scaling_gate(p) ==
    /\ p.type = "scales_with"
    /\ \E t \in {"Aura", "Equipment", "Enchantment", "Artifact", "Land", "Instant", "Sorcery", "Planeswalker"} :
           t \in p.raw \/ Mentions(p.filter, t)

\* The first branch that matches decides.
counter_interest_gate(p) ==
    IF Is(p, "trigger", {"CounterAdded", "CounterAddedOnce", "CounterAddedAll"}) THEN p.counter \in {"", "P1P1"}
    ELSE CASE p.type = "scales_with" -> p.event = "CardCounters.P1P1" \/ Mentions(p.filter, "P1P1")
           [] p.type = "trigger"     -> Mentions(p.filter, "P1P1")
           [] OTHER -> /\ Is(p, "effect", {"PutCounter", "PutCounterAll"})
                       /\ p.counter = "P1P1" /\ Mentions(p.filter, "Other")

proliferate_synergy_gate(p) ==
    \/ Is(p, "scales_with", {"YourCountersExperience"}) \/ Is(p, "effect", {"MultiplyCounter"})
    \/ p.event = "Proliferate" \/ counter_interest_gate(p)

zone_resonance_gate(p) ==
    /\ Is(p, "trigger", {"ChangesZone"}) /\ p.filter # <<>> /\ Others(p.filter)
    /\ MainOf(p.filter) \in {"Creature", "Artifact", "Enchantment", "Planeswalker", "Land", "Instant", "Sorcery"}

land_to_gy_gate(p) ==
    /\ Is(p, "trigger", {"ChangesZoneAll", "ChangesZone"}) /\ p.dest = "Graveyard"
    /\ filter_has_land_base_type(p.filter)

-----------------------------------------------------------------------------
\* Gates that are one shape of port: <<rule, type, events>>.
EventGates ==
    {<<"cardpower_axis_feeder", "scales_with", {"CardPower"}>>, <<"tap_type_feeder", "cost", {"tap_type"}>>,
     <<"lifegain_feeder", "scales_with", {"LifeYouGainedThisTurn"}>>, <<"life_total_feeder", "scales_with", {"YourLifeTotal"}>>,
     <<"creature_died_feeder", "scales_with", {"ThisTurnEntered_Graveyard_from_Battlefield_Creature",
                                                 "ThisTurnEntered_Graveyard_from_Battlefield_Creature.YouCtrl"}>>,
     <<"hand_size_feeder", "scales_with", {"ValidHand Card.YouOwn"}>>, <<"wheel_synergy", "trigger", {"Drawn"}>>,
     <<"mana_doubler", "trigger", {"TapsForMana"}>>, <<"attack_payoffs", "trigger", {"Attacks", "AttackersDeclared"}>>,
     <<"panharmonicon", "static", {"Panharmonicon"}>>,
     <<"voltron", "keyword", {"Hexproof", "Exalted", "Shroud", "Trample"}>>, <<"token_etb_damage", "effect", {"Token"}>>,
     <<"gy_loader", "effect", {"Mill", "Discard", "DigUntil", "ChangeZone"}>>,
     <<"cost_reduction_target", "static", {"ReduceCost"}>>, <<"spell_density", "trigger", {"SpellCast"}>>,
     <<"spellcast_resonance", "trigger", {"SpellCast"}>>,
     <<"multicolor_untap", "effect", {"TapOrUntap", "Untap", "UntapAll"}>>,
     <<"untap_synergy", "cost", {"tap"}>>, <<"untap_synergy", "effect", {"TapOrUntap", "Untap"}>>,
     <<"cascade_value", "keyword", {"Cascade"}>>, <<"exalted_density", "keyword", {"Exalted"}>>,
     <<"counter_target_payoff", "scales_with", {"YourCountersExperience"}>>}

\* Gates of default-off rules read the rule's flag when they are called.
FlagGates == {"x_cost_scaler", "aristocrats_death_bridge", "attack_reward_evasion", "death_outlet_feeder", "team_anthem_payoff"}

ATTACK_REWARD_TRIGGER_EVENTS == {"Attacks", "AttackersDeclared", "AttackersDeclaredOneTarget"}

WrittenGates == {"prepared_mechanic", "damage_doubler_synergy", "modified_axis_feeder", "counter_axis_feeder",
    "gy_fuel_feeder", "land_bounce_feeder", "opponent_forcing", "cost_payoff", "etb_self", "combat_enhancer", "evasion",
    "graveyard_play", "artifact_recursion", "copy_synergy", "populate_stack", "dies_drain", "subject_zone_feeder",
    "cost_reducer", "edict_feeder", "landfall_enabler", "token_producer", "scaling", "counter_doubler", "counter_keyword",
    "proliferate_synergy", "zone_resonance", "aura_equipment_support", "land_to_gy_synergy"} \cup FlagGates

FormalGates == {rule.id : rule \in COMPLEMENT_RULES}

registered_rule_ids == {g[1] : g \in EventGates} \cup WrittenGates \cup FormalGates

written_gate(rule, p) ==
    CASE rule = "prepared_mechanic"        -> Is(p, "static", {"AlternateMode"}) /\ p.kw = "Prepare"
      [] rule = "damage_doubler_synergy"   -> damage_doubler_gate(p)
      [] rule = "modified_axis_feeder"     -> modified_axis_gate(p)
      [] rule = "counter_axis_feeder"      -> counter_axis_gate(p)
      [] rule = "gy_fuel_feeder"           -> Is(p, "cost", {"exile_from_grave"}) /\ p.target = "any"
      [] rule = "land_bounce_feeder"       -> Is(p, "cost", {"return"}) /\ p.target = "any" /\ p.subtype = "Land"
      [] rule = "opponent_forcing"         -> opponent_forcing_gate(p)
      [] rule = "cost_payoff"              -> Is(p, "cost", {"discard"}) /\ p.subtype \notin {"", "Card", "Hand", "CARDNAME", "NICKNAME"}
      [] rule = "etb_self"                 -> etb_self_gate(p)
      [] rule = "combat_enhancer"          -> combat_enhancer_gate(p)
      [] rule = "evasion"                  -> Is(p, "trigger", {"DamageDone"}) /\ p.combat
      [] rule = "graveyard_play"           -> graveyard_play_gate(p)
      [] rule = "artifact_recursion"       -> artifact_recursion_gate(p)
      [] rule \in {"copy_synergy", "populate_stack"} -> copy_synergy_gate(p)
      [] rule = "dies_drain"               -> dies_drain_gate(p)
      [] rule = "subject_zone_feeder"      -> subject_zone_feeder_gate(p)
      [] rule = "cost_reducer"             -> cost_reducer_gate(p)
      [] rule = "edict_feeder"             -> edict_feeder_gate(p)
      [] rule = "landfall_enabler"         -> landfall_enabler_gate(p)
      [] rule = "token_producer"           -> token_producer_gate(p)
      [] rule = "scaling"                  -> scaling_gate(p)
      [] rule \in {"counter_doubler", "counter_keyword"} -> counter_interest_gate(p)
      [] rule = "proliferate_synergy"      -> proliferate_synergy_gate(p)
      [] rule = "zone_resonance"           -> zone_resonance_gate(p)
      [] rule = "aura_equipment_support"   -> p.type = "scales_with" /\ Mentions(p.filter, "Equipment")
      [] rule = "land_to_gy_synergy"       -> land_to_gy_gate(p)
      [] rule = "x_cost_scaler"            -> Is(p, "scales_with", {"xPaid"})
      [] rule = "aristocrats_death_bridge" -> aristocrats_death_bridge_gate(p)
      [] rule = "attack_reward_evasion"    -> Is(p, "trigger", ATTACK_REWARD_TRIGGER_EVENTS)
      [] rule = "death_outlet_feeder"      -> has_changeszone_death_payoff({p})
      [] rule = "team_anthem_payoff"       -> commander_has_team_anthem_static({p})
      [] OTHER                             -> FALSE

\* The rules a commander with this port would activate.
attributable_rules_for_port(p, flags) ==
    {rule \in registered_rule_ids :
        \/ \E g \in EventGates : g[1] = rule /\ Is(p, g[2], g[3])
        \/ rule \in FormalGates /\ formal_gate(rule, p)
        \/ rule \notin FlagGates \ flags /\ written_gate(rule, p)}

\* Rules that read the card or several ports together; no gate is expected.
CARD_LEVEL_RULES ==
    {"tribal_density", "tribal_body", "lord", "value_engine", "affinity_archetype", "static_strategy",
     "creature_untap_engine", "flicker_synergy", "flicker_payoff", "untap_combo", "cheat_cmc", "scales_with_density",
     "creatures_as_lands_landfall", "self_bridging_cascade", "subtype_supply_producer", "subtype_supply_body"}
=============================================================================

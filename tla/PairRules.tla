------------------------------ MODULE PairRules -----------------------------
(***************************************************************************)
(* The port-pair rules of complement_rules/core.py: COMPLEMENT_RULES and   *)
(* the loop of find_all_complements that applies them to the ports of a    *)
(* commander and of one candidate, in the order of their rows.             *)
(***************************************************************************)
EXTENDS Filters

\* A pair rule is a relation of a commander port and a candidate port, and the
\* candidate's event is the key it is looked up under.
not_amplifier(p) ==
    p.result \notin {"DmgTwice", "DmgTriple", "DmgPlus1", "DmgPlus2", "DmgPlus", "Dmg2", "Dmg3", "CreateToken", "DBReplace"}

same_scope_triggers(a, b) == scope_compatible(parse_scope_string(a.filter), parse_scope_string(b.filter))

\* _scoped_event_match_map; "*" matches every event.
trigger_effect(t, e) ==
    \E m \in EventMatch :
        /\ m[1] = t.event /\ m[2] \in {"*", e.event} /\ Quality(m[3], t, e)
        /\ t.event \in SCOPED_TRIGGER_EVENTS =>
               scope_compatible(parse_scope_string(t.filter), parse_cand_scope(e))

\* _invert_cost_feeds
cost_feeds_trigger(t, c) ==
    /\ <<c.event, t.event>> \in CostFeeds
    /\ t.event \in SCOPED_TRIGGER_EVENTS => parse_scope_string(t.filter) # "opp"

RESONANT_TRIGGERS == {"Sacrificed", "CounterAdded", "DamageDone", "LifeGained", "Discarded", "Drawn", "Taps",
                      "Untaps", "TapsForMana", "LifeLost", "Proliferate", "Investigated", "Surveil"}

\* _build_trigger_resonance_pairs
trigger_resonance(a, b) ==
    /\ a.event = b.event /\ a.event \in RESONANT_TRIGGERS
    /\ a.event \in SCOPED_TRIGGER_EVENTS => same_scope_triggers(a, b)

PERMANENT_TYPES == {"Artifact", "Creature", "Enchantment", "Land", "Planeswalker", "Battle"}
ALL_CARD_TYPES  == PERMANENT_TYPES \cup {"Instant", "Sorcery", "Tribal"}

type_family(t) == IF t = "Permanent" THEN PERMANENT_TYPES ELSE {t} \cap ALL_CARD_TYPES

\* The card types a ChangeZone effect moves; {} when the filter names no family.
changezone_type_set(f) ==
    LET moving == {f[i] : i \in {j \in DOMAIN f : ~SelfAlt(f[j]) /\
                       Base(f[j]) \notin {"", "TriggeredCard", "Targeted", "Remembered", "RememberedCard",
                                         "DelayTriggerRemembered", "DelayTriggerRememberedLKI"}}}
        named(alt) == IF Base(alt) = "Card" THEN ToSet(Tail(alt)) ELSE {Base(alt)}
        orAny(alt, S) == IF S = {} /\ Base(alt) = "Card" THEN ALL_CARD_TYPES ELSE S
    IN  UNION {orAny(alt, UNION {type_family(t) : t \in named(alt)}) : alt \in moving}

\* zone_equivalence_classes of the seed.
zone_class(origin, dest) ==
    IF origin \in {"Graveyard", "Exile"} /\ dest = "Battlefield" THEN "recur_to_battlefield"
    ELSE IF origin \in {"Graveyard", "Exile"} /\ dest = "Hand" THEN "retrieve_to_hand"
    ELSE ""

changezone_resonance_check(a, b) ==
    /\ \/ <<a.origin, a.dest>> = <<b.origin, b.dest>>
       \/ zone_class(a.origin, a.dest) \notin {""} /\ zone_class(a.origin, a.dest) = zone_class(b.origin, b.dest)
    /\ changezone_type_set(a.filter) \cap changezone_type_set(b.filter) # {}

RESONANT_EFFECTS == {"Proliferate", "Mill", "DigUntil", "Scry", "Surveil", "Untap", "TapOrUntap", "Investigate", "BecomeMonarch"}
resonant_family(ev) ==
    CASE ev = "DigUntil"   -> {"DigUntil", "Mill"}
      [] ev = "Untap"      -> {"Untap", "UntapAll", "TapOrUntap"}
      [] ev = "TapOrUntap" -> {"Untap", "UntapAll", "TapOrUntap", "Tap", "TapAll"}
      [] OTHER             -> {ev}

\* _build_resonance_pairs
effect_resonance(a, b) ==
    \/ a.event \in RESONANT_EFFECTS /\ b.event \in resonant_family(a.event)
    \/ {a.event, b.event} \subseteq {"ChangeZone", "ChangeZoneAll"} /\ changezone_resonance_check(a, b)

replacement_resonance(e, r) ==
    \/ e.event \in {"PutCounter", "PutCounterAll", "Proliferate"} /\ r.event = "AddCounter"
    \/ <<e.event, r.event>> \in {<<"Token", "CreateToken">>, <<"Draw", "Draw">>, <<"GainLife", "GainLife">>, <<"Mana", "ProduceMana">>}

replacement_producer(r, e) ==
    \/ r.event = "AddCounter" /\ e.event \in {"PutCounter", "PutCounterAll", "Proliferate", "MultiplyCounter"}
    \/ <<r.event, e.event>> \in {<<"CreateToken", "Token">>, <<"Draw", "Draw">>, <<"DrawCards", "Draw">>,
                                 <<"GainLife", "GainLife">>, <<"ProduceMana", "Mana">>, <<"Mill", "Mill">>}

\* REPLACEMENT_BLOCKS_TRIGGER inverted, without Moved.
replacement_blocks(t, r) ==
    /\ <<r.event, t.event>> \in {<<"DamageDone", "DamageDone">>, <<"Mill", "Milled">>, <<"Draw", "Drawn">>,
                                 <<"GainLife", "LifeGained">>, <<"LoseLife", "LifeLost">>, <<"Discard", "Discarded">>}
    /\ not_amplifier(r)

\* _build_sacrifice_cluster_pairs: the pairs with Sacrifice and SacrificeAll name
\* effects, and the rule looks at candidate triggers only, so they never match.
sacrifice_cluster(a, b) == {a.event, b.event} \subseteq {"Sacrificed", "LifeLost"} /\ same_scope_triggers(a, b)

\* _invert_event_match_map
effect_feeds_trigger(e, t) ==
    /\ t.event \notin CATCH_ALL_TRIGGERS
    /\ e.event \notin {"ChangeZone", "ChangeZoneAll", "Token", "CopyPermanent", "Animate", "DealDamage", "DamageAll", "Draw"}
    /\ \E m \in EventMatch : m[1] = t.event /\ m[2] = e.event /\ Quality(m[3], t, e)
    /\ ~trigger_only_matches_self(t.filter)

COMPLEMENT_RULES ==
    {[id |-> "trigger_effect", cmdr |-> "trigger", cand |-> "effect"],
      [id |-> "cost_feeds_trigger", cmdr |-> "trigger", cand |-> "cost"],
      [id |-> "trigger_resonance", cmdr |-> "trigger", cand |-> "trigger"],
      [id |-> "effect_resonance", cmdr |-> "effect", cand |-> "effect"],
      [id |-> "replacement_resonance", cmdr |-> "effect", cand |-> "replacement"],
      [id |-> "replacement_producer", cmdr |-> "replacement", cand |-> "effect"],
      [id |-> "replacement_blocks", cmdr |-> "trigger", cand |-> "replacement"],
      [id |-> "sacrifice_cluster", cmdr |-> "trigger", cand |-> "trigger"],
      [id |-> "effect_feeds_trigger", cmdr |-> "effect", cand |-> "trigger"]}

Check(id, a, b) ==
    CASE id = "trigger_effect"        -> trigger_effect(a, b)
      [] id = "cost_feeds_trigger"    -> cost_feeds_trigger(a, b)
      [] id = "trigger_resonance"     -> trigger_resonance(a, b)
      [] id = "effect_resonance"      -> effect_resonance(a, b)
      [] id = "replacement_resonance" -> replacement_resonance(a, b)
      [] id = "replacement_producer"  -> replacement_producer(a, b)
      [] id = "replacement_blocks"    -> replacement_blocks(a, b)
      [] id = "sacrifice_cluster"     -> sacrifice_cluster(a, b)
      [] id = "effect_feeds_trigger"  -> effect_feeds_trigger(a, b)

-----------------------------------------------------------------------------
STAX_MAP == {<<"ChangesZone", {"DisableTriggers"}>>, <<"Sacrificed", {"CantSacrifice"}>>,
             <<"SpellCast", {"RaiseCost", "CantBeCast"}>>, <<"LifeGained", {"CantGainLife"}>>,
             <<"Drawn", {"CantDraw"}>>, <<"CounterAdded", {"CantPutCounter"}>>}

\* _build_stax_exclusion
stax_excluded(cmdr, card) ==
    \E s \in STAX_MAP : HasPort(ToSet(cmdr.ports), "trigger", {s[1]}) /\ HasPort(ToSet(card.ports), "static", s[2])

\* _filter_cmdr_port
filter_cmdr_port(p) ==
    p.type = "trigger" => p.event \notin CATCH_ALL_TRIGGERS /\ ~trigger_only_matches_self(p.filter)

\* The rows that enter cand_index.
indexed(p) == p.type # "effect" \/ p.filter \notin {<<<<"Self">>>>, <<<<"Imprinted">>>>, <<<<"Remembered">>>>}

joined_group(fg, cfp) == IF "" \in {fg, cfp} THEN fg \o cfp ELSE fg \o "_" \o cfp

enriched_group(rule, cp, p) ==
    joined_group(extract_filter_group(cp.filter), IF rule.id = "cost_feeds_trigger" THEN cost_filter_group(p) ELSE "")
        \o (IF rule.id = "trigger_effect" /\ cp.cond THEN ":cond" ELSE "")

\* One candidate row against one commander row.
matched(rule, cp, p) ==
    /\ cp.type = rule.cmdr /\ filter_cmdr_port(cp) /\ p.type = rule.cand /\ indexed(p)
    /\ ~(cp.combat /\ p.event \in {"DealDamage", "DamageAll"})
    /\ Check(rule.id, cp, p)
    /\ rule.cand = "effect" =>
           \A fg \in {extract_filter_group(cp.filter)} \ {"", "Card", "Permanent", "Spell", "You", "OppOwn", "YouOwn"} :
               effect_matches_filter_group(p, fg)

key(c) == <<c.rule, c.cmdr, c.cand>>

PairComplement(rule, cp, p) ==
    [rule |-> rule.id, cmdr |-> cp.event, cand |-> p.event, group |-> enriched_group(rule, cp, p), branch |-> p.branch]

\* The places of the rows a rule matches, in the order in which the loops reach them.
Matches(rule, cmdr, card) ==
    {at \in (DOMAIN cmdr.ports) \X (DOMAIN card.ports) : matched(rule, cmdr.ports[at[1]], card.ports[at[2]])}

\* A key is seen once: the first two rows that have it make the complement.
Seen(rule, cmdr, card, at) ==
    \E b \in Matches(rule, cmdr, card) :
        /\ b[1] < at[1] \/ (b[1] = at[1] /\ b[2] < at[2])
        /\ cmdr.ports[b[1]].event = cmdr.ports[at[1]].event /\ card.ports[b[2]].event = card.ports[at[2]].event

\* find_all_complements, without the card-attribute helpers.
find_pair_complements(cmdr, card) ==
    UNION {{PairComplement(rule, cmdr.ports[at[1]], card.ports[at[2]])
            : at \in {m \in Matches(rule, cmdr, card) : ~Seen(rule, cmdr, card, m)}}
           : rule \in When(~stax_excluded(cmdr, card), COMPLEMENT_RULES)}
=============================================================================

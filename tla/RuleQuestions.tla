---------------------------- MODULE RuleQuestions ---------------------------
(***************************************************************************)
(* The complement rules as a whole, and the questions put to them: which   *)
(* rules credit a candidate for a commander whose ports arrive one by one, *)
(* and which cards of a growing list are neighbours.  A question is a      *)
(* state of BenchVerdicts' variable q.                                     *)
(***************************************************************************)
EXTENDS BenchVerdicts, RuleGates, CausalGraph

CONSTANTS
    Families,      \* commander ports and candidates that have to do with each other
    MaxPorts,      \* bound: ports of a commander
    Contexts,      \* rule flags, and those that were on when the cache was built
    Vocab,         \* token subtypes of the database
    GraphCards, MaxGraphCards

\* A filter is a sequence of alternatives, each a sequence of tokens; a candidate has
\* the columns of its table, and its rows come in some order.
ASSUME RuleAssumption ==
    \A family \in Families :
        /\ \A p \in family.ports : p.filter \in Seq(Seq(STRING))
        /\ \A card \in family.cards : /\ DOMAIN Card("", {}, {}, <<>>) \subseteq DOMAIN card
                                       /\ card.ports \in Seq(Rows(card))

-----------------------------------------------------------------------------
\* The helpers of _card_attr_complements, in three groups of their order.
pool_complements(cmdr, card, vocab) ==
    UNION {find_lord_complements(cmdr, card), find_etb_self_complements(cmdr, card), find_scaling_complements(cmdr, card),
           find_spellcast_density_complements(cmdr, card), find_changeszone_resonance(cmdr, card),
           find_effect_feeds_etb(cmdr, card), find_sacrifice_outlets(cmdr, card), find_subject_zone_feeders(cmdr, card),
           find_panharmonicon_complements(cmdr, card), find_graveyard_fillers(cmdr, card), find_extra_land_plays(cmdr, card),
           find_landfall_enablers(cmdr, card), find_creatures_as_lands_landfall(cmdr, card),
           find_scales_with_density(cmdr, card), find_flicker_synergy(cmdr, card), find_cost_payoff_complements(cmdr, card),
           find_opponent_forcing(cmdr, card), find_token_producers_for_trigger(cmdr, card),
           find_subtype_supply_complements(cmdr, card, vocab), find_static_strategy(cmdr, card),
           find_combat_enhancers(cmdr, card), find_attack_payoffs(cmdr, card), find_wheel_synergy(cmdr, card),
           find_artifact_recursion(cmdr, card), find_copy_synergy(cmdr, card), find_token_etb_damage(cmdr, card),
           find_dies_drain(cmdr, card), find_gy_loader(cmdr, card), find_reverse_panharmonicon(cmdr, card),
           find_panharmonicon_stacking(cmdr, card), find_evasion_complements(cmdr, card)}

engine_complements(cmdr, card) ==
    UNION {find_spellcast_resonance(cmdr, card), find_untap_synergy(cmdr, card), find_untap_combo(cmdr, card),
           find_multicolor_untap(cmdr, card), find_cost_reduction_synergy(cmdr, card), find_graveyard_play_synergy(cmdr, card),
           find_affinity_archetype(cmdr, card), find_edict_feeders(cmdr, card), find_value_engine_density(cmdr, card),
           find_cheat_cmc_bonus(cmdr, card), find_counter_doubler_synergy(cmdr, card), find_counter_keyword_synergy(cmdr, card),
           find_proliferate_synergy(cmdr, card), find_mana_doubler_synergy(cmdr, card), find_graveyard_sac_value(cmdr, card),
           find_cost_reduction_targets(cmdr, card), find_land_to_gy_synergy(cmdr, card), find_cascade_value(cmdr, card),
           find_flicker_payoffs(cmdr, card), find_counter_target_payoff(cmdr, card), find_creature_untap_engine(cmdr, card),
           find_counter_axis_feeders(cmdr, card), find_modified_axis_feeders(cmdr, card), find_cardpower_axis_feeders(cmdr, card),
           find_tap_type_feeders(cmdr, card), find_hand_size_feeders(cmdr, card), find_gy_fuel_feeders(cmdr, card),
           find_lifegain_feeders(cmdr, card), find_life_total_feeders(cmdr, card), find_land_bounce_feeders(cmdr, card),
           find_creature_died_feeders(cmdr, card), find_damage_doubler_synergy(cmdr, card),
           find_prepared_mechanic_complements(cmdr, card)}

\* Helpers of default-off rules read their flags, and pathway.py its own.
flagged_complements(cmdr, card, ctx) ==
    UNION {find_tribal_density_complements(cmdr, card, ctx), find_team_anthem_payoffs(cmdr, card, ctx),
           find_death_outlet_complements(cmdr, card, ctx), find_attack_reward_evasion(cmdr, card, ctx),
           find_x_cost_scaler(cmdr, card, ctx), find_aristocrats_death_bridge(cmdr, card, ctx),
           When("pathway" \in ctx.flags, find_self_bridging_cascade(cmdr, card))}

card_attr_complements(cmdr, card, ctx, vocab) ==
    pool_complements(cmdr, card, vocab) \cup engine_complements(cmdr, card) \cup flagged_complements(cmdr, card, ctx)

\* Without the interpreter's rules.
find_all_complements(cmdr, card, ctx, vocab) ==
    card_attr_complements(cmdr, card, ctx, vocab) \cup
    {[rule |-> c.rule, cmdr |-> c.cmdr, cand |-> c.cand, group |-> c.group] : c \in find_pair_complements(cmdr, card)}

-----------------------------------------------------------------------------
Commander(family) == Card("commander", {"Creature"}, family.subs, <<>>)

RuleInit ==
    \/ \E family \in Families, ctx \in Contexts :
           \E card \in family.cards :
               q = [kind |-> "rules", pool |-> family.ports, cmdr |-> Commander(family), card |-> card, ctx |-> ctx]
    \/ q = [kind |-> "graph", cards |-> <<>>]

\* One more row of card_ports that carries the commander's name.
AddPort ==
    /\ q.kind = "rules" /\ Len(q.cmdr.ports) < MaxPorts
    /\ \E p \in q.pool \ ToSet(q.cmdr.ports) : q' = [q EXCEPT !.cmdr.ports = Append(@, p)]

\* One more card in the index of build_causal_graph.
AddCard ==
    /\ q.kind = "graph" /\ Len(q.cards) < MaxGraphCards
    /\ \E card \in GraphCards : q' = [q EXCEPT !.cards = Append(@, card)]

RuleNext == AddPort \/ AddCard

RuleSpec == RuleInit /\ [][RuleNext]_vars

-----------------------------------------------------------------------------
Complements(cmdr, card) == find_all_complements(cmdr, card, q.ctx, Vocab)

\* Complements that a second helper emits under the id of a rule whose gate mirrors
\* the first, each known by the label of its commander side.
SecondHelpers ==
    {<<"cost_feeds_trigger", "ChangesZone_death">>, <<"trigger_effect", "graveyard_filler">>,
     <<"spell_density", "graveyard_cast">>, <<"token_producer", "creature_pump">>,
     <<"graveyard_play", "replays_from_gy">>, <<"graveyard_play", "landfall">>,
     <<"panharmonicon", "reverse_panharmonicon">>, <<"effect_feeds_trigger", "extra_land_plays">>}
    \cup {<<"effect_feeds_trigger", "Token_" \o t>> : t \in ENTERING_TYPES}
    \cup {<<"scaling", "scales_" \o s>> : s \in {"P1P1", "toughness", "creature_count", "domain", "opp_life_lost"}}

\* Gates that ask for another port than their helper does.
OtherShape == {"etb_self", "attack_payoffs"}
\* Gates that read the first alternative of a filter where the helper reads them all.
FirstAlternativeGates == {"zone_resonance", "token_producer", "dies_drain", "subject_zone_feeder", "edict_feeder"}

Mirrored(cmdr, c) ==
    /\ c.rule \notin CARD_LEVEL_RULES \cup OtherShape
    /\ <<c.rule, c.cmdr>> \notin SecondHelpers
    /\ c.rule \in FirstAlternativeGates => \A p \in Rows(cmdr) : Len(p.filter) <= 1
    /\ c.rule = "spell_density" => ~\E p \in Rows(cmdr) : "'Conspire'" \in p.raw

GatesMirrorHelpers(cmdr, found) ==
    \A c \in found :
        Mirrored(cmdr, c) => \E p \in Rows(cmdr) : c.rule \in attributable_rules_for_port(p, q.ctx.flags)

\* graph_engine's report about a card, found again among the rules: the feeders, the
\* lords, the preventions and, the other way round, the cards a doubling commander
\* wants.  The rules leave out cards that disable the commander and effects on the card
\* itself, and match no event without a row in the event map, not with itself either;
\* and graph_engine does not select zone and counter type.
EngineMirrorsRules(cmdr, card, found) ==
    LET credited(rule, ev, cand) == stax_excluded(cmdr, card) \/ <<rule, ev, cand>> \in {key(c) : c \in found}
        alike(p) == p = Selected(p) /\ indexed(p)
    IN  /\ \A feeder \in find_trigger_feeders(cmdr, card) :
              CASE feeder.kind = "effect" -> \/ credited("trigger_effect", feeder.trigger, feeder.event)
                                             \/ \E p \in Rows(card) : ~alike(p)
                                             \/ feeder.trigger \notin {m[1] : m \in EventMatch}
                [] feeder.kind = "cost"   -> credited("cost_feeds_trigger", feeder.trigger, feeder.event)
        /\ find_lord_matches(cmdr, card) # {} => \E c \in found : c.rule = "lord"
        /\ \A conflict \in find_replacement_conflicts(cmdr, card) : conflict.kind = "prevent" =>
              \A ev \in conflict.blocked : credited("replacement_blocks", ev, conflict.event)
        /\ {c.cmdr : c \in {d \in found : d.rule = "panharmonicon"}}
                \cap {"Panharmonicon_" \o ev : ev \in AMPLIFIABLE_TRIGGER_EVENTS} # {}
              => find_amplifier_matches(cmdr, card) # {}

\* Conditions written twice say the same.  The registry repeats by hand, for one port,
\* the condition a helper puts on the commander: a rule that credits a candidate is
\* never one that the auditors can attribute to no port of the commander, the
\* exceptions above aside.  And graph_engine, whose matchers the rules grew out of,
\* reports no match that they miss.
MirrorsAgree ==
    q.kind = "rules" =>
        \A found \in {Complements(q.cmdr, q.card)} :
            GatesMirrorHelpers(q.cmdr, found) /\ EngineMirrorsRules(q.cmdr, q.card, found)

\* Rules that read one row and not another: the first trigger that decides, the
\* last destination of a doubler, the first sacrifice cost of the candidate, the
\* first affinity of the commander.
RowsInOrder == {"combat_enhancer", "panharmonicon", "cost_feeds_trigger", "affinity_archetype"}

\* Ports are selected without ORDER BY.  Which rules credit a candidate does not
\* depend on the order in which the rows of either card arrive, for all other rules.
RowOrderIrrelevant ==
    LET reversed(card) == [card EXCEPT !.ports = Reverse(@)]
    IN  q.kind = "rules" =>
            Cardinality({{c.rule : c \in Complements(o[1], o[2])} \ RowsInOrder
                         : o \in {<<q.cmdr, q.card>>, <<reversed(q.cmdr), reversed(q.card)>>}}) = 1

HintsLoseNothing(cmdr, card) ==
    {p.event : p \in {t \in EtbTriggers(cmdr) : \E alt \in EtbAlternatives(t) : filter_card_match(<<alt>>, card)}}
        = {c.cmdr : c \in find_etb_self_complements(cmdr, card)}

\* Two scans are narrowed for speed and must find what the whole scan finds.  The
\* type hints of _find_etb_self_complements lose no card that some trigger of the
\* commander would match.  The causal graph, joined from three indexes by event
\* class, has exactly the edges of graph_engine's pairwise matcher, and a card that
\* find_trigger_feeders reports is a neighbour unless its zone or counter type, which
\* that query does not select, rules the match out.
NarrowedScansAreWhole ==
    /\ q.kind = "rules" => HintsLoseNothing(q.cmdr, q.card)
    /\ q.kind = "graph" => IndexIsPairwise(q.cards) /\ FeedersAreNeighbours(q.cards)

\* The cache and the live metrics agree on a commander or a pair.  Every power
\* iteration keeps the ranks shares of one, also with cards that have no neighbour
\* and with the synthetic commander, whose edges go both ways; all the neighbours of a
\* direct neighbour are within two hops; and the table of neighbours, capped, answers
\* what the live graph has, unless the cap drops a card that at least as many kept
\* ones outrank or equal.
GraphMetricsAgree ==
    q.kind = "graph" /\ q.cards # <<>> =>
        LET adj == build_causal_graph(q.cards)
            pr  == global_pagerank(adj, 2)
        IN  /\ RankSum(pr) = Unit(adj) * Step(adj) * Step(adj)
            /\ \A a, b \in DOMAIN adj :
                  LET cmdrs == {a, b}
                      all   == merged_adjacency(adj, cmdrs)
                      live  == compute_commander_metrics(adj, cmdrs, 2)
                  IN  /\ EdgesGoBothWays(all) /\ NeighboursWithinTwoHops(all[0], live)
                      /\ RankSum(personalised_pagerank(all, 0, 2)) = Unit(all) * Step(all) * Step(all)
                      /\ \A n \in DOMAIN live : live[n].hub = graph_cache(adj, pr)[n].hub
                      /\ \A cap \in DOMAIN adj : TableKeepsCentral(adj, pr, cap, cmdrs)

=============================================================================

----------------------------- MODULE SupplyRules ----------------------------
(***************************************************************************)
(* death_payoff.py and the rules about it: aristocrats.py, death_outlet.py *)
(* and subtype_supply.py; prepared.py; and pathway.py: a candidate two of  *)
(* whose ports answer the commander's ports and feed each other            *)
(* (self_bridging_cascade), found by its event classes first and walked    *)
(* afterwards.                                                             *)
(***************************************************************************)
EXTENDS DensityRules, PairRules

SACRIFICE_EVENTS   == {"Sacrificed", "SacrificedOnce"}
CHANGESZONE_EVENTS == {"ChangesZone", "ChangesZoneAll"}

reaches_graveyard_from_battlefield(p) ==
    ZoneHas(p.dest, "Graveyard") /\ (p.origin \in {"", "Any"} \/ ZoneHas(p.origin, "Battlefield"))
is_death_event(p) ==
    p.event \in SACRIFICE_EVENTS \/ (p.event \in CHANGESZONE_EVENTS /\ reaches_graveyard_from_battlefield(p))

has_sacrificed_trigger(P) == HasPort(P, "trigger", SACRIFICE_EVENTS)
has_changeszone_death_payoff(P) ==
    \E p \in P : Is(p, "trigger", CHANGESZONE_EVENTS) /\ is_death_event(p) /\ ~trigger_only_matches_self(p.filter)

\* port_attributes of kind token_subtype, for one card.
token_subtypes(card) ==
    UNION {{a[2] : a \in {b \in effect_produced_attrs(p) : b[1] = "subtype"}} :
           p \in {q \in Rows(card) : Is(q, "effect", {"Token"})}}

\* The tokens of the filters of death triggers that some card of the database makes.
payoff_subtypes_from_ports(P, vocab) ==
    vocab \cap UNION {Tokens(p.filter) : p \in {q \in P : q.type = "trigger" /\ is_death_event(q)}}

\* The first of a set of names in the order of the alphabet.
Least(order, S) == order[CHOOSE i \in DOMAIN order : order[i] \in S /\ \A j \in 1..(i - 1) : order[j] \notin S]
SubtypeOrder == <<"Food", "Goblin", "Insect", "Saproling", "Treasure", "Wizard", "Zombie">>

\* A producer and a body are separate complements.  vocab is the whole database's.
find_subtype_supply_complements(cmdr, card, vocab) ==
    LET subs == payoff_subtypes_from_ports(Rows(cmdr), vocab)
        supply(rule, S) == When(S # {}, {Complement(rule, "death_payoff", Least(SubtypeOrder, S), "")})
    IN  supply("subtype_supply_producer", subs \cap token_subtypes(card))
        \cup supply("subtype_supply_body", subs \cap card.subs)

commander_has_death_outlet_gate(P) == has_changeszone_death_payoff(P) /\ ~has_sacrificed_trigger(P)

\* A card with several outlets is classed by the least of their groups.
find_death_outlet_complements(cmdr, card, ctx) ==
    LET groups == {cost_filter_group(p) : p \in {q \in Rows(card) : Is(q, "cost", {"sacrifice"})}}
    IN  When("death_outlet_feeder" \in ctx.flags /\ commander_has_death_outlet_gate(Rows(cmdr)) /\ groups # {},
             {Complement("death_outlet_feeder", "death_outlet",
                         Least(<<"free_outlet", "paid_outlet", "self_sac">>, groups), "")})

commander_is_aristocrats(P) ==
    \E p \in P :
        \/ Is(p, "cost", {"sacrifice"}) /\ p.subtype = "Creature" /\ p.target # "self"
        \/ Is(p, "trigger", {"ChangesZone"}) /\ ZoneHas(p.origin, "Battlefield") /\ ZoneHas(p.dest, "Graveyard")

find_aristocrats_death_bridge(cmdr, card, ctx) ==
    LET tier(e, cond) ==
            When(FlaggedPool(ctx, "aristocrats_death_bridge", cond), {Complement("aristocrats_death_bridge", "death_engine", e, "")})
    IN  When("aristocrats_death_bridge" \in ctx.flags /\ commander_is_aristocrats(Rows(cmdr)),
             FirstFound(<<tier("death_payoff", death_payoff(card)), tier("recursive_fodder", recursive_fodder(card))>>))

-----------------------------------------------------------------------------
\* A card with a prepared back face; its commander may also only prepare others.
has_alternate_mode_prepare(P) == \E p \in P : Is(p, "static", {"AlternateMode"}) /\ p.kw = "Prepare"
commander_prepares_creatures(P) == \E p \in P : p.event = "AlterAttribute" /\ "Prepared" \in p.raw

find_prepared_mechanic_complements(cmdr, card) ==
    When(/\ has_alternate_mode_prepare(Rows(cmdr)) \/ commander_prepares_creatures(Rows(cmdr))
         /\ has_alternate_mode_prepare(Rows(card)),
         {Complement("prepared_mechanic", "Prepared_ecosystem", "AlternateMode_Prepare", "")})

-----------------------------------------------------------------------------
\* Only named entries of the event map; "*" would join the two rows of one ability.
canonical_trigger_effect(t, e) ==
    \E m \in EventMatch : m[1] = t.event /\ m[2] = e.event /\ Quality(m[3], t, e)
event_match_edge(p, q) == canonical_trigger_effect(p, q) \/ canonical_trigger_effect(q, p)
cost_feeds_edge(p, q)  == {<<p.event, q.event>>, <<q.event, p.event>>} \cap CostFeeds # {}

\* A runtime head names no type; a lone Card.Self falls through to its head.
type_token_set(f) ==
    FirstFound(<<changezone_type_set(f),
                 {b \in Bases(f) : IsWord(b)} \ {"TriggeredCard", "Targeted", "Remembered", "RememberedCard"}>>)
valid_filter_edge(p, q) == type_token_set(p.filter) \cap type_token_set(q.filter) # {}

walk_edge(p, q)         == event_match_edge(p, q) \/ cost_feeds_edge(p, q)
port_pair_matches(p, q) == walk_edge(p, q) \/ valid_filter_edge(p, q)

\* The commander port a candidate port is matched with: the first in row order.
Answered(cmdr, p) == SelectSeq(cmdr.ports, LAMBDA c : port_pair_matches(c, p))

\* The first of a set of pairs of indices, in the order of combinations().
earliest(E) == {ij \in E : \A kl \in E : ij[1] < kl[1] \/ (ij[1] = kl[1] /\ ij[2] <= kl[2])}

\* The first edge between rows at the given places; {} when there is none.
walk_self_paths(ports, at) ==
    {<<ports[ij[1]], ports[ij[2]]>> : ij \in
        earliest({ij \in at \X at : ij[1] < ij[2] /\ walk_edge(ports[ij[1]], ports[ij[2]])})}

\* The commander's events and their neighbours in the two maps.
relevant_events(P) ==
    LET events == {p.event : p \in P} \ {""}
    IN  events \cup ({m[2] : m \in {n \in EventMatch : n[1] \in events}} \ {"*"})
               \cup {m[1] : m \in {n \in EventMatch : n[2] \in events}}
               \cup {c[2] : c \in {d \in CostFeeds : d[1] \in events}}
               \cup {c[1] : c \in {d \in CostFeeds : d[2] \in events}}

\* Stage 1: at least two shapes of the candidate have a relevant event.
prefilter(cmdr, card) ==
    LET relevant == relevant_events(Rows(cmdr))
    IN  /\ Len(cmdr.ports) >= 2 /\ Cardinality(relevant) >= 2
        /\ ~stax_excluded(cmdr, card)
        /\ Cardinality({<<p.type, p.event>> : p \in {q \in Rows(card) : q.event \in relevant}}) >= 2

\* Stage 3: the ports that answer the commander, and the first path among them.
Bridge(cmdr, card) ==
    walk_self_paths(card.ports, {i \in DOMAIN card.ports : \E c \in Rows(cmdr) : port_pair_matches(c, card.ports[i])})

first_event(answers) == IF answers[1].event = "" THEN "unknown" ELSE answers[1].event

\* sorted([a, b]) joined: one name for the two orders.
Unordered(a, b) == CHOOSE s \in {a \o "+" \o b, b \o "+" \o a} : TRUE

find_self_bridging_cascade(cmdr, card) ==
    {Complement("self_bridging_cascade",
                Unordered(first_event(Answered(cmdr, path[1])), first_event(Answered(cmdr, path[2]))), "self_bridging", "depth_2")
        : path \in When(prefilter(cmdr, card), Bridge(cmdr, card))}
=============================================================================

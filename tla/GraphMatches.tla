----------------------------- MODULE GraphMatches ---------------------------
(***************************************************************************)
(* The matchers of graph_engine.py between the ports of a commander and    *)
(* one candidate: feeders of its triggers, lords of its tribe, amplifiers  *)
(* of its triggers and replacements that block them.                       *)
(***************************************************************************)
EXTENDS Filters

\* The rows are selected without zone_destination and counter_type, so that a
\* match quality that reads them finds nothing to object to.
Selected(p) == [p EXCEPT !.dest = "", !.counter = ""]

\* Mutant: triggers on the card itself are kept.
UsableOnItself(p) ==
    /\ p.type = "trigger" /\ p.event \notin CATCH_ALL_TRIGGERS
    /\ ~MentionsAny(p.filter, {"OppCtrl", "OppOwn"})

usable_trigger(p) ==
    /\ p.type = "trigger" /\ p.event \notin CATCH_ALL_TRIGGERS
    /\ ~trigger_only_matches_self(p.filter) /\ ~MentionsAny(p.filter, {"OppCtrl", "OppOwn"})

\* What an ambiguous effect produces meets no constraint.
meets_constraint(t, e) ==
    LET constraint == trigger_filter_constraint(t.filter)
        produced   == effect_produced_attrs(e)
    IN  constraint # {} =>
            /\ produced \notin {None, {}}
            /\ \A a \in constraint : a.negated <=> <<a.kind, a.value>> \notin produced

find_trigger_feeders(cmdr, card) ==
    LET triggers == {p \in ToSet(cmdr.ports) : usable_trigger(p)}
        effects  == {p \in ToSet(card.ports) : p.type = "effect"}
        costs    == {p \in ToSet(card.ports) : p.type = "cost"}
    IN  {[kind |-> "effect", trigger |-> te[1].event, event |-> te[2].event, branch |-> te[2].branch] :
             te \in {x \in triggers \X effects : match_event(x[1], Selected(x[2])) /\ meets_constraint(x[1], Selected(x[2]))}}
        \cup
        {[kind |-> "cost", trigger |-> tc[1].event, event |-> tc[2].event, branch |-> tc[2].branch] :
             tc \in {x \in triggers \X costs : <<x[2].event, x[1].event>> \in CostFeeds}}

-----------------------------------------------------------------------------
\* _BRANCH_PRIORITY
branch_priority(b) ==
    CASE b = "root" -> 100 [] b \in {"execute", "subability"} -> 90 [] b = "repeat" -> 85
      [] b = "change_zone_table" -> 80 [] b \in {"static_condition", "replacement_condition"} -> 60
      [] b \in {"true", "false", "win", "otherwise"} -> 50 [] OTHER -> 0

\* The subtypes of the commander that its own ports mention.
mentioned_subtypes(cmdr) ==
    {s \in cmdr.subs : \E p \in ToSet(cmdr.ports) : Mentions(p.filter, s) \/ Mentions(p.scope, s) \/ s \in p.raw}

\* One match per set of tribes: the strongest branch, the first row among equals.
strongest(lords) ==
    {l \in lords : \A k \in lords :
        k.tribes = l.tribes => \/ branch_priority(k.branch) < branch_priority(l.branch)
                               \/ branch_priority(k.branch) = branch_priority(l.branch) /\ k.row >= l.row}

find_lord_matches(cmdr, card) ==
    LET tribes(p) == {a.value : a \in {b \in Attributes(p.scope) : b.kind = "subtype"}} \cap mentioned_subtypes(cmdr)
        lords == {[tribes |-> tribes(card.ports[i]), branch |-> card.ports[i].branch, row |-> i] :
                     i \in {j \in DOMAIN card.ports : Is(card.ports[j], "static", {"Continuous"}) /\ card.ports[j].scope # <<>>}}
    IN  strongest({l \in lords : l.tribes # {}})

AMPLIFIABLE_TRIGGER_EVENTS == {"ChangesZone", "ChangesZoneAll", "Attacks", "Becomes", "DamageDone", "DealDamage", "Crewed", "TapsForMana"}

parse_static_valid_modes(p) == Bases(Clause(p, "ValidMode")) \cap AMPLIFIABLE_TRIGGER_EVENTS

\* A card that doubles entries, or one of the triggers the commander doubles; the
\* forward direction is looked at first and a card is reported once.
find_amplifier_matches(cmdr, card) ==
    LET P == ToSet(cmdr.ports)
        doublers(Q) == {p \in Q : Is(p, "static", {"Panharmonicon"})}
        etb == \E p \in P : Is(p, "trigger", {"ChangesZone"}) /\ p.dest \in {"", "Battlefield"}
        modes == UNION {parse_static_valid_modes(p) : p \in doublers(P)}
    IN  IF etb /\ doublers(ToSet(card.ports)) # {} THEN {"forward"}
        ELSE When(HasPort(ToSet(card.ports), "trigger", modes), {"reverse"})

-----------------------------------------------------------------------------
REPLACEMENT_BLOCKS_TRIGGER ==
    {<<"DamageDone", "DamageDone">>, <<"Mill", "Milled">>, <<"Draw", "Drawn">>, <<"GainLife", "LifeGained">>,
     <<"LoseLife", "LifeLost">>, <<"Discard", "Discarded">>, <<"Moved", "ChangesZone">>}

\* An empty side is any zone.
zone_overlap(r, triggers) ==
    \E t \in triggers : \A side \in {<<r.origin, t.origin>>, <<r.dest, t.dest>>} :
        "" \in {side[1], side[2]} \/ \E z \in {"Battlefield", "Graveyard", "Exile", "Hand", "Library"} :
                                         ZoneHas(side[1], z) /\ ZoneHas(side[2], z)

is_substitution_blocking_result(r) == r.repl = "Moved" /\ r.result = "Exile" /\ r.dest = "Graveyard"

\* About opponents, or about the card itself only.
is_unhelpful_payoff_trigger(f) == MentionsAny(f, {"OppCtrl", "Opponent"}) \/ trigger_only_matches_self(f)

blocks(r) ==
    \/ r.result = "Prevent"
    \/ is_substitution_blocking_result(r) /\ ~is_unhelpful_payoff_trigger(r.filter)

find_replacement_conflicts(cmdr, card) ==
    LET triggers == {p \in ToSet(cmdr.ports) : p.type = "trigger"}
        zoned    == {p \in triggers : p.event = "ChangesZone"}
        blocked(r) == {b[2] : b \in {x \in REPLACEMENT_BLOCKS_TRIGGER : x[1] = r.repl}} \cap {p.event : p \in triggers}
    IN  {[event |-> r.repl, kind |-> IF r.result = "Prevent" THEN "prevent" ELSE "substitution", blocked |-> blocked(r)] :
             r \in {p \in ToSet(card.ports) : /\ p.type = "replacement" /\ blocks(p) /\ blocked(p) # {}
                                              /\ p.repl = "Moved" => zone_overlap(p, zoned)}}
=============================================================================

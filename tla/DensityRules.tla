---------------------------- MODULE DensityRules ----------------------------
(***************************************************************************)
(* complement_rules/density.py, with the subtype analysis of core.py: the  *)
(* commander's ports name a pool of cards (its tribe, its spell types, its *)
(* counters, its expensive cheats), and a candidate in the pool is a       *)
(* complement.  Every operator gives the complements of one candidate; a   *)
(* helper that reports a card once, under the first of several names of a  *)
(* Python set, is given all the names it may use.                          *)
(***************************************************************************)
EXTENDS CandidatePools

BASE_TYPES == {"Creature", "Artifact", "Enchantment", "Land", "Planeswalker", "Card", "Permanent", "Spell",
               "Aura", "Equipment", "Instant", "Sorcery", "Battle", "Vehicle"}
CASTABLE_TYPES    == {"Instant", "Sorcery", "Creature", "Artifact", "Enchantment", "Planeswalker"}
NONCREATURE_TYPES == CASTABLE_TYPES \ {"Creature"}
VANILLA_TRIBAL_SKIPLIST == {"Human", "Warrior", "Soldier"}

IsWord(t) == t # "" /\ t \notin LowerCase
Structured(p, sub) == Mentions(p.filter, sub) \/ Mentions(p.scope, sub)

-----------------------------------------------------------------------------
sub_in_structured_fields(sub, P) == \E p \in P : Structured(p, sub)
has_any_noncreature_trigger(P) == HasPort(P, "trigger", {"Drawn", "SpellCast", "DamageDone", "CounterAdded"})

sac_fuel_subtypes(P) == {p.subtype : p \in {c \in P : c.type = "cost" /\ IsWord(c.subtype)}}
has_competing_archetype(P) ==
    2 <= Cardinality({p \in P : \E t \in {"Artifact", "Enchantment"} :
                          t \in Tokens(p.filter) \cup {p.subtype} \cup p.raw})

\* What a token subtype has to pass to count as the commander's tribe: gates 1 to 5.
token_tribe(cmdr, sub, overbroad) ==
    LET P == Rows(cmdr)
    IN  IF sub = "" THEN FALSE
        ELSE IF sub \in VANILLA_TRIBAL_SKIPLIST /\ ~overbroad THEN sub_in_structured_fields(sub, P)
        ELSE \/ sub \in cmdr.subs
             \/ sub_in_structured_fields(sub, P)
             \/ /\ sub \notin sac_fuel_subtypes(P)
                /\ "Planeswalker" \notin cmdr.types
                /\ ~has_any_noncreature_trigger(P)
                /\ ~has_competing_archetype(P)

\* Subtypes of the commander that its ports mention, tribes it may replay from the
\* graveyard, and tribes of the tokens it makes.
commander_subtypes_from_ports(cmdr, overbroad) ==
    LET P == Rows(cmdr)
        literal == {s \in cmdr.subs : \E p \in P :
                       \/ Structured(p, s)
                       \/ s \in p.raw /\ (overbroad \/ s \notin VANILLA_TRIBAL_SKIPLIST)}
        replayed == UNION {Bases(Clause(p, "Affected")) : p \in {q \in P : Is(q, "static", {"Continuous"}) /\ "'MayPlay'" \in q.raw}}
        made == {token_subtype(Clause(p, "TokenScript")) : p \in {q \in P : q.event = "Token" /\ HasClause(q, "TokenScript")}}
    IN  literal \cup {s \in replayed : IsWord(s) /\ s \notin BASE_TYPES} \cup {s \in made : token_tribe(cmdr, s, overbroad)}

-----------------------------------------------------------------------------
ScopeSubtypes(p) == {a.value : a \in {b \in Attributes(p.scope) : b.kind = "subtype"}}

find_lord_complements(cmdr, card) ==
    When(\E p \in Rows(card) : /\ Is(p, "static", {"Continuous"}) /\ p.scope # <<>>
                               /\ ScopeSubtypes(p) \cap commander_subtypes_from_ports(cmdr, TRUE) # {},
         {Complement("lord", "tribal", "Continuous", "")})

\* The usable alternatives of a self-event trigger.
EtbAlternatives(p) == {p.filter[i] : i \in {j \in DOMAIN p.filter :
                          p.filter[j] # <<>> /\ ~SelfAlt(p.filter[j]) /\ Base(p.filter[j]) \notin {"Permanent", "Card"}}}

\* Mutant: a subtype among the bases no longer calls for the full scan.
HintsOfKnownTypes(triggers) ==
    UNION {{Base(a) : a \in EtbAlternatives(p)} : p \in triggers} \cap {"Creature", "Artifact", "Enchantment", "Land"}

\* The primary types the scan is narrowed to: a performance hint that must not
\* lose a match.  {} stands for the full scan.
EtbTypeHints(triggers) ==
    LET bases == UNION {{Base(a) : a \in EtbAlternatives(p)} : p \in triggers}
    IN  IF bases \subseteq {"Creature", "Artifact", "Enchantment", "Land", "Instant", "Sorcery", "Planeswalker"} THEN bases ELSE {}

EtbTriggers(cmdr) ==
    {p \in Rows(cmdr) : /\ Is(p, "trigger", SELF_EVENT_TRIGGERS) /\ p.filter # <<>>
                        /\ ~trigger_only_matches_self(p.filter) /\ EtbAlternatives(p) # {}}

find_etb_self_complements(cmdr, card) ==
    LET triggers == EtbTriggers(cmdr)
        hints    == EtbTypeHints(triggers)
    IN  When(hints = {} \/ card.types \cap hints # {},
             {Complement("etb_self", p.event, "card_identity", "") : p \in
                 {q \in triggers : \E alt \in EtbAlternatives(q) : filter_card_match(<<alt>>, card)}})

\* _token_present_without_non_prefix over the filter and the raw line.
find_scaling_complements(cmdr, card) ==
    LET wanted == {t \in {"Aura", "Equipment", "Enchantment", "Artifact", "Land", "Instant", "Sorcery", "Planeswalker"} :
                      \E p \in Rows(cmdr) : p.type = "scales_with" /\ t \in p.raw \cup Tokens(p.filter)}
        primary == wanted \ {"Aura", "Equipment"}
        found(S) == {Complement("scaling", "scales_with", t, "") : t \in S}
    IN  FirstFound(<<found(primary \cap card.types), found((wanted \ primary) \cap card.subs)>>)

\* The types a SpellCast trigger watches, and whether it watches every spell.
NonCreatureAlt(alt) == Mentions(<<alt>>, "nonCreature")
SpellTypes(f, broad) ==
    UNION {IF NonCreatureAlt(f[i]) THEN NONCREATURE_TYPES ELSE {Base(f[i])} \cap (CASTABLE_TYPES \ broad)
           : i \in {j \in DOMAIN f : f[j] # <<>> /\ ~SelfAlt(f[j])}}
SpellSubtypes(f) ==
    {Base(f[i]) : i \in {j \in DOMAIN f : /\ f[j] # <<>> /\ ~SelfAlt(f[j]) /\ ~NonCreatureAlt(f[j]) /\ IsWord(Base(f[j]))
                                          /\ Base(f[j]) \notin CASTABLE_TYPES \cup {"Card", "Permanent"}}}
Universal(f) == f \in {<<>>, <<<<"Card">>>>} \/ \E i \in DOMAIN f : f[i] = <<"Card">>

find_spellcast_resonance(cmdr, card) ==
    LET Casts(P) == {p \in P : Is(p, "trigger", {"SpellCast", "SpellCastOrCopy"})}
        C == Casts(Rows(cmdr))
        wanted == UNION {SpellTypes(p.filter, {}) \cup SpellSubtypes(p.filter) : p \in C}
        typed(p) == FirstFound([i \in DOMAIN p.filter |-> {Base(p.filter[i])} \cap wanted])
        label(p) ==
            IF StartsCardSelf(p.filter) THEN {}
            ELSE IF p.filter \in {<<>>, <<<<"Card">>>>}
                 THEN When(\E q \in C : Universal(q.filter), {"Universal"})
                 ELSE typed(p)
    IN  {Complement("spellcast_resonance", "SpellCast", "SpellCast_" \o t, t) : t \in UNION {label(p) : p \in Casts(Rows(card))}}

find_spellcast_density_complements(cmdr, card) ==
    LET TooBroad == {"Creature", "Permanent", "Card"}
        conspire == {p \in Rows(cmdr) : Is(p, "static", {"Continuous"}) /\ "'Conspire'" \in p.raw}
        triggers == {p \in Rows(cmdr) : Is(p, "trigger", CATCH_ALL_TRIGGERS)}
        types == UNION {Bases(Clause(p, "Affected")) \cap (CASTABLE_TYPES \ TooBroad) : p \in conspire}
                 \cup UNION {SpellTypes(p.filter, TooBroad) : p \in triggers}
        subs  == UNION {SpellSubtypes(p.filter) : p \in triggers}
        found(S) == {Complement("spell_density", "SpellCast", t, "") : t \in S}
    IN  FirstFound(<<found(types \cap card.types), found(subs \cap card.subs)>>)

-----------------------------------------------------------------------------
\* A commander with nothing but keywords is built around its own tribe.
vanilla_tribal_subtypes(cmdr) ==
    When({p.type : p \in Rows(cmdr)} \subseteq {"keyword"}, cmdr.subs \ VANILLA_TRIBAL_SKIPLIST)

SpellCopyCommander(P) ==
    HasPort(P, "effect", {"CopySpellAbility"}) \/ HasPort(P, "keyword", {"Conspire"})
    \/ \E p \in P : p.type = "static" /\ "'Conspire'" \in p.raw

\* A card of the tribe that names it in no port is only a body.
tribal_rule(own, s, card, ctx) ==
    IF "tribal_payoff_tier" \in ctx.flags /\ own # {} /\ ~sub_in_structured_fields(s, Rows(card))
    THEN "tribal_body" ELSE "tribal_density"

\* A card of two of the tribes is credited once, under the one the set yields first:
\* here are all it may be.
members(own, cmdr, card, ctx) ==
    {Complement(tribal_rule(own, s, card, ctx), "tribal", s, "")
        : s \in (IF own # {} THEN own ELSE vanilla_tribal_subtypes(cmdr)) \cap card.subs}

find_tribal_density_complements(cmdr, card, ctx) ==
    When(~SpellCopyCommander(Rows(cmdr)) /\ "Creature" \in card.types,
         members(commander_subtypes_from_ports(cmdr, FALSE), cmdr, card, ctx))

has_counter_interest(P) ==
    \E p \in P :
        \/ Is(p, "trigger", {"CounterAdded", "CounterAddedOnce", "CounterAddedAll"}) /\ p.counter \in {"", "P1P1"}
        \/ p.type = "scales_with" /\ (p.event = "CardCounters.P1P1" \/ Mentions(p.filter, "P1P1"))
        \/ p.type = "trigger" /\ Mentions(p.filter, "P1P1")
        \/ Is(p, "effect", {"PutCounter", "PutCounterAll"}) /\ p.counter = "P1P1" /\ Mentions(p.filter, "Other")

find_proliferate_synergy(cmdr, card) ==
    LET P == Rows(cmdr)
    IN  When(/\ \/ HasPort(P, "scales_with", {"YourCountersExperience"}) \/ HasPort(P, "effect", {"MultiplyCounter"})
                \/ \E p \in P : p.event = "Proliferate"
                \/ has_counter_interest(P)
             /\ proliferates(card),
             {Complement("proliferate_synergy", "counter_scaling", "proliferate", "")})

statics_all_self_focused(P) ==
    \A p \in P : p.type = "static" =>
        \E c \in {"Affected", "ValidTarget"} : Clause(p, c) = <<<<"Card", "Self">>>>

\* The event classes of the rows, and the pool each of them feeds.
HighToughness(card) ==
    \/ "Creature" \in card.types /\ card.tough >= 4 /\ card.tough >= card.power + 2
    \/ HasPort(Rows(card), "keyword", {"Defender"})
LandTypeAdder(P) ==
    \E p \in P : /\ Is(p, "static", {"Continuous"}) /\ "Land" \in p.raw
                 /\ \/ "AllBasicLandType" \in p.raw
                    \/ {"AddType", "&"} \subseteq p.raw /\ "RemoveLandTypes" \notin p.raw
                       /\ p.raw \cap {"Forest", "Plains", "Island", "Swamp", "Mountain"} # {}

\* A bare creature count, on a commander that does nothing else.
CreatureCountScaler(P, p) ==
    /\ p.event = "Valid" /\ p.filter # <<>> /\ p.filter[1] = <<"Creature", "YouCtrl">> /\ ~Mentions(p.filter, "counters")
    /\ {q.type : q \in P} \cap {"trigger", "effect", "cost", "replacement"} = {}
    /\ statics_all_self_focused(P)

\* Mutant: only the first scales_with row is looked at.
FirstScalerOnly(cmdr, card) ==
    LET scalers == SelectSeq(cmdr.ports, LAMBDA p : p.type = "scales_with")
    IN  When(/\ scalers # <<>> /\ p1p1_counter_producer(card)
             /\ scalers[1].event = "CardCounters.P1P1" \/ Mentions(scalers[1].filter, "P1P1"),
             {Complement("scaling", "scales_P1P1", "counter_producer", "")})

\* Which pool one scales_with port asks for: the branches exclude each other.
scaler_asks(P, card, p) ==
    LET C == Rows(card)
        Scaling(label, pool) == {Complement("scaling", label, pool, "")}
    IN  IF p.event = "CardCounters.P1P1" \/ Mentions(p.filter, "P1P1") THEN
            When(p1p1_counter_producer(card), Scaling("scales_P1P1", "counter_producer"))
        ELSE IF p.event = "CardToughness" THEN When(HighToughness(card), Scaling("scales_toughness", "high_toughness"))
        ELSE IF CreatureCountScaler(P, p) THEN
            FirstFound(<<When(\E q \in C : Is(q, "effect", {"Token"}) /\ "creature" \in q.raw,
                              Scaling("scales_creature_count", "token_producer")),
                         When(\E q \in C : Is(q, "effect", {"CopyPermanent"}) /\ "Populate" \in q.raw,
                              Scaling("scales_creature_count", "populate"))>>)
        ELSE IF p.event = "Domain" THEN When(LandTypeAdder(C), Scaling("scales_domain", "land_type_adder"))
        ELSE When(/\ p.event = "LifeOppsLostThisTurn" /\ card.types \cap {"Instant", "Sorcery"} = {}
                  /\ HasPort(C, "effect", {"LoseLife", "DealDamage", "DamageAll"}),
                  Scaling("scales_opp_life_lost", "drain_damage"))

find_scales_with_density(cmdr, card) ==
    FirstOf(cmdr.ports, LAMBDA p : When(p.type = "scales_with", scaler_asks(Rows(cmdr), card, p)))

-----------------------------------------------------------------------------
\* What a ChangeType clause names: the subtype behind the base, or the base itself.
ChangeTypeTargets(f, types) ==
    LET second(alt) == IF Len(alt) > 1 THEN alt[2] ELSE ""
        typed(alt)  == IsWord(second(alt)) /\ second(alt) \notin {"YouCtrl", "YouOwn"}
        alts == {f[i] : i \in DOMAIN f}
    IN  {<<"subtype", second(a)>> : a \in {b \in alts : typed(b)}}
        \cup {<<"type", Base(a)>> : a \in {b \in alts : ~typed(b) /\ Base(b) \in types}}

InTarget(card, t) == t[2] \in (IF t[1] = "type" THEN card.types ELSE card.subs)

\* sorted(wanted): subtypes before types, each in the order of their names.
Alphabet == <<"Angel", "Artifact", "Creature", "Demon", "Dragon", "Enchantment", "Goblin", "Instant",
              "Land", "Planeswalker", "Sorcery", "Zombie">>

find_value_engine_density(cmdr, card) ==
    LET P == Rows(cmdr)
        types == {"Creature", "Instant", "Sorcery", "Artifact", "Enchantment", "Planeswalker", "Land"}
        engine == UNION {ChangeTypeTargets(Clause(p, "ChangeType"), types) : p \in {q \in P : Is(q, "effect", {"ChangeZone"})}}
        historic == \E p \in P : Is(p, "trigger", {"SpellCast"}) /\ Mentions(p.filter, "Historic")
        label(t) == IF t = <<"type", "Artifact">> /\ historic THEN "historic" ELSE "value_engine"
        wanted == engine \cup When(historic, {<<"type", "Artifact">>})
        under(kind) == [i \in DOMAIN Alphabet |->
            LET t == <<kind, Alphabet[i]>>
            IN  When(t \in wanted /\ InTarget(card, t), {Complement("value_engine", label(t), t[2], t[2])})]
    IN  FirstFound(under("subtype") \o under("type"))

find_counter_doubler_synergy(cmdr, card) ==
    When(has_counter_interest(Rows(cmdr)) /\ \E p \in Rows(card) :
            p.type = "replacement" /\ p.repl = "AddCounter" /\ ~\E i \in DOMAIN Clause(p, "ValidCard") : SelfAlt(Clause(p, "ValidCard")[i]),
         {Complement("counter_doubler", "CounterAdded_P1P1", "counter_doubler", "")})

find_counter_keyword_synergy(cmdr, card) ==
    When(has_counter_interest(Rows(cmdr)),
         {Complement("counter_keyword", "CounterAdded_P1P1", p.event, "") : p \in
             {q \in Rows(card) : Is(q, "keyword", {"Modular", "Undying", "Persist", "Evolve", "Fabricate", "Riot"})}})

\* What the commander cheats into play: by the type its ChangeZone names, unless a
\* mana value bounds it, or by the target of an unconditional reanimation.
CheatTargets(P) ==
    LET types == {"Creature", "Artifact", "Enchantment", "Planeswalker"}
        conditional == \E p \in P : p.type = "trigger" /\ p.cond
        moves == {p \in P : Is(p, "effect", {"ChangeZone"}) /\ p.dest = "Battlefield"}
        named == {p \in moves : HasClause(p, "ChangeType") /\ p.origin \in {"Hand", "Graveyard", "Library"}
                                /\ Tokens(Clause(p, "ChangeType")) \cap {"cmcLE3", "cmcGE5"} = {}}
        aimed == {p \in moves : ~HasClause(p, "ChangeType") /\ p.branch = "execute" /\ p.origin = "Graveyard" /\ ~conditional}
    IN  UNION {ChangeTypeTargets(Clause(p, "ChangeType"), types) : p \in named}
        \cup {<<"type", b>> : b \in UNION {Bases(p.filter) : p \in aimed} \cap types}

\* _find_cheat_cmc_bonus with _query_cheat_cmc_brackets; _CHEAT_CMC_MIN is 6.
find_cheat_cmc_bonus(cmdr, card) ==
    When(card.cmc >= 6 /\ \E t \in CheatTargets(Rows(cmdr)) : InTarget(card, t),
         {Complement("cheat_cmc", "cheat_into_play", "cheatable", "cmc_high")})

commander_has_x_cost_ability(P) == HasPort(P, "scales_with", {"xPaid"})

\* Strong tier first, so that a card in both pools keeps the stronger credit.
find_x_cost_scaler(cmdr, card, ctx) ==
    When("x_cost_scaler" \in ctx.flags /\ commander_has_x_cost_ability(Rows(cmdr)),
         FirstFound(<<When(FlaggedPool(ctx, "x_cost_scaler", x_cost_mana_double(card)),
                           {Complement("x_cost_scaler", "x_cost", "mana_double", "")}),
                      When(FlaggedPool(ctx, "x_cost_scaler", x_cost_cost_reduce(card)),
                           {Complement("x_cost_scaler", "x_cost", "cost_reduce_generic", "")})>>))

find_cost_reduction_targets(cmdr, card) ==
    When(/\ \E p \in Rows(cmdr) : Is(p, "static", {"ReduceCost"}) /\ p.raw \cap {"Creature", "Spell"} # {}
         /\ cost_reduction_target(card),
         {Complement("cost_reduction_target", "ReduceCost", "high_cmc_creature", "")})

filter_has_land_base_type(f) == "Land" \in Bases(f)

find_land_to_gy_synergy(cmdr, card) ==
    LET C == Rows(card)
        wanted == \E p \in Rows(cmdr) : /\ Is(p, "trigger", {"ChangesZoneAll", "ChangesZone"}) /\ p.dest = "Graveyard"
                                        /\ filter_has_land_base_type(p.filter)
        feeds  == \E p \in C : \/ Is(p, "cost", {"sacrifice"}) /\ p.subtype = "Land"
                               \/ Is(p, "keyword", {"Dredge"})
        recurs == \E p \in C :
            \/ /\ Is(p, "static", {"Continuous"}) /\ {"Land.YouOwn", "MayPlay", "Graveyard"} \subseteq p.raw
               /\ "nonLand" \notin p.raw
            \/ /\ Is(p, "effect", {"ChangeZone"}) /\ p.origin = "Graveyard" /\ p.dest \in {"Hand", "Battlefield"}
               /\ filter_has_land_base_type(p.filter) /\ ~Mentions(p.filter, "nonLand")
        found(t) == {Complement("land_to_gy_synergy", "land_to_graveyard", t, t)}
    IN  When(wanted, FirstFound(<<When(feeds, found("feeder")), When(recurs, found("recursion"))>>))
=============================================================================

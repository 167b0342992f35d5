--------------------------- MODULE CandidatePools ---------------------------
(***************************************************************************)
(* penalties.build_candidate_cache: the pools of cards that are the same   *)
(* for every commander, each as a predicate of one card, and the cache     *)
(* that holds them.  A cache is built once per batch; the pools of a       *)
(* default-off rule stay empty in it when the rule's flag is off at that   *)
(* time.  Without a cache a helper reads its pool afresh.                  *)
(***************************************************************************)
EXTENDS Filters

Rows(card)        == ToSet(card.ports)
IsCreature(card)  == "Creature" \in card.types
Opponents(f)      == MentionsAny(f, {"Player", "Opponent"})
SomeRow(card, t, E, Test(_)) == \E p \in Rows(card) : Is(p, t, E) /\ Test(p)

\* ctx: the rule flags that are on, and the flags that were on when the cache was
\* built ({"no cache"} when there is none).
NoCache == {"no cache"}
FlaggedPool(ctx, flag, cond) == (ctx.cache = NoCache \/ flag \in ctx.cache) /\ cond


\* A card joined with itself: one row triggers, another pays.
Joined(card, Trigger(_), Pays(_)) ==
    /\ \E t \in Rows(card) : t.type = "trigger" /\ Trigger(t)
    /\ \E e \in Rows(card) : e.type = "effect" /\ Pays(e)

token_etb_damage(card) ==
    Joined(card,
           LAMBDA t : t.event = "ChangesZone" /\ t.dest \in {"", "Battlefield"} /\ Mentions(t.filter, "Creature"),
           LAMBDA e : e.event = "DealDamage" /\ Opponents(e.filter))

dies_drain(card) ==
    Joined(card,
           LAMBDA t : /\ t.event = "ChangesZone" /\ t.origin = "Battlefield" /\ t.dest = "Graveyard"
                      /\ Mentions(t.filter, "Creature"),
           LAMBDA e : \/ e.event \in {"LoseLife", "DealDamage"} /\ Mentions(e.filter, "Player")
                      \/ e.event \in {"Token", "Mana"}
                      \/ e.event = "Draw" /\ Mentions(e.filter, "You"))

gy_loader(card) ==
    SomeRow(card, "effect", {"ChangeZone", "ChangeZoneAll"}, LAMBDA p : p.origin = "Library" /\ p.dest = "Graveyard")

attack_payoff(card) ==
    Joined(card,
           LAMBDA t : t.event \in {"Attacks", "AttackersDeclared"},
           LAMBDA e : \/ e.event \in {"Token", "Mana"}
                      \/ e.event = "PutCounter" /\ e.filter \in {<<<<"Self">>>>, <<<<"Creature", "YouCtrl">>>>}
                      \/ e.event = "Draw" /\ Mentions(e.filter, "You")
                      \/ e.event = "ChangeZone" /\ e.origin = "Library")

EVASION_SOFT_KEYWORDS == {"Flying", "Menace"}
EVASION_HARD_KEYWORDS == {"Shadow", "Horsemanship", "Skulk", "Fear", "Intimidate"}
evasion_soft(card) == IsCreature(card) /\ \E p \in Rows(card) : p.type = "keyword" /\ p.kw \in EVASION_SOFT_KEYWORDS
\* Self as the attacker is unblockable; as the blocker it is a restriction.
evasion_hard(card) ==
    /\ IsCreature(card)
    /\ \/ \E p \in Rows(card) : p.type = "keyword" /\ p.kw \in EVASION_HARD_KEYWORDS
       \/ SomeRow(card, "static", {"CantBlockBy"}, LAMBDA p :
              /\ HasClause(p, "ValidAttacker")
              /\ \E b \in {"Creature", "Card"} : IsPrefix(<<b, "Self">>, Clause(p, "ValidAttacker")[1]))

x_cost_mana_double(card) ==
    SomeRow(card, "replacement", {"ProduceMana"}, LAMBDA p : p.result \in {"ProduceTwice", "ProduceThrice"})
BroadValidCard ==
    {<<<<"Card">>>>, <<<<>>>>, <<<<"Card", "nonCreature">>>>, <<<<"Card", "multicolor">>>>,
     <<<<"Card", "monocolored">>>>, <<<<"Instant">>, <<"Sorcery">>>>}
\* An absent ValidCard is not a broad one.
x_cost_cost_reduce(card) ==
    SomeRow(card, "static", {"ReduceCost"}, LAMBDA p :
        /\ Clause(p, "Type") = <<<<"Spell">>>>
        /\ HasClause(p, "ValidCard") /\ Clause(p, "ValidCard") \in BroadValidCard
        /\ \E n \in Digits \ {"0"} : Clause(p, "Amount") = <<<<n>>>>)

DEATH_VALUE_EFFECTS == {"LoseLife", "GainLife", "DealDamage", "DamageAll", "PutCounter", "PutCounterAll",
                        "Token", "Draw", "Mana"}
\* A trigger that watches only the opponents' creatures is backwards.
OpponentOnly(f) ==
    /\ parse_scope_string(f) = "opp"
    /\ ~MentionsAny(f, {"YouCtrl", "YouOwn"})
    /\ ~\E i \in DOMAIN f : SelfAlt(f[i]) \/ (Len(f[i]) > 1 /\ f[i][2] = "Other")
death_payoff(card) ==
    \E t, e \in Rows(card) :
        /\ t.type = "trigger" /\ e.type = "effect"
        /\ t.exec # "" /\ e.svar = t.exec /\ e.event \in DEATH_VALUE_EFFECTS
        /\ \/ t.event = "ChangesZone" /\ ZoneHas(t.origin, "Battlefield") /\ ZoneHas(t.dest, "Graveyard")
           \/ t.event \in {"Sacrificed", "Dies"}
        /\ Mentions(t.filter, "Creature") /\ t.filter \notin {<<<<"Card", "Self">>>>, <<<<"Creature", "Self">>>>}
        /\ ~OpponentOnly(t.filter)

recursive_fodder(card) ==
    /\ IsCreature(card)
    /\ \E p \in Rows(card) :
           \/ p.kw \in {"Undying", "Persist"}
           \/ /\ Is(p, "effect", {"ChangeZone"}) /\ ZoneHas(p.origin, "Graveyard") /\ ZoneHas(p.dest, "Battlefield")
              /\ p.filter = <<>> \/ Mentions(p.filter, "CARDNAME") \/ \E i \in DOMAIN p.filter : SelfAlt(p.filter[i])

untap_combo(card) ==
    \E p \in Rows(card) :
        \/ /\ Is(p, "effect", {"UntapAll"})
           /\ \/ MentionsAny(p.filter, {"Permanent", "Artifact"}) \/ p.filter = <<<<"You">>>>
              \/ \E i \in DOMAIN p.filter : IsPrefix(<<"Creature", "YouCtrl">>, p.filter[i])
        \/ Is(p, "effect", {"Untap"}) /\ Mentions(p.filter, "Artifact")
        \/ Is(p, "static", {"UntapOtherPlayer"})
        \/ Is(p, "effect", {"TapOrUntapAll"})

cost_reduction_target(card) ==
    /\ IsCreature(card) /\ card.cmc >= 6
    /\ \E p \in Rows(card) : p.type \in {"trigger", "effect"}
    /\ ~HasPort(Rows(card), "effect", {"DealDamage", "DamageAll", "LoseLife"})

proliferates(card) == \E t \in {"effect", "trigger"} : HasPort(Rows(card), t, {"Proliferate"})
p1p1_counter_producer(card) ==
    SomeRow(card, "effect", {"PutCounter", "PutCounterAll", "Proliferate"}, LAMBDA p : p.counter \in {"", "P1P1"})
=============================================================================

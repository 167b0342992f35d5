----------------------------- MODULE CombatRules ----------------------------
(***************************************************************************)
(* complement_rules/combat.py: extra combats, evasion, sacrifice outlets,  *)
(* feeders of a death trigger's subject, and triggers on the same zone     *)
(* change.                                                                 *)
(***************************************************************************)
EXTENDS DensityRules

PRIMARY_TYPES    == {"Creature", "Artifact", "Enchantment", "Land", "Planeswalker"}
GENERIC_SUBJECTS == {"Card", "Permanent"}

DeathTriggers(P) ==
    {p \in P : Is(p, "trigger", {"ChangesZone"}) /\ p.dest = "Graveyard" /\ ~trigger_only_matches_self(p.filter)}

\* The subjects whose death the commander watches; {} narrows nothing.
cmdr_trigger_subject_types(P) ==
    {Bare(b) : b \in UNION {Bases(p.filter) : p \in DeathTriggers(P)}} \ ({"", "Self"} \cup GENERIC_SUBJECTS)

ATTACKS_ENGINE_EFFECTS == {"AddPhase", "Dig", "Play", "Mana", "Token", "DealDamage", "Discard", "Mill"}
ATTACKS_VALUE_EFFECTS  == {"Draw", "ChangeZone", "ChangeZoneAll", "PutCounter", "LoseLife", "GainLife", "Destroy"}

\* One engine effect, or two ports of value.
attacks_trigger_has_value_effect(ports) ==
    LET effects(E) == SelectSeq(ports, LAMBDA p : Is(p, "effect", E))
    IN  effects(ATTACKS_ENGINE_EFFECTS) # <<>> \/ Len(effects(ATTACKS_VALUE_EFFECTS)) >= 2

\* The loop stops at the first of the two kinds of trigger: a self attack that
\* pays nothing hides a damage trigger in a later row.
WantsCombat(ports) ==
    LET damage(p) == Is(p, "trigger", {"DamageDone"}) /\ ~trigger_only_matches_self(p.filter) /\ p.combat
        attack(p) == Is(p, "trigger", {"Attacks"}) /\ trigger_only_matches_self(p.filter)
        decides == SelectSeq(ports, LAMBDA p : damage(p) \/ attack(p))
    IN  decides # <<>> /\ (damage(decides[1]) \/ attacks_trigger_has_value_effect(ports))

find_combat_enhancers(cmdr, card) ==
    LET found(e) == {Complement("combat_enhancer", "DamageDone", e, "")}
    IN  When(WantsCombat(cmdr.ports),
             FirstFound(<<When(HasPort(Rows(card), "effect", {"AddPhase"}), found("AddPhase")),
                          When(HasPort(Rows(card), "keyword", {"Double Strike"}), found("DoubleStrike"))>>))

\* CombatDamage is the raw clause here, not the is_combat column.
find_evasion_complements(cmdr, card) ==
    When(/\ \E p \in Rows(cmdr) : /\ Is(p, "trigger", {"DamageDone"}) /\ "'CombatDamage': 'True'" \in p.raw
                                  /\ ~trigger_only_matches_self(p.filter)
         /\ commander_subtypes_from_ports(cmdr, FALSE) = {}
         /\ \E p \in Rows(card) : /\ Is(p, "static", {"CantBlockBy"})
                                  /\ \E c \in {"ValidAttacker", "ValidBlocker"} :
                                         \E i \in DOMAIN Clause(p, c), b \in {"Creature", "Card"} :
                                             IsPrefix(<<b, "Self">>, Clause(p, c)[i]),
         {Complement("evasion", "DamageDone_combat", "unblockable", "")})

\* Creatures and their subtypes are one family; every other type is itself.
CreatureFamily(s) == s = "Creature" \/ s \notin PRIMARY_TYPES \cup GENERIC_SUBJECTS
subject_alignment(constraint, subject) ==
    subject \in constraint \/ (CreatureFamily(subject) /\ \E s \in constraint : CreatureFamily(s))

CountersGated(P)    == \E p \in DeathTriggers(P) : MentionsAny(p.filter, {"counters_GE1_P1P1", "counters_EQ0_P1P1"})
CounterMechanic(C)  == \/ HasPort(C, "keyword", {"Persist", "Undying", "Modular", "etbCounter:P1P1"})
                       \/ \E p \in C : Is(p, "effect", {"PutCounter", "PutCounterAll"}) /\ p.counter = "P1P1"

\* cost_subtype of a sacrifice is its subject; CARDNAME stands for the card itself.
SacFits(constraint, subject) ==
    \/ constraint = {} \/ subject = ""
    \/ IF subject = "CARDNAME" THEN \E s \in constraint : CreatureFamily(s) ELSE subject_alignment(constraint, subject)

\* Only the first sacrifice cost of a card is looked at.
find_sacrifice_outlets(cmdr, card) ==
    LET P    == Rows(cmdr)
        sacs == SelectSeq(card.ports, LAMBDA p : Is(p, "cost", {"sacrifice"}))
        fg   == cost_filter_group(sacs[1])
    IN  When(/\ DeathTriggers(P) # {} /\ sacs # <<>>
             /\ CountersGated(P) /\ fg = "self_sac" => CounterMechanic(Rows(card))
             /\ SacFits(cmdr_trigger_subject_types(P), sacs[1].subtype),
             {Complement("cost_feeds_trigger", "ChangesZone_death", "sacrifice", fg)})

find_subject_zone_feeders(cmdr, card) ==
    LET subjects == (cmdr_trigger_subject_types(Rows(cmdr)) \cap PRIMARY_TYPES) \ {"Creature"}
        subject(p, clause) == IF HasClause(p, clause) THEN Base(Clause(p, clause)[1]) ELSE ""
        yours(p) == ~\E w \in {"Opponent", "Player.Opponent"} : <<<<w>>>> = Clause(p, "Defined")
        sacs   == {p \in Rows(card) : /\ Is(p, "effect", {"Sacrifice"}) /\ subject(p, "SacValid") # ""
                                      /\ subject_alignment(subjects, subject(p, "SacValid")) /\ yours(p)}
        mass   == {p \in Rows(card) : /\ Is(p, "effect", {"ChangeZoneAll"}) /\ subject(p, "ChangeType") \in subjects
                                      /\ p.origin = "Graveyard" /\ p.dest = "Battlefield"}
        found(e) == {Complement("subject_zone_feeder", "ChangesZone_death", e, "")}
    IN  When(subjects # {}, FirstFound(<<When(sacs # {}, found("sac_type_effect")),
                                         When(mass # {}, found("mass_return_to_battlefield"))>>))

\* The (type, destination) pairs of a ChangesZone trigger; no destination is the
\* battlefield.  One row of the candidate is reported once, under its first type.
ZoneAxes(p) == IF p.filter = <<>> \/ trigger_only_matches_self(p.filter) THEN <<>>
               ELSE LET dest == IF p.dest = "" THEN "Battlefield" ELSE p.dest
                    IN  [i \in DOMAIN p.filter |-> <<Base(p.filter[i]), dest>>]
ZoneTriggers(P) == {p \in P : Is(p, "trigger", {"ChangesZone"})}

find_changeszone_resonance(cmdr, card) ==
    LET axes == {a \in UNION {ToSet(ZoneAxes(p)) : p \in ZoneTriggers(Rows(cmdr))} : a[1] \in PRIMARY_TYPES}
        shared(p) == FirstFound([i \in DOMAIN ZoneAxes(p) |-> {ZoneAxes(p)[i]} \cap axes])
        found == UNION {shared(p) : p \in ZoneTriggers(Rows(card))}
    IN  {Complement("zone_resonance", "ChangesZone", a[1] \o "_" \o a[2], a[1]) : a \in found}

-----------------------------------------------------------------------------
has_creature_attack_trigger(P) ==
    \E p \in P : Is(p, "static", {"Panharmonicon"}) /\ {"Attacks", "'ValidCause':'Creature'"} \subseteq p.raw

\* A commander whose attack trigger is about the team, or that attacks itself and
\* pumps the attackers; neither exalted nor tribal.
commander_has_team_attack_reward(cmdr) ==
    LET P == Rows(cmdr)
        team == \E p \in P :
            \/ Is(p, "trigger", {"Attacks"}) /\ Mentions(p.filter, "YouCtrl") /\ ~trigger_only_matches_self(p.filter)
            \/ /\ Is(p, "trigger", {"AttackersDeclared", "AttackersDeclaredOneTarget"})
               /\ "'AttackingPlayer': 'You'" \in p.raw \/ Mentions(Clause(p, "ValidAttackers"), "YouCtrl")
        alone == \E p \in P : Is(p, "trigger", {"Attacks"}) /\ trigger_only_matches_self(p.filter)
        pump  == \E p \in P : Is(p, "effect", {"PumpAll"}) /\ Mentions(p.filter, "attacking") /\ ~Mentions(p.filter, "Self")
    IN  /\ ~HasPort(P, "keyword", {"Exalted"})
        /\ team \/ (alone /\ pump)
        /\ commander_subtypes_from_ports(cmdr, FALSE) = {}

find_attack_reward_evasion(cmdr, card, ctx) ==
    LET pool(cond) == FlaggedPool(ctx, "attack_reward_evasion", cond)
        found(tier) == {Complement("attack_reward_evasion", "attack_reward", tier, "")}
    IN  When("attack_reward_evasion" \in ctx.flags /\ commander_has_team_attack_reward(cmdr),
             FirstFound(<<When(pool(evasion_hard(card)), found("evasion_hard")),
                          When(pool(evasion_soft(card)), found("evasion_soft"))>>))

find_attack_payoffs(cmdr, card) ==
    When(has_creature_attack_trigger(Rows(cmdr)) /\ attack_payoff(card),
         {Complement("attack_payoffs", "creature_attacks", "attack_payoff", "")})
=============================================================================

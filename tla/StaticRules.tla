----------------------------- MODULE StaticRules ----------------------------
(***************************************************************************)
(* complement_rules/statics.py: cost reducers, lands played from the       *)
(* graveyard, affinity, edicts and anthems.  What follows the colon of a   *)
(* keyword event ("Affinity:Artifact") is the subtype of its row.          *)
(* complement_rules/tokens.py and panharmonicon.py: what a commander's     *)
(* tokens and zone changes trigger, go-wide and voltron statics, and cards *)
(* that double triggers.                                                   *)
(***************************************************************************)
EXTENDS GraveyardRules

\* A name of S, the first in the order of the alphabet, or "".
FirstName(order, S) == LET named == SelectSeq(order, LAMBDA n : n \in S)
                       IN  IF named = <<>> THEN "" ELSE named[1]
CastTypes == <<"Artifact", "Aura", "Creature", "Enchantment", "Equipment", "Instant", "Sorcery">>

\* The alternatives are read one by one, nonCreature anywhere.
WantedSpells(P) ==
    UNION {(Bases(p.filter) \cap ToSet(CastTypes))
           \cup When(Mentions(p.filter, "nonCreature"), {"Instant", "Sorcery", "Artifact", "Enchantment"})
           : p \in {q \in P : Is(q, "trigger", {"SpellCast"})}}

SelfClause(p, c) == \E i \in DOMAIN Clause(p, c) : SelfAlt(Clause(p, c)[i])

\* The spell a reducer names in its card filter, or else in its target filter; a bare
\* Card reduces all.
reduced_spell(wanted, p) ==
    LET valid == IF HasClause(p, "ValidCard") THEN Clause(p, "ValidCard") ELSE Clause(p, "ValidTarget")
        named == FirstName(CastTypes, {t \in wanted : Mentions(valid, t)})
    IN  IF \/ ~Is(p, "static", {"ReduceCost"}) \/ valid = <<>>
           \/ SelfClause(p, "ValidCard") \/ SelfClause(p, "ValidTarget") THEN ""
        ELSE IF named = "" /\ Base(valid[1]) = "Card" THEN FirstName(CastTypes, wanted) ELSE named

find_cost_reduction_synergy(cmdr, card) ==
    LET found(t) == When(t # "", {Complement("cost_reducer", "SpellCast_" \o t, "ReduceCost_" \o t, t)})
        wanted   == WantedSpells(Rows(cmdr))
    IN  When(wanted # {}, FirstOf(card.ports, LAMBDA p : found(reduced_spell(wanted, p))))

find_graveyard_play_synergy(cmdr, card) ==
    When(/\ \E p \in Rows(cmdr) :
               \/ Is(p, "trigger", {"ChangesZone"}) /\ Mentions(p.filter, "Land") /\ p.dest \in {"", "Battlefield"}
               \/ Is(p, "scales_with", {"Landfall"})
         /\ SomeRow(card, "static", {"Continuous"}, LAMBDA p : {"'MayPlay'", "'Graveyard'", "Land"} \subseteq p.raw),
         {Complement("graveyard_play", "landfall", "MayPlay_Land_GY", "")})

AFFINITY_RECOGNIZED_TYPES == {"Artifact", "Creature", "Enchantment", "Land", "Planeswalker", "Instant", "Sorcery"}
PureArtifact(f) == Mentions(f, "Artifact") /\ ~Mentions(f, ";")

\* The type of an affinity, or Artifact for a commander that moves, sacrifices or
\* taps artifacts and nothing else.
affinity_type(cmdr) ==
    LET keywords == SelectSeq(cmdr.ports, LAMBDA p : /\ Is(p, "keyword", {"Affinity"})
                                                     /\ p.subtype \in AFFINITY_RECOGNIZED_TYPES)
        artifacts == \E p \in Rows(cmdr) :
            \/ Is(p, "effect", {"ChangeZone", "Effect"}) /\ PureArtifact(p.filter)
            \/ Is(p, "cost", {"sacrifice", "tap_type"}) /\ p.subtype = "Artifact"
    IN  IF keywords # <<>> THEN keywords[1].subtype ELSE IF artifacts THEN "Artifact" ELSE ""

supports_affinity(type, card) ==
    LET starts(p, c) == HasClause(p, c) /\ Base(Clause(p, c)[1]) = type
        found(e, cond) == When(cond, {Complement("affinity_archetype", "Affinity_" \o type, e, "")})
    IN  When(type # "",
             FirstFound(<<found("typed_land", {"Land", type} \subseteq card.types),
                          found("cost_reducer", SomeRow(card, "static", {"ReduceCost"},
                                    LAMBDA p : starts(p, "ValidCard") \/ starts(p, "Type"))),
                          found("cheap_typed", type \in card.types /\ "Land" \notin card.types /\ card.cmc <= 1)>>))

find_affinity_archetype(cmdr, card) == supports_affinity(affinity_type(cmdr), card)

\* A filter that a creature sacrificed by an opponent can meet.
edict_benefits_from_trigger(f) ==
    LET creature == Mentions(f, "Creature") /\ ~Mentions(f, "nonCreature")
    IN  /\ ~MentionsAny(f, {"counters_GE1_P1P1", "counters_EQ0_P1P1", "enchanted", "equipped", "HasCounters",
                            "Food", "Clue", "Treasure", "Blood"})
        /\ f # <<>> /\ Base(f[1]) \in {"Artifact", "Enchantment"} => creature

find_edict_feeders(cmdr, card) ==
    LET benefits(T) == \E p \in T : edict_benefits_from_trigger(p.filter)
        sacrificed == benefits({p \in Rows(cmdr) : Is(p, "trigger", {"Sacrificed"})})
        edict == SomeRow(card, "effect", {"Sacrifice", "SacrificeAll"}, LAMBDA p :
            p.filter \in {<<<<"Player">>>>, <<<<"Opponent">>>>, <<<<"Player", "Opponent">>>>, <<<<"TriggeredPlayer">>>>,
                          <<<<"TriggeredDefendingPlayer">>>>, <<<<"Player", "Other">>>>})
    IN  When((sacrificed \/ benefits(DeathTriggers(Rows(cmdr)))) /\ edict,
             {Complement("edict_feeder", IF sacrificed THEN "Sacrificed" ELSE "ChangesZone_death", "Sacrifice_edict", "")})

-----------------------------------------------------------------------------
\* Creature scripts carry power and toughness.
MakesCreature(p) ==
    Is(p, "effect", {"Token"}) /\ \E i \in DOMAIN Clause(p, "TokenScript") : HasPT(Clause(p, "TokenScript")[i])

\* A static that buffs; "-" is a negative amount.
Buffs(p) == /\ Is(p, "static", {"Continuous"}) /\ p.raw \cap {"'AddPower'", "'AddToughness'", "'AddKeyword'"} # {}
            /\ "-" \notin p.raw

Qualifiers(alt) == ToSet(Tail(alt))

commander_has_team_anthem_static(P) ==
    \E p \in P : /\ Buffs(p)
                 /\ \E i \in DOMAIN p.scope : /\ Base(p.scope[i]) \in {"Creature", "Permanent"}
                                              /\ "YouCtrl" \in Qualifiers(p.scope[i])
                                              /\ Qualifiers(p.scope[i]) \subseteq {"YouCtrl", "Other"}


is_own_board_token_multiplier(p) ==
    /\ Is(p, "replacement", {"CreateToken"}) /\ p.result \in {"DoubleToken", "TripleToken"}
    /\ p.raw \cap {"Card.OppCtrl", "'ValidPlayer': 'Opponent'"} = {}

token_lands_on_own_board(p) ==
    LET owner == Clause(p, "TokenOwner")
    IN  ~MentionsAny(owner, {"Opponent"}) /\ owner \notin {<<<<"Targeted">>>>, <<<<"TargetedPlayer">>>>, <<<<"ThisTargetedPlayer">>>>}

find_team_anthem_payoffs(cmdr, card, ctx) ==
    LET found(e, cond) == When(cond, {Complement("team_anthem_payoff", "team_anthem", e, "")})
    IN  When("team_anthem_payoff" \in ctx.flags /\ commander_has_team_anthem_static(Rows(cmdr)),
             FirstFound(<<found("token_doubler", \E p \in Rows(card) : is_own_board_token_multiplier(p)),
                          found("token_producer", \E p \in Rows(card) : MakesCreature(p) /\ token_lands_on_own_board(p))>>))

-----------------------------------------------------------------------------
ZONE_EFFECT_EVENTS == {"Token", "ChangeZone", "ChangeZoneAll", "CopyPermanent", "Animate"}
ENTERING_TYPES     == {"Creature", "Artifact", "Enchantment", "Land", "Planeswalker"}

\* The tokens of a script that are not of the commander's own tribe.
ForeignTokens(cmdr) ==
    {p \in Rows(cmdr) : /\ Is(p, "effect", {"Token"}) /\ HasClause(p, "TokenScript")
                        /\ token_subtype(Clause(p, "TokenScript")) \notin {""} \cup cmdr.subs}

\* The (type, zone) pairs of what the commander's effects put somewhere.
cmdr_produces(cmdr) ==
    LET effects == {p \in Rows(cmdr) : Is(p, "effect", ZONE_EFFECT_EVENTS)}
        zone(p) == IF p.dest = "" THEN "Battlefield" ELSE p.dest
        artifact(p) == LET parts == Fused(Clause(p, "TokenScript")) IN Len(parts) >= 4 /\ parts[4] = "a"
    IN  UNION {{<<b, zone(p)>> : b \in Bases(p.filter) \cap ENTERING_TYPES} : p \in {q \in effects : q.event # "Token"}}
        \cup When(\E p \in effects : p.event = "Token" /\ artifact(p), {<<"Artifact", "Battlefield">>})
        \cup When(ForeignTokens(cmdr) # {}, {<<"Creature", "Battlefield">>})

\* A creature that triggers on creatures without "Other" may only see itself.
fed_entry(cmdr, card, p) ==
    LET ownEntry(base) == /\ base = "Creature" /\ ForeignTokens(cmdr) # {}
                          /\ ~Mentions(p.filter, "Other") /\ IsCreature(card)
        fed(base) == /\ \E made \in cmdr_produces(cmdr) : made[1] = base /\ p.dest \in {"", "Any", made[2]}
                     /\ ~ownEntry(base)
        found(base) == When(fed(base), {Complement("effect_feeds_trigger", "Token_" \o base, "ChangesZone_" \o base, "")})
    IN  FirstOf(p.filter, LAMBDA alt : found(Base(alt)))

find_effect_feeds_etb(cmdr, card) ==
    FirstOf(card.ports, LAMBDA p :
        When(Is(p, "trigger", {"ChangesZone"}) /\ p.filter # <<>> /\ ~trigger_only_matches_self(p.filter),
             fed_entry(cmdr, card, p)))

\* What a generic token is not.
TOKEN_PRODUCER_REJECTING_FRAGMENTS == {"Legendary", "withDefender", "faceDown", "attacking", "cmcGE5", "cmcEQ"}

WatchesTokens(p) ==
    /\ Is(p, "trigger", {"ChangesZone"}) /\ p.filter # <<>> /\ ~trigger_only_matches_self(p.filter)
    /\ p.dest = "Battlefield" /\ ~Mentions(p.filter, "!token")
    /\ ~MentionsAny(<<p.filter[1]>>, TOKEN_PRODUCER_REJECTING_FRAGMENTS)

MakesTokens(card) == HasPort(Rows(card), "effect", {"Token"})

find_token_producers_for_trigger(cmdr, card) ==
    When((\E p \in Rows(cmdr) : WatchesTokens(p) /\ "Creature" \in Bases(p.filter)) /\ MakesTokens(card),
         {Complement("token_producer", "ChangesZone_Creature", "Token", "")})

has_creature_pump(P) ==
    \E p \in P : /\ Is(p, "static", {"Continuous"}) /\ p.raw \cap {"'AddPower'", "'AddToughness'"} # {}
                 /\ "Creature.YouCtrl" \in p.raw \/ \E i \in DOMAIN p.scope : IsPrefix(<<"Creature", "YouCtrl">>, p.scope[i])

AttachmentSupport(card) ==
    LET attachment(S) == S \cap {"Aura", "Equipment"} # {}
    IN  \E p \in Rows(card) :
            \/ Is(p, "trigger", {"SpellCast"}) /\ attachment(Tokens(p.filter))
            \/ Is(p, "static", {"ReduceCost", "CastWithFlash"}) /\ attachment(p.raw)
            \/ Is(p, "trigger", {"ChangesZone"}) /\ attachment(Tokens(p.filter)) /\ p.dest = "Battlefield"

\* A card is a token producer or an attachment, not both; the other two pools are
\* independent of these.
find_static_strategy(cmdr, card) ==
    LET P == Rows(cmdr)
        found(rule, ev, e, cond) == When(cond, {Complement(rule, ev, e, "")})
    IN  FirstFound(<<found("token_producer", "creature_pump", "Token", has_creature_pump(P) /\ MakesTokens(card)),
                     found("voltron", "self_protection", "Aura_Equipment",
                           HasPort(P, "keyword", {"Hexproof", "Shroud", "Exalted"}) /\ card.subs \cap {"Aura", "Equipment"} # {})>>)
        \cup found("exalted_density", "exalted", "exalted_keyword", \A C \in {P, Rows(card)} : HasPort(C, "keyword", {"Exalted"}))
        \cup found("aura_equipment_support", "attachment_scaling", "aura_equipment_enabler",
                   /\ \E p \in P : p.type = "scales_with" /\ Mentions(p.filter, "Equipment")
                   /\ AttachmentSupport(card))

find_token_etb_damage(cmdr, card) ==
    When((\E p \in Rows(cmdr) : Is(p, "effect", {"Token"}) /\ p.branch = "execute") /\ token_etb_damage(card),
         {Complement("token_etb_damage", "token_producer", "etb_damage", "")})

-----------------------------------------------------------------------------
VALUABLE_EFFECTS == {"Draw", "Destroy", "DestroyAll", "Token", "GainControl", "DealDamage", "DamageAll", "PutCounter",
                     "Mill", "Dig", "ChangeZone", "Sacrifice", "SacrificeAll", "Mana", "LoseLife", "GainLife"}

panharmonicon_statics(card) == {p \in Rows(card) : Is(p, "static", {"Panharmonicon"})}
DoubledModes(p) == Bases(Clause(p, "ValidMode")) \ {""}

\* The triggers a commander doubles; the last of its ports that restricts the
\* destination of a mode is the one that counts.
find_panharmonicon_complements(cmdr, card) ==
    LET doublers == SelectSeq(cmdr.ports, LAMBDA p : p.event = "Panharmonicon" /\ HasClause(p, "ValidMode"))
        modes    == UNION {DoubledModes(p) : p \in ToSet(doublers)}
        zoned(ev) == SelectSeq(doublers, LAMBDA p : ev \in DoubledModes(p) /\ HasClause(p, "Destination"))
        fits(p) == p.dest = "" \/ zoned(p.event) = <<>> \/ <<<<p.dest>>>> = Clause(Last(zoned(p.event)), "Destination")
        doubled == SelectSeq(card.ports, LAMBDA p : Is(p, "trigger", modes) /\ fits(p))
        worth   == SelectSeq(card.ports, LAMBDA p : Is(p, "effect", VALUABLE_EFFECTS))
        infix(p) == IF trigger_only_matches_self(p.filter) THEN "_etb_" ELSE "_"
    IN  When(doubled # <<>> /\ worth # <<>>,
             {Complement("panharmonicon", "Panharmonicon_" \o doubled[1].event,
                         doubled[1].event \o infix(doubled[1]) \o worth[1].event, "")})

\* A doubler that names a subtype of the commander; without a mode it doubles all.
find_reverse_panharmonicon(cmdr, card) ==
    LET events == {p.event : p \in {q \in Rows(cmdr) : q.type = "trigger"}} \ {""}
        doubles(p) == /\ Bases(Clause(p, "ValidCard")) \cap cmdr.subs # {}
                      /\ ~HasClause(p, "ValidMode") \/ DoubledModes(p) \cap (events \cup {"any"}) # {}
    IN  When(events # {} /\ \E p \in panharmonicon_statics(card) : doubles(p),
             {Complement("panharmonicon", "reverse_panharmonicon", "doubles_cmdr_triggers", "")})

find_panharmonicon_stacking(cmdr, card) ==
    LET modes(c) == UNION {DoubledModes(p) : p \in panharmonicon_statics(c)}
    IN  When(modes(cmdr) \cap modes(card) # {}, {Complement("panharmonicon", "Panharmonicon_stack", "Panharmonicon", "")})
=============================================================================

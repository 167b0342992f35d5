--------------------------- MODULE GraveyardRules ---------------------------
(***************************************************************************)
(* complement_rules/graveyard.py: filling a graveyard, replaying from it,  *)
(* recycling artifacts, copying, and payoffs for creatures that die.       *)
(***************************************************************************)
EXTENDS CombatRules

SPELL_ONLY_TYPES          == {"Instant", "Sorcery"}
NON_CREATURE_RECAST_TYPES == {"Instant", "Sorcery", "Artifact", "Enchantment", "Land", "Planeswalker", "Battle"}
VALUABLE_SAC_EFFECTS      == {"Mana", "Draw", "Destroy", "GainLife", "ChangeZone", "Token", "Mill", "DealDamage", "PutCounter"}
GRAVEYARD_REPLAY_KEYWORDS == {"Unearth", "Embalm", "Eternalize", "Encore", "Escape", "Flashback", "Jump-start"}

Replays(p)       == Is(p, "static", {"Continuous"}) /\ {"'MayPlay'", "'Graveyard'"} \subseteq p.raw
FromGraveyard(p) == Is(p, "effect", {"ChangeZone"}) /\ p.origin = "Graveyard"

wants_graveyard(P) ==
    \E p \in P : FromGraveyard(p) \/ Replays(p) \/ Is(p, "scales_with", {"CardsInGraveyard"})

extract_recast_types(P) ==
    {b \in UNION {Bases(Clause(p, "Affected")) : p \in {q \in P : Replays(q)}} : IsWord(b) /\ b # "Card"}

\* Gives a replay keyword to the creature cards of the graveyard.
has_graveyard_replay_static(P) ==
    \E p \in P : /\ Is(p, "static", {"Continuous"}) /\ {"Creature", "'AffectedZone': 'Graveyard'"} \subseteq p.raw
                 /\ p.raw \cap GRAVEYARD_REPLAY_KEYWORDS # {}

\* TriggeredCard is a card of the opponent.
wants_gy_fill(P) ==
    \/ \E p \in P : FromGraveyard(p) /\ p.dest = "Battlefield" /\ p.filter # <<<<"TriggeredCard">>>>
    \/ extract_recast_types(P) \ NON_CREATURE_RECAST_TYPES # {}
    \/ has_graveyard_replay_static(P)

self_mill(card) ==
    SomeRow(card, "effect", {"Mill", "DigUntil", "Surveil"}, LAMBDA p :
        \/ MentionsAny(p.filter, {"YouCtrl", "YouOwn"})
        \/ p.filter # <<>> /\ p.filter[1] # <<>> /\ p.filter[1][1] = "You")
self_discard(card) ==
    SomeRow(card, "effect", {"Discard"}, LAMBDA p :
        /\ p.filter = <<>> \/ MentionsAny(p.filter, {"You", "YouCtrl", "YouOwn", "Each"})
        /\ ~MentionsAny(p.filter, {"OppCtrl", "OppOwn", "Opponent"}))

\* A filler is found under the first of the four shapes; the spells a commander
\* recasts come last.
find_graveyard_fillers(cmdr, card) ==
    LET P == Rows(cmdr)
        filler(e, cond) == When(cond, {Complement("trigger_effect", "graveyard_filler", e, "")})
        fill(e, cond)   == filler(e, wants_gy_fill(P) /\ cond)
        recast == {Complement("spell_density", "graveyard_cast", t, "") :
                      t \in extract_recast_types(P) \cap SPELL_ONLY_TYPES \cap card.types}
    IN  When(wants_graveyard(P),
             FirstFound(<<filler("self_mill", self_mill(card)), fill("entomb", gy_loader(card)),
                          fill("self_discard", self_discard(card)),
                          fill("discard_cost", HasPort(Rows(card), "cost", {"discard"})), recast>>))

\* A trigger on entering the battlefield oneself, beside an effect of value.
SelfEtb(card, effects) ==
    /\ SomeRow(card, "trigger", {"ChangesZone"}, LAMBDA p :
           p.dest = "Battlefield" /\ \E i \in DOMAIN p.filter : SelfAlt(p.filter[i]))
    /\ HasPort(Rows(card), "effect", effects)

find_artifact_recursion(cmdr, card) ==
    LET P == Rows(cmdr)
        recur == \E p \in P : FromGraveyard(p) /\ Mentions(p.filter, "Artifact")
        copy  == \E p \in P : /\ Is(p, "effect", {"CopyPermanent"})
                              /\ Mentions(p.filter, "Artifact") \/ "Artifact" \in p.raw
        event == IF recur THEN "graveyard_artifact" ELSE "copy_artifact"
        found(ev, e, cond) == When(cond, {Complement("artifact_recursion", ev, e, "")})
    IN  When((recur \/ copy) /\ "Artifact" \in card.types,
             FirstFound(<<found("graveyard_artifact", "sac_artifact", HasPort(Rows(card), "cost", {"sacrifice"})),
                          found(event, "etb_artifact", SelfEtb(card, {"Draw", "Destroy", "Token", "DealDamage", "Mana"})),
                          found(event, "artifact_land", "Land" \in card.types)>>))

find_copy_synergy(cmdr, card) ==
    LET copies   == {p \in Rows(cmdr) : Is(p, "effect", {"CopyPermanent"})}
        populate == \E p \in copies : "'Populate'" \in p.raw
        creature == \E p \in copies : Mentions(p.filter, "Creature") \/ "Creature" \in p.raw
        found(rule, ev, e, cond) == When(cond, {Complement(rule, ev, e, "")})
    IN  FirstFound(<<
            found("copy_synergy", "CopyPermanent_populate", "Token", populate /\ HasPort(Rows(card), "effect", {"Token"})),
            found("populate_stack", "CopyPermanent_populate", "populate_stack",
                  populate /\ SomeRow(card, "effect", {"CopyPermanent"}, LAMBDA p : {"'Populate'", "True"} \subseteq p.raw)),
            found("copy_synergy", "CopyPermanent_creature", "etb_creature",
                  creature /\ IsCreature(card) /\ SelfEtb(card, {"Draw", "Destroy", "DestroyAll", "Token", "GainControl",
                                                                 "DealDamage", "ChangeZone", "Mana"}))>>)

SelfRecursion(p) == FromGraveyard(p) /\ ~Mentions(p.filter, "TriggeredCard")
wants_graveyard_recursion(P) == \E p \in P : SelfRecursion(p) \/ Replays(p)

\* Replaying only instants and sorceries has no use for permanents.
find_graveyard_sac_value(cmdr, card) ==
    LET P == Rows(cmdr)
        permanents == \E p \in P :
            \/ SelfRecursion(p)
            \/ /\ Replays(p)
               /\ \/ ~HasClause(p, "Affected")
                  \/ Bases(Clause(p, "Affected")) \ (SPELL_ONLY_TYPES \cup {"Card", ""}) # {}
    IN  When(/\ wants_graveyard_recursion(P) /\ permanents
             /\ HasPort(Rows(card), "cost", {"sacrifice"}) /\ HasPort(Rows(card), "effect", VALUABLE_SAC_EFFECTS),
             {Complement("graveyard_play", "replays_from_gy", "self_sacrifice", "")})

\* A doubler of death triggers, or a trigger on a creature, a permanent, a creature
\* subtype or a card with +1/+1 counters that dies.
DiesAlt(alt) ==
    LET main == Bare(Base(alt))
    IN  CASE main \in {"", "Self"} -> FALSE
          [] main = "Card" -> "Self" \notin ToSet(alt) /\ Mentions(<<alt>>, "counters_GE1_P1P1")
          [] main \in {"Creature", "Permanent"} -> TRUE
          [] OTHER -> classify_attr_token(main) \notin {"type", "supertype", "controller"}

has_creature_dies_trigger(P) ==
    \E p \in P :
        \/ /\ Is(p, "static", {"Panharmonicon"})
           /\ {"'Origin':'Battlefield'", "'Destination':'Graveyard'", "'ValidCause':'Creature'"} \subseteq p.raw
        \/ /\ Is(p, "trigger", {"ChangesZone"}) /\ p.origin = "Battlefield" /\ p.dest = "Graveyard"
           /\ \E i \in DOMAIN p.filter : DiesAlt(p.filter[i])

find_dies_drain(cmdr, card) ==
    When(has_creature_dies_trigger(Rows(cmdr)) /\ dies_drain(card),
         {Complement("dies_drain", "creature_dies", "dies_payoff", "")})

find_gy_loader(cmdr, card) ==
    When(wants_gy_fill(Rows(cmdr)) /\ gy_loader(card),
         {Complement("gy_loader", "reanimator", "library_to_gy_tutor", "")})
=============================================================================

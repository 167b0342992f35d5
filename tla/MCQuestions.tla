----------------------------- MODULE MCQuestions ----------------------------
(* Ports in the shape the importer writes them, grouped by what a commander is *)
(* about.  Each family has the candidates its helpers look for and one or two  *)
(* near misses.                                                               *)
EXTENDS MCBenchVerdicts, RuleQuestions, RuleInterpreter, RuleSeeding

\* The four groups of questions side by side.
QuestionSpec ==
    /\ Init \/ RuleInit \/ QueryInit \/ TableInit
    /\ [][Next \/ RuleNext \/ QueryNext \/ TableNext]_vars

Filtered(t, e, f)   == [Port(t, e) EXCEPT !.filter = f]
Trigger(e, f)       == Filtered("trigger", e, f)
Effect(e, f)        == Filtered("effect", e, f)
Zone(f, o, d)       == [Trigger("ChangesZone", f) EXCEPT !.origin = o, !.dest = d]
Move(f, o, d)       == [Effect("ChangeZone", f) EXCEPT !.origin = o, !.dest = d]
Ability(e, raw)      == [Port("static", e) EXCEPT !.raw = raw]
Keyword(k)          == [Port("keyword", k) EXCEPT !.kw = k]
Cost(e, target, subject) == [Port("cost", e) EXCEPT !.target = target, !.subtype = subject]
Counter(e, f, c)    == [Effect(e, f) EXCEPT !.counter = c]
Replaces(e, result) == [Port("replacement", e) EXCEPT !.repl = e, !.result = result]
Scales(e, f)        == Filtered("scales_with", e, f)
With(p, c, f)       == [p EXCEPT !.clause = [x \in DOMAIN @ \cup {c} |-> IF x = c THEN f ELSE @[x]]]

Self    == <<<<"Card", "Self">>>>
Yours   == <<<<"Creature", "YouCtrl">>>>
OthersOfYours == <<<<"Creature", "Other", "YouCtrl">>>>
You     == <<<<"You">>>>
Opp     == <<<<"Opponent">>>>

CreatureCard(ports)  == Card("creature", {"Creature"}, {"Wizard"}, ports)
ArtifactCard(ports)  == Card("artifact", {"Artifact"}, {}, ports)
SpellCard(ports)     == Card("spell", {"Instant"}, {}, ports)
LandCard(ports)      == Card("land", {"Land"}, {}, ports)
Insects == <<<<"g", "1", "1", "Insect">>>>
TokenOf(scripts) == With(Effect("Token", You), "TokenScript", scripts)

Family(subs, ports, cards) == [subs |-> subs, ports |-> ports, cards |-> cards]

DeathFamily ==
    Family({}, {Zone(OthersOfYours, "Battlefield", "Graveyard"), Zone(<<<<"Artifact", "YouCtrl">>>>, "Battlefield", "Graveyard"),
                Trigger("Sacrificed", <<<<"Creature", "OppCtrl">>>>), Zone(Self, "Battlefield", "Graveyard"),
                Zone(<<<<"Creature", "counters_GE1_P1P1", "YouCtrl">>>>, "Battlefield", "Graveyard"),
                Cost("sacrifice", "any", "Creature"), Trigger("Sacrificed", Yours)},
           {CreatureCard(<<Cost("sacrifice", "self", "CARDNAME"), Effect("Draw", You)>>),
            ArtifactCard(<<With(Effect("Sacrifice", Opp), "SacValid", <<<<"Artifact">>>>), Cost("sacrifice", "any", "Artifact"),
                           Trigger("Sacrificed", <<<<"Creature">>>>)>>),
            CreatureCard(<<[Zone(Yours, "Battlefield", "Graveyard") EXCEPT !.exec = "TrigDrain"],
                           [Effect("LoseLife", <<<<"Player", "Opponent">>>>) EXCEPT !.svar = "TrigDrain"], Keyword("Undying")>>)})

EntryFamily ==
    Family({}, {Zone(OthersOfYours, "", "Battlefield"), Zone(<<<<"Artifact", "YouCtrl">>, <<"Enchantment", "YouCtrl">>>>, "", "Battlefield"),
                Zone(<<<<"Wizard", "YouCtrl">>>>, "", "Battlefield"), Zone(<<<<"Permanent", "YouCtrl">>, <<"Creature", "YouCtrl">>>>, "", "Battlefield"),
                Zone(Self, "", "Battlefield"), TokenOf(Insects), Effect("Dig", <<>>),
                Move(Yours, "Battlefield", "Exile"), Move(<<>>, "Exile", "Battlefield")},
           {CreatureCard(<<Zone(Self, "", "Battlefield"), Effect("Draw", You)>>),
            ArtifactCard(<<TokenOf(Insects)>>), ArtifactCard(<<TokenOf(Insects), Ability("DisableTriggers", {})>>),
            CreatureCard(<<Zone(Yours, "", "Battlefield"), Effect("DealDamage", Opp)>>),
            SpellCard(<<Move(Yours, "Battlefield", "Exile"), Move(<<>>, "Exile", "Battlefield")>>)})

SpellFamily ==
    Family({}, {Trigger("SpellCast", <<<<"Instant">>, <<"Sorcery">>>>), Trigger("SpellCast", <<<<"Card", "nonCreature">>>>),
                Trigger("SpellCast", <<<<"Wizard">>>>), Ability("Continuous", {"'Conspire'"}), Ability("ReduceCost", {"Creature"}),
                Scales("xPaid", <<>>)},
           {SpellCard(<<Effect("Draw", You)>>), [CreatureCard(<<Trigger("SpellCast", <<<<"Instant">>>>)>>) EXCEPT !.cmc = 6],
            ArtifactCard(<<With(With(With(Ability("ReduceCost", {}), "ValidCard", <<<<"Card">>>>), "Type", <<<<"Spell">>>>), "Amount", <<<<"1">>>>)>>),
            CreatureCard(<<Replaces("ProduceMana", "ProduceTwice")>>)})

CounterFamily ==
    Family({}, {[Trigger("CounterAdded", Yours) EXCEPT !.counter = "P1P1"], Counter("PutCounter", OthersOfYours, "P1P1"),
                Counter("Proliferate", <<>>, ""), Scales("YourCountersExperience", <<>>), Scales("CardCounters.P1P1", <<>>),
                Trigger("Attacks", <<<<"Creature", "counters_GE1_P1P1", "YouCtrl">>>>), Trigger("Attacks", <<<<"Creature", "modified", "YouCtrl">>>>)},
           {CreatureCard(<<Counter("Proliferate", <<>>, ""), Trigger("CounterAdded", Yours)>>), ArtifactCard(<<[Replaces("AddCounter", "AddOneMoreCounters") EXCEPT !.raw = {"P1P1"}]>>),
            CreatureCard(<<Keyword("Modular"), Counter("PutCounter", <<<<"Self">>>>, "P1P1")>>),
            CreatureCard(<<Counter("PutCounter", Yours, "P1P1"), Cost("sacrifice", "self", "CARDNAME")>>)})

CombatFamily ==
    Family({}, {Trigger("Attacks", Self), Trigger("Attacks", Yours), [Trigger("DamageDone", Yours) EXCEPT !.combat = TRUE, !.raw = {"'CombatDamage': 'True'"}],
                Effect("Mana", <<>>), Effect("PumpAll", <<<<"Creature", "attacking">>>>), Keyword("Exalted"),
                Ability("Panharmonicon", {"Attacks", "'ValidCause':'Creature'"})},
           {CreatureCard(<<Effect("AddPhase", <<>>)>>), CreatureCard(<<With(Ability("CantBlockBy", {}), "ValidAttacker", <<<<"Creature", "Self">>>>)>>),
            CreatureCard(<<Keyword("Flying"), Keyword("Exalted"), Trigger("Attacks", Self), Effect("Mana", <<>>)>>),
            Card("sword", {"Artifact"}, {"Equipment"}, <<With(Ability("Continuous", {}), "AddPower", <<<<"3">>>>)>>)})

GraveyardFamily ==
    Family({}, {Move(<<<<"Creature", "YouOwn">>>>, "Graveyard", "Battlefield"), Effect("Mill", You),
                With(Ability("Continuous", {"'MayPlay'", "'Graveyard'"}), "Affected", <<<<"Instant", "YouOwn">>>>),
                With(Ability("Continuous", {"'MayPlay'", "'Graveyard'", "Land"}), "Affected", <<<<"Land", "YouOwn">>>>),
                Cost("discard", "any", "Land"), Zone(<<<<"Land", "YouOwn">>>>, "", "Graveyard"), Cost("exile_from_grave", "any", "")},
           {CreatureCard(<<With(With(Effect("Mill", You), "Defined", You), "NumCards", <<<<"3">>>>), Cost("sacrifice", "self", "CARDNAME"), Effect("Draw", You)>>),
            SpellCard(<<Move(<<<<"Card", "YouOwn">>>>, "Library", "Graveyard"), Keyword("Retrace")>>),
            LandCard(<<Ability("Continuous", {"'MayPlay'", "'Graveyard'", "Land"}), Cost("sacrifice", "any", "Land")>>),
            SpellCard(<<Move(<<<<"Land", "YouOwn">>>>, "Graveyard", "Hand"), Keyword("Dredge")>>)})

ManaFamily ==
    Family({}, {Cost("tap", "", ""), Effect("Mana", <<>>), Effect("Untap", Yours), Trigger("TapsForMana", <<<<"Land", "YouCtrl">>>>),
                With(Cost("tap_type", "other", ""), "tapXType", <<<<"Creature", "Other">>>>), Zone(<<<<"Land", "YouCtrl">>>>, "", "Battlefield"),
                Cost("return", "any", "Land"), Ability("Continuous", {"AdjustLandPlays"}),
                With(With(Ability("Continuous", {}), "Affected", Yours), "AddType", <<<<"Land">>>>)},
           {CreatureCard(<<Cost("tap", "", ""), [Effect("Mana", <<>>) EXCEPT !.raw = {"EachColorAmong"}], Effect("Untap", Yours)>>), ArtifactCard(<<Effect("UntapAll", <<<<"Artifact", "YouCtrl">>>>)>>),
            ArtifactCard(<<Replaces("ProduceMana", "ProduceTwice"), Ability("UntapOtherPlayer", {"Creature"})>>),
            CreatureCard(<<Ability("Continuous", {"AdjustLandPlays"}), Zone(<<<<"Land", "YouCtrl">>>>, "", "Battlefield")>>)})

ResourceFamily ==
    Family({}, {Scales("LifeYouGainedThisTurn", <<>>), Scales("YourLifeTotal", <<>>), With(Scales("ValidHand Card.YouOwn", <<>>), "ValidHand", <<<<"X">>>>),
                With([Replaces("GainLife", "GainDouble") EXCEPT !.raw = {"GainDouble"}], "ValidPlayer", You), Scales("CardPower", <<>>),
                Scales("ThisTurnEntered_Graveyard_from_Battlefield_Creature", <<>>), Scales("Valid", Yours),
                Scales("Valid", <<<<"Equipment", "YouCtrl">>>>)},
           {CreatureCard(<<With([Replaces("GainLife", "GainDouble") EXCEPT !.raw = {"GainDouble"}], "ValidPlayer", You), Scales("YourLifeTotal", <<>>)>>),
            CreatureCard(<<Zone(Yours, "", "Battlefield"), Effect("GainLife", You), Ability("Continuous", {"'SetMaxHandSize': 'Unlimited'"})>>),
            Card("sword", {"Artifact"}, {"Equipment"}, <<With(Ability("Continuous", {}), "AddPower", <<<<"X">>>>), Ability("ReduceCost", {"Equipment"}), Scales("ThisTurnEntered_Graveyard_from_Battlefield_Creature", <<>>)>>)})

DamageFamily ==
    Family({}, {Replaces("DamageDone", "DmgTwice"), With(Replaces("DamageDone", "DmgPlus1"), "ValidTarget", Yours), Trigger("Drawn", <<<<"Player", "Opponent">>>>),
                Trigger("Discarded", <<<<"Card", "OppOwn">>>>), Trigger("Sacrificed", <<<<"Permanent", "Other">>>>), Effect("Token", You), Trigger("DamageDone", OthersOfYours)},
           {CreatureCard(<<Trigger("SpellCast", <<<<"Instant">>>>), Effect("DealDamage", Opp)>>), ArtifactCard(<<Replaces("DamageDone", "DmgTwice"), Effect("Sacrifice", Opp)>>),
            SpellCard(<<With(Effect("Discard", Opp), "Mode", <<<<"Hand">>>>), Effect("Draw", <<<<"Player">>>>), Replaces("DamageDone", "Prevent")>>)})

TribeFamily ==
    Family({"Goblin"}, {[Ability("Continuous", {"'AddPower'"}) EXCEPT !.scope = <<<<"Creature", "Goblin", "YouCtrl">>>>], TokenOf(<<<<"r", "1", "1", "Goblin">>>>),
                Keyword("Haste"), [Ability("Continuous", {"'AddPower'"}) EXCEPT !.scope = Yours], Zone(<<<<"Goblin", "YouCtrl">>>>, "Battlefield", "Graveyard"),
                Keyword("Hexproof"), [Keyword("Affinity") EXCEPT !.subtype = "Artifact"], [Keyword("Affinity") EXCEPT !.subtype = "Enchantment"]},
           {Card("goblin", {"Creature"}, {"Goblin"}, <<Keyword("Haste")>>),
            CreatureCard(<<[Ability("Continuous", {"'AddPower'"}) EXCEPT !.scope = <<<<"Creature", "Goblin", "Other", "YouCtrl">>>>], TokenOf(<<<<"r", "1", "1", "Goblin">>>>)>>),
            Card("aura", {"Enchantment"}, {"Aura"}, <<Replaces("CreateToken", "DoubleToken")>>),
            [ArtifactCard(<<>>) EXCEPT !.cmc = 1]})

CopyFamily ==
    Family({}, {[Effect("CopyPermanent", Yours) EXCEPT !.raw = {"'Populate'", "True"}], [TokenOf(Insects) EXCEPT !.branch = "execute"],
                With(With(Ability("Panharmonicon", {}), "ValidMode", <<<<"ChangesZone">>>>), "Destination", <<<<"Battlefield">>>>), Keyword("Cascade"),
                [Ability("AlternateMode", {}) EXCEPT !.kw = "Prepare"], With(Move(<<>>, "Hand", "Battlefield"), "ChangeType", <<<<"Creature">>>>),
                Move(<<<<"Artifact", "YouOwn">>>>, "Graveyard", "Hand"), Zone(Yours, "", "Battlefield")},
           {[CreatureCard(<<Zone(Self, "", "Battlefield"), Effect("Draw", You), TokenOf(Insects)>>) EXCEPT !.cmc = 7],
            CreatureCard(<<With(With(Ability("Panharmonicon", {}), "ValidMode", <<<<"ChangesZone">>>>), "ValidCard", <<<<"Wizard">>>>), Zone(Yours, "", "Battlefield"), Effect("DealDamage", Opp)>>),
            ArtifactCard(<<Cost("sacrifice", "self", "CARDNAME"), [Ability("AlternateMode", {}) EXCEPT !.kw = "Prepare"],
                           [Effect("CopyPermanent", Yours) EXCEPT !.raw = {"'Populate'", "True"}]>>)})

VoteFamily == Family({}, {Trigger("Vote", <<>>)}, {SpellCard(<<Effect("Vote", <<>>)>>)})

MCFamilies == {VoteFamily, DeathFamily, EntryFamily, SpellFamily, CounterFamily, CombatFamily, GraveyardFamily, ManaFamily,
               ResourceFamily, DamageFamily, TribeFamily, CopyFamily}

MCFlags == {"tribal_payoff_tier", "team_anthem_payoff", "death_outlet_feeder", "attack_reward_evasion", "x_cost_scaler",
            "aristocrats_death_bridge", "pathway"}
MCVocab == {"Insect", "Goblin"}
MCContexts == {[flags |-> {}, cache |-> {}], [flags |-> MCFlags, cache |-> MCFlags]}

\* Triggers with a mapped, an unmapped and a catch-all event, with and without a zone.
MCGraphCards ==
    {CreatureCard(<<Zone(Yours, "", "Graveyard")>>), CreatureCard(<<Trigger("LifeGained", <<>>), Effect("Mill", <<>>)>>),
     CreatureCard(<<Trigger("Mill", <<>>)>>), SpellCard(<<Effect("GainLife", You), Move(<<>>, "Battlefield", "Graveyard")>>),
     SpellCard(<<Trigger("SpellCast", <<>>), Cost("sacrifice", "any", "")>>), ArtifactCard(<<Trigger("Sacrificed", Self), Effect("Token", <<>>)>>)}

MCLeaves ==
    {Leaf("has_port", <<<<"type", "effect">>, <<"event", "Draw">>>>), Leaf("has_port", <<<<"type", "keyword">>>>),
     Leaf("filter_tag", <<<<"filter", "Token">>>>), Leaf("zone_eq", <<<<"dest", "Graveyard">>>>),
     Leaf("not_in_commander_set", <<>>)}

MCQueryRows ==
    {[name |-> n, port |-> p] : n \in {"commander", "partner", "card"},
     p \in {Effect("Draw", <<>>), Effect("Draw", <<<<"Creature", "token">>>>), Keyword("Flying"), Zone(<<<<"Creature", "Token">>>>, "", "Graveyard")}}
MCCommanderSets == {<<>>, <<"commander">>, <<"commander", "partner">>}

MCBodies == {"old", "new", "bad"}
=============================================================================

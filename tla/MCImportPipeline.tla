-------------------------- MODULE MCImportPipeline --------------------------
(* Three cards in every order: a carrier, a spell and a third that may carry  *)
(* too, refer to itself, not parse, or have the spell's oracle id.            *)
EXTENDS ImportPipeline

CONSTANTS carrier, spell, third

Orders == {<<carrier, spell, third>>, <<spell, carrier, third>>, <<third, spell, carrier>>,
           <<third, carrier, spell>>, <<spell, third, carrier>>, <<carrier, third, spell>>}

References == {[c \in Names |-> IF c = carrier THEN spell ELSE IF c = third THEN r ELSE NoCard] :
                  r \in {NoCard, spell, third}}

Ports(kinds) == [k \in Kinds |-> Cardinality({j \in DOMAIN kinds : kinds[j] = k})]

Natives == {[c \in Names |-> Ports(IF c = carrier THEN <<"trigger", Marker>>
                                   ELSE IF c = spell THEN <<"draw", Marker, "draw">> ELSE p)] :
                  p \in {<<>>, <<"static">>}}

Oracles == {[c \in Names |-> c], [c \in Names |-> NoCard],
            [c \in Names |-> IF c = third THEN spell ELSE c]}

MCUniverses == [order : Orders, bad : {{}, {spell}, {third}}, native : Natives,
                ref : References, oracle : Oracles]

\* The spell carries the third card's face, and in the second the third the carrier's.
MCChained == [order : Orders, bad : {{}}, native : Natives,
              ref : {[c \in Names |-> IF c = carrier THEN spell ELSE IF c = spell THEN third ELSE NoCard]},
              oracle : {[c \in Names |-> c]}]
=============================================================================

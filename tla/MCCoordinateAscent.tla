------------------------- MODULE MCCoordinateAscent -------------------------
(* Two rules whose weights double and halve between 1 and 4, and every pair *)
(* of quadratic train and held-out surfaces with coefficients in -1..1.  A  *)
(* surface with a cross term makes the best weight of one rule depend on    *)
(* the other's, so a later sweep can undo what an earlier one did.  The     *)
(* composite weighs the two axes alike (alpha 1/2), and where no commander  *)
(* has a gem it is half the NDCG.                                           *)
EXTENDS CoordinateAscent

CONSTANTS a, b

MCRuleKeys == <<a, b>>
MCBaseline == [r \in {a, b} |-> IF r = a THEN 1 ELSE 2]
MCGrid     == << <<1, 2>>, <<2, 1>> >>

Surface(x, y, d) ==
    [w \in Weights |-> x * w[a] + y * w[b] + d * (w[a] - w[b]) * (w[a] - w[b])]

Coefficients == (-1..1) \X (-1..1) \X (-1..1)

Composite(c) == Surface(c[1], c[2], c[3])

\* The axes of a composite; under a flat one no commander has a gem.
Flat    == <<0, 0, 0>>
NoGems  == [w \in Weights |-> NoGem]
Gem(c)  == IF c = Flat THEN NoGems ELSE Surface(1, 3, 0)
Ndcg(c) == IF c = Flat THEN Surface(0, 0, 0)
           ELSE Surface(2 * c[1] - 1, 2 * c[2] - 3, 2 * c[3])

Scores(t, h) ==
    [train |-> Composite(t), trainNdcg |-> Ndcg(t), trainGem |-> Gem(t),
     held  |-> Composite(h), heldNdcg  |-> Ndcg(h), heldGem  |-> Gem(h)]

MCObjectives == {Scores(t, h) : t, h \in Coefficients}

\* A train split on which rule a climbs to 4 and returns to 2 once b has moved.
Preference == << <<1, 1>>, <<2, 1>>, <<4, 1>>, <<4, 2>>, <<4, 4>>, <<2, 4>> >>

Rank(w) == LET S == {i \in DOMAIN Preference : Preference[i] = <<w[a], w[b]>>}
           IN  IF S = {} THEN 0 ELSE CHOOSE i \in S : TRUE

MCOnes == [r \in {a, b} |-> 1]

Preferred == [w \in Weights |-> Rank(w)]

MCReturning == {[Scores(<<0, 0, 0>>, <<0, 0, 0>>) EXCEPT !.train = Preferred, !.trainNdcg = Preferred]}
=============================================================================

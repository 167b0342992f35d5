------------------------------ MODULE SelfTest ------------------------------
(***************************************************************************)
(* The planted-perturbation self-test of bench/optimize.py: before a run,  *)
(* one live rule's weight is doubled (or halved, if doubling is clamped    *)
(* away), the grid is swept once from there, and the run is refused unless *)
(* the best cell brings the weight back to within 5% of the baseline.      *)
(* Weights are in units of 1/400, so that every grid cell is an integer.   *)
(* A data set is a record                                                  *)
(*   order     the rules as random.Random(seed).shuffle left them          *)
(*   baseline  baseline_weights                                            *)
(*   shape     how the train score depends on a rule's weight: "peaked" at *)
(*             the baseline, "flat" or "rising"                            *)
(*   dead      rules that fire on no train commander                       *)
(***************************************************************************)
EXTENDS Integers, Sequences

CONSTANTS
    Grid,  \* config.grid, in quarters
    ClampMin, ClampMax

Distance(x, y) == IF x < y THEN y - x ELSE x - y

Clamp(x) == IF x < ClampMin THEN ClampMin ELSE IF x > ClampMax THEN ClampMax ELSE x

\* A rule that fires nowhere leaves the score where it is.
Score(q, r, v) ==
    IF r \in q.dead \/ q.shape[r] = "flat" THEN 0
    ELSE IF q.shape[r] = "rising" THEN v
    ELSE -Distance(v, q.baseline[r])

-----------------------------------------------------------------------------
(* _select_self_test_plant                                                  *)

Up(w)   == Clamp(w * 2)
Down(w) == Clamp(w \div 2)

\* Mutation: only doubling is tried.
PlantedUp(w) == Up(w)

\* w itself if the clamp leaves no room in either direction.
Planted(w) == IF Up(w) # w THEN Up(w) ELSE Down(w)

\* The places in the shuffled order whose rule can be planted.
Eligible(q) ==
    {k \in DOMAIN q.order : q.order[k] \notin q.dead /\ Planted(q.baseline[q.order[k]]) # q.baseline[q.order[k]]}

\* rule_id: the rule of the first of them.
Selected(q) == q.order[CHOOSE k \in Eligible(q) : \A l \in Eligible(q) : k <= l]

-----------------------------------------------------------------------------
(* _planted_perturbation_self_test                                          *)

Cell(planted, m) == Clamp((planted * m) \div 4)

\* Mutation: a cell that ties with the best so far replaces it.
BestOnTie(q, r) ==
    LET planted == Planted(q.baseline[r])
        Better(best, cell) == IF Score(q, r, cell) >= Score(q, r, best) THEN cell ELSE best
        after[k \in 0..Len(Grid)] == IF k = 0 THEN planted ELSE Better(after[k - 1], Cell(planted, Grid[k]))
    IN  after[Len(Grid)]

\* best_value after the sweep.
Best(q, r) ==
    LET planted == Planted(q.baseline[r])
        Better(best, cell) == IF Score(q, r, cell) > Score(q, r, best) THEN cell ELSE best
        after[k \in 0..Len(Grid)] == IF k = 0 THEN planted ELSE Better(after[k - 1], Cell(planted, Grid[k]))
    IN  after[Len(Grid)]

Recovered(q, r) == Distance(Best(q, r), q.baseline[r]) * 20 <= q.baseline[r]

Passes(q) == Eligible(q) # {} /\ Recovered(q, Selected(q))
=============================================================================

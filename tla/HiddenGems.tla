----------------------------- MODULE HiddenGems -----------------------------
(***************************************************************************)
(* The hidden-gem metric of bench/hidden_gems.py for one commander: which  *)
(* of our top cards EDHREC does not list, and which of those the tensor    *)
(* makes plausible.  A tensor maps <<candidate, rule>> to a contribution;  *)
(* contributions are integers and medians are doubled.                     *)
(***************************************************************************)
EXTENDS Integers, FiniteSets

\* The rules in favour of a candidate.
Firing(tensor, c)  == {key \in DOMAIN tensor : key[1] = c /\ tensor[key] > 0}
n_rules(tensor, c) == Cardinality(Firing(tensor, c))
total(tensor, c)   ==
    LET Sum[S \in SUBSET Firing(tensor, c)] ==
            IF S = {} THEN 0 ELSE LET key == CHOOSE k \in S : TRUE IN tensor[key] + Sum[S \ {key}]
    IN  Sum[Firing(tensor, c)]

Counted(tensor) == {key[1] : key \in {k \in DOMAIN tensor : tensor[k] > 0}}

\* sorted(positive_totals)[k - 1].
Nth(tensor, k) ==
    CHOOSE t \in {total(tensor, c) : c \in Counted(tensor)} :
        /\ Cardinality({c \in Counted(tensor) : total(tensor, c) < t}) < k
        /\ k <= Cardinality({c \in Counted(tensor) : total(tensor, c) <= t})

\* Mutation: the upper middle of an even number of totals.
UpperMedian(tensor) ==
    IF Counted(tensor) = {} THEN 0 ELSE 2 * Nth(tensor, Cardinality(Counted(tensor)) \div 2 + 1)

\* Twice statistics.median of the positive totals, 0 without any.
TwiceMedian(tensor) ==
    LET n == Cardinality(Counted(tensor))
    IN  IF n = 0 THEN 0 ELSE Nth(tensor, (n + 1) \div 2) + Nth(tensor, n \div 2 + 1)

Plausible(tensor, c) ==
    \/ n_rules(tensor, c) >= 2
    \/ total(tensor, c) > 0 /\ TwiceMedian(tensor) > 0 /\ 2 * total(tensor, c) > TwiceMedian(tensor)

\* hidden_cards of hidden_gem_hit_rate_for_commander; the rate is their number by 30.
Gems(tensor, our_top, edhrec_top) == {c \in our_top \ edhrec_top : Plausible(tensor, c)}
=============================================================================

--------------------------- MODULE MCBenchVerdicts --------------------------
(* Five cards, four of them legendary creatures.  Two rules with baselines at *)
(* every tenth from 0.1 to 2.5 and at both clamps, then those of              *)
(* data/scoring_weights.json, which has five rules at 3.0 and one at 3.5.     *)
(* Two configs and snapshots with rates that may be missing.                  *)
EXTENDS BenchVerdicts

CONSTANTS c1, c2, c3, c4, c5, r, s

MCDatabases == [legal : SUBSET Cards, hasColumn : BOOLEAN]

MCGrid  == <<2, 3, 5, 6, 8>>
Tenths  == {40 * n : n \in 1..25} \cup {4, 2000}
Shipped == {120, 200, 280, 400, 480, 520, 600, 800, 960, 1000, 1200, 1400}

Data(weights) == [order : {<<r, s>>}, baseline : [{r, s} -> weights],
                  shape : [{r, s} -> {"peaked", "flat", "rising"}], dead : SUBSET {r, s}]
MCDataSets == Data(Tenths)
MCShipped  == Data(Shipped)

MCContributions == {-1, 1, 2, 3}

MCTrendRows == [config : {"c", "d"}, snapshot : {"s", "t"}, ndcg : {{}, {1}, {3}}, gem : {{2}}]
=============================================================================

---------------------------- MODULE GuardedClimb ----------------------------
(***************************************************************************)
(* What a weight optimisation promises, whatever its search order: it only *)
(* ever moves to a vector that scores better on the train split, gives up  *)
(* a bounded amount of held-out score per move and in total, and stops     *)
(* where it is or back at the baseline.                                    *)
(***************************************************************************)
EXTENDS Integers

CONSTANTS Weights, Baseline, Objectives, EpsStep, EpsCumulative

VARIABLES objective, weights, stopped

vars == <<objective, weights, stopped>>

Init ==
    /\ objective \in Objectives
    /\ weights = Baseline
    /\ stopped = FALSE

Climb ==
    /\ ~stopped
    /\ weights' \in Weights
    /\ objective.train[weights'] > objective.train[weights]
    /\ objective.held[weights'] >= objective.held[weights] - EpsStep
    /\ objective.held[weights'] >= objective.held[Baseline] - EpsCumulative
    /\ UNCHANGED <<objective, stopped>>

Stop ==
    /\ ~stopped
    /\ weights' \in {weights, Baseline}
    /\ stopped' = TRUE
    /\ UNCHANGED objective

Next == Climb \/ Stop

Spec == Init /\ [][Next]_vars
=============================================================================

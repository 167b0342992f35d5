-------------------------- MODULE CoordinateAscent --------------------------
(***************************************************************************)
(* run_optimizer of bench/optimize.py: coordinate ascent over the rule     *)
(* weights.  Each sweep visits the live rules in order, tries a grid of    *)
(* multiples of the rule's weight on the train split, and accepts the best *)
(* one if the held-out score does not drop by more than eps_step.  When    *)
(* the accepted steps together have cost more than eps_cumulative on the   *)
(* held-out split, all of them are reverted and the run stops.             *)
(***************************************************************************)
EXTENDS Integers, Sequences, FiniteSets

CONSTANTS
    RuleKeys,    \* the live rules, sorted; dead keys are not swept
    Baseline,    \* baseline_weights, in units of the smallest weight step
    Grid,        \* the multipliers, as pairs <<numerator, denominator>>
    ClampMin, ClampMax,
    Objectives,  \* the scores a data set may induce on its two splits
    NoGem,       \* gem_rate of a split in which no commander has a gem: None
    EpsStep, EpsCumulative,
    MaxSweeps    \* config.max_sweeps

Rules   == {RuleKeys[k] : k \in DOMAIN RuleKeys}
Weights == [Rules -> ClampMin..ClampMax]

\* What _score_split gives for a weight vector, on the train and on the held-out
\* split: the composite score, and the two axes it is made of.
ScoresType ==
    [train : [Weights -> Int],     held : [Weights -> Int],
     trainNdcg : [Weights -> Int], heldNdcg : [Weights -> Int],
     trainGem : [Weights -> Int \cup {NoGem}], heldGem : [Weights -> Int \cup {NoGem}]]

ASSUME AscentAssumption ==
    /\ RuleKeys \in Seq(Rules)
    /\ ClampMin \in Nat /\ ClampMax \in Nat
    /\ Baseline \in Weights
    /\ Grid \in Seq(Nat \X (Nat \ {0}))
    /\ Objectives \subseteq ScoresType
    /\ EpsStep \in Nat /\ EpsCumulative \in Nat /\ MaxSweeps \in Nat \ {0}

VARIABLES
    objective,   \* the scores of every weight vector; fixed for a run
    weights,     \* current_weights
    train, held, \* current_train_composite, current_held_composite
    trainNdcg, heldNdcg, trainGem, heldGem,  \* current_train_ndcg and so on
    history,     \* one OptimizerStep for each perturbation that beat train
    acceptedAt,  \* accepted_step_indices
    nAccepted, nRejected,
    sweep, k,    \* sweep_n, position in RuleKeys
    sweepHadAccept,
    partial,     \* partial_sweep
    pc           \* "rule", "boundary" or "done"

metrics  == <<weights, train, held, trainNdcg, heldNdcg, trainGem, heldGem>>
ledger   == <<history, acceptedAt, nAccepted, nRejected>>
position == <<sweep, k, sweepHadAccept, partial, pc>>
vars     == <<objective, metrics, ledger, position>>

-----------------------------------------------------------------------------
Clamp(x) == IF x < ClampMin THEN ClampMin ELSE IF x > ClampMax THEN ClampMax ELSE x

Scaled(old, mult) == Clamp((old * mult[1]) \div mult[2])

With(w, rule, v) == [w EXCEPT ![rule] = v]

\* The grid cells of a rule that change its weight.
Cells(rule) == {c \in DOMAIN Grid : Scaled(weights[rule], Grid[c]) # weights[rule]}

CellTrain(rule, c) == objective.train[With(weights, rule, Scaled(weights[rule], Grid[c]))]

\* Mutation: the best cell need not beat the current score.
BestOfGrid(rule, c) ==
    /\ c \in Cells(rule)
    /\ \A d \in Cells(rule) : \/ CellTrain(rule, d) < CellTrain(rule, c)
                              \/ CellTrain(rule, d) = CellTrain(rule, c) /\ c <= d

\* The first cell with the highest train score, if it strictly beats the
\* current one (_grid_search_best_perturbation).
IsBest(rule, c) ==
    /\ c \in Cells(rule)
    /\ CellTrain(rule, c) > train
    /\ \A d \in Cells(rule) : \/ CellTrain(rule, d) < CellTrain(rule, c)
                              \/ CellTrain(rule, d) = CellTrain(rule, c) /\ c <= d

Improvable(rule) == \E c \in DOMAIN Grid : IsBest(rule, c)

BaseTrain == objective.train[Baseline]
BaseHeld  == objective.held[Baseline]

Init ==
    /\ objective \in Objectives
    /\ weights = Baseline
    /\ train = BaseTrain /\ held = BaseHeld
    /\ trainNdcg = objective.trainNdcg[Baseline] /\ heldNdcg = objective.heldNdcg[Baseline]
    /\ trainGem = objective.trainGem[Baseline] /\ heldGem = objective.heldGem[Baseline]
    /\ history = <<>> /\ acceptedAt = {}
    /\ nAccepted = 0 /\ nRejected = 0
    /\ sweep = 1 /\ k = 1
    /\ sweepHadAccept = FALSE /\ partial = FALSE
    /\ pc = "rule"

Stepped(rule, v, w, accepted) ==
    [sweep |-> sweep, rule |-> rule, old |-> weights[rule], new |-> v,
     train |-> objective.train[w], held |-> objective.held[w],
     trainNdcg |-> objective.trainNdcg[w], heldNdcg |-> objective.heldNdcg[w],
     trainGem |-> objective.trainGem[w], heldGem |-> objective.heldGem[w],
     accepted |-> accepted, reason |-> IF accepted THEN "" ELSE "held_out_eps"]

\* Mutations: the reverted steps keep their flags; they get no reason.
KeptFlags(h, S) == h

FlagOnly(h, S) ==
    [i \in DOMAIN h |-> IF i \in S THEN [h[i] EXCEPT !.accepted = FALSE] ELSE h[i]]

\* _apply_drift_revert on the ledger h with the accepted steps at the indexes S.
Reverted(h, S) ==
    [i \in DOMAIN h |->
        IF i \in S THEN [h[i] EXCEPT !.accepted = FALSE, !.reason = "cumulative_drift_revert"]
                   ELSE h[i]]

Drifted(h) == h - BaseHeld < -EpsCumulative

\* An accept takes over the weights and, one by one, the six scores of the
\* candidate.
Adopt(w) ==
    /\ weights' = w
    /\ train' = objective.train[w]
    /\ held' = objective.held[w]
    /\ trainNdcg' = objective.trainNdcg[w]
    /\ heldNdcg' = objective.heldNdcg[w]
    /\ trainGem' = objective.trainGem[w]
    /\ heldGem' = objective.heldGem[w]

\* Mutations: one of the six scores of the reverted weights is kept; the weights are.
StaleGem ==
    /\ weights' = Baseline
    /\ train' = BaseTrain
    /\ held' = BaseHeld
    /\ trainNdcg' = objective.trainNdcg[Baseline]
    /\ heldNdcg' = objective.heldNdcg[Baseline]
    /\ trainGem' = trainGem
    /\ heldGem' = objective.heldGem[Baseline]

ScoresOnly ==
    /\ weights' = weights
    /\ train' = BaseTrain
    /\ held' = BaseHeld
    /\ trainNdcg' = objective.trainNdcg[Baseline]
    /\ heldNdcg' = objective.heldNdcg[Baseline]
    /\ trainGem' = objective.trainGem[Baseline]
    /\ heldGem' = objective.heldGem[Baseline]

\* A revert resets the weights and the same six, in two places of the code.
BackToBaseline ==
    /\ weights' = Baseline
    /\ train' = BaseTrain
    /\ held' = BaseHeld
    /\ trainNdcg' = objective.trainNdcg[Baseline]
    /\ heldNdcg' = objective.heldNdcg[Baseline]
    /\ trainGem' = objective.trainGem[Baseline]
    /\ heldGem' = objective.heldGem[Baseline]

-----------------------------------------------------------------------------
Visiting == pc = "rule" /\ k \in DOMAIN RuleKeys

\* The budget is looked at before each rule.
WallClock ==
    /\ Visiting
    /\ partial' = TRUE
    /\ pc' = "done"
    /\ UNCHANGED <<objective, metrics, ledger, sweep, k, sweepHadAccept>>

NoImprovement ==
    /\ Visiting
    /\ ~Improvable(RuleKeys[k])
    /\ k' = k + 1
    /\ UNCHANGED <<objective, metrics, ledger, sweep, sweepHadAccept, partial, pc>>

\* The best cell of the current rule, weighed against the held-out split.
Perturbed(c) == With(weights, RuleKeys[k], Scaled(weights[RuleKeys[k]], Grid[c]))

HeldOk(w) == objective.held[w] - held >= -EpsStep

RejectStep ==
    /\ Visiting
    /\ \E c \in DOMAIN Grid :
          /\ IsBest(RuleKeys[k], c)
          /\ ~HeldOk(Perturbed(c))
          /\ history' = Append(history, Stepped(RuleKeys[k], Perturbed(c)[RuleKeys[k]],
                                                Perturbed(c), FALSE))
    /\ nRejected' = nRejected + 1
    /\ k' = k + 1
    /\ UNCHANGED <<objective, metrics, acceptedAt, nAccepted, sweep, sweepHadAccept,
                   partial, pc>>

\* Mutation: drift is only looked at where the sweep ends.
AcceptUnlessStepDrops ==
    /\ Visiting
    /\ \E c \in DOMAIN Grid :
          LET w == Perturbed(c) IN
          /\ IsBest(RuleKeys[k], c)
          /\ HeldOk(w)
          /\ history' = Append(history, Stepped(RuleKeys[k], w[RuleKeys[k]], w, TRUE))
          /\ Adopt(w)
    /\ acceptedAt' = acceptedAt \cup {Len(history) + 1}
    /\ nAccepted' = nAccepted + 1
    /\ sweepHadAccept' = TRUE
    /\ k' = k + 1
    /\ UNCHANGED <<objective, nRejected, sweep, partial, pc>>

AcceptStep ==
    /\ Visiting
    /\ \E c \in DOMAIN Grid :
          LET w == Perturbed(c) IN
          /\ IsBest(RuleKeys[k], c)
          /\ HeldOk(w)
          /\ ~Drifted(objective.held[w])
          /\ history' = Append(history, Stepped(RuleKeys[k], w[RuleKeys[k]], w, TRUE))
          /\ Adopt(w)
    /\ acceptedAt' = acceptedAt \cup {Len(history) + 1}
    /\ nAccepted' = nAccepted + 1
    /\ sweepHadAccept' = TRUE
    /\ k' = k + 1
    /\ UNCHANGED <<objective, nRejected, sweep, partial, pc>>

\* Accepted on its own, but with the earlier steps it drifted too far: the
\* mid-sweep check reverts everything in the same pass.
AcceptThenRevert ==
    /\ Visiting
    /\ \E c \in DOMAIN Grid :
          LET w == Perturbed(c)
              h == Append(history, Stepped(RuleKeys[k], w[RuleKeys[k]], w, TRUE)) IN
          /\ IsBest(RuleKeys[k], c)
          /\ HeldOk(w)
          /\ Drifted(objective.held[w])
          /\ history' = Reverted(h, acceptedAt \cup {Len(h)})
    /\ BackToBaseline
    /\ nAccepted' = (nAccepted + 1) - (Cardinality(acceptedAt) + 1)
    /\ nRejected' = nRejected + (Cardinality(acceptedAt) + 1)
    /\ acceptedAt' = {}
    /\ sweepHadAccept' = TRUE
    /\ partial' = TRUE
    /\ pc' = "done"
    /\ UNCHANGED <<objective, sweep, k>>

EndSweep ==
    /\ pc = "rule"
    /\ k > Len(RuleKeys)
    /\ pc' = "boundary"
    /\ UNCHANGED <<objective, metrics, ledger, sweep, k, sweepHadAccept, partial>>

\* Mutation: sweep_had_accept is set by the first step of the sweep only.
BoundaryOneSweep ==
    /\ pc = "boundary"
    /\ pc' = "done"
    /\ sweepHadAccept' = FALSE
    /\ UNCHANGED <<objective, metrics, ledger, sweep, k, partial>>

\* The backstop at the sweep boundary, convergence, and the sweep limit.
Boundary ==
    /\ pc = "boundary"
    /\ IF Drifted(held)
         THEN /\ BackToBaseline
              /\ history' = Reverted(history, acceptedAt)
              /\ nAccepted' = nAccepted - Cardinality(acceptedAt)
              /\ nRejected' = nRejected + Cardinality(acceptedAt)
              /\ acceptedAt' = {}
              /\ partial' = TRUE
         ELSE UNCHANGED <<metrics, ledger, partial>>
    /\ IF Drifted(held) \/ ~sweepHadAccept \/ sweep = MaxSweeps
         THEN pc' = "done" /\ UNCHANGED <<sweep, k, sweepHadAccept>>
         ELSE pc' = "rule" /\ sweep' = sweep + 1 /\ k' = 1 /\ sweepHadAccept' = FALSE
    /\ UNCHANGED objective

Next == \/ WallClock \/ NoImprovement \/ RejectStep \/ AcceptStep \/ AcceptThenRevert
        \/ EndSweep \/ Boundary

Spec == Init /\ [][Next]_vars

-----------------------------------------------------------------------------
(* write_proposal_json: the artifact made of the result.                    *)

Changed == {r \in Rules : weights[r] # Baseline[r]}

Matching(r) == {i \in DOMAIN history : /\ history[i].rule = r
                                       /\ history[i].accepted
                                       /\ history[i].new = weights[r]}

\* accepted_iteration: the sweep of the first accepted step with the final value.
AcceptedIteration(r) ==
    history[CHOOSE i \in Matching(r) : \A j \in Matching(r) : i <= j].sweep

-----------------------------------------------------------------------------
StepType == [sweep : Nat, rule : Rules, old : ClampMin..ClampMax, new : ClampMin..ClampMax,
             train : Int, held : Int, trainNdcg : Int, heldNdcg : Int,
             trainGem : Int \cup {NoGem}, heldGem : Int \cup {NoGem}, accepted : BOOLEAN,
             reason : {"", "held_out_eps", "cumulative_drift_revert"}]

\* Weights stay within the clamp, every variable within its kind, and a step has
\* a reject reason exactly if it does not count as accepted.
TypeOK ==
    /\ objective \in ScoresType
    /\ weights \in Weights
    /\ train \in Int /\ held \in Int /\ trainNdcg \in Int /\ heldNdcg \in Int
    /\ trainGem \in Int \cup {NoGem} /\ heldGem \in Int \cup {NoGem}
    /\ history \in Seq(StepType)
    /\ \A i \in DOMAIN history : history[i].accepted <=> history[i].reason = ""
    /\ acceptedAt \subseteq DOMAIN history
    /\ nAccepted \in Int /\ nRejected \in Int
    /\ sweep \in Nat /\ k \in Nat \ {0}
    /\ sweepHadAccept \in BOOLEAN /\ partial \in BOOLEAN
    /\ pc \in {"rule", "boundary", "done"}

\* Whenever the run stops, by convergence, by the sweep limit or in the middle
\* of a sweep, the weights it hands out have not lost more than eps_cumulative
\* on the held-out split.
HeldWithinDrift == held >= BaseHeld - EpsCumulative

\* The six scores the result reports (composite, NDCG and gem rate of both
\* splits) are those of the weights it hands out, after every accept and after
\* a revert, which each set them one by one.
MetricsOfWeights ==
    /\ train = objective.train[weights]
    /\ held = objective.held[weights]
    /\ trainNdcg = objective.trainNdcg[weights]
    /\ heldNdcg = objective.heldNdcg[weights]
    /\ trainGem = objective.trainGem[weights]
    /\ heldGem = objective.heldGem[weights]

AcceptedSteps == {i \in DOMAIN history : history[i].accepted}

\* The counters of the result agree with the flags in its history, also after a
\* revert has rewritten the flags.
CountersMatchHistory ==
    /\ acceptedAt = AcceptedSteps
    /\ nAccepted = Cardinality(AcceptedSteps)
    /\ nRejected = Len(history) - Cardinality(AcceptedSteps)

LastOf(r) == {i \in AcceptedSteps : /\ history[i].rule = r
                                    /\ \A j \in AcceptedSteps : history[j].rule = r => j <= i}

\* Replaying the accepted steps of the history over the baseline gives the final
\* weights: no other change, none lost.
HistoryExplainsWeights ==
    \A r \in Rules :
        IF LastOf(r) = {} THEN weights[r] = Baseline[r]
        ELSE \A i \in LastOf(r) : history[i].new = weights[r]

\* Each accepted step started from the train score the one before reached and
\* beat it; the current score is that of the last one.
AcceptedStepsClimb ==
    /\ \A i, j \in AcceptedSteps : i < j => history[i].train < history[j].train
    /\ \A i \in AcceptedSteps : BaseTrain < history[i].train /\ history[i].train <= train

\* A run that ends before its sweep limit, and not for time or drift, ends in a
\* point where no rule has a best grid cell the held-out split would accept.
ConvergedIsLocalOptimum ==
    pc = "done" /\ ~partial /\ ~sweepHadAccept =>
        \A r \in Rules : \A c \in DOMAIN Grid :
            IsBest(r, c) =>
                ~HeldOk(With(weights, r, Scaled(weights[r], Grid[c])))

\* "Find the accepted-iteration step that produced the final value": the sweep
\* the proposal names is that of the rule's last accepted step.
IterationProducedValue ==
    pc = "done" =>
        \A r \in Changed : \A i \in LastOf(r) : AcceptedIteration(r) = history[i].sweep

\* The ascent, reverts and aborts included, is a guarded climb.
Guarded == INSTANCE GuardedClimb WITH stopped <- (pc = "done")

ImplementsGuardedClimb == Guarded!Spec
=============================================================================

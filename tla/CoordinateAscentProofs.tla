----------------------- MODULE CoordinateAscentProofs -----------------------
(* The ascent keeps its metrics, its ledger and its drift bound, and         *)
(* implements the guarded climb, for all rules, grids, objectives and eps.   *)
EXTENDS CoordinateAscent, FiniteSetTheorems, TLAPS

\* The part of the invariant that relates no history: the weights and their scores.
StateInv ==
    /\ objective \in Objectives
    /\ weights \in Weights
    /\ MetricsOfWeights
    /\ HeldWithinDrift

\* Scores are integers, a gem rate possibly none, and perturbed vectors are weight vectors.
LEMMA ScoreType ==
    ASSUME NEW o \in Objectives, NEW w \in Weights
    PROVE  /\ o.train[w] \in Int /\ o.held[w] \in Int
           /\ o.trainNdcg[w] \in Int /\ o.heldNdcg[w] \in Int
           /\ o.trainGem[w] \in Int \cup {NoGem} /\ o.heldGem[w] \in Int \cup {NoGem}
<1>1. o \in ScoresType
  BY AscentAssumption
<1>2. /\ o.train \in [Weights -> Int] /\ o.held \in [Weights -> Int]
      /\ o.trainNdcg \in [Weights -> Int] /\ o.heldNdcg \in [Weights -> Int]
      /\ o.trainGem \in [Weights -> Int \cup {NoGem}]
      /\ o.heldGem \in [Weights -> Int \cup {NoGem}]
  BY <1>1 DEF ScoresType
<1> QED BY <1>2

LEMMA ClampRange ==
    ASSUME NEW x \in Int, NEW v \in ClampMin..ClampMax
    PROVE  Clamp(x) \in ClampMin..ClampMax
BY AscentAssumption DEF Clamp

LEMMA ScaledRange ==
    ASSUME NEW v \in ClampMin..ClampMax, NEW c \in DOMAIN Grid
    PROVE  Scaled(v, Grid[c]) \in ClampMin..ClampMax
<1>1. Grid[c] \in Nat \X (Nat \ {0})
  BY AscentAssumption
<1>2. Grid[c][1] \in Nat /\ Grid[c][2] \in Nat /\ Grid[c][2] > 0
  BY <1>1
<1>3. v \in Nat
  BY AscentAssumption
<1>4. (v * Grid[c][1]) \in Int
  BY <1>2, <1>3
<1>5. ((v * Grid[c][1]) \div Grid[c][2]) \in Int
  BY <1>2, <1>4
<1> QED BY <1>5, ClampRange DEF Scaled

LEMMA WithType ==
    ASSUME NEW r \in Rules, NEW v \in ClampMin..ClampMax, weights \in Weights
    PROVE  With(weights, r, v) \in Weights /\ With(weights, r, v)[r] = v
BY DEF With, Weights

LEMMA VisitedRule ==
    ASSUME Visiting
    PROVE  RuleKeys[k] \in Rules /\ k \in DOMAIN RuleKeys /\ k \in Nat
BY AscentAssumption DEF Visiting, Rules

LEMMA PerturbedType ==
    ASSUME Visiting, weights \in Weights, NEW c \in DOMAIN Grid
    PROVE  Perturbed(c) \in Weights
<1>1. RuleKeys[k] \in Rules
  BY VisitedRule
<1>2. weights[RuleKeys[k]] \in ClampMin..ClampMax
  BY <1>1 DEF Weights
<1> QED BY <1>1, <1>2, ScaledRange, WithType DEF Perturbed

LEMMA StateInit == Init => StateInv
<1> SUFFICES ASSUME Init PROVE StateInv
  OBVIOUS
<1>1. Baseline \in Weights /\ EpsCumulative \in Nat
  BY AscentAssumption
<1>2. objective.held[Baseline] \in Int
  BY <1>1, ScoreType DEF Init
<1> QED BY <1>1, <1>2 DEF Init, StateInv, MetricsOfWeights, HeldWithinDrift, BaseTrain, BaseHeld

\* Going back to the baseline restores everything at once.
LEMMA BaselineState ==
    ASSUME StateInv, BackToBaseline, UNCHANGED objective
    PROVE  StateInv'
<1>1. Baseline \in Weights /\ EpsCumulative \in Nat
  BY AscentAssumption
<1>2. objective.held[Baseline] \in Int
  BY <1>1, ScoreType DEF StateInv
<1> QED BY <1>1, <1>2 DEF StateInv, BackToBaseline, MetricsOfWeights, HeldWithinDrift,
             BaseTrain, BaseHeld

LEMMA AcceptState == ASSUME StateInv, AcceptStep PROVE StateInv'
<1>1. PICK c \in DOMAIN Grid :
        ~Drifted(objective.held[Perturbed(c)]) /\ Adopt(Perturbed(c))
  BY DEF AcceptStep
<1>2. Perturbed(c) \in Weights
  BY PerturbedType DEF StateInv, AcceptStep
<1>3. objective' = objective /\ objective \in Objectives
  BY DEF AcceptStep, StateInv
<1>4. Baseline \in Weights /\ EpsCumulative \in Nat
  BY AscentAssumption
<1>5. objective.held[Perturbed(c)] \in Int /\ objective.held[Baseline] \in Int
  BY <1>2, <1>3, <1>4, ScoreType
<1>6. objective.held[Perturbed(c)] >= objective.held[Baseline] - EpsCumulative
  BY <1>1, <1>4, <1>5 DEF Drifted, BaseHeld
<1>7. MetricsOfWeights'
  BY <1>1, <1>3 DEF Adopt, MetricsOfWeights
<1>8. HeldWithinDrift'
  BY <1>1, <1>3, <1>6 DEF Adopt, HeldWithinDrift, BaseHeld
<1>9. weights' \in Weights
  BY <1>1, <1>2 DEF Adopt
<1> QED BY <1>3, <1>7, <1>8, <1>9 DEF StateInv

LEMMA StateStep == StateInv /\ [Next]_vars => StateInv'
<1> SUFFICES ASSUME StateInv, [Next]_vars PROVE StateInv'
  OBVIOUS
<1>1. CASE UNCHANGED <<objective, metrics>>
  BY <1>1 DEF StateInv, metrics, MetricsOfWeights, HeldWithinDrift, BaseHeld
<1>2. CASE WallClock
  BY <1>1, <1>2 DEF WallClock
<1>3. CASE NoImprovement
  BY <1>1, <1>3 DEF NoImprovement
<1>4. CASE RejectStep
  BY <1>1, <1>4 DEF RejectStep
<1>5. CASE AcceptStep
  BY <1>5, AcceptState
<1>6. CASE AcceptThenRevert
  BY <1>6, BaselineState DEF AcceptThenRevert
<1>7. CASE EndSweep
  BY <1>1, <1>7 DEF EndSweep
<1>8. CASE Boundary
  <2>1. CASE Drifted(held)
    BY <1>8, <2>1, BaselineState DEF Boundary
  <2>2. CASE ~Drifted(held)
    BY <1>1, <1>8, <2>2 DEF Boundary
  <2> QED BY <2>1, <2>2
<1>9. CASE UNCHANGED vars
  BY <1>1, <1>9 DEF vars
<1> QED BY <1>2, <1>3, <1>4, <1>5, <1>6, <1>7, <1>8, <1>9 DEF Next

\* The six scores reported, composite, NDCG and gem rate of both splits, are those
\* of the weights handed out, whatever was accepted or reverted and though an accept
\* and a revert set each of them by itself.
THEOREM MetricsAgree == Spec => []MetricsOfWeights
<1>1. StateInv => MetricsOfWeights
  BY DEF StateInv
<1> QED BY <1>1, StateInit, StateStep, PTL DEF Spec

\* No run hands out weights that lost more than eps_cumulative on the held-out
\* split: not one that converges, nor one cut short in the middle of a sweep.
THEOREM DriftBounded == Spec => []HeldWithinDrift
<1>1. StateInv => HeldWithinDrift
  BY DEF StateInv
<1> QED BY <1>1, StateInit, StateStep, PTL DEF Spec

-----------------------------------------------------------------------------
(* The ascent implements the guarded climb.                                 *)

LEMMA ClimbInit == Init => Guarded!Init
BY DEF Init, Guarded!Init

LEMMA AcceptClimbs == ASSUME StateInv, AcceptStep PROVE Guarded!Climb
<1>1. PICK c \in DOMAIN Grid :
        /\ IsBest(RuleKeys[k], c)
        /\ HeldOk(Perturbed(c))
        /\ ~Drifted(objective.held[Perturbed(c)])
        /\ weights' = Perturbed(c)
  BY DEF AcceptStep, Adopt
<1>2. weights' \in Weights
  BY <1>1, PerturbedType DEF StateInv, AcceptStep
<1>3. objective' = objective /\ objective \in Objectives /\ pc = "rule" /\ pc' = pc
  BY DEF AcceptStep, StateInv, Visiting
<1>4. Baseline \in Weights /\ EpsCumulative \in Nat /\ EpsStep \in Nat
  BY AscentAssumption
<1>5. /\ objective.held[weights'] \in Int
      /\ objective.held[weights] \in Int
      /\ objective.held[Baseline] \in Int
  BY <1>2, <1>3, <1>4, ScoreType DEF StateInv
<1>6. objective.train[weights'] > objective.train[weights]
  BY <1>1 DEF IsBest, CellTrain, Perturbed, StateInv, MetricsOfWeights
<1>7. objective.held[weights'] >= objective.held[weights] - EpsStep
  BY <1>1, <1>4, <1>5 DEF HeldOk, StateInv, MetricsOfWeights
<1>8. objective.held[weights'] >= objective.held[Baseline] - EpsCumulative
  BY <1>1, <1>4, <1>5 DEF Drifted, BaseHeld
<1>9. (pc = "done") = FALSE /\ (pc = "done")' = (pc = "done")
  BY <1>3
<1> QED BY <1>2, <1>3, <1>6, <1>7, <1>8, <1>9 DEF Guarded!Climb

LEMMA ClimbStep == StateInv /\ [Next]_vars => [Guarded!Next]_(Guarded!vars)
<1> SUFFICES ASSUME StateInv, [Next]_vars PROVE [Guarded!Next]_(Guarded!vars)
  OBVIOUS
<1> USE DEF Guarded!Next, Guarded!Stop, Guarded!vars
<1>2. CASE WallClock
  BY <1>2 DEF WallClock, Visiting, metrics
<1>3. CASE NoImprovement
  BY <1>3 DEF NoImprovement, metrics
<1>4. CASE RejectStep
  BY <1>4 DEF RejectStep, metrics
<1>5. CASE AcceptStep
  BY <1>5, AcceptClimbs
<1>6. CASE AcceptThenRevert
  BY <1>6 DEF AcceptThenRevert, Visiting, BackToBaseline
<1>7. CASE EndSweep
  BY <1>7 DEF EndSweep, metrics
<1>8. CASE Boundary
  <2>1. CASE Drifted(held)
    BY <1>8, <2>1 DEF Boundary, BackToBaseline
  <2>2. CASE ~Drifted(held)
    BY <1>8, <2>2 DEF Boundary, metrics
  <2> QED BY <2>1, <2>2
<1>9. CASE UNCHANGED vars
  BY <1>9 DEF vars, metrics, position
<1> QED BY <1>2, <1>3, <1>4, <1>5, <1>6, <1>7, <1>8, <1>9 DEF Next

\* Every run of the ascent, whatever stops it, is a guarded climb.
THEOREM AscentIsGuardedClimb == Spec => ImplementsGuardedClimb
<1> QED BY ClimbInit, ClimbStep, StateInit, StateStep, PTL
        DEF Spec, ImplementsGuardedClimb, Guarded!Spec

-----------------------------------------------------------------------------
(* The ledger: the history, the accepted indexes and the two counters.       *)

TypeInv ==
    /\ history \in Seq(StepType)
    /\ \A i \in DOMAIN history : history[i].accepted <=> history[i].reason = ""
    /\ sweep \in Nat /\ k \in Nat \ {0}
    /\ sweepHadAccept \in BOOLEAN /\ partial \in BOOLEAN
    /\ pc \in {"rule", "boundary", "done"}

LedgerInv ==
    /\ IsFiniteSet(acceptedAt)
    /\ nAccepted \in Int /\ nRejected \in Int
    /\ CountersMatchHistory

Quiet == UNCHANGED <<objective, metrics, ledger>>

\* Only a rejected step, an accepted step and a revert touch the ledger.
LEMMA QuietSteps ==
    ASSUME StateInv, [Next]_vars
    PROVE  Quiet \/ RejectStep \/ AcceptStep \/ AcceptThenRevert
<1>1. CASE WallClock
  BY <1>1 DEF WallClock, Quiet
<1>2. CASE NoImprovement
  BY <1>2 DEF NoImprovement, Quiet
<1>3. CASE EndSweep
  BY <1>3 DEF EndSweep, Quiet
<1>4. CASE Boundary
  <2>1. ~Drifted(held)
    <3>1. Baseline \in Weights /\ EpsCumulative \in Nat
      BY AscentAssumption
    <3>2. held \in Int /\ BaseHeld \in Int
      BY <3>1, ScoreType DEF StateInv, MetricsOfWeights, BaseHeld
    <3> QED BY <3>1, <3>2 DEF StateInv, HeldWithinDrift, Drifted
  <2> QED BY <1>4, <2>1 DEF Boundary, Quiet
<1>5. CASE UNCHANGED vars
  BY <1>5 DEF vars, Quiet
<1> QED BY <1>1, <1>2, <1>3, <1>4, <1>5 DEF Next

\* What a step of the ledger looks like.
LEMMA SteppedType ==
    ASSUME StateInv, TypeInv, Visiting, NEW c \in DOMAIN Grid, NEW acc \in BOOLEAN
    PROVE  /\ Stepped(RuleKeys[k], Perturbed(c)[RuleKeys[k]], Perturbed(c), acc) \in StepType
           /\ Stepped(RuleKeys[k], Perturbed(c)[RuleKeys[k]], Perturbed(c), acc).accepted = acc
           /\ Stepped(RuleKeys[k], Perturbed(c)[RuleKeys[k]], Perturbed(c), acc).reason
                = IF acc THEN "" ELSE "held_out_eps"
<1>1. RuleKeys[k] \in Rules
  BY VisitedRule
<1>2. Perturbed(c) \in Weights /\ weights \in Weights
  BY PerturbedType DEF StateInv
<1>3. Perturbed(c)[RuleKeys[k]] \in ClampMin..ClampMax /\ weights[RuleKeys[k]] \in ClampMin..ClampMax
  BY <1>1, <1>2 DEF Weights
<1> DEFINE w == Perturbed(c)
<1>4. /\ objective.train[w] \in Int /\ objective.held[w] \in Int
      /\ objective.trainNdcg[w] \in Int /\ objective.heldNdcg[w] \in Int
      /\ objective.trainGem[w] \in Int \cup {NoGem} /\ objective.heldGem[w] \in Int \cup {NoGem}
  BY <1>2, ScoreType DEF StateInv
<1>5. sweep \in Nat
  BY DEF TypeInv
<1>6. (IF acc THEN "" ELSE "held_out_eps") \in {"", "held_out_eps", "cumulative_drift_revert"}
  OBVIOUS
<1> QED BY <1>1, <1>3, <1>4, <1>5, <1>6 DEF Stepped, StepType

\* A revert rewrites the flags of the steps it is given and nothing else.
LEMMA RevertedType ==
    ASSUME NEW h \in Seq(StepType), NEW S \in SUBSET DOMAIN h
    PROVE  /\ Reverted(h, S) \in Seq(StepType)
           /\ DOMAIN Reverted(h, S) = DOMAIN h
           /\ Len(Reverted(h, S)) = Len(h)
           /\ \A i \in DOMAIN h \ S : Reverted(h, S)[i] = h[i]
           /\ \A i \in S : /\ Reverted(h, S)[i].accepted = FALSE
                           /\ Reverted(h, S)[i].reason = "cumulative_drift_revert"
<1>1. \A i \in DOMAIN h : h[i] \in StepType
  OBVIOUS
<1>2. \A i \in S : /\ [h[i] EXCEPT !.accepted = FALSE, !.reason = "cumulative_drift_revert"]
                         \in StepType
                   /\ [h[i] EXCEPT !.accepted = FALSE, !.reason = "cumulative_drift_revert"].accepted
                         = FALSE
                   /\ [h[i] EXCEPT !.accepted = FALSE, !.reason = "cumulative_drift_revert"].reason
                         = "cumulative_drift_revert"
  BY <1>1 DEF StepType
<1>3. DOMAIN Reverted(h, S) = 1..Len(h) /\ DOMAIN h = 1..Len(h) /\ Len(h) \in Nat
  BY DEF Reverted
<1>4. \A i \in DOMAIN h : Reverted(h, S)[i] \in StepType
  BY <1>1, <1>2 DEF Reverted
<1>5. \A i \in DOMAIN h \ S : Reverted(h, S)[i] = h[i]
  BY DEF Reverted
<1>6. \A i \in S : /\ Reverted(h, S)[i].accepted = FALSE
                   /\ Reverted(h, S)[i].reason = "cumulative_drift_revert"
  BY <1>2 DEF Reverted
<1>7. Reverted(h, S) \in [1..Len(h) -> StepType]
  BY <1>3, <1>4 DEF Reverted
<1>8. Reverted(h, S) \in Seq(StepType)
  BY <1>3, <1>7
<1> QED BY <1>3, <1>5, <1>6, <1>8

LEMMA AppendFacts ==
    ASSUME NEW T, NEW h \in Seq(T), NEW e \in T
    PROVE  /\ Append(h, e) \in Seq(T)
           /\ DOMAIN Append(h, e) = DOMAIN h \cup {Len(h) + 1}
           /\ Len(Append(h, e)) = Len(h) + 1
           /\ Len(h) \in Nat /\ Len(h) + 1 \notin DOMAIN h
           /\ \A i \in DOMAIN h : Append(h, e)[i] = h[i] /\ i < Len(h) + 1 /\ i \in Nat
           /\ Append(h, e)[Len(h) + 1] = e
OBVIOUS

LEMMA LedgerInit == Init => TypeInv /\ LedgerInv /\ HistoryExplainsWeights /\ AcceptedStepsClimb
<1> SUFFICES ASSUME Init
             PROVE  TypeInv /\ LedgerInv /\ HistoryExplainsWeights /\ AcceptedStepsClimb
  OBVIOUS
<1>1. history = <<>> /\ acceptedAt = {} /\ nAccepted = 0 /\ nRejected = 0 /\ DOMAIN history = {}
  BY DEF Init
<1>2. AcceptedSteps = {}
  BY <1>1 DEF AcceptedSteps
<1>3. TypeInv
  <2>1. history \in Seq(StepType)
    BY <1>1
  <2>2. \A i \in DOMAIN history : history[i].accepted <=> history[i].reason = ""
    BY <1>1
  <2>3. sweep \in Nat /\ k \in Nat \ {0} /\ pc \in {"rule", "boundary", "done"}
    BY DEF Init
  <2>4. sweepHadAccept \in BOOLEAN /\ partial \in BOOLEAN
    BY Zenon DEF Init
  <2> QED BY <2>1, <2>2, <2>3, <2>4 DEF TypeInv
<1>4. LedgerInv
  BY <1>1, <1>2, FS_EmptySet DEF LedgerInv, CountersMatchHistory
<1>5. HistoryExplainsWeights
  BY <1>2 DEF HistoryExplainsWeights, LastOf, Init
<1>6. AcceptedStepsClimb
  BY <1>2 DEF AcceptedStepsClimb
<1> QED BY <1>3, <1>4, <1>5, <1>6

\* The history and the accepted steps after a rejected, an accepted, a reverted step.
LEMMA RejectHistory ==
    ASSUME StateInv, TypeInv, RejectStep
    PROVE  \E e \in StepType : /\ history' = Append(history, e)
                               /\ ~e.accepted /\ e.reason = "held_out_eps"
<1>1. PICK c \in DOMAIN Grid :
        history' = Append(history, Stepped(RuleKeys[k], Perturbed(c)[RuleKeys[k]], Perturbed(c), FALSE))
  BY DEF RejectStep
<1>2. Visiting
  BY DEF RejectStep
<1> QED BY <1>1, <1>2, SteppedType

LEMMA AcceptHistory ==
    ASSUME StateInv, TypeInv, AcceptStep
    PROVE  \E e \in StepType :
             /\ history' = Append(history, e)
             /\ e.accepted /\ e.reason = ""
             /\ e.rule = RuleKeys[k] /\ e.rule \in Rules
             /\ e.new = weights'[RuleKeys[k]] /\ e.train = train' /\ e.train > train
             /\ \A r \in Rules \ {e.rule} : weights'[r] = weights[r]
<1>1. PICK c \in DOMAIN Grid :
        /\ IsBest(RuleKeys[k], c)
        /\ history' = Append(history, Stepped(RuleKeys[k], Perturbed(c)[RuleKeys[k]], Perturbed(c), TRUE))
        /\ weights' = Perturbed(c)
        /\ train' = objective.train[Perturbed(c)]
  BY DEF AcceptStep, Adopt
<1>2. Visiting
  BY DEF AcceptStep
<1> DEFINE e == Stepped(RuleKeys[k], Perturbed(c)[RuleKeys[k]], Perturbed(c), TRUE)
<1>3. e \in StepType /\ e.accepted /\ e.reason = ""
  BY <1>2, SteppedType
<1>4. /\ e.rule = RuleKeys[k] /\ e.new = Perturbed(c)[RuleKeys[k]]
      /\ e.train = objective.train[Perturbed(c)]
  BY DEF Stepped
<1>5. e.train > train
  BY <1>1, <1>4 DEF IsBest, CellTrain, Perturbed
<1>6. RuleKeys[k] \in Rules
  BY <1>2, VisitedRule
<1>7. \A r \in Rules \ {RuleKeys[k]} : Perturbed(c)[r] = weights[r]
  BY DEF Perturbed, With, StateInv, Weights
<1> QED BY <1>1, <1>3, <1>4, <1>5, <1>6, <1>7

LEMMA RevertHistory ==
    ASSUME StateInv, TypeInv, LedgerInv, AcceptThenRevert
    PROVE  /\ history' \in Seq(StepType)
           /\ Len(history') = Len(history) + 1
           /\ \A i \in DOMAIN history' : history'[i].accepted <=> history'[i].reason = ""
           /\ \A i \in DOMAIN history' : ~history'[i].accepted
<1>1. PICK c \in DOMAIN Grid :
        LET h == Append(history, Stepped(RuleKeys[k], Perturbed(c)[RuleKeys[k]], Perturbed(c), TRUE))
        IN  history' = Reverted(h, acceptedAt \cup {Len(h)})
  BY DEF AcceptThenRevert
<1>2. Visiting
  BY DEF AcceptThenRevert
<1> DEFINE e == Stepped(RuleKeys[k], Perturbed(c)[RuleKeys[k]], Perturbed(c), TRUE)
           h == Append(history, e)
           S == acceptedAt \cup {Len(h)}
<1>3. e \in StepType
  BY <1>2, SteppedType
<1>4. history \in Seq(StepType)
  BY DEF TypeInv
<1>5. /\ h \in Seq(StepType)
      /\ DOMAIN h = DOMAIN history \cup {Len(history) + 1}
      /\ Len(h) = Len(history) + 1
      /\ \A i \in DOMAIN history : h[i] = history[i]
  <2> HIDE DEF e
  <2> QED BY <1>3, <1>4, SMTT(30)
<1>6. acceptedAt = AcceptedSteps
  BY DEF LedgerInv, CountersMatchHistory
<1>7. S \in SUBSET DOMAIN h
  BY <1>5, <1>6 DEF AcceptedSteps
<1>8. history' = Reverted(h, S)
  BY <1>1
<1> HIDE DEF e, h
<1>9. /\ history' \in Seq(StepType)
      /\ DOMAIN history' = DOMAIN h /\ Len(history') = Len(h)
      /\ \A i \in DOMAIN h \ S : history'[i] = h[i]
      /\ \A i \in S : /\ history'[i].accepted = FALSE
                      /\ history'[i].reason = "cumulative_drift_revert"
  BY <1>5, <1>7, <1>8, RevertedType
<1>10. \A i \in DOMAIN h \ S : i \in DOMAIN history /\ ~history[i].accepted
  BY <1>5, <1>6 DEF AcceptedSteps
<1>11. \A i \in DOMAIN history : history[i].accepted <=> history[i].reason = ""
  BY DEF TypeInv
<1> QED BY <1>5, <1>9, <1>10, <1>11

\* A flag and a reason that agree in the new step agree in the longer history.
LEMMA AppendFlags ==
    ASSUME NEW h \in Seq(StepType), NEW e \in StepType
    PROVE  /\ Append(h, e) \in Seq(StepType)
           /\ /\ \A i \in DOMAIN h : h[i].accepted <=> h[i].reason = ""
              /\ e.accepted <=> e.reason = ""
              => \A i \in DOMAIN Append(h, e) :
                    Append(h, e)[i].accepted <=> Append(h, e)[i].reason = ""
<1>1. /\ Append(h, e) \in Seq(StepType)
      /\ DOMAIN Append(h, e) = DOMAIN h \cup {Len(h) + 1}
      /\ \A i \in DOMAIN h : Append(h, e)[i] = h[i]
      /\ Append(h, e)[Len(h) + 1] = e
  BY AppendFacts
<1> QED BY <1>1, Zenon

\* Each step of the history extends it, or replaces it by a reverted one.
LEMMA HistoryType ==
    ASSUME StateInv, TypeInv, LedgerInv, [Next]_vars
    PROVE  /\ history' \in Seq(StepType)
           /\ \A i \in DOMAIN history' : history'[i].accepted <=> history'[i].reason = ""
<1>0. history \in Seq(StepType) /\ \A i \in DOMAIN history :
                                      history[i].accepted <=> history[i].reason = ""
  BY DEF TypeInv
<1>1. CASE Quiet
  BY <1>0, <1>1 DEF Quiet, ledger
<1>2. CASE RejectStep
  <2>1. PICK e \in StepType : history' = Append(history, e) /\ ~e.accepted
                              /\ e.reason = "held_out_eps"
    BY <1>2, RejectHistory
  <2>2. e.accepted <=> e.reason = ""
    BY <2>1
  <2> QED BY <1>0, <2>1, <2>2, AppendFlags
<1>3. CASE AcceptStep
  <2>1. PICK e \in StepType : history' = Append(history, e) /\ e.accepted /\ e.reason = ""
    BY <1>3, AcceptHistory
  <2>2. e.accepted <=> e.reason = ""
    BY <2>1
  <2> QED BY <1>0, <2>1, <2>2, AppendFlags
<1>4. CASE AcceptThenRevert
  BY <1>4, RevertHistory
<1> QED BY <1>1, <1>2, <1>3, <1>4, QuietSteps

LEMMA PositionType ==
    ASSUME TypeInv, [Next]_vars
    PROVE  (sweep \in Nat /\ k \in Nat \ {0} /\ pc \in {"rule", "boundary", "done"})'
<1>0. sweep \in Nat /\ k \in Nat \ {0} /\ pc \in {"rule", "boundary", "done"}
  BY DEF TypeInv
<1>1. CASE WallClock
  BY <1>0, <1>1 DEF WallClock
<1>2. CASE NoImprovement
  BY <1>0, <1>2 DEF NoImprovement
<1>3. CASE RejectStep
  BY <1>0, <1>3 DEF RejectStep
<1>4. CASE AcceptStep
  BY <1>0, <1>4 DEF AcceptStep
<1>5. CASE AcceptThenRevert
  BY <1>0, <1>5 DEF AcceptThenRevert
<1>6. CASE EndSweep
  BY <1>0, <1>6 DEF EndSweep
<1>7. CASE Boundary
  BY <1>0, <1>7 DEF Boundary
<1>8. CASE UNCHANGED vars
  BY <1>0, <1>8 DEF vars, position
<1> QED BY <1>1, <1>2, <1>3, <1>4, <1>5, <1>6, <1>7, <1>8 DEF Next

LEMMA FlagType ==
    ASSUME TypeInv, [Next]_vars
    PROVE  (sweepHadAccept \in BOOLEAN /\ partial \in BOOLEAN)'
<1>0. sweepHadAccept \in BOOLEAN /\ partial \in BOOLEAN
  BY DEF TypeInv
<1>1. CASE WallClock
  BY <1>0, <1>1, Zenon DEF WallClock
<1>2. CASE NoImprovement
  BY <1>0, <1>2, Zenon DEF NoImprovement
<1>3. CASE RejectStep
  BY <1>0, <1>3, Zenon DEF RejectStep
<1>4. CASE AcceptStep
  BY <1>0, <1>4, Zenon DEF AcceptStep
<1>5. CASE AcceptThenRevert
  BY <1>0, <1>5, Zenon DEF AcceptThenRevert
<1>6. CASE EndSweep
  BY <1>0, <1>6, Zenon DEF EndSweep
<1>7. CASE Boundary
  <2>1. partial' \in BOOLEAN
    BY <1>0, <1>7, Zenon DEF Boundary
  <2>2. sweepHadAccept' \in BOOLEAN
    BY <1>0, <1>7, Zenon DEF Boundary
  <2> QED BY <2>1, <2>2
<1>8. CASE UNCHANGED vars
  BY <1>0, <1>8, Zenon DEF vars, position
<1> QED BY <1>1, <1>2, <1>3, <1>4, <1>5, <1>6, <1>7, <1>8 DEF Next

LEMMA TypeStep == ASSUME StateInv, TypeInv, LedgerInv, [Next]_vars PROVE TypeInv'
BY HistoryType, PositionType, FlagType, Zenon DEF TypeInv

LEMMA LedgerStep == ASSUME StateInv, TypeInv, LedgerInv, [Next]_vars PROVE LedgerInv'
<1>0. /\ history \in Seq(StepType) /\ IsFiniteSet(acceptedAt)
      /\ nAccepted \in Int /\ nRejected \in Int
      /\ acceptedAt = AcceptedSteps /\ nAccepted = Cardinality(AcceptedSteps)
      /\ nRejected = Len(history) - Cardinality(AcceptedSteps)
      /\ Cardinality(acceptedAt) \in Nat
  BY FS_CardinalityType DEF TypeInv, LedgerInv, CountersMatchHistory
<1>1. CASE Quiet
  BY <1>0, <1>1 DEF Quiet, ledger, LedgerInv, CountersMatchHistory, AcceptedSteps
<1>2. CASE RejectStep
  <2>1. PICK e \in StepType : history' = Append(history, e) /\ ~e.accepted
    BY <1>2, RejectHistory
  <2>2. AcceptedSteps' = AcceptedSteps
    BY <1>0, <2>1, AppendFacts DEF AcceptedSteps
  <2>3. Len(history') = Len(history) + 1 /\ Len(history) \in Nat
    BY <1>0, <2>1, AppendFacts
  <2> QED BY <1>0, <1>2, <2>2, <2>3 DEF RejectStep, LedgerInv, CountersMatchHistory
<1>3. CASE AcceptStep
  <2>1. PICK e \in StepType : history' = Append(history, e) /\ e.accepted
    BY <1>3, AcceptHistory
  <2>2. AcceptedSteps' = AcceptedSteps \cup {Len(history) + 1}
    BY <1>0, <2>1, AppendFacts DEF AcceptedSteps
  <2>3. /\ Len(history') = Len(history) + 1 /\ Len(history) \in Nat
        /\ Len(history) + 1 \notin AcceptedSteps
    BY <1>0, <2>1, AppendFacts DEF AcceptedSteps
  <2>4. /\ acceptedAt' = acceptedAt \cup {Len(history) + 1}
        /\ nAccepted' = nAccepted + 1 /\ nRejected' = nRejected
    BY <1>3 DEF AcceptStep
  <2>5. /\ IsFiniteSet(acceptedAt')
        /\ Cardinality(acceptedAt') = Cardinality(acceptedAt) + 1
    BY <1>0, <2>3, <2>4, FS_AddElement
  <2> QED BY <1>0, <2>2, <2>3, <2>4, <2>5 DEF LedgerInv, CountersMatchHistory
<1>4. CASE AcceptThenRevert
  <2>1. Len(history') = Len(history) + 1 /\ \A i \in DOMAIN history' : ~history'[i].accepted
    BY <1>4, RevertHistory
  <2>2. AcceptedSteps' = {} /\ Len(history) \in Nat
    BY <1>0, <2>1 DEF AcceptedSteps
  <2>3. /\ acceptedAt' = {}
        /\ nAccepted' = (nAccepted + 1) - (Cardinality(acceptedAt) + 1)
        /\ nRejected' = nRejected + (Cardinality(acceptedAt) + 1)
    BY <1>4 DEF AcceptThenRevert
  <2>4. IsFiniteSet({}) /\ Cardinality({}) = 0
    BY FS_EmptySet
  <2>5. nAccepted' = 0 /\ nRejected' = Len(history')
    BY <1>0, <2>1, <2>2, <2>3
  <2>6. Len(history') \in Nat
    BY <2>1, <2>2
  <2>7. Cardinality(AcceptedSteps') = 0
    BY <2>2, <2>4, Zenon
  <2>8. CountersMatchHistory'
    BY <2>2, <2>3, <2>5, <2>6, <2>7 DEF CountersMatchHistory
  <2>9. IsFiniteSet(acceptedAt')
    BY <2>3, <2>4, Zenon
  <2> QED BY <2>5, <2>6, <2>8, <2>9 DEF LedgerInv
<1> QED BY <1>1, <1>2, <1>3, <1>4, QuietSteps

LEMMA ExplainStep ==
    ASSUME StateInv, TypeInv, LedgerInv, HistoryExplainsWeights, [Next]_vars
    PROVE  HistoryExplainsWeights'
<1>0. history \in Seq(StepType) /\ weights \in Weights
  BY DEF TypeInv, StateInv
<1>1. CASE Quiet
  BY <1>1 DEF Quiet, ledger, metrics, HistoryExplainsWeights, LastOf, AcceptedSteps
<1>2. CASE RejectStep
  <2>1. PICK e \in StepType : history' = Append(history, e) /\ ~e.accepted
    BY <1>2, RejectHistory
  <2>2. AcceptedSteps' = AcceptedSteps /\ \A i \in AcceptedSteps : history'[i] = history[i]
    BY <1>0, <2>1, AppendFacts DEF AcceptedSteps
  <2>3. \A r : LastOf(r)' = LastOf(r) /\ LastOf(r) \subseteq AcceptedSteps
    BY <2>2 DEF LastOf
  <2>4. weights' = weights
    BY <1>2 DEF RejectStep, metrics
  <2> QED BY <2>2, <2>3, <2>4 DEF HistoryExplainsWeights
<1>3. CASE AcceptStep
  <2>1. PICK e \in StepType :
          /\ history' = Append(history, e)
          /\ e.accepted
          /\ e.rule = RuleKeys[k] /\ e.rule \in Rules
          /\ e.new = weights'[RuleKeys[k]]
          /\ \A r \in Rules \ {e.rule} : weights'[r] = weights[r]
    BY <1>3, AcceptHistory
  <2>2. AcceptedSteps' = AcceptedSteps \cup {Len(history) + 1}
    BY <1>0, <2>1, AppendFacts DEF AcceptedSteps
  <2>3. /\ \A i \in AcceptedSteps : history'[i] = history[i] /\ i < Len(history) + 1 /\ i \in Nat
        /\ history'[Len(history) + 1] = e
        /\ Len(history) \in Nat
    BY <1>0, <2>1, AppendFacts DEF AcceptedSteps
  <2> SUFFICES ASSUME NEW r \in Rules
               PROVE  IF LastOf(r)' = {} THEN weights'[r] = Baseline[r]
                      ELSE \A i \in LastOf(r)' : history'[i].new = weights'[r]
    BY DEF HistoryExplainsWeights
  <2>4. CASE r = e.rule
    <3>1. LastOf(r)' = {Len(history) + 1}
      BY <2>2, <2>3, <2>4 DEF LastOf
    <3> QED BY <2>1, <2>3, <2>4, <3>1
  <2>5. CASE r # e.rule
    <3>1. LastOf(r)' = LastOf(r)
      BY <2>2, <2>3, <2>5 DEF LastOf
    <3>2. LastOf(r) \subseteq AcceptedSteps
      BY DEF LastOf
    <3>3. weights'[r] = weights[r]
      BY <2>1, <2>5
    <3> QED BY <2>3, <3>1, <3>2, <3>3 DEF HistoryExplainsWeights
  <2> QED BY <2>4, <2>5
<1>4. CASE AcceptThenRevert
  <2>1. AcceptedSteps' = {}
    BY <1>4, RevertHistory DEF AcceptedSteps
  <2>2. weights' = Baseline
    BY <1>4 DEF AcceptThenRevert, BackToBaseline
  <2> QED BY <2>1, <2>2 DEF HistoryExplainsWeights, LastOf
<1> QED BY <1>1, <1>2, <1>3, <1>4, QuietSteps

\* The train score of the accepted steps rises from the baseline to the current one.
ClimbInv == AcceptedStepsClimb /\ BaseTrain <= train

LEMMA BaseTrainType == ASSUME StateInv PROVE BaseTrain \in Int /\ train \in Int
<1>1. Baseline \in Weights
  BY AscentAssumption
<1> QED BY <1>1, ScoreType DEF StateInv, MetricsOfWeights, BaseTrain

LEMMA ClimbInvStep ==
    ASSUME StateInv, StateInv', TypeInv, LedgerInv, ClimbInv, [Next]_vars
    PROVE  ClimbInv'
<1>a. Baseline \in Weights
  BY AscentAssumption
<1>b. BaseTrain' \in Int /\ train' \in Int
  BY <1>a, ScoreType DEF StateInv, MetricsOfWeights, BaseTrain
<1>0. /\ history \in Seq(StepType)
      /\ BaseTrain \in Int /\ train \in Int /\ BaseTrain' \in Int /\ train' \in Int
  BY <1>b, BaseTrainType DEF TypeInv
<1>1. CASE Quiet
  BY <1>1 DEF Quiet, ledger, metrics, ClimbInv, AcceptedStepsClimb, AcceptedSteps, BaseTrain
<1>2. CASE RejectStep
  <2>1. PICK e \in StepType : history' = Append(history, e) /\ ~e.accepted
    BY <1>2, RejectHistory
  <2>2. AcceptedSteps' = AcceptedSteps /\ \A i \in AcceptedSteps : history'[i] = history[i]
    BY <1>0, <2>1, AppendFacts DEF AcceptedSteps
  <2>3. train' = train /\ BaseTrain' = BaseTrain
    BY <1>2 DEF RejectStep, metrics, BaseTrain
  <2> QED BY <2>2, <2>3 DEF ClimbInv, AcceptedStepsClimb
<1>3. CASE AcceptStep
  <2>1. PICK e \in StepType :
          history' = Append(history, e) /\ e.accepted /\ e.train = train' /\ e.train > train
    BY <1>3, AcceptHistory
  <2>2. AcceptedSteps' = AcceptedSteps \cup {Len(history) + 1}
    BY <1>0, <2>1, AppendFacts DEF AcceptedSteps
  <2>a. \A i \in AcceptedSteps : history[i] \in StepType
    BY <1>0 DEF AcceptedSteps
  <2>b. \A i \in AcceptedSteps : history[i].train \in Int
    BY <2>a DEF StepType
  <2>c. /\ \A i \in AcceptedSteps : /\ history'[i] = history[i]
                                    /\ i < Len(history) + 1 /\ i \in Nat
        /\ history'[Len(history) + 1] = e
        /\ Len(history) \in Nat
    BY <1>0, <2>1, AppendFacts DEF AcceptedSteps
  <2>3. /\ \A i \in AcceptedSteps : /\ history'[i] = history[i]
                                    /\ i < Len(history) + 1 /\ i \in Nat
                                    /\ history[i].train \in Int
        /\ history'[Len(history) + 1] = e
        /\ Len(history) \in Nat
    BY <2>b, <2>c
  <2>4. BaseTrain' = BaseTrain /\ train' > train
    BY <1>3, <2>1 DEF AcceptStep, BaseTrain
  <2>5. ASSUME NEW i \in AcceptedSteps', NEW j \in AcceptedSteps', i < j
        PROVE  history'[i].train < history'[j].train
    <3>1. i \in AcceptedSteps
      BY <2>2, <2>3, <2>5
    <3>2. CASE j \in AcceptedSteps
      BY <2>3, <2>5, <3>1, <3>2 DEF ClimbInv, AcceptedStepsClimb
    <3>3. CASE j = Len(history) + 1
      <4>1. history'[i].train = history[i].train /\ history[i].train \in Int
        BY <2>3, <3>1
      <4>2. history[i].train <= train
        BY <3>1 DEF ClimbInv, AcceptedStepsClimb
      <4>3. history'[j].train = train'
        BY <2>1, <2>3, <3>3
      <4> QED BY <1>0, <2>4, <4>1, <4>2, <4>3
    <3> QED BY <2>2, <3>2, <3>3
  <2>6. ASSUME NEW i \in AcceptedSteps'
        PROVE  BaseTrain' < history'[i].train /\ history'[i].train <= train'
    <3>1. CASE i \in AcceptedSteps
      BY <1>0, <2>3, <2>4, <3>1 DEF ClimbInv, AcceptedStepsClimb
    <3>2. CASE i = Len(history) + 1
      BY <1>0, <2>1, <2>3, <2>4, <3>2 DEF ClimbInv
    <3> QED BY <2>2, <3>1, <3>2
  <2> QED BY <1>0, <2>4, <2>5, <2>6 DEF ClimbInv, AcceptedStepsClimb
<1>4. CASE AcceptThenRevert
  <2>1. AcceptedSteps' = {}
    BY <1>4, RevertHistory DEF AcceptedSteps
  <2>2. train' = BaseTrain'
    BY <1>4 DEF AcceptThenRevert, BackToBaseline, BaseTrain
  <2> QED BY <1>0, <2>1, <2>2 DEF ClimbInv, AcceptedStepsClimb
<1> QED BY <1>1, <1>2, <1>3, <1>4, QuietSteps

-----------------------------------------------------------------------------
(* Convergence: a sweep that accepts nothing has seen every rule with the    *)
(* weights it ends with.                                                     *)

NoGoodCell(r) ==
    \A c \in DOMAIN Grid :
        IsBest(r, c) => ~HeldOk(With(weights, r, Scaled(weights[r], Grid[c])))

SweptInv ==
    /\ pc = "rule" /\ ~sweepHadAccept =>
          \A j \in DOMAIN RuleKeys : j < k => NoGoodCell(RuleKeys[j])
    /\ pc = "boundary" /\ ~sweepHadAccept => \A r \in Rules : NoGoodCell(r)
    /\ ConvergedIsLocalOptimum

LEMMA NoGoodCellKept ==
    ASSUME UNCHANGED <<objective, metrics>>, NEW r, NoGoodCell(r)
    PROVE  NoGoodCell(r)'
<1>1. objective' = objective /\ weights' = weights /\ train' = train /\ held' = held
  BY DEF metrics
<1>2. \A c : CellTrain(r, c)' = CellTrain(r, c)
  BY <1>1 DEF CellTrain
<1>3. Cells(r)' = Cells(r)
  BY <1>1 DEF Cells
<1>4. \A c : IsBest(r, c)' <=> IsBest(r, c)
  BY <1>1, <1>2, <1>3 DEF IsBest
<1>5. \A w : HeldOk(w)' <=> HeldOk(w)
  BY <1>1 DEF HeldOk
<1> QED BY <1>1, <1>4, <1>5 DEF NoGoodCell

\* The best cell of a rule is unique: the first of those with the highest score.
LEMMA BestIsUnique ==
    ASSUME StateInv, NEW r \in Rules, NEW c \in DOMAIN Grid, NEW d \in DOMAIN Grid,
           IsBest(r, c), IsBest(r, d)
    PROVE  c = d
<1>1. weights[r] \in ClampMin..ClampMax /\ weights \in Weights
  BY DEF StateInv, Weights
<1>2. CellTrain(r, c) \in Int /\ CellTrain(r, d) \in Int
  BY <1>1, ScaledRange, WithType, ScoreType DEF CellTrain, StateInv
<1>3. c \in Nat /\ d \in Nat
  BY AscentAssumption
<1>4. /\ CellTrain(r, d) < CellTrain(r, c) \/ (CellTrain(r, d) = CellTrain(r, c) /\ c <= d)
      /\ CellTrain(r, c) < CellTrain(r, d) \/ (CellTrain(r, c) = CellTrain(r, d) /\ d <= c)
  BY DEF IsBest
<1> QED BY <1>2, <1>3, <1>4

LEMMA KeyPositions == DOMAIN RuleKeys = 1..Len(RuleKeys) /\ Len(RuleKeys) \in Nat
<1>1. RuleKeys \in Seq(Rules)
  BY AscentAssumption
<1> QED BY <1>1

LEMMA SweptInit == Init => SweptInv
<1> SUFFICES ASSUME Init PROVE SweptInv
  OBVIOUS
<1>1. pc = "rule" /\ k = 1
  BY DEF Init
<1>2. \A j \in DOMAIN RuleKeys : ~(j < 1)
  BY AscentAssumption
<1> QED BY <1>1, <1>2 DEF SweptInv, ConvergedIsLocalOptimum

\* The sweep goes on past a rule whose best cell, if any, is not accepted.
LEMMA PassedOver ==
    ASSUME TypeInv, SweptInv, Visiting, NoGoodCell(RuleKeys[k]),
           k' = k + 1, UNCHANGED <<objective, metrics, sweepHadAccept, pc>>
    PROVE  SweptInv'
<1>1. pc' = "rule" /\ pc = "rule"
  BY DEF Visiting
<1>a. k \in Nat
  BY DEF TypeInv
<1>2. k \in Nat /\ \A j \in DOMAIN RuleKeys : j \in Nat
  BY <1>a, KeyPositions
<1>3. ASSUME ~sweepHadAccept, NEW j \in DOMAIN RuleKeys, j < k + 1
      PROVE  NoGoodCell(RuleKeys[j])'
  <2>1. NoGoodCell(RuleKeys[j])
    <3>1. CASE j < k
      BY <1>1, <1>3, <3>1 DEF SweptInv
    <3>2. CASE j = k
      BY <3>2
    <3> QED BY <1>2, <1>3, <3>1, <3>2
  <2> QED BY <2>1, NoGoodCellKept
<1>4. ~(pc' = "boundary") /\ ConvergedIsLocalOptimum'
  BY <1>1 DEF ConvergedIsLocalOptimum
<1> QED BY <1>1, <1>3, <1>4 DEF SweptInv

LEMMA SweptStep ==
    ASSUME StateInv, TypeInv, SweptInv, [Next]_vars
    PROVE  SweptInv'
<1>1. CASE WallClock
  BY <1>1 DEF WallClock, SweptInv, ConvergedIsLocalOptimum
<1>2. CASE NoImprovement
  <2>1. NoGoodCell(RuleKeys[k])
    BY <1>2 DEF NoImprovement, Improvable, NoGoodCell
  <2> QED BY <1>2, <2>1, PassedOver DEF NoImprovement
<1>3. CASE RejectStep
  <2>1. PICK c \in DOMAIN Grid : IsBest(RuleKeys[k], c) /\ ~HeldOk(Perturbed(c))
    BY <1>3 DEF RejectStep
  <2>2. RuleKeys[k] \in Rules
    BY <1>3, VisitedRule DEF RejectStep
  <2>3. NoGoodCell(RuleKeys[k])
    BY <2>1, <2>2, BestIsUnique DEF NoGoodCell, Perturbed
  <2> QED BY <1>3, <2>3, PassedOver DEF RejectStep
<1>4. CASE AcceptStep
  BY <1>4 DEF AcceptStep, Visiting, SweptInv, ConvergedIsLocalOptimum
<1>5. CASE AcceptThenRevert
  BY <1>5 DEF AcceptThenRevert, SweptInv, ConvergedIsLocalOptimum
<1>6. CASE EndSweep
  <2>a. k \in Nat
    BY DEF TypeInv
  <2>b. k > Len(RuleKeys)
    BY <1>6 DEF EndSweep
  <2>1. \A j \in DOMAIN RuleKeys : j < k
    BY <2>a, <2>b, KeyPositions
  <2>2. ASSUME ~sweepHadAccept, NEW r \in Rules PROVE NoGoodCell(r)'
    <3>1. PICK j \in DOMAIN RuleKeys : r = RuleKeys[j]
      BY DEF Rules
    <3>2. NoGoodCell(r)
      BY <1>6, <2>1, <2>2, <3>1 DEF EndSweep, SweptInv
    <3> QED BY <1>6, <3>2, NoGoodCellKept DEF EndSweep
  <2>3. pc' = "boundary" /\ sweepHadAccept' = sweepHadAccept
    BY <1>6 DEF EndSweep
  <2> QED BY <2>2, <2>3 DEF SweptInv, ConvergedIsLocalOptimum
<1>7. CASE Boundary
  <2>1. CASE Drifted(held)
    BY <1>7, <2>1 DEF Boundary, SweptInv, ConvergedIsLocalOptimum
  <2>2. CASE ~Drifted(held) /\ (~sweepHadAccept \/ sweep = MaxSweeps)
    <3>1. /\ pc' = "done" /\ sweepHadAccept' = sweepHadAccept
          /\ UNCHANGED <<objective, metrics>>
      BY <1>7, <2>2 DEF Boundary
    <3>2. ASSUME ~sweepHadAccept, NEW r \in Rules PROVE NoGoodCell(r)'
      BY <1>7, <3>1, <3>2, NoGoodCellKept DEF Boundary, SweptInv
    <3> QED BY <3>1, <3>2 DEF SweptInv, ConvergedIsLocalOptimum, NoGoodCell
  <2>3. CASE ~Drifted(held) /\ sweepHadAccept /\ sweep # MaxSweeps
    <3>1. pc' = "rule" /\ k' = 1
      BY <1>7, <2>3 DEF Boundary
    <3>2. \A j \in DOMAIN RuleKeys : ~(j < 1)
      BY AscentAssumption
    <3> QED BY <3>1, <3>2 DEF SweptInv, ConvergedIsLocalOptimum
  <2> QED BY <2>1, <2>2, <2>3
<1>8. CASE UNCHANGED vars
  <2>1. UNCHANGED <<objective, metrics>> /\ UNCHANGED <<pc, k, sweepHadAccept, partial>>
    BY <1>8 DEF vars, position
  <2>2. \A r : NoGoodCell(r) => NoGoodCell(r)'
    BY <2>1, NoGoodCellKept
  <2>3. pc = "done" /\ ~partial /\ ~sweepHadAccept => \A r \in Rules : NoGoodCell(r)
    BY DEF SweptInv, ConvergedIsLocalOptimum, NoGoodCell
  <2>4. ConvergedIsLocalOptimum'
    BY <2>1, <2>2, <2>3 DEF ConvergedIsLocalOptimum, NoGoodCell
  <2> QED BY <2>1, <2>2, <2>4 DEF SweptInv
<1> QED BY <1>1, <1>2, <1>3, <1>4, <1>5, <1>6, <1>7, <1>8 DEF Next

-----------------------------------------------------------------------------
(* The inductive invariant, and the properties it implies.                   *)

AscentInv ==
    /\ StateInv
    /\ TypeInv
    /\ LedgerInv
    /\ HistoryExplainsWeights
    /\ ClimbInv
    /\ SweptInv

LEMMA AscentInit == Init => AscentInv
<1> SUFFICES ASSUME Init PROVE AscentInv
  OBVIOUS
<1>1. BaseTrain <= train
  BY StateInit, BaseTrainType DEF Init
<1> QED BY <1>1, StateInit, LedgerInit, SweptInit DEF AscentInv, ClimbInv

LEMMA AscentStep == AscentInv /\ [Next]_vars => AscentInv'
<1> SUFFICES ASSUME AscentInv, [Next]_vars PROVE AscentInv'
  OBVIOUS
<1>0. StateInv /\ TypeInv /\ LedgerInv /\ HistoryExplainsWeights /\ ClimbInv /\ SweptInv
  BY DEF AscentInv
<1>1. StateInv'
  BY <1>0, StateStep
<1>2. TypeInv'
  BY <1>0, TypeStep
<1>3. LedgerInv'
  BY <1>0, LedgerStep
<1>4. HistoryExplainsWeights'
  BY <1>0, ExplainStep
<1>5. ClimbInv'
  BY <1>0, <1>1, ClimbInvStep
<1>6. SweptInv'
  BY <1>0, SweptStep
<1> QED BY <1>1, <1>2, <1>3, <1>4, <1>5, <1>6 DEF AscentInv

LEMMA AscentInvariant == Spec => []AscentInv
BY AscentInit, AscentStep, PTL DEF Spec

\* Weights stay within the clamp, the history records steps, and a step carries
\* a reject reason exactly if it does not count.
THEOREM TypeCorrect == Spec => []TypeOK
<1>1. AscentInv => TypeOK
  <2> SUFFICES ASSUME AscentInv PROVE TypeOK
    OBVIOUS
  <2>0. objective \in Objectives /\ weights \in Weights /\ MetricsOfWeights
    BY DEF AscentInv, StateInv
  <2>1. /\ objective \in ScoresType /\ weights \in Weights
        /\ train \in Int /\ held \in Int /\ trainNdcg \in Int /\ heldNdcg \in Int
        /\ trainGem \in Int \cup {NoGem} /\ heldGem \in Int \cup {NoGem}
    BY <2>0, AscentAssumption, ScoreType DEF MetricsOfWeights
  <2>2. acceptedAt \subseteq DOMAIN history /\ nAccepted \in Int /\ nRejected \in Int
    BY DEF AscentInv, LedgerInv, CountersMatchHistory, AcceptedSteps
  <2> QED BY <2>1, <2>2, Zenon DEF AscentInv, TypeInv, TypeOK
<1> QED BY <1>1, AscentInvariant, PTL

\* The counters of the result are the numbers of accepted and not accepted steps
\* of its history, also after a revert.
THEOREM CountersAgree == Spec => []CountersMatchHistory
<1>1. AscentInv => CountersMatchHistory
  BY DEF AscentInv, LedgerInv
<1> QED BY <1>1, AscentInvariant, PTL

\* The final weights are the baseline with the last accepted value of each rule.
THEOREM HistoryReplays == Spec => []HistoryExplainsWeights
<1>1. AscentInv => HistoryExplainsWeights
  BY DEF AscentInv
<1> QED BY <1>1, AscentInvariant, PTL

\* Each accepted step beats the train score of every one before it.
THEOREM StepsClimb == Spec => []AcceptedStepsClimb
<1>1. AscentInv => AcceptedStepsClimb
  BY DEF AscentInv, ClimbInv
<1> QED BY <1>1, AscentInvariant, PTL

\* A sweep without an accept is one after which no rule has an acceptable best
\* cell: stopping there loses nothing.
THEOREM ConvergesAtOptimum == Spec => []ConvergedIsLocalOptimum
<1>1. AscentInv => ConvergedIsLocalOptimum
  BY DEF AscentInv, SweptInv
<1> QED BY <1>1, AscentInvariant, PTL
=============================================================================

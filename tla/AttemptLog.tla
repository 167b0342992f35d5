----------------------------- MODULE AttemptLog -----------------------------
(***************************************************************************)
(* The append-only attempt log of scripts/_attempt_log.py, read as a       *)
(* sequence of records.  A record keeps what the readers of the log tell   *)
(* apart: the template, the rule and the outcome.                          *)
(***************************************************************************)
EXTENDS Integers, Sequences, FiniteSets

BlockingOutcomes == {"reverted", "trivial", "marginal"}
FreshOutcomes    == BlockingOutcomes \cup {"passed"}
Outcomes         == FreshOutcomes \cup {"skipped"}

Record(template, rule, outcome) ==
    [template |-> template, rule |-> rule, outcome |-> outcome]

\* A prior attempt of the same (template, rule) ended in a blocking outcome.
IsKnownBad(log, template, rule) ==
    \E i \in DOMAIN log : /\ log[i].template = template
                          /\ log[i].rule = rule
                          /\ log[i].outcome \in BlockingOutcomes

Attempts(log, template, outcomes) ==
    Cardinality({i \in DOMAIN log : /\ log[i].template = template
                                    /\ log[i].outcome \in outcomes})

\* (passed + 1) / (fresh + 2) <= 0.34 with at least two fresh attempts: the
\* Laplace-smoothed pass rate, in hundredths.
BlockRate     == 34
BlockMinFresh == 2

IsTemplateBlocked(log, template) ==
    LET passed == Attempts(log, template, {"passed"})
        fresh  == Attempts(log, template, FreshOutcomes)
    IN  /\ fresh >= BlockMinFresh
        /\ 100 * (passed + 1) <= BlockRate * (fresh + 2)
=============================================================================

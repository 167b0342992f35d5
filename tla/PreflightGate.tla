--------------------------- MODULE PreflightGate ----------------------------
(***************************************************************************)
(* The Stage A pre-flight gate (preflight/gates.py, pipeline.py): how many *)
(* commanders a proposed rule could fire on, in the evaluation fixture and *)
(* among all legal commanders.  A rule's predicate is the set of cards     *)
(* with a matching port; a database is                                     *)
(*   [legal : SUBSET Cards, hasColumn : BOOLEAN],                          *)
(* hasColumn FALSE for one without the legal_commander column.             *)
(***************************************************************************)
EXTENDS Integers, FiniteSets

CONSTANTS
    Cards,      \* names of the cards table
    Legendary,  \* the legendary creatures among them
    Threshold   \* LEGAL_UNIVERSE_BLIND_SPOT_THRESHOLD

\* Mutation: the filter on legendary creatures is applied to a list as well.
LegendaryAlways(restrictTo) == IF restrictTo # {} THEN restrictTo \cap Legendary ELSE Legendary

\* _count_distinct_commanders: cards with a matching port, restricted to a list
\* of names.  An empty list is falsy in Python and restricts nothing: the query
\* then counts legendary creatures.
Universe(restrictTo) == IF restrictTo # {} THEN restrictTo ELSE Legendary

CountDistinct(matching, restrictTo, legal) ==
    Cardinality(matching \cap Universe(restrictTo) \cap legal)

\* Mutation: every card of the universe counts, legal or not.
IllegalCounted(matching, fixture, d) ==
    IF CountDistinct(matching, fixture, Cards) >= 1 THEN "PASS"
    ELSE IF d.hasColumn /\ CountDistinct(matching, {}, Cards) >= Threshold THEN "WARN"
    ELSE "REJECT"

\* stage_a_golden_coverage.  Without the column there is no second corpus.
StageA(matching, fixture, d) ==
    IF CountDistinct(matching, fixture, Cards) >= 1 THEN "PASS"
    ELSE IF d.hasColumn /\ CountDistinct(matching, {}, d.legal) >= Threshold THEN "WARN"
    ELSE "REJECT"
=============================================================================

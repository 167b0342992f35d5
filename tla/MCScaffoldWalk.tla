--------------------------- MODULE MCScaffoldWalk ---------------------------
(* Four gaps, three rules, two templates: one rule is declarative as well,  *)
(* two gaps share a rule (as the gaps of creature_count_scaler do), one of  *)
(* them is not closed by it, and each pre-flight verdict occurs.            *)
EXTENDS ScaffoldWalk, TLC

CONSTANTS g1, g2, g3, g4, ruleA, ruleB, ruleC, tmplX, tmplY

MCQueue       == <<g1, g2, g3, g4>>
MCRuleOf      == (g1 :> ruleA) @@ (g2 :> ruleB) @@ (g3 :> ruleB) @@ (g4 :> ruleC)
MCTemplateOf  == (g1 :> tmplY) @@ (g2 :> tmplX) @@ (g3 :> tmplX) @@ (g4 :> tmplX)
MCClosing     == {g1, g2, g4}
MCSeverity    == (g1 :> "WARN") @@ (g2 :> "WARN") @@ (g3 :> "PASS") @@ (g4 :> "REJECT")
MCDeclarative == {ruleA}
=============================================================================

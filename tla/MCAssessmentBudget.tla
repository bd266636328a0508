------------------------- MODULE MCAssessmentBudget -------------------------
(***************************************************************************)
(* Small instances of AssessmentBudget for TLC.                            *)
(***************************************************************************)
EXTENDS AssessmentBudgetLedger, TLC

CONSTANTS w1, w2, c1, c2

\* Threads and components are interchangeable; used for safety only.
Symmetry == Permutations({w1, w2}) \cup Permutations({c1, c2})

FreshOrResumed == {<<0, 0>>, <<1, 2>>}
FreshOnly      == {<<0, 0>>}
OneReceipt     == {<<1, 2>>}
=============================================================================

--------------------------- MODULE MCBudgetHistory ---------------------------
(* An instance of BudgetHistory for TLC. *)
EXTENDS BudgetHistory, TLC

Symmetry == Permutations(Limits)
=============================================================================

------------------------------- MODULE MCGoals -------------------------------
(* Instances of Goals for TLC. *)
EXTENDS Goals, TLC

Symmetry == Permutations(Objects)
NegativeOrPositive == {-1, 1, 2}
Amounts == {0, 3}
OnlyCarry == {0}
=============================================================================

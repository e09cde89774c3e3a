----------------------------- MODULE MCAuthStore -----------------------------
(* Instances of AuthStore for TLC: PINs, users and tokens are interchangeable. *)
EXTENDS AuthStore, TLC

Symmetry == Permutations(PINs) \cup Permutations(Tokens)
=============================================================================

----------------------------- MODULE MCFileStore -----------------------------
(* Instances of FileStore for TLC. *)
EXTENDS FileStore, TLC

Symmetry == Permutations(Tenants) \cup Permutations(Ids) \cup Permutations(Values)
=============================================================================

------------------------------ MODULE MCLedger ------------------------------
(* An instance of Ledger for TLC: one user has, or will create, everything.  *)
EXTENDS Ledger

CONSTANT u

Owners == [i \in Ids |-> u]
=============================================================================

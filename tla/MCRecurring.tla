----------------------------- MODULE MCRecurring -----------------------------
(***************************************************************************)
(* The instance of Recurring that TLC checks, with the values of           *)
(* Recurring_sweeps.cfg.                                                   *)
(***************************************************************************)
EXTENDS Recurring
=============================================================================

----------------------------- MODULE MCSession -----------------------------
(* An instance of Session for TLC, given by Session_tab.cfg.               *)
EXTENDS Session
=============================================================================

----------------------------- MODULE MCSession -----------------------------
(* Session for TLC: the accounts are model values of the configuration. *)
EXTENDS Session

============================================================================

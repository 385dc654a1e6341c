--------------------------- MODULE MCCredentials ---------------------------
(* Credentials for TLC: accounts and calls are model values of the configuration. *)
EXTENDS Credentials

============================================================================

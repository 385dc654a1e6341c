--------------------------- MODULE MCDocumentGet ---------------------------
(* DocumentGet for TLC: the calls are model values of the configuration. *)
EXTENDS DocumentGet

============================================================================

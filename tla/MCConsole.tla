----------------------------- MODULE MCConsole -----------------------------
(* Two executions, as model values. *)
EXTENDS Console

CONSTANTS e1, e2
=============================================================================

------------------------------ MODULE MCConsole -----------------------------
(* Console for TLC. *)
EXTENDS Console
=============================================================================

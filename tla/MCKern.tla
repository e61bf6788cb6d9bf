------------------------------- MODULE MCKern -------------------------------
(* Kern for TLC. *)
EXTENDS Kern
=============================================================================

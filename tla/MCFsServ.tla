------------------------------ MODULE MCFsServ ------------------------------
(* FsServ for TLC: clients and names are interchangeable. *)
EXTENDS FsServ, TLC

Symmetry == Permutations(Clients) \cup Permutations(Names)
=============================================================================

------------------------------- MODULE MCPmap -------------------------------
(***************************************************************************)
(* Pmap for TLC.  Pages are interchangeable: a state is told apart by      *)
(* which places share a page, with what count, and by how many pages are   *)
(* free.  (A page that is referred to from nowhere is free with count 0:   *)
(* RefCountExact and FreeExact, which the run checks in every state.)      *)
(***************************************************************************)
EXTENDS Pmap

PagesInUse == {p \in Pages : \E x \in Places : mem.tab[x] = p}

Sharing ==
  <<{<<{x \in Places : mem.tab[x] = p}, mem.ref[p], p \in mem.free>> : p \in PagesInUse},
    Cardinality(mem.free), mem.wr, stopped>>
=============================================================================

------------------------------ MODULE MCSpawn ------------------------------
(* Spawn for TLC: a page of 12 bytes, words of 2 bytes. *)
EXTENDS Spawn

\* Segments that begin at a page, inside it or at its last byte, that end
\* before, at and after a page, with nothing, some, or all of them in the file.
Segments ==
  {ph \in [load : {TRUE}, va : {0, 5, 11}, memsz : {0, 1, 7, 12, 13, 24},
           filesz : {0, 1, 7, 12, 13}, offset : {12, 17, 23}, write : {FALSE}] :
     /\ ph.filesz <= ph.memsz
     /\ ph.va % PGSIZE = ph.offset % PGSIZE}

Second == [load |-> TRUE, va |-> 26, memsz |-> 10, filesz |-> 4, offset |-> 2, write |-> TRUE]
NotLoaded == [load |-> FALSE, va |-> 0, memsz |-> 1, filesz |-> 0, offset |-> 0, write |-> FALSE]

MCImages ==
  {x \in {<<NotLoaded, s>> : s \in Segments} \cup {<<s, Second>> : s \in Segments} : WellFormed(x)}

\* No argument, one that just fits and one that does not, the same for two.
MCArgvs == {<<>>, <<0>>, <<3>>, <<4>>, <<0, 0>>, <<1, 0>>}
=============================================================================

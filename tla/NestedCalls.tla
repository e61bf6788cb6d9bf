---------------------------- MODULE NestedCalls ----------------------------
(***************************************************************************)
(* What exception upcalls promise to a program: a fault suspends what runs *)
(* and starts a handler; the handler's return resumes exactly what was     *)
(* suspended, its instruction, its registers and its stack.  While a       *)
(* handler runs it changes nothing of what is suspended.  A page fault     *)
(* resumes at the instruction that faulted, the other exceptions after it. *)
(***************************************************************************)
EXTENDS Naturals, Sequences

CONSTANTS InstrLen    \* length of the instruction that faulted

VARIABLES run,        \* what runs: eip, regs, words (its part of the stack)
          suspended,  \* what is suspended, innermost last: act, kind and va
          dead        \* the environment has been destroyed

AfterReturn(s) ==
  IF s.kind = "pgfault" THEN s.act
  ELSE [s.act EXCEPT !.eip.off = @ + InstrLen]

Init == run.words = <<>> /\ suspended = <<>> /\ dead = FALSE

Own == ~dead /\ UNCHANGED <<suspended, dead>>

Fault ==
  /\ ~dead
  /\ Len(suspended') = Len(suspended) + 1
  /\ SubSeq(suspended', 1, Len(suspended)) = suspended
  /\ suspended'[Len(suspended) + 1].act = run
  /\ UNCHANGED dead

Return ==
  /\ ~dead
  /\ suspended # <<>>
  /\ run' = AfterReturn(suspended[Len(suspended)])
  /\ suspended' = SubSeq(suspended, 1, Len(suspended) - 1)
  /\ UNCHANGED dead

Die == ~dead /\ dead' = TRUE

Next == Own \/ Fault \/ Return \/ Die

Spec == Init /\ [][Next]_<<run, suspended, dead>>
=============================================================================

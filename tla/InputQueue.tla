----------------------------- MODULE InputQueue -----------------------------
(***************************************************************************)
(* What the console input of the kernel promises: characters come out in   *)
(* the order they came in, and 0 comes out only when none is waiting       *)
(* (kern/console.c:423).                                                   *)
(***************************************************************************)
EXTENDS SequencesExt

CONSTANTS Chars,
          Burst    \* bound: characters that come in between two calls

VARIABLES queue,   \* characters waiting
          result   \* what the last cons_getc returned; 0 for none

QInit == queue = <<>> /\ result = 0

(* One cons_getc: what has arrived joins the queue, then the head leaves. *)
Getc ==
  \E in \in BoundedSeq(Chars, Burst) :
    LET q == queue \o in IN
    \/ q = <<>> /\ queue' = q /\ result' = 0
    \/ q # <<>> /\ queue' = Tail(q) /\ result' = Head(q)

QSpec == QInit /\ [][Getc]_<<queue, result>>
=============================================================================

------------------------------- MODULE Console ------------------------------
(***************************************************************************)
(* The console input of the kernel (kern/console.c): the circular buffer   *)
(* that cons_getc fills from the serial port and the keyboard.             *)
(*                                                                         *)
(* Characters reach the buffer only when cons_getc polls: trap_dispatch    *)
(* calls no console interrupt routine.  A device holds what arrived since  *)
(* the last poll; it is external to this code.                             *)
(***************************************************************************)
EXTENDS Integers, Sequences

CONSTANTS Chars,        \* input characters other than 0
          CONSBUFSIZE,  \* 512
          DevMax,       \* bound: bytes a device holds between two polls
          Backlog       \* bound: characters that wait, in the devices and in the
                        \* buffer; below CONSBUFSIZE if the reader keeps up

ASSUME ConsoleAssumption ==
  /\ 0 \notin Chars
  /\ CONSBUFSIZE \in Nat \ {0} /\ DevMax \in Nat
  /\ Backlog \in Nat

VARIABLES serial,    \* bytes at the serial port
          kbd,       \* what kbd_proc_data will return; 0 for a byte that ends no character
          buf, rpos, wpos,   \* cons
          result,    \* what the last cons_getc returned
          arrived    \* history: characters put into the buffer and not yet returned

vars == <<serial, kbd, buf, rpos, wpos, result, arrived>>

Places == 0..(CONSBUFSIZE - 1)

Init ==
  /\ serial = <<>> /\ kbd = <<>>
  /\ buf = [i \in Places |-> 0]
  /\ rpos = 0 /\ wpos = 0
  /\ result = 0
  /\ arrived = <<>>

(* The devices. *)
Room == Len(serial) + Len(kbd) + Len(arrived) < Backlog

SerialByte(c) ==
  /\ Room /\ Len(serial) < DevMax
  /\ serial' = Append(serial, c)
  /\ UNCHANGED <<kbd, buf, rpos, wpos, result, arrived>>

KeyByte(c) ==
  /\ Room /\ Len(kbd) < DevMax
  /\ kbd' = Append(kbd, c)
  /\ UNCHANGED <<serial, buf, rpos, wpos, result, arrived>>

\* Position i of the buffer moved on by n, back to 0 at the end.
Advance(i, n) == (i + n) % CONSBUFSIZE

(***************************************************************************)
(* cons_intr, from buffer r: every character the device has goes into the  *)
(* buffer, zeroes are skipped, and wpos wraps without looking at rpos.     *)
(***************************************************************************)
cons_intr(r, data) ==
  LET in       == SelectSeq(data, LAMBDA c : c # 0)
      writes(i) == {k \in 1..Len(in) : Advance(r.wpos, k - 1) = i}
  IN [buf  |-> [i \in Places |->
                  IF writes(i) = {} THEN r.buf[i]
                  ELSE in[CHOOSE k \in writes(i) : \A j \in writes(i) : j <= k]],
      wpos |-> Advance(r.wpos, Len(in)),
      in   |-> r.in \o in]

(* The polls of cons_getc: the serial port, then the keyboard. *)
Poll == cons_intr(cons_intr([buf |-> buf, wpos |-> wpos, in |-> <<>>], serial), kbd)

\* mutant: the buffer is tested before the devices are polled
cons_getc_TestsFirst ==
  LET r == Poll IN
  /\ serial' = <<>> /\ kbd' = <<>>
  /\ buf' = r.buf /\ wpos' = r.wpos
  /\ IF rpos # wpos
     THEN /\ result' = r.buf[rpos]
          /\ rpos' = Advance(rpos, 1)
          /\ arrived' = Tail(arrived \o r.in)
     ELSE /\ result' = 0
          /\ arrived' = arrived \o r.in
          /\ UNCHANGED rpos

cons_getc ==
  LET r == Poll IN
  /\ serial' = <<>> /\ kbd' = <<>>
  /\ buf' = r.buf /\ wpos' = r.wpos
  /\ IF rpos # r.wpos
     THEN /\ result' = r.buf[rpos]
          /\ rpos' = Advance(rpos, 1)
          /\ arrived' = Tail(arrived \o r.in)
     ELSE /\ result' = 0
          /\ arrived' = arrived \o r.in
          /\ UNCHANGED rpos

Next ==
  \/ \E c \in Chars \cup {0} : SerialByte(c) \/ KeyByte(c)
  \/ cons_getc

Spec == Init /\ [][Next]_vars

-----------------------------------------------------------------------------
(* As long as the reader keeps up, cons_getc takes the head of an          *)
(* unbounded queue: "return the next input character from the console, or  *)
(* 0 if none waiting" (kern/console.c:423), whatever bursts arrive and     *)
(* however often rpos and wpos go round.                                   *)
Queue == INSTANCE InputQueue WITH queue <- arrived, Burst <- 2 * DevMax
ImplementsQueue == Queue!QSpec
=============================================================================

------------------------------ MODULE SchedOps ------------------------------
(***************************************************************************)
(* The choice sched_yield makes (kern/sched.c), twice: as the loop over    *)
(* envs[] of the code, and as the environment that loop is meant to find.  *)
(* Statuses, priorities and message counts are functions on the slots.     *)
(***************************************************************************)
EXTENDS Integers

CONSTANTS NENV,        \* slots of envs[]                               (1024)
          SendedMax    \* 0xffffffff in sched_yield and sys_ipc_try_send

ASSUME SchedAssumption == NENV \in Nat \ {0} /\ SendedMax \in Nat \ {0}

Slots == 0..(NENV - 1)

\* A null struct Env pointer; in the loop, "no environment found yet".
NULL  == -1

\* The slot looked at in turn n of the loop, from `cur'.
ScanSlot_FromCur(cur, n) == (cur + n - 1) % NENV  \* mutant: the scan starts at cur
ScanSlot(cur, n) == (cur + n) % NENV

\* Slot i is taken instead of the best one p so far.
Better_OrEqual(i, p, pr, sd) ==                   \* mutant: the last of equals wins
  \/ pr[i] > p.max_priority
  \/ pr[i] = p.max_priority /\ sd[i] <= p.min_ipc_sended
Better(i, p, pr, sd) ==
  \/ pr[i] > p.max_priority
  \/ pr[i] = p.max_priority /\ sd[i] < p.min_ipc_sended

\* Before the loop, and one turn of it: the idle environment envs[0] is never taken.
LoopStart == [envidx |-> NULL, max_priority |-> 0, min_ipc_sended |-> SendedMax]

LoopTurn(i, p, st, pr, sd) ==
  IF i # 0 /\ st[i] = "RUNNABLE" /\ Better(i, p, pr, sd)
  THEN [envidx |-> i, max_priority |-> pr[i], min_ipc_sended |-> sd[i]]
  ELSE p

\* The loop; scan[n] is what it has when it has looked at n slots after `cur'.
SchedLoop(cur, st, pr, sd) ==
  LET scan[n \in 0..NENV] ==
        IF n = 0 THEN LoopStart ELSE LoopTurn(ScanSlot(cur, n), scan[n - 1], st, pr, sd)
  IN scan[NENV].envidx

(***************************************************************************)
(* What it finds: of the runnable environments other than envs[0], the one *)
(* of highest priority, of those the one that sent the fewest messages, of *)
(* those the first in circular order after `cur'.  As the loop starts from *)
(* priority 0 and 0xffffffff messages, an environment of priority 0 that   *)
(* had sent that many would not be eligible.                               *)
(***************************************************************************)
Eligible(st, pr, sd) ==
  {i \in Slots \ {0} : st[i] = "RUNNABLE" /\ (pr[i] > 0 \/ sd[i] < SendedMax)}

Distance(cur, i) == (i - cur - 1) % NENV

Preferred(i, j, cur, pr, sd) ==
  \/ pr[i] > pr[j]
  \/ pr[i] = pr[j] /\ sd[i] < sd[j]
  \/ pr[i] = pr[j] /\ sd[i] = sd[j] /\ Distance(cur, i) < Distance(cur, j)

IsChoice(i, cur, st, pr, sd) ==
  LET E == Eligible(st, pr, sd) IN
  i \in E /\ \A j \in E \ {i} : Preferred(i, j, cur, pr, sd)

\* env_ipc_sended after one more message.
CountSend_NoWrap(n) == n + 1                      \* mutant: the count is not bounded
CountSend(n) == (n + 1) % SendedMax
=============================================================================

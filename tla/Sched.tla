-------------------------------- MODULE Sched -------------------------------
(***************************************************************************)
(* The scheduler (kern/sched.c) under the clock interrupt.  The running    *)
(* environment computes, makes environments, blocks or wakes them, sends   *)
(* messages, changes priorities, destroys others or ends; of those         *)
(* operations only the effect on what sched_yield reads is kept (module    *)
(* Kern has the operations themselves, with their permissions; here the    *)
(* running environment may do them to any other).                          *)
(***************************************************************************)
EXTENDS SchedOps

CONSTANTS Priorities,       \* priorities environments have
          DefaultPriority,  \* PRIORITY_DEFAULT
          Senders           \* environments that send messages

ASSUME PrioritiesAssumption ==
  Priorities \subseteq Nat /\ DefaultPriority \in Priorities /\ Senders \subseteq Slots \ {0}

VARIABLES st,    \* env_status of the slots
          pr,    \* env_priority
          sd,    \* env_ipc_sended
          cur    \* the slot of curenv, or NULL

vars == <<st, pr, sd, cur>>

(* i386_init before its sched_yield: the idle environment, whose program   *)
(* never blocks, and whichever others it created.                          *)
Init ==
  /\ st \in {f \in [Slots -> {"FREE", "RUNNABLE"}] : f[0] = "RUNNABLE"}
  /\ pr = [s \in Slots |-> DefaultPriority]
  /\ sd = [s \in Slots |-> 0]
  /\ cur = NULL

(* Where the scan starts: after curenv, or at slot 1 if there is none.     *)
ScanStart(c) == IF c = NULL THEN 0 ELSE c

(* sched_yield, when curenv is c and the statuses are s1.                  *)
sched_yield(c, s1) ==
  LET found == SchedLoop(ScanStart(c), s1, pr, sd) IN
  cur' = IF found # NULL THEN found ELSE 0

(* A clock interrupt, sys_yield, or the end of i386_init. *)
Tick == sched_yield(cur, st) /\ UNCHANGED <<st, pr, sd>>

(* The environments that run programs that make calls: not the idle one.   *)
Running == cur \in Slots \ {0}

(* A call that blocks the running environment.  (One that wakes another    *)
(* before, as sys_ipc_recv may, is a Wake and a Block.)                    *)
Block ==
  /\ Running
  /\ st' = [st EXCEPT ![cur] = "NOT_RUNNABLE"]
  /\ sched_yield(cur, st')
  /\ UNCHANGED <<pr, sd>>

(* The running environment is destroyed, by itself or by a fault:          *)
(* env_destroy has no curenv any more when it calls sched_yield.           *)
Exit ==
  /\ Running
  /\ st' = [st EXCEPT ![cur] = "FREE"]
  /\ sched_yield(NULL, st')
  /\ UNCHANGED <<pr, sd>>

(* Calls that change another environment and return to the caller.         *)
Other(s) == Running /\ s # cur

(* sys_exofork: env_alloc sets priority and count of the slot it takes.    *)
Exofork(s) ==
  /\ Other(s) /\ st[s] = "FREE"
  /\ st' = [st EXCEPT ![s] = "NOT_RUNNABLE"]
  /\ pr' = [pr EXCEPT ![s] = DefaultPriority]
  /\ sd' = [sd EXCEPT ![s] = 0]
  /\ UNCHANGED cur

(* sys_env_destroy. *)
Destroy(s) ==
  /\ Other(s) /\ st[s] # "FREE"
  /\ st' = [st EXCEPT ![s] = "FREE"]
  /\ UNCHANGED <<pr, sd, cur>>

(* sys_env_set_status, and what sys_ipc_recv does to a waiting sender.     *)
Wake(s) ==
  /\ Other(s) /\ st[s] = "NOT_RUNNABLE"
  /\ st' = [st EXCEPT ![s] = "RUNNABLE"]
  /\ UNCHANGED <<pr, sd, cur>>

Stop(s) ==
  /\ Other(s) /\ st[s] = "RUNNABLE"
  /\ st' = [st EXCEPT ![s] = "NOT_RUNNABLE"]
  /\ UNCHANGED <<pr, sd, cur>>

(* A message that is delivered: its receiver was blocked, or was woken by  *)
(* another environment while it waited.                                    *)
Send(s) ==
  /\ Other(s) /\ cur \in Senders /\ st[s] # "FREE"
  /\ st' = [st EXCEPT ![s] = "RUNNABLE"]
  /\ sd' = [sd EXCEPT ![cur] = CountSend(@)]
  /\ UNCHANGED <<pr, cur>>

(* sys_env_set_priority, of the caller or of another. *)
SetPriority(s, p) ==
  /\ Running /\ st[s] # "FREE"
  /\ pr' = [pr EXCEPT ![s] = p]
  /\ UNCHANGED <<st, sd, cur>>

Next ==
  \/ Tick
  \/ Block
  \/ Exit
  \/ \E s \in Slots \ {0} :
       \/ Exofork(s) \/ Destroy(s) \/ Wake(s) \/ Stop(s) \/ Send(s)
       \/ \E p \in Priorities : SetPriority(s, p)

(* The clock never stops (kern/kclock.c programs it once, periodically). *)
Spec == Init /\ [][Next]_vars /\ WF_vars(Tick)

-----------------------------------------------------------------------------
(* The loop of sched_yield finds the environment it is meant to find, and  *)
(* finds none only when nothing but envs[0] is runnable, from wherever the *)
(* scan starts and whatever the message counts.                            *)
LoopFindsChoice ==
  \A c \in Slots :
    LET found == SchedLoop(c, st, pr, sd) IN
    IF \E s \in Slots \ {0} : st[s] = "RUNNABLE"
    THEN IsChoice(found, c, st, pr, sd)
    ELSE found = NULL

(* s can run, nobody that can run has a higher priority, and nobody of the *)
(* same priority has sent fewer messages.                                  *)
Contends(s) ==
  /\ st[s] = "RUNNABLE"
  /\ \A o \in Slots \ {0} : st[o] = "RUNNABLE" =>
       pr[o] < pr[s] \/ (pr[o] = pr[s] /\ sd[o] >= sd[s])

(* An environment that from some time on always contends runs again and    *)
(* again: priority and message count only decide between environments that *)
(* differ in them, and the others take turns, as the comment at            *)
(* kern/sched.c:13 says ("simple round-robin scheduling", "starting after  *)
(* the previously running env").  The code does not have this property:    *)
(* kern/sched.c:25 starts at slot 1 when the environment that ran before   *)
(* has been destroyed, so programs that end in turn in low slots keep the  *)
(* higher ones waiting for ever.                                           *)
RoundRobin ==
  \A s \in Slots \ {0} : <>[]Contends(s) => []<>(cur = s)

(* The running environment is destroyed. *)
Ends == Running /\ st'[cur] = "FREE"

(* That is the only way to starve: an environment that always contends     *)
(* runs again and again, or running environments are destroyed again and   *)
(* again (kern/env.c:427), whatever blocks, wakes, sends, is made, is      *)
(* destroyed by another or changes its priority in between.                *)
TurnsWhileNobodyEnds ==
  \A s \in Slots \ {0} :
    <>[]Contends(s) => []<>(cur = s) \/ []<><<Ends>>_vars
=============================================================================

-------------------------------- MODULE Kern --------------------------------
(***************************************************************************)
(* The environment table of the kernel (kern/env.c), its scheduler         *)
(* (kern/sched.c), the return path of trap() (kern/trap.c) and the system  *)
(* calls on environments and on IPC (kern/syscall.c).                      *)
(*                                                                         *)
(* The kernel runs on one processor with interrupts disabled, so one       *)
(* system call, fault or clock interrupt is one atomic action;             *)
(* environments interleave between actions, at the clock interrupts.  The  *)
(* program of an environment is arbitrary: the environment that runs may   *)
(* make any call with any argument.                                        *)
(*                                                                         *)
(* A definition marked `mutant' is a plausible mistake in the code, kept   *)
(* to show that a property notices it; the specification uses none.        *)
(*                                                                         *)
(* Memory is modelled in module Pmap.  Here an operation that allocates    *)
(* memory may fail at any time, and of a page transfer only its outcome is *)
(* kept.                                                                   *)
(***************************************************************************)
EXTENDS SchedOps, Sequences

CONSTANTS NBoot,            \* environments created by i386_init
          MaxGen,           \* last generation before the id wraps   (2^19 - 1)
          GenBound,         \* bound: no slot is reused past this generation
          Priorities,       \* priorities set_priority is called with   (uint32_t)
          PriorityDefault,  \* PRIORITY_DEFAULT
          Values,           \* values sent by IPC
          Callers,          \* slots whose program makes system calls; the others
                            \* (envs[0], user/idle.c) only yield
          Results,          \* results of system calls the programs tell apart
          Polite            \* TRUE: nobody wakes an environment blocked in IPC
                            \* with sys_env_set_status or sys_env_restore

ASSUME KernAssumption ==
  /\ NBoot \in 1..NENV
  /\ MaxGen \in Nat \ {0} /\ GenBound \in Nat
  /\ Priorities \subseteq Nat /\ PriorityDefault \in Priorities
  /\ Callers \subseteq Slots
  /\ Results \subseteq {"0", "error"}
  /\ Polite \in BOOLEAN

\* An envid is its generation and its index; env_init sets every env_id to 0.
EnvIds  == (0..MaxGen) \X Slots
NoId    == <<0, 0>>
ENVX(id) == id[2]

(***************************************************************************)
(* What the saved eax of an environment tells: the call it is still inside *)
(* of (its number: the call has not returned), or the result it resumes    *)
(* with.  The kernel never reads a result again; those no program of the   *)
(* model tells apart are all "other".                                      *)
(***************************************************************************)
EaxVals == {"SYS_ipc_try_send", "SYS_ipc_recv", "0", "E_IPC_NOT_RECV", "error", "other"}

Result(r) == IF r \in Results THEN r ELSE "other"

VARIABLES
  status,    \* env_status
  env_id,    \* env_id
  parent,    \* env_parent_id
  priority,  \* env_priority
  sended,    \* env_ipc_sended
  recving,   \* env_ipc_recving
  from,      \* env_ipc_from
  value,     \* env_ipc_value
  eax,       \* env_tf.tf_regs.reg_eax
  freeList,  \* env_free_list
  curenv,    \* curenv
  waiting,   \* waiting_srcenv_ids, waiting_dstenv_ids, waiting_env_num
  mode       \* "user": curenv runs; "monitor", "panic": the kernel has stopped

idVars    == <<env_id, parent>>
schedVars == <<priority, sended>>
ipcVars   == <<recving, from, value>>
runVars   == <<curenv, mode>>
vars      == <<status, idVars, schedVars, ipcVars, eax, freeList, waiting, runVars>>

TypeOK ==
  /\ status   \in [Slots -> {"FREE", "RUNNABLE", "NOT_RUNNABLE"}]
  /\ env_id   \in [Slots -> EnvIds]
  /\ parent   \in [Slots -> EnvIds]
  /\ priority \in [Slots -> Nat]
  /\ sended   \in [Slots -> 0..(SendedMax - 1)]
  /\ recving  \in [Slots -> BOOLEAN]
  /\ from     \in [Slots -> EnvIds]
  /\ value    \in [Slots -> Values \cup {0}]
  /\ eax      \in [Slots -> EaxVals]
  /\ freeList \in Seq(Slots)
  /\ curenv   \in Slots \cup {NULL}
  /\ waiting  \in Seq([src : EnvIds, dst : EnvIds])
  /\ mode     \in {"user", "monitor", "panic"}

-----------------------------------------------------------------------------
(* envid2env: the slot an envid stands for, NULL for -E_BAD_ENV. *)
envid2env(id, checkperm) ==
  IF id = NoId THEN curenv
  ELSE LET e == ENVX(id) IN
       IF \/ status[e] = "FREE"
          \/ env_id[e] # id
          \/ checkperm /\ e # curenv /\ parent[e] # env_id[curenv]
       THEN NULL ELSE e

\* mutant: the loop makes one turn less and never comes back to cur
sched_yield_SkipsCur(cur, st, pr, sd) ==
  LET idx == IF cur = NULL THEN 0 ELSE cur
      E   == Eligible(st, pr, sd) \ {cur}
  IN \/ \E i \in E : /\ \A j \in E \ {i} : Preferred(i, j, idx, pr, sd)
                    /\ curenv' = i /\ mode' = "user"
     \/ E = {} /\ st[0] = "RUNNABLE" /\ curenv' = 0 /\ mode' = "user"
     \/ E = {} /\ st[0] # "RUNNABLE" /\ curenv' = cur /\ mode' = "monitor"

(* sched_yield: run the environment the loop finds, else the idle one. *)
sched_yield(cur, st, pr, sd) ==
  LET idx == IF cur = NULL THEN 0 ELSE cur
      E   == Eligible(st, pr, sd)
  IN \/ \E i \in E : IsChoice(i, idx, st, pr, sd) /\ curenv' = i /\ mode' = "user"
     \/ E = {} /\ st[0] = "RUNNABLE" /\ curenv' = 0 /\ mode' = "user"
     \/ E = {} /\ st[0] # "RUNNABLE" /\ curenv' = cur /\ mode' = "monitor"

\* mutant: trap() does not look at env_status
Resume_Unchecked(st) == UNCHANGED runVars

\* The end of trap(): back to the environment that trapped if it still can run.
Resume(st) ==
  IF st[curenv] = "RUNNABLE" THEN UNCHANGED runVars
                             ELSE sched_yield(curenv, st, priority, sended)

\* A system call that does nothing but return r.
Return(r) ==
  /\ eax' = [eax EXCEPT ![curenv] = Result(r)]
  /\ UNCHANGED <<status, idVars, schedVars, ipcVars, freeList, waiting, runVars>>

-----------------------------------------------------------------------------
(* env_init, env_create for each boot environment, and the first sched_yield. *)
Init ==
  /\ status   = [s \in Slots |-> IF s < NBoot THEN "RUNNABLE" ELSE "FREE"]
  /\ env_id   = [s \in Slots |-> IF s < NBoot THEN <<1, s>> ELSE NoId]
  /\ parent   = [s \in Slots |-> NoId]
  /\ priority = [s \in Slots |-> IF s < NBoot THEN PriorityDefault ELSE 0]
  /\ sended   = [s \in Slots |-> 0]
  /\ recving  = [s \in Slots |-> FALSE]
  /\ from     = [s \in Slots |-> NoId]
  /\ value    = [s \in Slots |-> 0]
  /\ eax      = [s \in Slots |-> Result("0")]
  /\ freeList = [k \in 1..(NENV - NBoot) |-> NBoot + k - 1]
  /\ curenv   = IF NBoot > 1 THEN 1 ELSE 0
  /\ waiting  = <<>>
  /\ mode     = "user"

(* The id env_alloc gives to the next environment in slot e. *)
NextId(e) == IF env_id[e][1] + 1 > MaxGen THEN <<1, e>> ELSE <<env_id[e][1] + 1, e>>

(***************************************************************************)
(* sys_exofork: env_alloc takes the first free slot and gives it the next  *)
(* generation; the page directory may not be allocatable.                  *)
(***************************************************************************)
sys_exofork ==
  \/ Return("error")
  \/ /\ freeList # <<>>
     /\ LET e == Head(freeList) IN
        /\ env_id[e][1] < GenBound
        /\ env_id'   = [env_id EXCEPT ![e] = NextId(e)]
        /\ parent'   = [parent EXCEPT ![e] = env_id[curenv]]
        /\ status'   = [status EXCEPT ![e] = "NOT_RUNNABLE"]
        /\ priority' = [priority EXCEPT ![e] = PriorityDefault]
        /\ sended'   = [sended EXCEPT ![e] = 0]
        /\ recving'  = [recving EXCEPT ![e] = FALSE]
        /\ eax'      = [eax EXCEPT ![e] = Result("0"), ![curenv] = "other"]
     /\ freeList' = Tail(freeList)
     /\ UNCHANGED <<from, value, waiting, runVars>>

\* mutant: env_free forgets LIST_INSERT_HEAD
env_destroy_NotListed(e, st) ==
  /\ status' = [st EXCEPT ![e] = "FREE"]
  /\ IF e = curenv THEN sched_yield(NULL, status', priority, sended)
                   ELSE UNCHANGED runVars
  /\ UNCHANGED freeList

(* env_destroy of slot e, with st the statuses so far. *)
env_destroy(e, st) ==
  /\ status'   = [st EXCEPT ![e] = "FREE"]
  /\ freeList' = <<e>> \o freeList
  /\ IF e = curenv THEN sched_yield(NULL, status', priority, sended)
                   ELSE UNCHANGED runVars

sys_env_destroy(id) ==
  LET e == envid2env(id, TRUE) IN
  \/ e = NULL /\ Return("error")
  \/ /\ e # NULL
     /\ env_destroy(e, status)
     /\ eax' = [eax EXCEPT ![curenv] = Result("0")]
     /\ UNCHANGED <<idVars, schedVars, ipcVars, waiting>>

(* An exception without upcall, a failed user_mem_assert, or an interrupt  *)
(* that trap_dispatch has no case for ends curenv.                         *)
Fault ==
  /\ env_destroy(curenv, status)
  /\ UNCHANGED <<idVars, schedVars, ipcVars, eax, waiting>>

(* sys_yield, and the clock interrupt of trap_dispatch. *)
Yield ==
  /\ sched_yield(curenv, status, priority, sended)
  /\ UNCHANGED <<status, idVars, schedVars, ipcVars, eax, freeList, waiting>>

\* Slot e is inside sys_ipc_try_send or sys_ipc_recv.
InIpc(e) == eax[e] = "SYS_ipc_try_send" \/ recving[e]

sys_env_set_status(id, st) ==
  LET e == envid2env(id, TRUE) IN
  \/ e = NULL /\ Return("error")
  \/ /\ e # NULL
     /\ Polite /\ st = "RUNNABLE" => ~InIpc(e)
     /\ status' = [status EXCEPT ![e] = st]
     /\ eax' = [eax EXCEPT ![curenv] = Result("0")]
     /\ Resume(status')
     /\ UNCHANGED <<idVars, schedVars, ipcVars, freeList, waiting>>

(* A new trap frame replaces the saved eax as well. *)
sys_env_set_trapframe(id) ==
  LET e == envid2env(id, TRUE) IN
  \/ e = NULL /\ Return("error")
  \/ /\ e # NULL
     /\ Polite => ~InIpc(e)
     /\ eax' = [eax EXCEPT ![e] = "other", ![curenv] = Result("0")]
     /\ UNCHANGED <<status, idVars, schedVars, ipcVars, freeList, waiting, runVars>>

sys_env_set_priority(id, p) ==
  LET e == envid2env(id, TRUE) IN
  \/ e = NULL /\ Return("error")
  \/ /\ e # NULL
     /\ priority' = [priority EXCEPT ![e] = p]
     /\ eax' = [eax EXCEPT ![curenv] = Result("0")]
     /\ UNCHANGED <<status, idVars, sended, ipcVars, freeList, waiting, runVars>>

(* Wakes any stopped environment, related to the caller or not, and ends the caller. *)
sys_env_restore(id) ==
  LET e == envid2env(id, FALSE) IN
  \/ ~(e # NULL /\ status[e] = "NOT_RUNNABLE") /\ Return("error")
  \/ /\ e # NULL /\ status[e] = "NOT_RUNNABLE"
     /\ Polite => ~InIpc(e)
     /\ env_destroy(curenv, [status EXCEPT ![e] = "RUNNABLE"])
     /\ UNCHANGED <<idVars, schedVars, ipcVars, eax, waiting>>

-----------------------------------------------------------------------------
(***************************************************************************)
(* sys_ipc_try_send.  A sender whose target does not wait is queued and    *)
(* stopped; it is sys_ipc_recv that makes it return, with -E_IPC_NOT_RECV. *)
(* A send to 0 is queued under the id 0.  A page that goes with the        *)
(* message may fail to be transferred (see sys_ipc_try_send of Pmap): the  *)
(* send then returns an error and nothing has happened.                    *)
(***************************************************************************)
\* mutant: waiting_env_num is not incremented
Enqueue_NotCounted(id) ==
  /\ waiting' = <<[src |-> env_id[curenv], dst |-> id]>>
  /\ status'  = [status EXCEPT ![curenv] = "NOT_RUNNABLE"]
  /\ eax'     = [eax EXCEPT ![curenv] = "SYS_ipc_try_send"]
  /\ sched_yield(curenv, status', priority, sended)
  /\ UNCHANGED <<idVars, schedVars, ipcVars, freeList>>

Enqueue(id) ==
  /\ waiting' = Append(waiting, [src |-> env_id[curenv], dst |-> id])
  /\ status'  = [status EXCEPT ![curenv] = "NOT_RUNNABLE"]
  /\ eax'     = [eax EXCEPT ![curenv] = "SYS_ipc_try_send"]
  /\ sched_yield(curenv, status', priority, sended)
  /\ UNCHANGED <<idVars, schedVars, ipcVars, freeList>>

\* mutant: env_ipc_recving stays set
Deliver_KeepsRecving(d, v) ==
  /\ from'    = [from EXCEPT ![d] = env_id[curenv]]
  /\ value'   = [value EXCEPT ![d] = v]
  /\ status'  = [status EXCEPT ![d] = "RUNNABLE"]
  /\ eax'     = [eax EXCEPT ![d] = Result("0"), ![curenv] = Result("0")]
  /\ sended'  = [sended EXCEPT ![curenv] = CountSend(@)]
  /\ UNCHANGED <<idVars, priority, recving, freeList, waiting, runVars>>

Deliver(d, v) ==
  /\ recving' = [recving EXCEPT ![d] = FALSE]
  /\ from'    = [from EXCEPT ![d] = env_id[curenv]]
  /\ value'   = [value EXCEPT ![d] = v]
  /\ status'  = [status EXCEPT ![d] = "RUNNABLE"]
  /\ eax'     = [eax EXCEPT ![d] = Result("0"), ![curenv] = Result("0")]
  /\ sended'  = [sended EXCEPT ![curenv] = CountSend(@)]
  /\ UNCHANGED <<idVars, priority, freeList, waiting, runVars>>

sys_ipc_try_send(id, v, page) ==
  LET d     == envid2env(id, FALSE)
      ready == recving[d] /\ from[d] = NoId
  IN \/ d = NULL /\ Return("error")
     \/ /\ d # NULL /\ ~ready
        /\ Len(waiting) < NENV
        /\ Enqueue(id)
     \/ /\ d # NULL /\ ~ready
        /\ Len(waiting) >= NENV
        /\ mode' = "panic"
        /\ UNCHANGED <<status, idVars, schedVars, ipcVars, eax, freeList, waiting, curenv>>
     \/ d # NULL /\ ready /\ Deliver(d, v)
     \/ d # NULL /\ ready /\ page /\ Return("error")

(***************************************************************************)
(* sys_ipc_recv.  The environment is blocked first; then a bad address or  *)
(* a dead first sender makes the call return an error to an environment    *)
(* that stays blocked.                                                     *)
(***************************************************************************)
\* mutant: the search stops one entry early
QueuedFor_Short(id) == {k \in 1..(Len(waiting) - 1) : waiting[k].dst = id}

QueuedFor(id) == {k \in 1..Len(waiting) : waiting[k].dst = id}

\* mutant: waiting_env_num is not decremented
ShiftOut_Kept(q, k) == q

\* The loop that moves the entries after k one place down.
ShiftOut(q, k) == [j \in 1..(Len(q) - 1) |-> IF j < k THEN q[j] ELSE q[j + 1]]

BlockInRecv(st) ==
  /\ from'    = [from EXCEPT ![curenv] = NoId]
  /\ recving' = [recving EXCEPT ![curenv] = TRUE]
  /\ status'  = st
  /\ sched_yield(curenv, st, priority, sended)
  /\ UNCHANGED <<idVars, schedVars, value, freeList>>

sys_ipc_recv(aligned) ==
  LET blocked == [status EXCEPT ![curenv] = "NOT_RUNNABLE"]
      queue   == QueuedFor(env_id[curenv])
  IN \/ /\ ~aligned
        /\ BlockInRecv(blocked)
        /\ eax' = [eax EXCEPT ![curenv] = Result("error")]
        /\ UNCHANGED waiting
     \/ /\ aligned /\ queue = {}
        /\ BlockInRecv(blocked)
        /\ eax' = [eax EXCEPT ![curenv] = "SYS_ipc_recv"]
        /\ UNCHANGED waiting
     \/ /\ aligned
        /\ \E k \in queue :
             /\ \A j \in queue : k <= j
             /\ LET s == envid2env(waiting[k].src, FALSE) IN
                \/ /\ s = NULL
                   /\ BlockInRecv(blocked)
                   /\ eax' = [eax EXCEPT ![curenv] = Result("error")]
                   /\ UNCHANGED waiting
                \/ /\ s # NULL
                   /\ BlockInRecv([blocked EXCEPT ![s] = "RUNNABLE"])
                   /\ eax' = [eax EXCEPT ![curenv] = "SYS_ipc_recv",
                                         ![s] = "E_IPC_NOT_RECV"]
                   /\ waiting' = ShiftOut(waiting, k)

-----------------------------------------------------------------------------
EnvCall ==
  \/ sys_exofork
  \/ \E id \in EnvIds : sys_env_destroy(id)
  \/ \E id \in EnvIds, st \in {"RUNNABLE", "NOT_RUNNABLE"} : sys_env_set_status(id, st)
  \/ \E id \in EnvIds : sys_env_set_trapframe(id)
  \/ \E id \in EnvIds, p \in Priorities : sys_env_set_priority(id, p)
  \/ \E id \in EnvIds : sys_env_restore(id)

IpcCall ==
  \/ \E id \in EnvIds, v \in Values, page \in BOOLEAN : sys_ipc_try_send(id, v, page)
  \/ \E aligned \in BOOLEAN : sys_ipc_recv(aligned)

Next ==
  /\ mode = "user"
  /\ \/ curenv \in Callers /\ (EnvCall \/ IpcCall \/ Fault)
     \/ Yield

Spec == Init /\ [][Next]_vars

-----------------------------------------------------------------------------
(***************************************************************************)
(*                              Properties                                 *)
(***************************************************************************)

(* env_free_list holds every free slot, once: no path of env_alloc,        *)
(* env_free, sys_env_restore or a fault loses a slot, frees one twice or   *)
(* leaves a live environment on the list.                                  *)
FreeListExact ==
  /\ \A i, j \in 1..Len(freeList) : freeList[i] = freeList[j] => i = j
  /\ \A s \in Slots : status[s] = "FREE" <=> \E i \in 1..Len(freeList) : freeList[i] = s

(* Whatever a call did to its caller (blocked it, stopped it, freed it),   *)
(* the environment trap() and sched_yield return to exists and can run.    *)
CurenvRunnable == mode = "user" => curenv \in Slots /\ status[curenv] = "RUNNABLE"

(* No lost wakeup: as long as an environment is inside sys_ipc_try_send it *)
(* has an entry in the waiting queue, from which sys_ipc_recv can wake it. *)
(* This holds for any programs, also when ids are used again.              *)
BlockedSenderQueued ==
  \A s \in Slots : status[s] # "FREE" /\ eax[s] = "SYS_ipc_try_send"
                    => \E k \in 1..Len(waiting) : waiting[k].src = env_id[s]

(* sched_yield gives the processor to envs[0], or stops the kernel, only   *)
(* when nothing else is runnable ("never choose envs[0] unless NOTHING     *)
(* else is runnable", kern/sched.c:19).                                    *)
SchedNeverIdles ==
  [][(curenv' = 0 /\ curenv # 0) \/ mode' = "monitor"
        => \A s \in Slots \ {0} : status'[s] # "RUNNABLE"]_vars

(* env_ipc_recving means what inc/env.h says, "env is blocked receiving".  *)
RecvingBlocked ==
  \A s \in Slots : status[s] # "FREE" /\ recving[s] => status[s] = "NOT_RUNNABLE"

(* An entry of the waiting queue stands for an environment that is blocked *)
(* in the send it made, or for a dead one; no environment has two.         *)
WaitingSound ==
  \A k \in 1..Len(waiting) :
    LET s == ENVX(waiting[k].src) IN
    status[s] # "FREE" /\ env_id[s] = waiting[k].src =>
      /\ status[s] = "NOT_RUNNABLE" /\ eax[s] = "SYS_ipc_try_send"
      /\ \A j \in 1..Len(waiting) : waiting[j].src = waiting[k].src => j = k

(* The kernel never touches the status or the saved eax of an environment  *)
(* that was preempted while it could run, except on behalf of its parent:  *)
(* neither a delivery nor the wakeup of a queued sender hits an            *)
(* environment that is no longer blocked.                                  *)
RegistersIsolated ==
  [][\A s \in Slots :
        /\ s # curenv /\ status[s] = "RUNNABLE"
        /\ curenv \in Slots /\ parent[s] # env_id[curenv]
        => eax'[s] = eax[s] /\ status'[s] = "RUNNABLE"]_vars
=============================================================================

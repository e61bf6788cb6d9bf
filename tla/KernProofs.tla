----------------------------- MODULE KernProofs -----------------------------
(***************************************************************************)
(* Proofs about Kern for every number of environments, of generations and  *)
(* of queued senders, and for arbitrary user programs; then about the      *)
(* programs of IpcLib on top of it.  What is said of Spec, the             *)
(* specification of Kern, supposes nothing of the constants of IpcLib:     *)
(* the theorems about LibSpec have ProgramsFit as a hypothesis.            *)
(***************************************************************************)
EXTENDS IpcLib, TLAPS, WellFoundedInduction

Statuses == {"FREE", "RUNNABLE", "NOT_RUNNABLE"}

(* The id of a live environment names its slot and is not 0. *)
IdsNameSlots == \A s \in Slots : status[s] # "FREE" => env_id[s][2] = s /\ env_id[s][1] > 0

(***************************************************************************)
(* The inductive invariant.  CurenvRunnable gives every handler a caller   *)
(* that exists, so envid2env(0) is a slot; IdsNameSlots makes the entry    *)
(* that sys_ipc_recv removes the entry of the one environment it wakes.    *)
(***************************************************************************)
IInv == TypeOK /\ FreeListExact /\ CurenvRunnable /\ IdsNameSlots /\ BlockedSenderQueued

-----------------------------------------------------------------------------
(* Facts about the sequences of the model. *)

(* Putting an element in front of a list (LIST_INSERT_HEAD). *)
LEMMA PushFront ==
  ASSUME NEW S, NEW q \in Seq(S), NEW e \in S
  PROVE  /\ <<e>> \o q \in Seq(S)
         /\ Len(<<e>> \o q) = Len(q) + 1
         /\ (<<e>> \o q)[1] = e
         /\ \A i \in 1..Len(q) : (<<e>> \o q)[i + 1] = q[i]
  OBVIOUS

(* Taking the first element off a list (LIST_REMOVE of LIST_FIRST). *)
LEMMA PopFront ==
  ASSUME NEW S, NEW q \in Seq(S), q # <<>>
  PROVE  /\ Head(q) \in S /\ Head(q) = q[1]
         /\ Tail(q) \in Seq(S)
         /\ Len(q) \in Nat \ {0} /\ Len(Tail(q)) = Len(q) - 1
         /\ \A i \in 1..Len(Tail(q)) : Tail(q)[i] = q[i + 1]
  OBVIOUS

(* Queueing an entry. *)
LEMMA PushBack ==
  ASSUME NEW S, NEW q \in Seq(S), NEW e \in S
  PROVE  /\ Append(q, e) \in Seq(S)
         /\ Len(Append(q, e)) = Len(q) + 1
         /\ Append(q, e)[Len(q) + 1] = e
         /\ \A i \in 1..Len(q) : Append(q, e)[i] = q[i]
  OBVIOUS

(* An entry of a queue. *)
LEMMA EntryTyped ==
  ASSUME NEW S, NEW q \in Seq(S), NEW k \in 1..Len(q)
  PROVE  q[k] \in S
  OBVIOUS

(* Removing entry k: every other entry is still there. *)
LEMMA ShiftOutKeeps ==
  ASSUME NEW S, NEW q \in Seq(S), NEW k \in 1..Len(q)
  PROVE  /\ ShiftOut(q, k) \in Seq(S)
         /\ Len(ShiftOut(q, k)) = Len(q) - 1
         /\ \A i \in 1..Len(q) : i # k => \E j \in 1..Len(ShiftOut(q, k)) : ShiftOut(q, k)[j] = q[i]
  <1>1. Len(q) \in Nat /\ \A i \in 1..Len(q) : q[i] \in S
    OBVIOUS
  <1>2. Len(q) - 1 \in Nat
    BY <1>1
  <1>3. \A j \in 1..(Len(q) - 1) : ShiftOut(q, k)[j] = IF j < k THEN q[j] ELSE q[j + 1]
    BY DEF ShiftOut
  <1>4. ShiftOut(q, k) \in [1..(Len(q) - 1) -> S]
    BY <1>1 DEF ShiftOut
  <1>5. ShiftOut(q, k) \in Seq(S) /\ Len(ShiftOut(q, k)) = Len(q) - 1
    BY <1>2, <1>4
  <1>6. ASSUME NEW i \in 1..Len(q), i # k
        PROVE  \E j \in 1..Len(ShiftOut(q, k)) : ShiftOut(q, k)[j] = q[i]
    <2>1. CASE i < k
      <3>1. i \in 1..(Len(q) - 1)
        BY <1>1, <2>1
      <3> QED  BY <1>3, <1>5, <2>1, <3>1
    <2>2. CASE i > k
      <3>1. i - 1 \in 1..(Len(q) - 1) /\ ~(i - 1 < k) /\ (i - 1) + 1 = i
        BY <1>1, <2>2
      <3> QED  BY <1>3, <1>5, <3>1
    <2> QED  BY <1>6, <2>1, <2>2
  <1> QED  BY <1>5, <1>6

-----------------------------------------------------------------------------
(* Facts about envid2env and sched_yield. *)

(* What envid2env finds is a live environment, the one the id names. *)
LEMMA Resolve ==
  ASSUME IInv, mode = "user", NEW id \in EnvIds, NEW cp \in BOOLEAN,
         envid2env(id, cp) # NULL
  PROVE  /\ envid2env(id, cp) \in Slots
         /\ status[envid2env(id, cp)] # "FREE"
         /\ id # NoId => env_id[envid2env(id, cp)] = id
  <1>1. curenv \in Slots /\ status[curenv] = "RUNNABLE"
    BY DEF IInv, CurenvRunnable
  <1>2. ENVX(id) \in Slots
    BY DEF EnvIds, ENVX
  <1> QED  BY <1>1, <1>2 DEF envid2env

(* sched_yield leaves in curenv an environment that can run, or stops the  *)
(* kernel; it takes envs[0] or stops only if no other environment can run. *)
LEMMA SchedYieldResult ==
  ASSUME NEW cur \in Slots \cup {NULL},
         NEW st \in [Slots -> Statuses], NEW pr \in [Slots -> Nat],
         NEW sd \in [Slots -> 0..(SendedMax - 1)],
         sched_yield(cur, st, pr, sd)
  PROVE  /\ curenv' \in Slots \cup {NULL}
         /\ mode' \in {"user", "monitor"}
         /\ mode' = "user" => curenv' \in Slots /\ st[curenv'] = "RUNNABLE"
         /\ curenv' = 0 \/ mode' = "monitor" => \A s \in Slots \ {0} : st[s] # "RUNNABLE"
  <1> DEFINE E == Eligible(st, pr, sd)
  <1>1. E \subseteq Slots \ {0} /\ \A i \in E : st[i] = "RUNNABLE"
    BY DEF Eligible
  <1>2. 0 \in Slots
    BY SchedAssumption DEF Slots
  <1>3. E = {} => \A s \in Slots \ {0} : st[s] # "RUNNABLE"
    <2>1. \A s \in Slots : sd[s] < SendedMax
      BY SchedAssumption
    <2> QED  BY <2>1 DEF Eligible
  <1>4. \/ \E i \in E : curenv' = i /\ mode' = "user"
        \/ E = {} /\ st[0] = "RUNNABLE" /\ curenv' = 0 /\ mode' = "user"
        \/ E = {} /\ st[0] # "RUNNABLE" /\ curenv' = cur /\ mode' = "monitor"
    BY DEF sched_yield
  <1> HIDE DEF E
  <1> QED  BY <1>1, <1>2, <1>3, <1>4

(* The slots are typed and the count of sent messages stays below its bound. *)
LEMMA CountSendBounded ==
  ASSUME NEW n \in 0..(SendedMax - 1)
  PROVE  CountSend(n) \in 0..(SendedMax - 1)
  BY SchedAssumption DEF CountSend

(* The saved eax of a call that has returned never looks like a blocked send. *)
LEMMA ResultIsNoCall ==
  ASSUME NEW r \in {"0", "error", "other"}
  PROVE  Result(r) \in EaxVals /\ Result(r) # "SYS_ipc_try_send"
  BY DEF Result, EaxVals

-----------------------------------------------------------------------------
(* The parts of the invariant that an action with these effects keeps. *)

(* An environment leaves the table: env_free and LIST_INSERT_HEAD. *)
LEMMA FreeSlot ==
  ASSUME IInv, NEW e \in Slots, NEW st \in [Slots -> Statuses], status[e] # "FREE",
         \A s \in Slots : st[s] = "FREE" <=> status[s] = "FREE",
         status' = [st EXCEPT ![e] = "FREE"], freeList' = <<e>> \o freeList
  PROVE  /\ status' \in [Slots -> Statuses]
         /\ freeList' \in Seq(Slots)
         /\ FreeListExact'
  <1>1. freeList \in Seq(Slots) /\ Len(freeList) \in Nat
    BY DEF IInv, TypeOK
  <1>2. /\ freeList' \in Seq(Slots)
        /\ Len(freeList') = Len(freeList) + 1
        /\ freeList'[1] = e
        /\ \A i \in 1..Len(freeList) : freeList'[i + 1] = freeList[i]
    BY <1>1, PushFront
  <1>3. \A i \in 1..Len(freeList') :
           i = 1 \/ (i - 1 \in 1..Len(freeList) /\ freeList'[i] = freeList[i - 1])
    <2> TAKE i \in 1..Len(freeList')
    <2>1. i = 1 \/ i - 1 \in 1..Len(freeList)
      BY <1>1, <1>2
    <2>2. i - 1 \in 1..Len(freeList) => freeList'[(i - 1) + 1] = freeList[i - 1]
      BY <1>2
    <2> QED  BY <2>1, <2>2, <1>1
  <1>4. \A i \in 1..Len(freeList) : freeList[i] # e
    BY DEF IInv, FreeListExact
  <1>5. \A i, j \in 1..Len(freeList') : freeList'[i] = freeList'[j] => i = j
    <2> TAKE i, j \in 1..Len(freeList')
    <2>1. i \in Int /\ j \in Int
      BY <1>1, <1>2
    <2>2. i - 1 \in 1..Len(freeList) /\ j - 1 \in 1..Len(freeList)
             /\ freeList[i - 1] = freeList[j - 1] => i - 1 = j - 1
      BY DEF IInv, FreeListExact
    <2> QED  BY <1>2, <1>3, <1>4, <2>1, <2>2
  <1>6. \A s \in Slots : status'[s] = "FREE" <=> \E i \in 1..Len(freeList') : freeList'[i] = s
    <2> TAKE s \in Slots
    <2>1. status'[s] = "FREE" <=> s = e \/ status[s] = "FREE"
      OBVIOUS
    <2>2. status[s] = "FREE" <=> \E i \in 1..Len(freeList) : freeList[i] = s
      BY DEF IInv, FreeListExact
    <2>3. ASSUME NEW i \in 1..Len(freeList)
          PROVE  i + 1 \in 1..Len(freeList') /\ freeList'[i + 1] = freeList[i]
      BY <1>1, <1>2
    <2>4. 1 \in 1..Len(freeList')
      BY <1>1, <1>2
    <2> QED  BY <1>2, <1>3, <2>1, <2>2, <2>3, <2>4
  <1> QED  BY <1>2, <1>5, <1>6 DEF FreeListExact, Statuses

(* An environment enters the table: the first of the free list. *)
LEMMA TakeSlot ==
  ASSUME IInv, freeList # <<>>,
         status' = [status EXCEPT ![Head(freeList)] = "NOT_RUNNABLE"],
         freeList' = Tail(freeList)
  PROVE  /\ Head(freeList) \in Slots /\ status[Head(freeList)] = "FREE"
         /\ status' \in [Slots -> Statuses]
         /\ freeList' \in Seq(Slots)
         /\ FreeListExact'
  <1> DEFINE e == Head(freeList)
  <1>1. freeList \in Seq(Slots) /\ status \in [Slots -> Statuses]
    BY DEF IInv, TypeOK, Statuses
  <1>2. /\ e \in Slots /\ e = freeList[1]
        /\ freeList' \in Seq(Slots)
        /\ Len(freeList) \in Nat \ {0} /\ Len(freeList') = Len(freeList) - 1
        /\ \A i \in 1..Len(freeList') : freeList'[i] = freeList[i + 1]
    BY <1>1, PopFront
  <1> HIDE DEF e
  <1>3. status[e] = "FREE"
    BY <1>2 DEF IInv, FreeListExact
  <1>4. \A i, j \in 1..Len(freeList) : freeList[i] = freeList[j] => i = j
    BY DEF IInv, FreeListExact
  <1>5. \A i, j \in 1..Len(freeList') : freeList'[i] = freeList'[j] => i = j
    <2> TAKE i, j \in 1..Len(freeList')
    <2>1. i + 1 \in 1..Len(freeList) /\ j + 1 \in 1..Len(freeList)
      BY <1>2
    <2>2. freeList'[i] = freeList'[j] => i + 1 = j + 1
      BY <1>2, <1>4, <2>1
    <2> QED  BY <1>2, <2>2
  <1>6. \A s \in Slots : status'[s] = "FREE" <=> \E i \in 1..Len(freeList') : freeList'[i] = s
    <2> TAKE s \in Slots
    <2>1. status'[s] = "FREE" <=> s # e /\ status[s] = "FREE"
      BY <1>1, <1>2 DEF e
    <2>2. status[s] = "FREE" <=> \E i \in 1..Len(freeList) : freeList[i] = s
      BY DEF IInv, FreeListExact
    <2>3. ASSUME NEW i \in 1..Len(freeList'), freeList'[i] = s
          PROVE  s # e /\ status[s] = "FREE"
      <3>1. i + 1 \in 1..Len(freeList) /\ i + 1 # 1 /\ 1 \in 1..Len(freeList)
        BY <1>2
      <3>2. freeList[i + 1] = s
        BY <1>2, <2>3
      <3> QED  BY <1>2, <1>4, <2>2, <3>1, <3>2
    <2>4. ASSUME NEW i \in 1..Len(freeList), freeList[i] = s, s # e
          PROVE  \E j \in 1..Len(freeList') : freeList'[j] = s
      <3>1. i # 1
        BY <1>2, <2>4
      <3>2. i - 1 \in 1..Len(freeList') /\ (i - 1) + 1 = i
        BY <1>2, <3>1
      <3> QED  BY <1>2, <2>4, <3>2
    <2> QED  BY <2>1, <2>2, <2>3, <2>4
  <1> QED  BY <1>1, <1>2, <1>3, <1>5, <1>6 DEF FreeListExact, Statuses, e

(* Nobody is created: live environments keep their ids, and none begins a send. *)
LEMMA KeepQueued ==
  ASSUME IInv, UNCHANGED <<env_id, waiting>>,
         \A s \in Slots : eax'[s] = "SYS_ipc_try_send" => eax[s] = "SYS_ipc_try_send",
         \A s \in Slots : status'[s] # "FREE" => status[s] # "FREE"
  PROVE  IdsNameSlots' /\ BlockedSenderQueued'
  BY DEF IInv, IdsNameSlots, BlockedSenderQueued

(* Nobody is created or destroyed. *)
LEMMA KeepFreeList ==
  ASSUME IInv, UNCHANGED freeList,
         \A s \in Slots : status'[s] = "FREE" <=> status[s] = "FREE"
  PROVE  FreeListExact'
  BY DEF IInv, FreeListExact

(* A caller exists in every handler. *)
LEMMA Caller ==
  ASSUME IInv, mode = "user"
  PROVE  /\ curenv \in Slots /\ status[curenv] = "RUNNABLE"
         /\ env_id[curenv] \in EnvIds /\ curenv # NULL
  BY SchedAssumption DEF IInv, TypeOK, CurenvRunnable, Slots, NULL

-----------------------------------------------------------------------------
(* Every action keeps the invariant. *)

(* A call that only returns. *)
LEMMA ReturnKeeps ==
  ASSUME IInv, mode = "user", NEW r \in {"0", "error", "other"}, Return(r)
  PROVE  IInv'
  <1> USE DEF idVars, schedVars, ipcVars, runVars
  <1>1. eax' = [eax EXCEPT ![curenv] = Result(r)] /\ Result(r) \in EaxVals
          /\ Result(r) # "SYS_ipc_try_send"
    BY ResultIsNoCall DEF Return
  <1>2. TypeOK'
    BY <1>1 DEF Return, IInv, TypeOK
  <1>3. FreeListExact'
    BY KeepFreeList DEF Return
  <1>4. CurenvRunnable'
    BY DEF Return, IInv, CurenvRunnable
  <1>5. IdsNameSlots' /\ BlockedSenderQueued'
    <2>1. \A s \in Slots : eax'[s] = "SYS_ipc_try_send" => eax[s] = "SYS_ipc_try_send"
      BY <1>1 DEF IInv, TypeOK
    <2> QED  BY <2>1, KeepQueued DEF Return
  <1> QED  BY <1>2, <1>3, <1>4, <1>5 DEF IInv

(* sys_exofork creates an environment in the first free slot, or fails. *)
LEMMA ExoforkKeeps ==
  ASSUME IInv, mode = "user", sys_exofork
  PROVE  IInv'
  <1> USE DEF idVars, schedVars, ipcVars, runVars
  <1>1. CASE Return("error")
    BY <1>1, ReturnKeeps
  <1>2. CASE ~Return("error")
    <2> DEFINE e == Head(freeList)
    <2>1. /\ freeList # <<>>
          /\ env_id'   = [env_id EXCEPT ![e] = NextId(e)]
          /\ parent'   = [parent EXCEPT ![e] = env_id[curenv]]
          /\ status'   = [status EXCEPT ![e] = "NOT_RUNNABLE"]
          /\ priority' = [priority EXCEPT ![e] = PriorityDefault]
          /\ sended'   = [sended EXCEPT ![e] = 0]
          /\ recving'  = [recving EXCEPT ![e] = FALSE]
          /\ eax'      = [eax EXCEPT ![e] = Result("0"), ![curenv] = "other"]
          /\ freeList' = Tail(freeList)
          /\ UNCHANGED <<from, value, waiting, curenv, mode>>
      BY <1>2 DEF sys_exofork
    <2>2. /\ e \in Slots /\ status[e] = "FREE"
          /\ status' \in [Slots -> Statuses]
          /\ freeList' \in Seq(Slots)
          /\ FreeListExact'
      BY <2>1, TakeSlot
    <2> HIDE DEF e
    <2>3. curenv \in Slots /\ status[curenv] = "RUNNABLE" /\ curenv # e
      BY <2>2, Caller
    <2>4. NextId(e) \in EnvIds /\ NextId(e)[2] = e /\ NextId(e)[1] > 0
      <3>1. env_id[e][1] \in 0..MaxGen /\ MaxGen \in Nat \ {0}
        BY <2>2, KernAssumption DEF IInv, TypeOK, EnvIds
      <3> QED  BY <2>2, <3>1 DEF NextId, EnvIds
    <2>5. Result("0") \in EaxVals /\ Result("0") # "SYS_ipc_try_send" /\ "other" \in EaxVals
      BY ResultIsNoCall DEF EaxVals
    <2>6. PriorityDefault \in Nat /\ 0 \in 0..(SendedMax - 1)
      BY KernAssumption, SchedAssumption
    <2>7. TypeOK'
      BY <2>1, <2>2, <2>3, <2>4, <2>5, <2>6 DEF IInv, TypeOK, Statuses
    <2>8. CurenvRunnable'
      BY <2>1, <2>2, <2>3 DEF IInv, TypeOK, CurenvRunnable
    <2>9. IdsNameSlots'
      BY <2>1, <2>2, <2>4 DEF IInv, TypeOK, IdsNameSlots
    <2>10. BlockedSenderQueued'
      <3> SUFFICES ASSUME NEW s \in Slots, status'[s] # "FREE", eax'[s] = "SYS_ipc_try_send"
                   PROVE  \E k \in 1..Len(waiting') : waiting'[k].src = env_id'[s]
        BY DEF BlockedSenderQueued
      <3>1. s # e /\ s # curenv
        BY <2>1, <2>2, <2>3, <2>5 DEF IInv, TypeOK
      <3>2. status[s] # "FREE" /\ eax[s] = "SYS_ipc_try_send" /\ env_id'[s] = env_id[s]
        BY <2>1, <3>1 DEF IInv, TypeOK
      <3> QED  BY <2>1, <3>2 DEF IInv, BlockedSenderQueued
    <2> QED  BY <2>2, <2>7, <2>8, <2>9, <2>10 DEF IInv
  <1> QED  BY <1>1, <1>2

(* The end of an environment, with or without another one woken just before. *)
LEMMA DestroyKeeps ==
  ASSUME IInv, mode = "user", NEW e \in Slots, status[e] # "FREE",
         NEW st \in [Slots -> Statuses],
         \A s \in Slots : st[s] = "FREE" <=> status[s] = "FREE",
         st[curenv] = "RUNNABLE",
         env_destroy(e, st),
         UNCHANGED <<idVars, schedVars, ipcVars, waiting>>,
         eax' \in [Slots -> EaxVals],
         \A s \in Slots : eax'[s] = "SYS_ipc_try_send" => eax[s] = "SYS_ipc_try_send"
  PROVE  IInv'
  <1> USE DEF idVars, schedVars, ipcVars, runVars
  <1>1. status' = [st EXCEPT ![e] = "FREE"] /\ freeList' = <<e>> \o freeList
    BY DEF env_destroy
  <1>2. status' \in [Slots -> Statuses] /\ freeList' \in Seq(Slots) /\ FreeListExact'
    BY <1>1, FreeSlot
  <1>3. \A s \in Slots : status'[s] # "FREE" => status[s] # "FREE"
    BY <1>1
  <1>4. IdsNameSlots' /\ BlockedSenderQueued'
    BY <1>3, KeepQueued
  <1>5. /\ curenv' \in Slots \cup {NULL}
        /\ mode' \in {"user", "monitor"}
        /\ mode' = "user" => curenv' \in Slots /\ status'[curenv'] = "RUNNABLE"
    <2>1. CASE e = curenv
      <3>1. sched_yield(NULL, status', priority, sended)
        BY <2>1 DEF env_destroy
      <3>2. NULL \in Slots \cup {NULL} /\ priority \in [Slots -> Nat]
              /\ sended \in [Slots -> 0..(SendedMax - 1)]
        BY DEF IInv, TypeOK
      <3> QED  BY <1>2, <3>1, <3>2, SchedYieldResult
    <2>2. CASE e # curenv
      BY <1>1, <2>2, Caller DEF env_destroy
    <2> QED  BY <2>1, <2>2
  <1>6. TypeOK'
    BY <1>2, <1>5 DEF IInv, TypeOK, Statuses
  <1> QED  BY <1>2, <1>4, <1>5, <1>6 DEF IInv, CurenvRunnable

(* sys_env_destroy ends the caller or one of its children. *)
LEMMA SysDestroyKeeps ==
  ASSUME IInv, mode = "user", NEW id \in EnvIds, sys_env_destroy(id)
  PROVE  IInv'
  <1> DEFINE e == envid2env(id, TRUE)
  <1>1. CASE e = NULL
    BY <1>1, ReturnKeeps DEF sys_env_destroy
  <1>2. CASE e # NULL
    <2>1. e \in Slots /\ status[e] # "FREE"
      BY <1>2, Resolve
    <2>2. /\ env_destroy(e, status)
          /\ eax' = [eax EXCEPT ![curenv] = Result("0")]
          /\ UNCHANGED <<idVars, schedVars, ipcVars, waiting>>
      BY <1>2 DEF sys_env_destroy
    <2>3. status \in [Slots -> Statuses] /\ status[curenv] = "RUNNABLE"
      BY Caller DEF IInv, TypeOK, Statuses
    <2>4. /\ eax' \in [Slots -> EaxVals]
          /\ \A s \in Slots : eax'[s] = "SYS_ipc_try_send" => eax[s] = "SYS_ipc_try_send"
      BY <2>2, ResultIsNoCall DEF IInv, TypeOK
    <2> HIDE DEF e
    <2> QED  BY <2>1, <2>2, <2>3, <2>4, DestroyKeeps
  <1> QED  BY <1>1, <1>2

(* A fault ends the caller. *)
LEMMA FaultKeeps ==
  ASSUME IInv, mode = "user", Fault
  PROVE  IInv'
  <1>1. curenv \in Slots /\ status[curenv] = "RUNNABLE" /\ status \in [Slots -> Statuses]
    BY Caller DEF IInv, TypeOK, Statuses
  <1>2. eax' = eax /\ eax \in [Slots -> EaxVals]
    BY DEF Fault, IInv, TypeOK
  <1> QED  BY <1>1, <1>2, DestroyKeeps DEF Fault

(* sys_env_restore wakes one environment and ends the caller. *)
LEMMA RestoreKeeps ==
  ASSUME IInv, mode = "user", NEW id \in EnvIds, sys_env_restore(id)
  PROVE  IInv'
  <1> DEFINE e == envid2env(id, FALSE)
  <1>1. CASE ~(e # NULL /\ status[e] = "NOT_RUNNABLE")
    BY <1>1, ReturnKeeps DEF sys_env_restore
  <1>2. CASE e # NULL /\ status[e] = "NOT_RUNNABLE"
    <2>1. e \in Slots
      BY <1>2, Resolve
    <2>2. curenv \in Slots /\ status[curenv] = "RUNNABLE"
      BY Caller
    <2> DEFINE st == [status EXCEPT ![e] = "RUNNABLE"]
    <2>3. /\ env_destroy(curenv, st)
          /\ UNCHANGED <<idVars, schedVars, ipcVars, eax, waiting>>
      BY <1>2 DEF sys_env_restore
    <2> HIDE DEF e
    <2>4. /\ st \in [Slots -> Statuses] /\ st[curenv] = "RUNNABLE"
          /\ \A s \in Slots : st[s] = "FREE" <=> status[s] = "FREE"
      BY <1>2, <2>1, <2>2 DEF IInv, TypeOK, Statuses
    <2>5. eax' = eax /\ eax \in [Slots -> EaxVals]
      BY <2>3 DEF IInv, TypeOK
    <2> HIDE DEF st
    <2> QED  BY <2>2, <2>3, <2>4, <2>5, DestroyKeeps
  <1> QED  BY <1>1, <1>2

(* An action that leaves the processor to sched_yield, with everybody alive. *)
LEMMA SwitchKeeps ==
  ASSUME IInv, mode = "user", status' \in [Slots -> Statuses],
         \A s \in Slots : status'[s] = "FREE" <=> status[s] = "FREE",
         sched_yield(curenv, status', priority, sended), UNCHANGED freeList
  PROVE  /\ FreeListExact' /\ CurenvRunnable'
         /\ curenv' \in Slots \cup {NULL} /\ mode' \in {"user", "monitor"}
  <1>1. /\ curenv \in Slots \cup {NULL} /\ priority \in [Slots -> Nat]
        /\ sended \in [Slots -> 0..(SendedMax - 1)]
    BY DEF IInv, TypeOK
  <1>2. /\ curenv' \in Slots \cup {NULL} /\ mode' \in {"user", "monitor"}
        /\ mode' = "user" => curenv' \in Slots /\ status'[curenv'] = "RUNNABLE"
    BY <1>1, SchedYieldResult
  <1> QED  BY <1>2, KeepFreeList DEF CurenvRunnable

(* sys_yield and the clock only choose again. *)
LEMMA YieldKeeps ==
  ASSUME IInv, mode = "user", Yield
  PROVE  IInv'
  <1> USE DEF idVars, schedVars, ipcVars
  <1>1. status' = status /\ status \in [Slots -> Statuses]
    BY DEF Yield, IInv, TypeOK, Statuses
  <1>2. /\ FreeListExact' /\ CurenvRunnable'
        /\ curenv' \in Slots \cup {NULL} /\ mode' \in {"user", "monitor"}
    BY <1>1, SwitchKeeps DEF Yield
  <1>3. TypeOK'
    BY <1>2 DEF Yield, IInv, TypeOK
  <1>4. IdsNameSlots' /\ BlockedSenderQueued'
    BY KeepQueued DEF Yield
  <1> QED  BY <1>2, <1>3, <1>4 DEF IInv

(* sys_env_set_status stops or wakes an environment, the caller perhaps. *)
LEMMA SetStatusKeeps ==
  ASSUME IInv, mode = "user", NEW id \in EnvIds, NEW st \in {"RUNNABLE", "NOT_RUNNABLE"},
         sys_env_set_status(id, st)
  PROVE  IInv'
  <1> USE DEF idVars, schedVars, ipcVars
  <1> DEFINE e == envid2env(id, TRUE)
  <1>1. CASE e = NULL
    BY <1>1, ReturnKeeps DEF sys_env_set_status
  <1>2. CASE e # NULL
    <2>1. e \in Slots /\ status[e] # "FREE"
      BY <1>2, Resolve
    <2>2. /\ status' = [status EXCEPT ![e] = st]
          /\ eax' = [eax EXCEPT ![curenv] = Result("0")]
          /\ Resume(status')
          /\ UNCHANGED <<env_id, parent, priority, sended, recving, from, value, freeList, waiting>>
      BY <1>2 DEF sys_env_set_status
    <2> HIDE DEF e
    <2>3. /\ status' \in [Slots -> Statuses]
          /\ \A s \in Slots : status'[s] = "FREE" <=> status[s] = "FREE"
      BY <2>1, <2>2 DEF IInv, TypeOK, Statuses
    <2>4. /\ eax' \in [Slots -> EaxVals]
          /\ \A s \in Slots : eax'[s] = "SYS_ipc_try_send" => eax[s] = "SYS_ipc_try_send"
      BY <2>2, ResultIsNoCall DEF IInv, TypeOK
    <2>5. /\ FreeListExact' /\ CurenvRunnable'
          /\ curenv' \in Slots \cup {NULL} /\ mode' \in {"user", "monitor"}
      <3>1. CASE status'[curenv] = "RUNNABLE"
        <4>1. UNCHANGED <<curenv, mode>>
          BY <2>2, <3>1 DEF Resume, runVars
        <4> QED  BY <2>2, <2>3, <3>1, <4>1, KeepFreeList, Caller DEF CurenvRunnable
      <3>2. CASE status'[curenv] # "RUNNABLE"
        <4>1. sched_yield(curenv, status', priority, sended)
          BY <2>2, <3>2 DEF Resume
        <4> QED  BY <2>2, <2>3, <4>1, SwitchKeeps
      <3> QED  BY <3>1, <3>2
    <2>6. TypeOK'
      BY <2>2, <2>3, <2>4, <2>5 DEF IInv, TypeOK, Statuses
    <2>7. IdsNameSlots' /\ BlockedSenderQueued'
      BY <2>2, <2>3, <2>4, KeepQueued
    <2> QED  BY <2>5, <2>6, <2>7 DEF IInv
  <1> QED  BY <1>1, <1>2

(* sys_env_set_trapframe replaces saved registers. *)
LEMMA SetTrapframeKeeps ==
  ASSUME IInv, mode = "user", NEW id \in EnvIds, sys_env_set_trapframe(id)
  PROVE  IInv'
  <1> USE DEF idVars, schedVars, ipcVars, runVars
  <1> DEFINE e == envid2env(id, TRUE)
  <1>1. CASE e = NULL
    BY <1>1, ReturnKeeps DEF sys_env_set_trapframe
  <1>2. CASE e # NULL
    <2>1. /\ eax' = [eax EXCEPT ![e] = "other", ![curenv] = Result("0")]
          /\ UNCHANGED <<status, env_id, parent, priority, sended, recving, from, value,
                         freeList, waiting, curenv, mode>>
      BY <1>2 DEF sys_env_set_trapframe
    <2>2. /\ eax' \in [Slots -> EaxVals]
          /\ \A s \in Slots : eax'[s] = "SYS_ipc_try_send" => eax[s] = "SYS_ipc_try_send"
      <3>1. Result("0") \in EaxVals /\ Result("0") # "SYS_ipc_try_send" /\ "other" \in EaxVals
        BY ResultIsNoCall DEF EaxVals
      <3> HIDE DEF e
      <3> QED  BY <2>1, <3>1 DEF IInv, TypeOK
    <2> HIDE DEF e
    <2>3. TypeOK'
      BY <2>1, <2>2 DEF IInv, TypeOK
    <2>4. FreeListExact' /\ CurenvRunnable'
      BY <2>1, KeepFreeList DEF IInv, CurenvRunnable
    <2>5. IdsNameSlots' /\ BlockedSenderQueued'
      BY <2>1, <2>2, KeepQueued
    <2> QED  BY <2>3, <2>4, <2>5 DEF IInv
  <1> QED  BY <1>1, <1>2

(* sys_env_set_priority changes a priority only. *)
LEMMA SetPriorityKeeps ==
  ASSUME IInv, mode = "user", NEW id \in EnvIds, NEW p \in Priorities,
         sys_env_set_priority(id, p)
  PROVE  IInv'
  <1> USE DEF idVars, schedVars, ipcVars, runVars
  <1> DEFINE e == envid2env(id, TRUE)
  <1>1. CASE e = NULL
    BY <1>1, ReturnKeeps DEF sys_env_set_priority
  <1>2. CASE e # NULL
    <2>1. /\ priority' = [priority EXCEPT ![e] = p]
          /\ eax' = [eax EXCEPT ![curenv] = Result("0")]
          /\ UNCHANGED <<status, env_id, parent, sended, recving, from, value,
                         freeList, waiting, curenv, mode>>
      BY <1>2 DEF sys_env_set_priority
    <2> HIDE DEF e
    <2>2. /\ eax' \in [Slots -> EaxVals]
          /\ \A s \in Slots : eax'[s] = "SYS_ipc_try_send" => eax[s] = "SYS_ipc_try_send"
      BY <2>1, ResultIsNoCall DEF IInv, TypeOK
    <2>3. p \in Nat
      BY KernAssumption
    <2>4. TypeOK'
      BY <2>1, <2>2, <2>3 DEF IInv, TypeOK
    <2>5. FreeListExact' /\ CurenvRunnable'
      BY <2>1, KeepFreeList DEF IInv, CurenvRunnable
    <2>6. IdsNameSlots' /\ BlockedSenderQueued'
      BY <2>1, <2>2, KeepQueued
    <2> QED  BY <2>4, <2>5, <2>6 DEF IInv
  <1> QED  BY <1>1, <1>2

(* A sender is queued. *)
LEMMA EnqueueKeeps ==
  ASSUME IInv, mode = "user", NEW id \in EnvIds, Enqueue(id)
  PROVE  IInv'
  <1> USE DEF idVars, schedVars, ipcVars
  <1>1. curenv \in Slots /\ status[curenv] = "RUNNABLE" /\ env_id[curenv] \in EnvIds
    BY Caller
  <1> DEFINE w == [src |-> env_id[curenv], dst |-> id]
  <1>2. /\ waiting' = Append(waiting, w)
        /\ status' = [status EXCEPT ![curenv] = "NOT_RUNNABLE"]
        /\ eax' = [eax EXCEPT ![curenv] = "SYS_ipc_try_send"]
        /\ sched_yield(curenv, status', priority, sended)
        /\ UNCHANGED <<env_id, parent, priority, sended, recving, from, value, freeList>>
    BY DEF Enqueue
  <1>3. w \in [src : EnvIds, dst : EnvIds] /\ w.src = env_id[curenv]
    BY <1>1
  <1> HIDE DEF w
  <1>4. waiting \in Seq([src : EnvIds, dst : EnvIds]) /\ Len(waiting) \in Nat
    BY DEF IInv, TypeOK
  <1>5. /\ waiting' \in Seq([src : EnvIds, dst : EnvIds])
        /\ Len(waiting') = Len(waiting) + 1
        /\ waiting'[Len(waiting) + 1] = w
        /\ \A i \in 1..Len(waiting) : waiting'[i] = waiting[i]
    BY <1>2, <1>3, <1>4, PushBack
  <1>6. /\ status' \in [Slots -> Statuses]
        /\ \A s \in Slots : status'[s] = "FREE" <=> status[s] = "FREE"
    BY <1>1, <1>2 DEF IInv, TypeOK, Statuses
  <1>7. /\ FreeListExact' /\ CurenvRunnable'
        /\ curenv' \in Slots \cup {NULL} /\ mode' \in {"user", "monitor"}
    BY <1>2, <1>6, SwitchKeeps
  <1>8. TypeOK'
    BY <1>1, <1>2, <1>5, <1>6, <1>7 DEF IInv, TypeOK, Statuses, EaxVals
  <1>9. IdsNameSlots'
    BY <1>2, <1>6 DEF IInv, IdsNameSlots
  <1>10. BlockedSenderQueued'
    <2> SUFFICES ASSUME NEW s \in Slots, status'[s] # "FREE", eax'[s] = "SYS_ipc_try_send"
                 PROVE  \E k \in 1..Len(waiting') : waiting'[k].src = env_id'[s]
      BY DEF BlockedSenderQueued
    <2>1. CASE s = curenv
      <3>1. Len(waiting) + 1 \in 1..Len(waiting')
        BY <1>4, <1>5
      <3> QED  BY <1>2, <1>3, <1>5, <2>1, <3>1
    <2>2. CASE s # curenv
      <3>1. status[s] # "FREE" /\ eax[s] = "SYS_ipc_try_send"
        BY <1>2, <1>6, <2>2 DEF IInv, TypeOK
      <3>2. PICK k \in 1..Len(waiting) : waiting[k].src = env_id[s]
        BY <3>1 DEF IInv, BlockedSenderQueued
      <3>3. k \in 1..Len(waiting')
        BY <1>4, <1>5
      <3> QED  BY <1>2, <1>5, <3>2, <3>3
    <2> QED  BY <2>1, <2>2
  <1> QED  BY <1>7, <1>8, <1>9, <1>10 DEF IInv

(* sys_ipc_try_send delivers, queues the caller, fails or panics. *)
LEMMA TrySendKeeps ==
  ASSUME IInv, mode = "user", NEW id \in EnvIds, NEW v \in Values, NEW page \in BOOLEAN,
         sys_ipc_try_send(id, v, page)
  PROVE  IInv'
  <1> USE DEF idVars, schedVars, ipcVars, runVars
  <1> DEFINE d == envid2env(id, FALSE)
  <1>1. CASE Return("error")
    BY <1>1, ReturnKeeps
  <1>2. CASE Enqueue(id)
    BY <1>2, EnqueueKeeps
  <1>3. CASE /\ mode' = "panic"
             /\ UNCHANGED <<status, env_id, parent, priority, sended, recving, from, value,
                            eax, freeList, waiting, curenv>>
    <2>1. TypeOK' /\ CurenvRunnable'
      BY <1>3 DEF IInv, TypeOK, CurenvRunnable
    <2>2. FreeListExact' /\ IdsNameSlots' /\ BlockedSenderQueued'
      BY <1>3, KeepFreeList, KeepQueued
    <2> QED  BY <2>1, <2>2 DEF IInv
  <1>4. CASE d # NULL /\ Deliver(d, v)
    <2>1. d \in Slots /\ status[d] # "FREE"
      BY <1>4, Resolve
    <2>2. curenv \in Slots /\ status[curenv] = "RUNNABLE" /\ env_id[curenv] \in EnvIds
      BY Caller
    <2> HIDE DEF d
    <2>3. /\ recving' = [recving EXCEPT ![d] = FALSE]
          /\ from' = [from EXCEPT ![d] = env_id[curenv]]
          /\ value' = [value EXCEPT ![d] = v]
          /\ status' = [status EXCEPT ![d] = "RUNNABLE"]
          /\ eax' = [eax EXCEPT ![d] = Result("0"), ![curenv] = Result("0")]
          /\ sended' = [sended EXCEPT ![curenv] = CountSend(sended[curenv])]
          /\ UNCHANGED <<env_id, parent, priority, freeList, waiting, curenv, mode>>
      BY <1>4 DEF Deliver
    <2>4. CountSend(sended[curenv]) \in 0..(SendedMax - 1)
      BY <2>2, CountSendBounded DEF IInv, TypeOK
    <2>5. Result("0") \in EaxVals /\ Result("0") # "SYS_ipc_try_send"
      BY ResultIsNoCall
    <2>6. /\ status' \in [Slots -> Statuses]
          /\ \A s \in Slots : status'[s] = "FREE" <=> status[s] = "FREE"
          /\ status'[curenv] = "RUNNABLE"
      BY <2>1, <2>2, <2>3 DEF IInv, TypeOK, Statuses
    <2>7. TypeOK'
      <3>1. sended' \in [Slots -> 0..(SendedMax - 1)]
        BY <2>3, <2>4 DEF IInv, TypeOK
      <3>2. value' \in [Slots -> Values \cup {0}] /\ from' \in [Slots -> EnvIds]
        BY <2>2, <2>3 DEF IInv, TypeOK
      <3>3. eax' \in [Slots -> EaxVals] /\ recving' \in [Slots -> BOOLEAN]
        BY <2>3, <2>5 DEF IInv, TypeOK
      <3> QED  BY <2>3, <2>6, <3>1, <3>2, <3>3 DEF IInv, TypeOK, Statuses
    <2>8. FreeListExact' /\ CurenvRunnable'
      BY <2>2, <2>3, <2>6, KeepFreeList DEF CurenvRunnable
    <2>9. IdsNameSlots' /\ BlockedSenderQueued'
      <3>1. \A s \in Slots : eax'[s] = "SYS_ipc_try_send" => eax[s] = "SYS_ipc_try_send"
        BY <2>3, <2>5 DEF IInv, TypeOK
      <3> QED  BY <2>3, <2>6, <3>1, KeepQueued
    <2> QED  BY <2>7, <2>8, <2>9 DEF IInv
  <1> QED  BY <1>1, <1>2, <1>3, <1>4 DEF sys_ipc_try_send

(* The caller is blocked, and perhaps a queued sender s is woken. *)
LEMMA RecvKeeps ==
  ASSUME IInv, mode = "user", NEW aligned \in BOOLEAN, sys_ipc_recv(aligned)
  PROVE  IInv'
  <1> USE DEF idVars, schedVars, ipcVars
  <1> DEFINE blocked == [status EXCEPT ![curenv] = "NOT_RUNNABLE"]
             queue   == QueuedFor(env_id[curenv])
  <1>1. curenv \in Slots /\ status[curenv] = "RUNNABLE"
    BY Caller
  <1>2. ASSUME NEW st \in [Slots -> Statuses], BlockInRecv(st),
               \A s \in Slots : st[s] = "FREE" <=> status[s] = "FREE",
               eax' \in [Slots -> EaxVals], waiting' \in Seq([src : EnvIds, dst : EnvIds])
        PROVE  /\ TypeOK' /\ FreeListExact' /\ CurenvRunnable' /\ IdsNameSlots'
               /\ env_id' = env_id /\ status' = st
    <2>1. /\ from' = [from EXCEPT ![curenv] = NoId]
          /\ recving' = [recving EXCEPT ![curenv] = TRUE]
          /\ status' = st
          /\ sched_yield(curenv, status', priority, sended)
          /\ UNCHANGED <<env_id, parent, priority, sended, value, freeList>>
      BY <1>2 DEF BlockInRecv
    <2>2. /\ FreeListExact' /\ CurenvRunnable'
          /\ curenv' \in Slots \cup {NULL} /\ mode' \in {"user", "monitor"}
      BY <1>2, <2>1, SwitchKeeps
    <2>3. NoId \in EnvIds
      BY KernAssumption, SchedAssumption DEF NoId, EnvIds, Slots
    <2>4. TypeOK'
      BY <1>2, <2>1, <2>2, <2>3 DEF IInv, TypeOK, Statuses
    <2>5. IdsNameSlots'
      BY <1>2, <2>1 DEF IInv, IdsNameSlots
    <2> QED  BY <2>1, <2>2, <2>4, <2>5
  <1>3. blocked \in [Slots -> Statuses] /\ \A s \in Slots : blocked[s] = "FREE" <=> status[s] = "FREE"
    BY <1>1 DEF IInv, TypeOK, Statuses
  <1>4. waiting \in Seq([src : EnvIds, dst : EnvIds])
    BY DEF IInv, TypeOK
  <1>5. ASSUME NEW r \in {"error", "SYS_ipc_recv"}, BlockInRecv(blocked), UNCHANGED waiting,
               eax' = [eax EXCEPT ![curenv] = IF r = "error" THEN Result("error") ELSE r]
        PROVE  IInv'
    <2>1. /\ eax' \in [Slots -> EaxVals]
          /\ \A s \in Slots : eax'[s] = "SYS_ipc_try_send" => eax[s] = "SYS_ipc_try_send"
      <3>1. Result("error") \in EaxVals /\ Result("error") # "SYS_ipc_try_send"
              /\ "SYS_ipc_recv" \in EaxVals
        BY ResultIsNoCall DEF EaxVals
      <3> QED  BY <1>5, <3>1 DEF IInv, TypeOK
    <2>2. /\ TypeOK' /\ FreeListExact' /\ CurenvRunnable' /\ IdsNameSlots'
          /\ env_id' = env_id /\ status' = blocked
      BY <1>2, <1>3, <1>4, <1>5, <2>1
    <2>3. BlockedSenderQueued'
      BY <1>3, <1>5, <2>1, <2>2, KeepQueued
    <2> QED  BY <2>2, <2>3 DEF IInv
  <1>6. ASSUME NEW k \in queue,
               envid2env(waiting[k].src, FALSE) # NULL,
               BlockInRecv([blocked EXCEPT ![envid2env(waiting[k].src, FALSE)] = "RUNNABLE"]),
               eax' = [eax EXCEPT ![curenv] = "SYS_ipc_recv",
                                  ![envid2env(waiting[k].src, FALSE)] = "E_IPC_NOT_RECV"],
               waiting' = ShiftOut(waiting, k)
        PROVE  IInv'
    <2> DEFINE s == envid2env(waiting[k].src, FALSE)
               st == [blocked EXCEPT ![s] = "RUNNABLE"]
    <2>1. k \in 1..Len(waiting) /\ waiting[k].src \in EnvIds
      <3>1. k \in 1..Len(waiting)
        BY DEF QueuedFor
      <3>2. waiting[k] \in [src : EnvIds, dst : EnvIds]
        BY <1>4, <3>1, EntryTyped
      <3> QED  BY <3>1, <3>2
    <2>2. s \in Slots /\ status[s] # "FREE" /\ (waiting[k].src # NoId => env_id[s] = waiting[k].src)
      BY <1>6, <2>1, Resolve
    <2>3. /\ waiting' \in Seq([src : EnvIds, dst : EnvIds])
          /\ \A i \in 1..Len(waiting) : i # k =>
               \E j \in 1..Len(waiting') : waiting'[j] = waiting[i]
      BY <1>4, <1>6, <2>1, ShiftOutKeeps
    <2> HIDE DEF s
    <2>4. st \in [Slots -> Statuses] /\ \A t \in Slots : st[t] = "FREE" <=> status[t] = "FREE"
      BY <1>3, <2>2 DEF Statuses
    <2>5. eax' \in [Slots -> EaxVals]
      BY <1>6 DEF IInv, TypeOK, EaxVals, s
    <2>6. /\ TypeOK' /\ FreeListExact' /\ CurenvRunnable' /\ IdsNameSlots'
          /\ env_id' = env_id /\ status' = st
      <3>1. BlockInRecv(st)
        BY <1>6 DEF s
      <3> HIDE DEF st
      <3> QED  BY <1>2, <2>3, <2>4, <2>5, <3>1
    <2>7. BlockedSenderQueued'
      <3> SUFFICES ASSUME NEW t \in Slots, status'[t] # "FREE", eax'[t] = "SYS_ipc_try_send"
                   PROVE  \E j \in 1..Len(waiting') : waiting'[j].src = env_id'[t]
        BY DEF BlockedSenderQueued
      <3>1. t # s /\ t # curenv /\ eax[t] = "SYS_ipc_try_send"
        BY <1>6, <1>1, <2>2 DEF IInv, TypeOK, s
      <3>2. status[t] # "FREE"
        BY <2>4, <2>6
      <3>3. PICK i \in 1..Len(waiting) : waiting[i].src = env_id[t]
        BY <3>1, <3>2 DEF IInv, BlockedSenderQueued
      <3>4. i # k
        <4>1. env_id[t][2] = t /\ env_id[s][2] = s
          BY <2>2, <3>2 DEF IInv, IdsNameSlots
        <4>2. CASE waiting[k].src = NoId
          <5>1. env_id[t] # NoId
            BY <3>2 DEF IInv, IdsNameSlots, NoId
          <5> QED  BY <3>3, <4>2, <5>1
        <4>3. CASE waiting[k].src # NoId
          BY <2>2, <3>1, <3>3, <4>1, <4>3
        <4> QED  BY <4>2, <4>3
      <3>5. PICK j \in 1..Len(waiting') : waiting'[j] = waiting[i]
        BY <2>3, <3>4
      <3> QED  BY <2>6, <3>3, <3>5
    <2> QED  BY <2>6, <2>7 DEF IInv
  <1>7. \/ BlockInRecv(blocked) /\ eax' = [eax EXCEPT ![curenv] = Result("error")] /\ UNCHANGED waiting
        \/ BlockInRecv(blocked) /\ eax' = [eax EXCEPT ![curenv] = "SYS_ipc_recv"] /\ UNCHANGED waiting
        \/ \E k \in queue :
             /\ envid2env(waiting[k].src, FALSE) # NULL
             /\ BlockInRecv([blocked EXCEPT ![envid2env(waiting[k].src, FALSE)] = "RUNNABLE"])
             /\ eax' = [eax EXCEPT ![curenv] = "SYS_ipc_recv",
                                   ![envid2env(waiting[k].src, FALSE)] = "E_IPC_NOT_RECV"]
             /\ waiting' = ShiftOut(waiting, k)
    BY DEF sys_ipc_recv
  <1> HIDE DEF blocked, queue
  <1> QED  BY <1>5, <1>6, <1>7

-----------------------------------------------------------------------------
(* What env_init, env_create and the first sched_yield leave behind. *)
LEMMA InitHolds == Init => IInv
  <1> SUFFICES ASSUME Init PROVE IInv
    OBVIOUS
  <1>1. /\ NENV \in Nat \ {0} /\ SendedMax \in Nat \ {0} /\ NBoot \in 1..NENV
        /\ MaxGen \in Nat \ {0} /\ PriorityDefault \in Nat
    BY SchedAssumption, KernAssumption
  <1>2. /\ \A s \in Slots : s \in Int /\ 0 <= s /\ s < NENV
        /\ 0 \in Slots
    BY <1>1 DEF Slots
  <1>3. NoId \in EnvIds /\ \A s \in Slots : <<1, s>> \in EnvIds
    BY <1>1, <1>2 DEF NoId, EnvIds
  <1>4. /\ freeList \in Seq(Slots) /\ Len(freeList) = NENV - NBoot
        /\ \A k \in 1..(NENV - NBoot) : freeList[k] = NBoot + k - 1
    <2>1. NENV - NBoot \in Nat
      BY <1>1
    <2>2. freeList \in [1..(NENV - NBoot) -> Slots]
      BY <1>1 DEF Init, Slots
    <2>3. \A k \in 1..(NENV - NBoot) : freeList[k] = NBoot + k - 1
      BY DEF Init
    <2> QED  BY <2>1, <2>2, <2>3
  <1>5. curenv \in Slots /\ curenv < NBoot
    BY <1>1 DEF Init, Slots
  <1>6. TypeOK
    <2>1. Result("0") \in EaxVals
      BY ResultIsNoCall
    <2>2. 0 \in 0..(SendedMax - 1)
      BY <1>1
    <2>3. waiting \in Seq([src : EnvIds, dst : EnvIds])
      BY DEF Init
    <2> QED  BY <1>1, <1>3, <1>4, <1>5, <2>1, <2>2, <2>3 DEF Init, TypeOK
  <1>7. FreeListExact
    <2>1. \A i, j \in 1..Len(freeList) : freeList[i] = freeList[j] => i = j
      BY <1>1, <1>4
    <2>2. ASSUME NEW s \in Slots
          PROVE  status[s] = "FREE" <=> \E i \in 1..Len(freeList) : freeList[i] = s
      <3>1. status[s] = "FREE" <=> ~(s < NBoot)
        BY DEF Init
      <3>2. ASSUME ~(s < NBoot)
            PROVE  s - NBoot + 1 \in 1..(NENV - NBoot) /\ NBoot + (s - NBoot + 1) - 1 = s
        BY <1>1, <1>2, <3>2
      <3>3. \A i \in 1..(NENV - NBoot) : ~(NBoot + i - 1 < NBoot)
        BY <1>1
      <3> QED  BY <1>4, <3>1, <3>2, <3>3
    <2> QED  BY <2>1, <2>2 DEF FreeListExact
  <1>8. CurenvRunnable
    BY <1>5 DEF Init, CurenvRunnable
  <1>9. IdsNameSlots
    BY DEF Init, IdsNameSlots
  <1>10. BlockedSenderQueued
    BY ResultIsNoCall DEF Init, BlockedSenderQueued
  <1> QED  BY <1>6, <1>7, <1>8, <1>9, <1>10 DEF IInv

(* One step of the kernel. *)
LEMMA NextKeeps == IInv /\ [Next]_vars => IInv'
  <1> SUFFICES ASSUME IInv, [Next]_vars PROVE IInv'
    OBVIOUS
  <1>1. CASE Next
    <2>1. mode = "user"
      BY <1>1 DEF Next
    <2>2. CASE sys_exofork
      BY <2>1, <2>2, ExoforkKeeps
    <2>3. ASSUME NEW id \in EnvIds, sys_env_destroy(id) PROVE IInv'
      BY <2>1, <2>3, SysDestroyKeeps
    <2>4. ASSUME NEW id \in EnvIds, NEW st \in {"RUNNABLE", "NOT_RUNNABLE"},
                 sys_env_set_status(id, st)
          PROVE  IInv'
      BY <2>1, <2>4, SetStatusKeeps
    <2>5. ASSUME NEW id \in EnvIds, sys_env_set_trapframe(id) PROVE IInv'
      BY <2>1, <2>5, SetTrapframeKeeps
    <2>6. ASSUME NEW id \in EnvIds, NEW p \in Priorities, sys_env_set_priority(id, p)
          PROVE  IInv'
      BY <2>1, <2>6, SetPriorityKeeps
    <2>7. ASSUME NEW id \in EnvIds, sys_env_restore(id) PROVE IInv'
      BY <2>1, <2>7, RestoreKeeps
    <2>8. ASSUME NEW id \in EnvIds, NEW v \in Values, NEW page \in BOOLEAN,
                 sys_ipc_try_send(id, v, page)
          PROVE  IInv'
      BY <2>1, <2>8, TrySendKeeps
    <2>9. ASSUME NEW aligned \in BOOLEAN, sys_ipc_recv(aligned) PROVE IInv'
      BY <2>1, <2>9, RecvKeeps
    <2>10. CASE Fault
      BY <2>1, <2>10, FaultKeeps
    <2>11. CASE Yield
      BY <2>1, <2>11, YieldKeeps
    <2> QED  BY <1>1, <2>2, <2>3, <2>4, <2>5, <2>6, <2>7, <2>8, <2>9, <2>10, <2>11
             DEF Next, EnvCall, IpcCall
  <1>2. CASE UNCHANGED vars
    <2> USE DEF vars, idVars, schedVars, ipcVars, runVars
    <2>1. TypeOK'
      BY <1>2 DEF IInv, TypeOK
    <2>2. FreeListExact' /\ CurenvRunnable'
      BY <1>2 DEF IInv, FreeListExact, CurenvRunnable
    <2>3. IdsNameSlots' /\ BlockedSenderQueued'
      BY <1>2 DEF IInv, IdsNameSlots, BlockedSenderQueued
    <2> QED  BY <2>1, <2>2, <2>3 DEF IInv
  <1> QED  BY <1>1, <1>2

-----------------------------------------------------------------------------
(* The inductive invariant holds in every reachable state of the kernel. *)
THEOREM Invariance == Spec => []IInv
  BY InitHolds, NextKeeps, PTL DEF Spec

(* Every field of every environment, the free list, the waiting queue and  *)
(* curenv stay within their types: in particular the count of sent         *)
(* messages below 0xffffffff, and every id in its generations.             *)
THEOREM TypeCorrect == Spec => []TypeOK
  <1>1. IInv => TypeOK
    BY DEF IInv
  <1> QED  BY Invariance, <1>1, PTL

(* env_free_list holds every free slot of envs[] exactly once, for any     *)
(* number of environments and any programs (env_alloc, env_free).          *)
THEOREM FreeListCorrect == Spec => []FreeListExact
  <1>1. IInv => FreeListExact
    BY DEF IInv
  <1> QED  BY Invariance, <1>1, PTL

(* trap() and sched_yield only ever return to an environment that can run. *)
THEOREM RunsOnlyRunnable == Spec => []CurenvRunnable
  <1>1. IInv => CurenvRunnable
    BY DEF IInv
  <1> QED  BY Invariance, <1>1, PTL

(* A sender blocked in sys_ipc_try_send always has its entry in the        *)
(* waiting queue: no receive, death or reuse of an id removes it.          *)
THEOREM NoLostSender == Spec => []BlockedSenderQueued
  <1>1. IInv => BlockedSenderQueued
    BY DEF IInv
  <1> QED  BY Invariance, <1>1, PTL

(* The processor changes hands only through sched_yield, applied to the    *)
(* statuses the handler leaves.                                            *)
LEMMA SwitchesBySched ==
  ASSUME IInv, Next
  PROVE  \/ curenv' = curenv /\ mode' # "monitor"
         \/ \E cur \in Slots \cup {NULL} : sched_yield(cur, status', priority, sended)
  <1> USE DEF runVars
  <1> DEFINE Goal == \/ curenv' = curenv /\ mode' # "monitor"
                     \/ \E cur \in Slots \cup {NULL} : sched_yield(cur, status', priority, sended)
  <1>1. mode = "user" /\ curenv \in Slots \cup {NULL}
    BY DEF Next, IInv, TypeOK
  <1>2. ASSUME NEW r, Return(r) PROVE Goal
    BY <1>1, <1>2 DEF Return
  <1>3. ASSUME NEW e, NEW st, env_destroy(e, st) PROVE Goal
    BY <1>1, <1>3 DEF env_destroy
  <1>4. ASSUME NEW st, BlockInRecv(st) PROVE Goal
    BY <1>1, <1>4 DEF BlockInRecv
  <1>5. ASSUME sys_exofork PROVE Goal
    BY <1>1, <1>2, <1>5 DEF sys_exofork
  <1>6. ASSUME NEW id, sys_env_destroy(id) PROVE Goal
    BY <1>2, <1>3, <1>6 DEF sys_env_destroy
  <1>7. ASSUME NEW id, NEW st, sys_env_set_status(id, st) PROVE Goal
    BY <1>1, <1>2, <1>7 DEF sys_env_set_status, Resume
  <1>8. ASSUME NEW id, sys_env_set_trapframe(id) PROVE Goal
    BY <1>1, <1>2, <1>8 DEF sys_env_set_trapframe
  <1>9. ASSUME NEW id, NEW p, sys_env_set_priority(id, p) PROVE Goal
    BY <1>1, <1>2, <1>9 DEF sys_env_set_priority
  <1>10. ASSUME NEW id, sys_env_restore(id) PROVE Goal
    BY <1>2, <1>3, <1>10 DEF sys_env_restore
  <1>11. ASSUME NEW id, NEW v, NEW page, sys_ipc_try_send(id, v, page) PROVE Goal
    BY <1>1, <1>2, <1>11 DEF sys_ipc_try_send, Enqueue, Deliver
  <1>12. ASSUME NEW aligned, sys_ipc_recv(aligned) PROVE Goal
    BY <1>4, <1>12 DEF sys_ipc_recv
  <1>13. ASSUME Fault PROVE Goal
    BY <1>3, <1>13 DEF Fault
  <1>14. ASSUME Yield PROVE Goal
    <2>1. status' = status /\ sched_yield(curenv, status, priority, sended)
      BY <1>14 DEF Yield
    <2> QED  BY <1>1, <2>1
  <1> HIDE DEF Goal
  <1>15. Goal
    BY <1>5, <1>6, <1>7, <1>8, <1>9, <1>10, <1>11, <1>12, <1>13, <1>14
       DEF Next, EnvCall, IpcCall
  <1> QED  BY <1>15 DEF Goal

(* sched_yield falls back on envs[0], or on the kernel monitor, only when  *)
(* no other environment can run: neither priorities nor the counts of sent *)
(* messages ever hide a runnable environment from the loop.                *)
THEOREM IdleIsLastResort == Spec => SchedNeverIdles
  <1> DEFINE A == (curenv' = 0 /\ curenv # 0) \/ mode' = "monitor"
                     => \A s \in Slots \ {0} : status'[s] # "RUNNABLE"
  <1>1. IInv /\ [Next]_vars => [A]_vars
    <2> SUFFICES ASSUME IInv, Next PROVE A
      OBVIOUS
    <2>1. IInv'
      BY NextKeeps
    <2>2. /\ status' \in [Slots -> Statuses] /\ priority \in [Slots -> Nat]
          /\ sended \in [Slots -> 0..(SendedMax - 1)]
      BY <2>1 DEF IInv, TypeOK, Statuses
    <2>3. CASE curenv' = curenv /\ mode' # "monitor"
      BY <2>3
    <2>4. ASSUME NEW cur \in Slots \cup {NULL}, sched_yield(cur, status', priority, sended)
          PROVE  A
      BY <2>2, <2>4, SchedYieldResult
    <2> QED  BY <2>3, <2>4, SwitchesBySched
  <1> QED  BY Invariance, <1>1, PTL DEF Spec, SchedNeverIdles

-----------------------------------------------------------------------------
(***************************************************************************)
(* The waiting queue, for polite programs, up to the generation at which   *)
(* ids would be used again.                                                *)
(***************************************************************************)

(* An environment is not in a send and in a receive at once. *)
SendersNotRecving ==
  \A s \in Slots : status[s] # "FREE" /\ eax[s] = "SYS_ipc_try_send" => ~recving[s]

(* An entry names a generation its slot has had, so an environment created *)
(* later is never taken for the dead one that left an entry behind.        *)
EntriesNotAhead ==
  \A k \in 1..Len(waiting) : /\ waiting[k].src[1] > 0
                             /\ waiting[k].src[1] <= env_id[ENVX(waiting[k].src)][1]

(***************************************************************************)
(* The inductive invariant, on top of IInv.                                *)
(***************************************************************************)
QInv == RecvingBlocked /\ WaitingSound /\ SendersNotRecving /\ EntriesNotAhead

-----------------------------------------------------------------------------
(* Facts about states. *)

(* The src of an entry is an id. *)
LEMMA EntrySrc ==
  ASSUME IInv, NEW k \in 1..Len(waiting)
  PROVE  waiting[k].src \in EnvIds /\ ENVX(waiting[k].src) \in Slots
  <1>1. waiting[k] \in [src : EnvIds, dst : EnvIds]
    BY EntryTyped DEF IInv, TypeOK
  <1> QED  BY <1>1 DEF EnvIds, ENVX

(* An environment inside sys_ipc_try_send cannot run. *)
LEMMA SenderBlocked ==
  ASSUME IInv, QInv, NEW s \in Slots, status[s] # "FREE", eax[s] = "SYS_ipc_try_send"
  PROVE  status[s] = "NOT_RUNNABLE"
  <1>1. PICK k \in 1..Len(waiting) : waiting[k].src = env_id[s]
    BY DEF IInv, BlockedSenderQueued
  <1>2. ENVX(waiting[k].src) = s
    BY <1>1 DEF IInv, IdsNameSlots, ENVX
  <1> QED  BY <1>1, <1>2 DEF QInv, WaitingSound

(* The environment that runs is inside no call on IPC. *)
LEMMA CallerOutside ==
  ASSUME IInv, QInv, mode = "user"
  PROVE  /\ curenv \in Slots /\ status[curenv] = "RUNNABLE"
         /\ eax[curenv] # "SYS_ipc_try_send" /\ ~recving[curenv]
  BY Caller, SenderBlocked DEF QInv, RecvingBlocked

(* The queue stays as it is.  Who can run afterwards could run before, or  *)
(* was not in a send and is in none.                                       *)
LEMMA QueueKept ==
  ASSUME IInv, QInv, status' \in [Slots -> Statuses], UNCHANGED <<env_id, waiting>>,
         \A s \in Slots : status'[s] # "FREE" =>
           /\ status[s] # "FREE"
           /\ \/ /\ eax'[s] = eax[s] /\ recving'[s] = recving[s]
                 /\ status'[s] = "RUNNABLE" => status[s] = "RUNNABLE"
              \/ /\ eax[s] # "SYS_ipc_try_send" /\ eax'[s] # "SYS_ipc_try_send"
                 /\ recving'[s] => status'[s] = "NOT_RUNNABLE"
  PROVE  QInv'
  <1>1. RecvingBlocked'
    BY DEF QInv, RecvingBlocked, Statuses
  <1>2. SendersNotRecving'
    BY DEF QInv, SendersNotRecving
  <1>3. EntriesNotAhead'
    BY DEF QInv, EntriesNotAhead
  <1>4. WaitingSound'
    <2> SUFFICES ASSUME NEW k \in 1..Len(waiting),
                        status'[ENVX(waiting[k].src)] # "FREE",
                        env_id[ENVX(waiting[k].src)] = waiting[k].src
                 PROVE  /\ status'[ENVX(waiting[k].src)] = "NOT_RUNNABLE"
                        /\ eax'[ENVX(waiting[k].src)] = "SYS_ipc_try_send"
                        /\ \A j \in 1..Len(waiting) : waiting[j].src = waiting[k].src => j = k
      BY DEF WaitingSound
    <2> DEFINE s == ENVX(waiting[k].src)
    <2>1. s \in Slots
      BY EntrySrc
    <2>2. status[s] # "FREE"
      BY <2>1
    <2>3. /\ status[s] = "NOT_RUNNABLE" /\ eax[s] = "SYS_ipc_try_send"
          /\ \A j \in 1..Len(waiting) : waiting[j].src = waiting[k].src => j = k
      BY <2>2 DEF QInv, WaitingSound
    <2> HIDE DEF s
    <2>4. status'[s] = "NOT_RUNNABLE" /\ eax'[s] = "SYS_ipc_try_send"
      BY <2>1, <2>3 DEF Statuses, s
    <2> QED  BY <2>3, <2>4 DEF s
  <1> QED  BY <1>1, <1>2, <1>3, <1>4 DEF QInv

-----------------------------------------------------------------------------
(* Every action keeps the invariant. *)

(* A call that only returns. *)
LEMMA ReturnQ ==
  ASSUME IInv, QInv, mode = "user", NEW r \in {"0", "error", "other"}, Return(r)
  PROVE  QInv'
  <1> USE DEF idVars, schedVars, ipcVars, runVars
  <1>1. eax' = [eax EXCEPT ![curenv] = Result(r)] /\ Result(r) # "SYS_ipc_try_send"
    BY ResultIsNoCall DEF Return
  <1>2. /\ status' = status /\ recving' = recving /\ UNCHANGED <<env_id, waiting>>
        /\ status \in [Slots -> Statuses] /\ eax \in [Slots -> EaxVals]
    BY DEF Return, IInv, TypeOK, Statuses
  <1> QED  BY <1>1, <1>2, CallerOutside, QueueKept

(* The end of environment e, after st has woken at most somebody outside IPC. *)
LEMMA DestroyQ ==
  ASSUME IInv, QInv, mode = "user", NEW e \in Slots,
         NEW st \in [Slots -> Statuses],
         \A s \in Slots : /\ st[s] # "FREE" => status[s] # "FREE"
                          /\ st[s] = "RUNNABLE" => status[s] = "RUNNABLE" \/ ~InIpc(s),
         env_destroy(e, st),
         UNCHANGED <<recving, env_id, waiting>>,
         \A s \in Slots : eax'[s] = eax[s]
                          \/ (s = curenv /\ eax'[s] # "SYS_ipc_try_send")
  PROVE  QInv'
  <1>1. status' = [st EXCEPT ![e] = "FREE"]
    BY DEF env_destroy
  <1>2. status' \in [Slots -> Statuses]
    BY <1>1 DEF Statuses
  <1> QED  BY <1>1, <1>2, CallerOutside, QueueKept DEF InIpc

(* sys_env_destroy. *)
LEMMA SysDestroyQ ==
  ASSUME IInv, QInv, mode = "user", NEW id \in EnvIds, sys_env_destroy(id)
  PROVE  QInv'
  <1> DEFINE e == envid2env(id, TRUE)
  <1>1. CASE e = NULL
    BY <1>1, ReturnQ DEF sys_env_destroy
  <1>2. CASE e # NULL
    <2>1. e \in Slots
      BY <1>2, Resolve
    <2>2. /\ env_destroy(e, status)
          /\ eax' = [eax EXCEPT ![curenv] = Result("0")]
          /\ UNCHANGED <<recving, env_id, waiting>>
      BY <1>2 DEF sys_env_destroy, idVars, ipcVars
    <2>3. status \in [Slots -> Statuses] /\ eax \in [Slots -> EaxVals]
      BY DEF IInv, TypeOK, Statuses
    <2>4. \A s \in Slots : eax'[s] = eax[s] \/ (s = curenv /\ eax'[s] # "SYS_ipc_try_send")
      BY <2>2, <2>3, ResultIsNoCall
    <2> HIDE DEF e
    <2> QED  BY <2>1, <2>2, <2>3, <2>4, DestroyQ
  <1> QED  BY <1>1, <1>2

(* A fault. *)
LEMMA FaultQ ==
  ASSUME IInv, QInv, mode = "user", Fault
  PROVE  QInv'
  <1>1. curenv \in Slots /\ status \in [Slots -> Statuses]
    BY Caller DEF IInv, TypeOK, Statuses
  <1>2. UNCHANGED <<recving, env_id, waiting, eax>> /\ env_destroy(curenv, status)
    BY DEF Fault, idVars, ipcVars
  <1> QED  BY <1>1, <1>2, DestroyQ

(* sys_env_restore wakes an environment that is in no IPC call. *)
LEMMA RestoreQ ==
  ASSUME Polite, IInv, QInv, mode = "user", NEW id \in EnvIds, sys_env_restore(id)
  PROVE  QInv'
  <1> DEFINE e == envid2env(id, FALSE)
  <1>1. CASE ~(e # NULL /\ status[e] = "NOT_RUNNABLE")
    BY <1>1, ReturnQ DEF sys_env_restore
  <1>2. CASE e # NULL /\ status[e] = "NOT_RUNNABLE"
    <2>1. e \in Slots /\ curenv \in Slots
      BY <1>2, Resolve, Caller
    <2> DEFINE st == [status EXCEPT ![e] = "RUNNABLE"]
    <2>2. /\ ~InIpc(e)
          /\ env_destroy(curenv, st)
          /\ UNCHANGED <<recving, env_id, waiting, eax>>
      BY <1>2 DEF sys_env_restore, idVars, ipcVars
    <2> HIDE DEF e
    <2>3. /\ st \in [Slots -> Statuses]
          /\ \A s \in Slots : /\ st[s] # "FREE" => status[s] # "FREE"
                              /\ st[s] = "RUNNABLE" => status[s] = "RUNNABLE" \/ ~InIpc(s)
      BY <1>2, <2>1, <2>2 DEF IInv, TypeOK, Statuses
    <2> HIDE DEF st
    <2> QED  BY <2>1, <2>2, <2>3, DestroyQ
  <1> QED  BY <1>1, <1>2

(* sys_yield and the clock. *)
LEMMA YieldQ ==
  ASSUME IInv, QInv, Yield
  PROVE  QInv'
  <1>1. UNCHANGED <<status, recving, env_id, waiting, eax>> /\ status \in [Slots -> Statuses]
    BY DEF Yield, idVars, ipcVars, IInv, TypeOK, Statuses
  <1> QED  BY <1>1, QueueKept

(* sys_env_set_status stops anybody, and wakes who is in no IPC call. *)
LEMMA SetStatusQ ==
  ASSUME Polite, IInv, QInv, mode = "user", NEW id \in EnvIds,
         NEW st \in {"RUNNABLE", "NOT_RUNNABLE"}, sys_env_set_status(id, st)
  PROVE  QInv'
  <1> DEFINE e == envid2env(id, TRUE)
  <1>1. CASE e = NULL
    BY <1>1, ReturnQ DEF sys_env_set_status
  <1>2. CASE e # NULL
    <2>1. e \in Slots /\ status[e] # "FREE"
      BY <1>2, Resolve
    <2>2. /\ st = "RUNNABLE" => ~InIpc(e)
          /\ status' = [status EXCEPT ![e] = st]
          /\ eax' = [eax EXCEPT ![curenv] = Result("0")]
          /\ UNCHANGED <<env_id, recving, waiting>>
      BY <1>2 DEF sys_env_set_status, idVars, ipcVars
    <2> HIDE DEF e
    <2>3. status' \in [Slots -> Statuses] /\ eax \in [Slots -> EaxVals]
            /\ status \in [Slots -> Statuses] /\ Result("0") # "SYS_ipc_try_send"
      BY <2>1, <2>2, ResultIsNoCall DEF IInv, TypeOK, Statuses
    <2> QED  BY <2>1, <2>2, <2>3, CallerOutside, QueueKept DEF InIpc
  <1> QED  BY <1>1, <1>2

(* sys_env_set_trapframe of an environment in no IPC call. *)
LEMMA SetTrapframeQ ==
  ASSUME Polite, IInv, QInv, mode = "user", NEW id \in EnvIds, sys_env_set_trapframe(id)
  PROVE  QInv'
  <1> DEFINE e == envid2env(id, TRUE)
  <1>1. CASE e = NULL
    BY <1>1, ReturnQ DEF sys_env_set_trapframe
  <1>2. CASE e # NULL
    <2>1. e \in Slots
      BY <1>2, Resolve
    <2>2. /\ ~InIpc(e)
          /\ eax' = [eax EXCEPT ![e] = "other", ![curenv] = Result("0")]
          /\ UNCHANGED <<status, env_id, recving, waiting>>
      BY <1>2 DEF sys_env_set_trapframe, idVars, ipcVars
    <2> HIDE DEF e
    <2>3. status \in [Slots -> Statuses] /\ eax \in [Slots -> EaxVals]
            /\ Result("0") # "SYS_ipc_try_send"
      BY ResultIsNoCall DEF IInv, TypeOK, Statuses
    <2> QED  BY <2>1, <2>2, <2>3, CallerOutside, QueueKept DEF InIpc
  <1> QED  BY <1>1, <1>2

(* sys_env_set_priority. *)
LEMMA SetPriorityQ ==
  ASSUME IInv, QInv, mode = "user", NEW id \in EnvIds, NEW p \in Priorities,
         sys_env_set_priority(id, p)
  PROVE  QInv'
  <1> DEFINE e == envid2env(id, TRUE)
  <1>1. CASE e = NULL
    BY <1>1, ReturnQ DEF sys_env_set_priority
  <1>2. CASE e # NULL
    <2>1. /\ eax' = [eax EXCEPT ![curenv] = Result("0")]
          /\ UNCHANGED <<status, env_id, recving, waiting>>
      BY <1>2 DEF sys_env_set_priority, idVars, ipcVars
    <2>2. status \in [Slots -> Statuses] /\ eax \in [Slots -> EaxVals]
            /\ Result("0") # "SYS_ipc_try_send"
      BY ResultIsNoCall DEF IInv, TypeOK, Statuses
    <2> QED  BY <2>1, <2>2, CallerOutside, QueueKept
  <1> QED  BY <1>1, <1>2

(* sys_exofork: the id of the new environment is in no entry. *)
LEMMA ExoforkQ ==
  ASSUME GenBound <= MaxGen, IInv, QInv, mode = "user", sys_exofork
  PROVE  QInv'
  <1>1. CASE Return("error")
    BY <1>1, ReturnQ
  <1>2. CASE ~Return("error")
    <2> DEFINE e == Head(freeList)
    <2>1. /\ freeList # <<>>
          /\ env_id[e][1] < GenBound
          /\ env_id'  = [env_id EXCEPT ![e] = NextId(e)]
          /\ status'  = [status EXCEPT ![e] = "NOT_RUNNABLE"]
          /\ recving' = [recving EXCEPT ![e] = FALSE]
          /\ eax'     = [eax EXCEPT ![e] = Result("0"), ![curenv] = "other"]
          /\ waiting' = waiting
      BY <1>2 DEF sys_exofork
    <2>2. e \in Slots /\ status[e] = "FREE" /\ status' \in [Slots -> Statuses]
      <3>1. freeList' = Tail(freeList)
        BY <1>2 DEF sys_exofork
      <3> QED  BY <2>1, <3>1, TakeSlot
    <2> HIDE DEF e
    <2>3. /\ curenv \in Slots /\ curenv # e
          /\ eax[curenv] # "SYS_ipc_try_send"
      BY <2>2, CallerOutside
    <2>4. env_id[e][1] \in Nat /\ NextId(e) = <<env_id[e][1] + 1, e>>
      <3>1. env_id[e][1] \in 0..MaxGen /\ MaxGen \in Nat /\ GenBound \in Nat
        BY <2>2, KernAssumption DEF IInv, TypeOK, EnvIds
      <3> QED  BY <2>1, <3>1 DEF NextId
    <2>5. /\ env_id'[e] = <<env_id[e][1] + 1, e>>
          /\ \A s \in Slots \ {e} : env_id'[s] = env_id[s] /\ status'[s] = status[s]
                                      /\ recving'[s] = recving[s]
          /\ ~recving'[e] /\ eax'[e] # "SYS_ipc_try_send"
          /\ \A s \in Slots \ {e, curenv} : eax'[s] = eax[s]
          /\ eax'[curenv] # "SYS_ipc_try_send"
      BY <2>1, <2>2, <2>3, <2>4, ResultIsNoCall DEF IInv, TypeOK
    <2>6. RecvingBlocked' /\ SendersNotRecving'
      BY <2>5 DEF QInv, RecvingBlocked, SendersNotRecving
    <2>7. EntriesNotAhead'
      <3> SUFFICES ASSUME NEW k \in 1..Len(waiting)
                   PROVE  /\ waiting[k].src[1] > 0
                          /\ waiting[k].src[1] <= env_id'[ENVX(waiting[k].src)][1]
        BY <2>1 DEF EntriesNotAhead
      <3>1. /\ waiting[k].src[1] > 0 /\ waiting[k].src[1] <= env_id[ENVX(waiting[k].src)][1]
            /\ ENVX(waiting[k].src) \in Slots /\ waiting[k].src[1] \in Int
        BY EntrySrc DEF QInv, EntriesNotAhead, EnvIds
      <3>2. CASE ENVX(waiting[k].src) = e
        BY <2>4, <2>5, <3>1, <3>2
      <3>3. CASE ENVX(waiting[k].src) # e
        BY <2>5, <3>1, <3>3
      <3> QED  BY <3>2, <3>3
    <2>8. WaitingSound'
      <3>0. waiting' = waiting
        BY <2>1
      <3> SUFFICES ASSUME NEW k \in 1..Len(waiting),
                          status'[ENVX(waiting[k].src)] # "FREE",
                          env_id'[ENVX(waiting[k].src)] = waiting[k].src
                   PROVE  /\ status'[ENVX(waiting[k].src)] = "NOT_RUNNABLE"
                          /\ eax'[ENVX(waiting[k].src)] = "SYS_ipc_try_send"
                          /\ \A j \in 1..Len(waiting) : waiting[j].src = waiting[k].src => j = k
        BY <3>0 DEF WaitingSound
      <3> DEFINE s == ENVX(waiting[k].src)
      <3>1. s \in Slots /\ waiting[k].src[1] <= env_id[s][1]
        BY EntrySrc DEF QInv, EntriesNotAhead
      <3>2. s # e
        BY <2>4, <2>5, <3>1
      <3>3. status[s] # "FREE" /\ env_id[s] = waiting[k].src
        BY <2>5, <3>1, <3>2
      <3>4. /\ status[s] = "NOT_RUNNABLE" /\ eax[s] = "SYS_ipc_try_send"
            /\ \A j \in 1..Len(waiting) : waiting[j].src = waiting[k].src => j = k
        BY <3>3 DEF QInv, WaitingSound
      <3>5. s # curenv
        BY <2>3, <3>4
      <3> QED  BY <2>5, <3>1, <3>2, <3>4, <3>5
    <2> QED  BY <2>6, <2>7, <2>8 DEF QInv
  <1> QED  BY <1>1, <1>2

(* A sender is queued: it could run, so it has no entry yet. *)
LEMMA EnqueueQ ==
  ASSUME IInv, QInv, mode = "user", NEW id \in EnvIds, Enqueue(id)
  PROVE  QInv'
  <1>1. /\ curenv \in Slots /\ status[curenv] = "RUNNABLE" /\ ~recving[curenv]
        /\ env_id[curenv] \in EnvIds /\ env_id[curenv][2] = curenv /\ env_id[curenv][1] > 0
    BY Caller, CallerOutside DEF IInv, IdsNameSlots
  <1> DEFINE w == [src |-> env_id[curenv], dst |-> id]
  <1>2. /\ waiting' = Append(waiting, w)
        /\ status' = [status EXCEPT ![curenv] = "NOT_RUNNABLE"]
        /\ eax' = [eax EXCEPT ![curenv] = "SYS_ipc_try_send"]
        /\ UNCHANGED <<env_id, recving>>
    BY DEF Enqueue, idVars, ipcVars
  <1>3. w \in [src : EnvIds, dst : EnvIds] /\ w.src = env_id[curenv]
    BY <1>1
  <1> HIDE DEF w
  <1>4. waiting \in Seq([src : EnvIds, dst : EnvIds]) /\ Len(waiting) \in Nat
    BY DEF IInv, TypeOK
  <1>5. /\ Len(waiting') = Len(waiting) + 1
        /\ waiting'[Len(waiting) + 1] = w
        /\ \A i \in 1..Len(waiting) : waiting'[i] = waiting[i]
    BY <1>2, <1>3, <1>4, PushBack
  <1>6. /\ status'[curenv] = "NOT_RUNNABLE" /\ eax'[curenv] = "SYS_ipc_try_send"
        /\ \A s \in Slots \ {curenv} : status'[s] = status[s] /\ eax'[s] = eax[s]
    BY <1>1, <1>2 DEF IInv, TypeOK
  <1>7. \A k \in 1..Len(waiting') : k \in 1..Len(waiting) \/ k = Len(waiting) + 1
    BY <1>4, <1>5
  <1>8. RecvingBlocked' /\ SendersNotRecving'
    BY <1>1, <1>2, <1>6 DEF QInv, RecvingBlocked, SendersNotRecving
  <1>9. EntriesNotAhead'
    <2> SUFFICES ASSUME NEW k \in 1..Len(waiting')
                 PROVE  /\ waiting'[k].src[1] > 0
                        /\ waiting'[k].src[1] <= env_id[ENVX(waiting'[k].src)][1]
      BY <1>2 DEF EntriesNotAhead
    <2>1. CASE k \in 1..Len(waiting)
      BY <1>5, <2>1 DEF QInv, EntriesNotAhead
    <2>2. CASE k = Len(waiting) + 1
      <3>1. env_id[curenv][1] \in Int
        BY <1>1 DEF EnvIds
      <3> QED  BY <1>1, <1>3, <1>5, <2>2, <3>1 DEF ENVX
    <2> QED  BY <1>7, <2>1, <2>2
  <1>10. \A k \in 1..Len(waiting) : waiting[k].src # env_id[curenv]
    BY <1>1 DEF QInv, WaitingSound, ENVX
  <1>11. WaitingSound'
    <2> SUFFICES ASSUME NEW k \in 1..Len(waiting'),
                        status'[ENVX(waiting'[k].src)] # "FREE",
                        env_id[ENVX(waiting'[k].src)] = waiting'[k].src
                 PROVE  /\ status'[ENVX(waiting'[k].src)] = "NOT_RUNNABLE"
                        /\ eax'[ENVX(waiting'[k].src)] = "SYS_ipc_try_send"
                        /\ \A j \in 1..Len(waiting') : waiting'[j].src = waiting'[k].src => j = k
      BY <1>2 DEF WaitingSound
    <2>1. CASE k \in 1..Len(waiting)
      <3> DEFINE s == ENVX(waiting[k].src)
      <3>1. waiting'[k] = waiting[k] /\ s \in Slots
        BY <1>5, <2>1, EntrySrc
      <3>2. s # curenv
        BY <1>10, <2>1, <3>1
      <3>3. status[s] # "FREE"
        BY <1>6, <3>1, <3>2
      <3>4. /\ status[s] = "NOT_RUNNABLE" /\ eax[s] = "SYS_ipc_try_send"
            /\ \A j \in 1..Len(waiting) : waiting[j].src = waiting[k].src => j = k
        BY <2>1, <3>1, <3>3 DEF QInv, WaitingSound
      <3> HIDE DEF s
      <3>5. \A j \in 1..Len(waiting') : waiting'[j].src = waiting'[k].src => j = k
        BY <1>3, <1>5, <1>7, <1>10, <2>1, <3>1, <3>4
      <3> QED  BY <1>6, <3>1, <3>2, <3>4, <3>5 DEF s
    <2>2. CASE k = Len(waiting) + 1
      <3>1. waiting'[k].src = env_id[curenv] /\ ENVX(waiting'[k].src) = curenv
        BY <1>1, <1>3, <1>5, <2>2 DEF ENVX
      <3> QED  BY <1>5, <1>6, <1>7, <1>10, <2>2, <3>1
    <2> QED  BY <1>7, <2>1, <2>2
  <1> QED  BY <1>8, <1>9, <1>11 DEF QInv

(* sys_ipc_try_send: a delivery wakes a receiver, which is in no send. *)
LEMMA TrySendQ ==
  ASSUME IInv, QInv, mode = "user", NEW id \in EnvIds, NEW v \in Values, NEW page \in BOOLEAN,
         sys_ipc_try_send(id, v, page)
  PROVE  QInv'
  <1> USE DEF idVars, schedVars, ipcVars, runVars
  <1> DEFINE d == envid2env(id, FALSE)
  <1>1. CASE Return("error")
    BY <1>1, ReturnQ
  <1>2. CASE Enqueue(id)
    BY <1>2, EnqueueQ
  <1>3. CASE UNCHANGED <<status, env_id, recving, eax, waiting>>
    <2>1. status \in [Slots -> Statuses]
      BY DEF IInv, TypeOK, Statuses
    <2> QED  BY <1>3, <2>1, QueueKept
  <1>4. CASE d # NULL /\ recving[d] /\ Deliver(d, v)
    <2>1. d \in Slots /\ status[d] # "FREE"
      BY <1>4, Resolve
    <2> HIDE DEF d
    <2>2. /\ recving' = [recving EXCEPT ![d] = FALSE]
          /\ status' = [status EXCEPT ![d] = "RUNNABLE"]
          /\ eax' = [eax EXCEPT ![d] = Result("0"), ![curenv] = Result("0")]
          /\ UNCHANGED <<env_id, waiting>>
      BY <1>4 DEF Deliver
    <2>3. eax[d] # "SYS_ipc_try_send"
      BY <1>4, <2>1 DEF QInv, SendersNotRecving
    <2>4. /\ status \in [Slots -> Statuses] /\ status' \in [Slots -> Statuses]
          /\ eax \in [Slots -> EaxVals] /\ recving \in [Slots -> BOOLEAN]
          /\ Result("0") # "SYS_ipc_try_send"
      BY <2>1, <2>2, ResultIsNoCall DEF IInv, TypeOK, Statuses
    <2>5. ~recving'[d]
      BY <2>1, <2>2, <2>4
    <2> QED  BY <1>4, <2>1, <2>2, <2>3, <2>4, <2>5, CallerOutside, QueueKept
  <1> QED  BY <1>1, <1>2, <1>3, <1>4 DEF sys_ipc_try_send

(* Removing entry k: entry j is now the one that was at From(j), never k. *)
LEMMA ShiftOutFrom ==
  ASSUME NEW S, NEW q \in Seq(S), NEW k \in 1..Len(q), NEW j \in 1..Len(ShiftOut(q, k))
  PROVE  \E i \in 1..Len(q) : /\ i # k /\ ShiftOut(q, k)[j] = q[i]
                              /\ i = IF j < k THEN j ELSE j + 1
  <1>1. Len(q) \in Nat /\ Len(ShiftOut(q, k)) = Len(q) - 1
    BY ShiftOutKeeps
  <1>2. ShiftOut(q, k)[j] = IF j < k THEN q[j] ELSE q[j + 1]
    BY <1>1 DEF ShiftOut
  <1> QED  BY <1>1, <1>2

(* sys_ipc_recv blocks the caller; the sender it wakes loses its only entry. *)
LEMMA RecvQ ==
  ASSUME IInv, QInv, mode = "user", NEW aligned \in BOOLEAN, sys_ipc_recv(aligned)
  PROVE  QInv'
  <1> DEFINE blocked == [status EXCEPT ![curenv] = "NOT_RUNNABLE"]
             queue   == QueuedFor(env_id[curenv])
  <1>1. /\ curenv \in Slots /\ status[curenv] = "RUNNABLE" /\ eax[curenv] # "SYS_ipc_try_send"
        /\ status \in [Slots -> Statuses] /\ eax \in [Slots -> EaxVals]
        /\ recving \in [Slots -> BOOLEAN]
    BY CallerOutside DEF IInv, TypeOK, Statuses
  <1>2. ASSUME BlockInRecv(blocked), UNCHANGED waiting,
               NEW v \in EaxVals, v # "SYS_ipc_try_send", eax' = [eax EXCEPT ![curenv] = v]
        PROVE  QInv'
    <2>1. /\ recving' = [recving EXCEPT ![curenv] = TRUE] /\ status' = blocked
          /\ env_id' = env_id
      BY <1>2 DEF BlockInRecv, idVars
    <2>2. status' \in [Slots -> Statuses]
      BY <1>1, <2>1 DEF Statuses
    <2> QED  BY <1>1, <1>2, <2>1, <2>2, QueueKept
  <1>3. ASSUME NEW k \in queue,
               envid2env(waiting[k].src, FALSE) # NULL,
               BlockInRecv([blocked EXCEPT ![envid2env(waiting[k].src, FALSE)] = "RUNNABLE"]),
               eax' = [eax EXCEPT ![curenv] = "SYS_ipc_recv",
                                  ![envid2env(waiting[k].src, FALSE)] = "E_IPC_NOT_RECV"],
               waiting' = ShiftOut(waiting, k)
        PROVE  QInv'
    <2> DEFINE s == envid2env(waiting[k].src, FALSE)
    <2>1. k \in 1..Len(waiting) /\ waiting[k].src \in EnvIds
      <3>1. k \in 1..Len(waiting)
        BY DEF QueuedFor
      <3> QED  BY <3>1, EntrySrc
    <2>2. waiting[k].src # NoId
      BY <2>1 DEF QInv, EntriesNotAhead, NoId
    <2>3. s \in Slots /\ status[s] # "FREE" /\ env_id[s] = waiting[k].src
      BY <1>3, <2>1, <2>2, Resolve
    <2>4. s = ENVX(waiting[k].src)
      BY <2>3 DEF IInv, IdsNameSlots, ENVX
    <2> HIDE DEF s
    <2>5. /\ status[s] = "NOT_RUNNABLE" /\ eax[s] = "SYS_ipc_try_send"
          /\ \A j \in 1..Len(waiting) : waiting[j].src = waiting[k].src => j = k
      BY <2>1, <2>3, <2>4 DEF QInv, WaitingSound
    <2>6. s # curenv /\ ~recving[s]
      BY <1>1, <2>3, <2>5 DEF QInv, SendersNotRecving
    <2>7. /\ recving' = [recving EXCEPT ![curenv] = TRUE]
          /\ status' = [blocked EXCEPT ![s] = "RUNNABLE"]
          /\ env_id' = env_id
      BY <1>3 DEF BlockInRecv, idVars, s
    <2>8. /\ status'[curenv] = "NOT_RUNNABLE" /\ status'[s] = "RUNNABLE"
          /\ recving'[curenv] /\ ~recving'[s]
          /\ eax'[curenv] # "SYS_ipc_try_send" /\ eax'[s] # "SYS_ipc_try_send"
          /\ \A t \in Slots \ {s, curenv} : /\ status'[t] = status[t] /\ eax'[t] = eax[t]
                                            /\ recving'[t] = recving[t]
      <3>1. eax' = [eax EXCEPT ![curenv] = "SYS_ipc_recv", ![s] = "E_IPC_NOT_RECV"]
        BY <1>3 DEF s
      <3> QED  BY <1>1, <2>3, <2>6, <2>7, <3>1
    <2>9. RecvingBlocked' /\ SendersNotRecving'
      BY <2>8 DEF QInv, RecvingBlocked, SendersNotRecving
    <2>10. waiting \in Seq([src : EnvIds, dst : EnvIds]) /\ Len(waiting) \in Nat
      BY DEF IInv, TypeOK
    <2>11. \A j \in 1..Len(waiting') : \E i \in 1..Len(waiting) :
              i # k /\ waiting'[j] = waiting[i] /\ i = IF j < k THEN j ELSE j + 1
      BY <1>3, <2>1, <2>10, ShiftOutFrom
    <2>12. EntriesNotAhead'
      BY <2>7, <2>11 DEF QInv, EntriesNotAhead
    <2>13. WaitingSound'
      <3> SUFFICES ASSUME NEW j \in 1..Len(waiting'),
                          status'[ENVX(waiting'[j].src)] # "FREE",
                          env_id[ENVX(waiting'[j].src)] = waiting'[j].src
                   PROVE  /\ status'[ENVX(waiting'[j].src)] = "NOT_RUNNABLE"
                          /\ eax'[ENVX(waiting'[j].src)] = "SYS_ipc_try_send"
                          /\ \A l \in 1..Len(waiting') : waiting'[l].src = waiting'[j].src => l = j
        BY <2>7 DEF WaitingSound
      <3>1. PICK i \in 1..Len(waiting) :
              i # k /\ waiting'[j] = waiting[i] /\ i = IF j < k THEN j ELSE j + 1
        BY <2>11
      <3> DEFINE t == ENVX(waiting[i].src)
      <3>2. t \in Slots /\ env_id[t] = waiting[i].src /\ status'[t] # "FREE"
        BY <3>1, EntrySrc
      <3>3. t # s
        BY <2>3, <2>5, <3>1, <3>2
      <3>4. status[t] # "FREE"
        BY <1>1, <2>8, <3>2, <3>3
      <3>5. /\ status[t] = "NOT_RUNNABLE" /\ eax[t] = "SYS_ipc_try_send"
            /\ \A l \in 1..Len(waiting) : waiting[l].src = waiting[i].src => l = i
        BY <3>2, <3>4 DEF QInv, WaitingSound
      <3>6. t # curenv
        BY <1>1, <3>5
      <3> HIDE DEF t
      <3>7. ASSUME NEW l \in 1..Len(waiting'), waiting'[l].src = waiting'[j].src
            PROVE  l = j
        <4>1. PICK n \in 1..Len(waiting) :
                n # k /\ waiting'[l] = waiting[n] /\ n = IF l < k THEN l ELSE l + 1
          BY <2>11
        <4>2. n = i
          BY <3>1, <3>5, <3>7, <4>1
        <4> QED  BY <2>1, <2>10, <3>1, <4>1, <4>2
      <3>8. status'[t] = "NOT_RUNNABLE" /\ eax'[t] = "SYS_ipc_try_send"
        BY <2>8, <3>2, <3>3, <3>5, <3>6
      <3> QED  BY <3>1, <3>7, <3>8 DEF t
    <2> QED  BY <2>9, <2>12, <2>13 DEF QInv
  <1>4. \/ BlockInRecv(blocked) /\ eax' = [eax EXCEPT ![curenv] = Result("error")] /\ UNCHANGED waiting
        \/ BlockInRecv(blocked) /\ eax' = [eax EXCEPT ![curenv] = "SYS_ipc_recv"] /\ UNCHANGED waiting
        \/ \E k \in queue :
             /\ envid2env(waiting[k].src, FALSE) # NULL
             /\ BlockInRecv([blocked EXCEPT ![envid2env(waiting[k].src, FALSE)] = "RUNNABLE"])
             /\ eax' = [eax EXCEPT ![curenv] = "SYS_ipc_recv",
                                   ![envid2env(waiting[k].src, FALSE)] = "E_IPC_NOT_RECV"]
             /\ waiting' = ShiftOut(waiting, k)
    BY DEF sys_ipc_recv
  <1>5. /\ Result("error") \in EaxVals /\ Result("error") # "SYS_ipc_try_send"
        /\ "SYS_ipc_recv" \in EaxVals
    BY ResultIsNoCall DEF EaxVals
  <1> HIDE DEF blocked, queue
  <1> QED  BY <1>2, <1>3, <1>4, <1>5

-----------------------------------------------------------------------------
(* Nobody is queued and nobody receives at the start. *)
LEMMA InitQ == Init => QInv
  <1> SUFFICES ASSUME Init PROVE QInv
    OBVIOUS
  <1>1. waiting = <<>> /\ Len(waiting) = 0
    BY DEF Init
  <1>2. WaitingSound /\ EntriesNotAhead
    BY <1>1 DEF WaitingSound, EntriesNotAhead
  <1>3. RecvingBlocked /\ SendersNotRecving
    BY DEF Init, RecvingBlocked, SendersNotRecving
  <1> QED  BY <1>2, <1>3 DEF QInv

(* One step of the kernel. *)
LEMMA NextQ ==
  ASSUME Polite, GenBound <= MaxGen, IInv, QInv, [Next]_vars
  PROVE  QInv'
  <1>1. CASE Next
    <2>1. mode = "user"
      BY <1>1 DEF Next
    <2>2. CASE sys_exofork
      BY <2>1, <2>2, ExoforkQ
    <2>3. ASSUME NEW id \in EnvIds, sys_env_destroy(id) PROVE QInv'
      BY <2>1, <2>3, SysDestroyQ
    <2>4. ASSUME NEW id \in EnvIds, NEW st \in {"RUNNABLE", "NOT_RUNNABLE"},
                 sys_env_set_status(id, st)
          PROVE  QInv'
      BY <2>1, <2>4, SetStatusQ
    <2>5. ASSUME NEW id \in EnvIds, sys_env_set_trapframe(id) PROVE QInv'
      BY <2>1, <2>5, SetTrapframeQ
    <2>6. ASSUME NEW id \in EnvIds, NEW p \in Priorities, sys_env_set_priority(id, p)
          PROVE  QInv'
      BY <2>1, <2>6, SetPriorityQ
    <2>7. ASSUME NEW id \in EnvIds, sys_env_restore(id) PROVE QInv'
      BY <2>1, <2>7, RestoreQ
    <2>8. ASSUME NEW id \in EnvIds, NEW v \in Values, NEW page \in BOOLEAN,
                 sys_ipc_try_send(id, v, page)
          PROVE  QInv'
      BY <2>1, <2>8, TrySendQ
    <2>9. ASSUME NEW aligned \in BOOLEAN, sys_ipc_recv(aligned) PROVE QInv'
      BY <2>1, <2>9, RecvQ
    <2>10. CASE Fault
      BY <2>1, <2>10, FaultQ
    <2>11. CASE Yield
      BY <2>11, YieldQ
    <2> QED  BY <1>1, <2>2, <2>3, <2>4, <2>5, <2>6, <2>7, <2>8, <2>9, <2>10, <2>11
             DEF Next, EnvCall, IpcCall
  <1>2. CASE UNCHANGED vars
    <2>1. /\ UNCHANGED <<status, env_id, recving, eax, waiting>>
          /\ status \in [Slots -> Statuses]
      BY <1>2 DEF vars, idVars, ipcVars, IInv, TypeOK, Statuses
    <2> QED  BY <2>1, QueueKept
  <1> QED  BY <1>1, <1>2

(* The inductive invariant of the queue, as long as ids are not used again *)
(* and nobody wakes an environment out of an IPC call.                     *)
THEOREM QueueInvariance ==
  ASSUME Polite, GenBound <= MaxGen
  PROVE  Spec => []QInv
  <1>1. IInv /\ QInv /\ [Next]_vars => QInv'
    BY NextQ
  <1> QED  BY InitQ, <1>1, Invariance, PTL DEF Spec

(* env_ipc_recving is set only in an environment that is blocked: a        *)
(* message is never delivered to one that runs.                            *)
THEOREM ReceiversBlocked ==
  ASSUME Polite, GenBound <= MaxGen
  PROVE  Spec => []RecvingBlocked
  <1>1. QInv => RecvingBlocked
    BY DEF QInv
  <1> QED  BY QueueInvariance, <1>1, PTL

(* An entry of the waiting queue is the one entry of an environment        *)
(* blocked in its send, or stands for a dead one: sys_ipc_recv never makes *)
(* a call return that was not a send, nor one send return twice.           *)
THEOREM QueueSound ==
  ASSUME Polite, GenBound <= MaxGen
  PROVE  Spec => []WaitingSound
  <1>1. QInv => WaitingSound
    BY DEF QInv
  <1> QED  BY QueueInvariance, <1>1, PTL

-----------------------------------------------------------------------------
(***************************************************************************)
(* A preempted environment is not touched by strangers.                    *)
(***************************************************************************)

(* What RegistersIsolated says of one step. *)
StrangersKept ==
  \A s \in Slots :
    /\ s # curenv /\ status[s] = "RUNNABLE"
    /\ curenv \in Slots /\ parent[s] # env_id[curenv]
    => eax'[s] = eax[s] /\ status'[s] = "RUNNABLE"

(* checkperm lets a caller through to itself and to its children only. *)
LEMMA CheckedTarget ==
  ASSUME IInv, NEW id \in EnvIds, envid2env(id, TRUE) # NULL
  PROVE  \/ envid2env(id, TRUE) = curenv
         \/ parent[envid2env(id, TRUE)] = env_id[curenv]
  BY DEF envid2env

(* A call that only returns changes its caller's eax. *)
LEMMA ReturnIsolated ==
  ASSUME IInv, NEW r \in {"0", "error", "other"}, Return(r)
  PROVE  StrangersKept
  BY DEF Return, StrangersKept, IInv, TypeOK

(* The calls that name an environment check that it is the caller or its child. *)
LEMMA EnvCallIsolated ==
  ASSUME IInv, mode = "user", EnvCall
  PROVE  StrangersKept
  <1>1. curenv \in Slots /\ status \in [Slots -> Statuses] /\ eax \in [Slots -> EaxVals]
    BY Caller DEF IInv, TypeOK, Statuses
  <1>2. ASSUME NEW e \in Slots, e = curenv \/ parent[e] = env_id[curenv],
               \A s \in Slots \ {e, curenv} : eax'[s] = eax[s] /\ status'[s] = status[s]
        PROVE  StrangersKept
    BY <1>2 DEF StrangersKept
  <1>3. CASE sys_exofork
    <2>1. CASE Return("error")
      BY <2>1, ReturnIsolated
    <2>2. CASE ~Return("error")
      <3> DEFINE e == Head(freeList)
      <3>1. /\ freeList # <<>>
            /\ status'  = [status EXCEPT ![e] = "NOT_RUNNABLE"]
            /\ eax'     = [eax EXCEPT ![e] = Result("0"), ![curenv] = "other"]
            /\ freeList' = Tail(freeList)
        BY <1>3, <2>2 DEF sys_exofork
      <3>2. e \in Slots /\ status[e] = "FREE"
        BY <3>1, TakeSlot
      <3> HIDE DEF e
      <3> QED  BY <1>1, <3>1, <3>2 DEF StrangersKept
    <2> QED  BY <2>1, <2>2
  <1>4. ASSUME NEW id \in EnvIds, sys_env_destroy(id) PROVE StrangersKept
    <2> DEFINE e == envid2env(id, TRUE)
    <2>1. CASE e = NULL
      BY <1>4, <2>1, ReturnIsolated DEF sys_env_destroy
    <2>2. CASE e # NULL
      <3>1. e = curenv \/ parent[e] = env_id[curenv]
        BY <2>2, CheckedTarget
      <3>2. e \in Slots
        BY <2>2, Resolve
      <3>3. status' = [status EXCEPT ![e] = "FREE"] /\ eax' = [eax EXCEPT ![curenv] = Result("0")]
        BY <1>4, <2>2 DEF sys_env_destroy, env_destroy
      <3> HIDE DEF e
      <3> QED  BY <1>1, <1>2, <3>1, <3>2, <3>3
    <2> QED  BY <2>1, <2>2
  <1>5. ASSUME NEW id \in EnvIds, NEW st \in {"RUNNABLE", "NOT_RUNNABLE"},
               sys_env_set_status(id, st)
        PROVE  StrangersKept
    <2> DEFINE e == envid2env(id, TRUE)
    <2>1. CASE e = NULL
      BY <1>5, <2>1, ReturnIsolated DEF sys_env_set_status
    <2>2. CASE e # NULL
      <3>1. e \in Slots /\ (e = curenv \/ parent[e] = env_id[curenv])
        BY <2>2, CheckedTarget, Resolve
      <3>2. status' = [status EXCEPT ![e] = st] /\ eax' = [eax EXCEPT ![curenv] = Result("0")]
        BY <1>5, <2>2 DEF sys_env_set_status
      <3> HIDE DEF e
      <3> QED  BY <1>1, <1>2, <3>1, <3>2
    <2> QED  BY <2>1, <2>2
  <1>6. ASSUME NEW id \in EnvIds, sys_env_set_trapframe(id) PROVE StrangersKept
    <2> DEFINE e == envid2env(id, TRUE)
    <2>1. CASE e = NULL
      BY <1>6, <2>1, ReturnIsolated DEF sys_env_set_trapframe
    <2>2. CASE e # NULL
      <3>1. e \in Slots /\ (e = curenv \/ parent[e] = env_id[curenv])
        BY <2>2, CheckedTarget, Resolve
      <3>2. status' = status /\ eax' = [eax EXCEPT ![e] = "other", ![curenv] = Result("0")]
        BY <1>6, <2>2 DEF sys_env_set_trapframe
      <3> HIDE DEF e
      <3> QED  BY <1>1, <1>2, <3>1, <3>2
    <2> QED  BY <2>1, <2>2
  <1>7. ASSUME NEW id \in EnvIds, NEW p \in Priorities, sys_env_set_priority(id, p)
        PROVE  StrangersKept
    <2>1. CASE envid2env(id, TRUE) = NULL
      BY <1>7, <2>1, ReturnIsolated DEF sys_env_set_priority
    <2>2. CASE envid2env(id, TRUE) # NULL
      <3>1. status' = status /\ eax' = [eax EXCEPT ![curenv] = Result("0")]
        BY <1>7, <2>2 DEF sys_env_set_priority
      <3> QED  BY <1>1, <3>1 DEF StrangersKept
    <2> QED  BY <2>1, <2>2
  <1>8. ASSUME NEW id \in EnvIds, sys_env_restore(id) PROVE StrangersKept
    <2> DEFINE e == envid2env(id, FALSE)
    <2>1. CASE ~(e # NULL /\ status[e] = "NOT_RUNNABLE")
      BY <1>8, <2>1, ReturnIsolated DEF sys_env_restore
    <2>2. CASE e # NULL /\ status[e] = "NOT_RUNNABLE"
      <3>1. e \in Slots
        BY <2>2, Resolve
      <3>2. /\ status' = [[status EXCEPT ![e] = "RUNNABLE"] EXCEPT ![curenv] = "FREE"]
            /\ eax' = eax
        BY <1>8, <2>2 DEF sys_env_restore, env_destroy
      <3> HIDE DEF e
      <3> QED  BY <1>1, <3>1, <3>2 DEF StrangersKept
    <2> QED  BY <2>1, <2>2
  <1> QED  BY <1>3, <1>4, <1>5, <1>6, <1>7, <1>8 DEF EnvCall

(* A delivery and the wakeup of a queued sender reach blocked environments only. *)
LEMMA IpcCallIsolated ==
  ASSUME IInv, QInv, mode = "user", IpcCall
  PROVE  StrangersKept
  <1>1. curenv \in Slots /\ status \in [Slots -> Statuses] /\ eax \in [Slots -> EaxVals]
    BY Caller DEF IInv, TypeOK, Statuses
  <1>2. ASSUME NEW e \in Slots, status[e] = "NOT_RUNNABLE",
               \A s \in Slots \ {e, curenv} : eax'[s] = eax[s] /\ status'[s] = status[s]
        PROVE  StrangersKept
    BY <1>2 DEF StrangersKept
  <1>3. ASSUME NEW id \in EnvIds, NEW v \in Values, NEW page \in BOOLEAN,
               sys_ipc_try_send(id, v, page)
        PROVE  StrangersKept
    <2> DEFINE d == envid2env(id, FALSE)
    <2>1. CASE Return("error")
      BY <2>1, ReturnIsolated
    <2>2. CASE Enqueue(id)
      <3>1. /\ status' = [status EXCEPT ![curenv] = "NOT_RUNNABLE"]
            /\ eax' = [eax EXCEPT ![curenv] = "SYS_ipc_try_send"]
        BY <2>2 DEF Enqueue
      <3> QED  BY <1>1, <3>1 DEF StrangersKept
    <2>3. CASE UNCHANGED <<status, eax>>
      BY <2>3 DEF StrangersKept
    <2>4. CASE d # NULL /\ recving[d] /\ Deliver(d, v)
      <3>1. d \in Slots /\ status[d] # "FREE"
        BY <2>4, Resolve
      <3>2. status[d] = "NOT_RUNNABLE"
        BY <2>4, <3>1 DEF QInv, RecvingBlocked
      <3>3. /\ status' = [status EXCEPT ![d] = "RUNNABLE"]
            /\ eax' = [eax EXCEPT ![d] = Result("0"), ![curenv] = Result("0")]
        BY <2>4 DEF Deliver
      <3> HIDE DEF d
      <3> QED  BY <1>1, <1>2, <3>1, <3>2, <3>3
    <2> QED  BY <1>3, <2>1, <2>2, <2>3, <2>4 DEF sys_ipc_try_send
  <1>4. ASSUME NEW aligned \in BOOLEAN, sys_ipc_recv(aligned) PROVE StrangersKept
    <2> DEFINE blocked == [status EXCEPT ![curenv] = "NOT_RUNNABLE"]
    <2>1. ASSUME BlockInRecv(blocked), NEW v, eax' = [eax EXCEPT ![curenv] = v]
          PROVE  StrangersKept
      <3>1. status' = blocked
        BY <2>1 DEF BlockInRecv
      <3> QED  BY <1>1, <2>1, <3>1 DEF StrangersKept
    <2>2. ASSUME NEW k \in QueuedFor(env_id[curenv]),
                 envid2env(waiting[k].src, FALSE) # NULL,
                 BlockInRecv([blocked EXCEPT ![envid2env(waiting[k].src, FALSE)] = "RUNNABLE"]),
                 eax' = [eax EXCEPT ![curenv] = "SYS_ipc_recv",
                                    ![envid2env(waiting[k].src, FALSE)] = "E_IPC_NOT_RECV"]
          PROVE  StrangersKept
      <3> DEFINE s == envid2env(waiting[k].src, FALSE)
      <3>1. k \in 1..Len(waiting)
        BY DEF QueuedFor
      <3>2. waiting[k].src \in EnvIds
        BY <3>1, EntrySrc
      <3>3. waiting[k].src # NoId
        BY <3>1, <3>2 DEF QInv, EntriesNotAhead, NoId
      <3>4. s \in Slots /\ status[s] # "FREE" /\ env_id[s] = waiting[k].src
        BY <2>2, <3>2, <3>3, Resolve
      <3>5. s = ENVX(waiting[k].src)
        BY <3>4 DEF IInv, IdsNameSlots, ENVX
      <3> HIDE DEF s
      <3>6. status[s] = "NOT_RUNNABLE"
        BY <3>1, <3>4, <3>5 DEF QInv, WaitingSound
      <3>7. /\ status' = [blocked EXCEPT ![s] = "RUNNABLE"]
            /\ eax' = [eax EXCEPT ![curenv] = "SYS_ipc_recv", ![s] = "E_IPC_NOT_RECV"]
        BY <2>2 DEF BlockInRecv, s
      <3> QED  BY <1>1, <1>2, <3>4, <3>6, <3>7
    <2>3. \/ BlockInRecv(blocked) /\ eax' = [eax EXCEPT ![curenv] = Result("error")]
          \/ BlockInRecv(blocked) /\ eax' = [eax EXCEPT ![curenv] = "SYS_ipc_recv"]
          \/ \E k \in QueuedFor(env_id[curenv]) :
               /\ envid2env(waiting[k].src, FALSE) # NULL
               /\ BlockInRecv([blocked EXCEPT ![envid2env(waiting[k].src, FALSE)] = "RUNNABLE"])
               /\ eax' = [eax EXCEPT ![curenv] = "SYS_ipc_recv",
                                     ![envid2env(waiting[k].src, FALSE)] = "E_IPC_NOT_RECV"]
      BY <1>4 DEF sys_ipc_recv
    <2> HIDE DEF blocked
    <2> QED  BY <2>1, <2>2, <2>3
  <1> QED  BY <1>3, <1>4 DEF IpcCall

(* No step changes the status or the saved eax of an environment that was  *)
(* preempted while it could run, unless its parent asked for it: the       *)
(* kernel writes a result or a wakeup only where somebody waits for it.    *)
THEOREM PreemptedUntouched ==
  ASSUME Polite, GenBound <= MaxGen
  PROVE  Spec => RegistersIsolated
  <1>1. ASSUME IInv, QInv, Next PROVE StrangersKept
    <2>1. mode = "user"
      BY <1>1 DEF Next
    <2>2. curenv \in Slots /\ status \in [Slots -> Statuses] /\ eax \in [Slots -> EaxVals]
      BY <1>1, <2>1, Caller DEF IInv, TypeOK, Statuses
    <2>3. CASE EnvCall
      BY <1>1, <2>1, <2>3, EnvCallIsolated
    <2>4. CASE IpcCall
      BY <1>1, <2>1, <2>4, IpcCallIsolated
    <2>5. CASE Fault
      <3>1. status' = [status EXCEPT ![curenv] = "FREE"] /\ eax' = eax
        BY <2>5 DEF Fault, env_destroy
      <3> QED  BY <2>2, <3>1 DEF StrangersKept
    <2>6. CASE Yield
      BY <2>6 DEF Yield, StrangersKept
    <2> QED  BY <1>1, <2>3, <2>4, <2>5, <2>6 DEF Next
  <1>2. IInv /\ QInv /\ [Next]_vars => [StrangersKept]_vars
    BY <1>1
  <1>3. RegistersIsolated <=> [][StrangersKept]_vars
    BY DEF RegistersIsolated, StrangersKept
  <1> QED  BY <1>2, <1>3, Invariance, QueueInvariance, PTL DEF Spec

-----------------------------------------------------------------------------
(***************************************************************************)
(* ipc_send and ipc_recv of the library (IpcLib).                          *)
(*                                                                         *)
(* What the receiver has of a sender is counted against what the sender    *)
(* was told: the two differ by at most the send in progress, and by how    *)
(* much follows from where the program is and from its saved eax.  For the *)
(* server and its clients, whose answers follow the same path back, the    *)
(* invariant adds which request the server is answering.                   *)
(***************************************************************************)

(* The id of the environment in slot s: with every slot in use from the    *)
(* start, its first and only one.                                          *)
Id(s) == <<1, s>>
IdsStay == env_id = [s \in Slots |-> Id(s)]

(* Where a program can be. *)
SendSteps == {"try1", "try2", "result1", "result2", "panic"}
RecvSteps == {"recv", "load_from", "load_value"}
StepsOf(s) ==
  IF s = Receiver THEN RecvSteps \cup {"gone"} \cup IF service THEN SendSteps ELSE {}
  ELSE IF s \in Sending THEN SendSteps \cup {"exit", "gone"} \cup IF service THEN RecvSteps ELSE {}
  ELSE {"idle", "gone"}

InResult(s) == pc[s] \in {"result1", "result2"}
InLoad(s)   == pc[s] \in {"load_from", "load_value"}

LibTypeOK ==
  /\ service \in BOOLEAN
  /\ pc \in [Slots -> SendSteps \cup RecvSteps \cup {"idle", "exit", "gone"}]
  /\ count \in [Slots -> Nat] /\ got \in [Slots -> EnvIds]
  /\ log \in [Slots -> Seq(EnvIds \X Values)]

(* What the saved registers and env_ipc_* say of where a program is. *)
InCall(s) ==
  /\ recving[s] => pc[s] = "load_from"
  /\ pc[s] = "load_from" /\ eax[s] = "0" => ~recving[s]
  /\ pc[s] = "load_value" => got[s] = from[s]
  /\ eax[s] = "SYS_ipc_try_send" => InResult(s)
  /\ InLoad(s) /\ ~recving[s] => value[s] \in Values

AtStep(s) ==
  /\ pc[s] \in StepsOf(s)
  /\ status[s] = "FREE" <=> pc[s] = "gone"
  /\ pc[s] # "gone" => InCall(s)
  /\ s \in Sending /\ pc[s] \notin {"exit", "gone", "panic"} => count[s] < MsgBound

(* d has a message of s that ipc_recv has not yet returned (Pending). *)
Holds(d, s)  == InLoad(d) /\ ~recving[d] /\ from[d] = Id(s)
Logged(d, s) == ValuesFrom(log[d], Id(s))
CountsUp(q)  == q = [k \in 1..Len(q) |-> k]

(* The messages of s that reached the receiver: those ipc_recv returned,   *)
(* and the one it is about to return.                                      *)
Delivered(s) == Len(Logged(Receiver, s)) + (IF Holds(Receiver, s) THEN 1 ELSE 0)

(* How many of them s has not yet been told of. *)
Untold(s) ==
  IF pc[s] \in {"try1", "try2", "exit"} THEN {0}
  ELSE IF InResult(s) /\ mode # "panic" THEN IF eax[s] = "0" THEN {1} ELSE {0}
  ELSE IF pc[s] \in RecvSteps THEN {1} ELSE {0, 1}

InOrder(s) ==
  /\ CountsUp(Logged(Receiver, s))
  /\ Holds(Receiver, s) => value[Receiver] = Len(Logged(Receiver, s)) + 1
  /\ pc[Receiver] # "gone" => Delivered(s) - count[s] \in Untold(s)

(* The server, before a send, has a request to answer. *)
HasRequest == pc[Receiver] \in SendSteps => log[Receiver] # <<>>

(* The server has yet to answer c. *)
Answering(c) ==
  /\ got[Receiver] = Id(c)
  /\ pc[Receiver] \in {"try1", "try2"} \/ (InResult(Receiver) /\ eax[Receiver] # "0")

(* A call of client c that has had no answer. *)
Unanswered(c) ==
  \/ pc[c] \in {"result1", "result2", "recv", "panic", "gone"}
  \/ pc[c] = "load_from" /\ recving[c]

LastValue(q) == q[Len(q)][2]

Serves(c) ==
  /\ \A k \in 1..Len(log[c]) : log[c][k][1] = Id(Receiver)
  /\ CountsUp(Logged(c, Receiver)) /\ Len(Logged(c, Receiver)) = count[c]
  /\ Len(Logged(Receiver, c)) \in {count[c], count[c] + 1}
  /\ InLoad(c) /\ ~recving[c] =>
       from[c] = Id(Receiver) /\ value[c] = count[c] + 1 /\ Len(Logged(Receiver, c)) = count[c] + 1
  /\ Holds(Receiver, c) => Unanswered(c) /\ Len(Logged(Receiver, c)) = count[c]
  /\ Answering(c) => Unanswered(c) /\ Len(Logged(Receiver, c)) = count[c] + 1
                     /\ LastValue(log[Receiver]) = count[c] + 1

(***************************************************************************)
(* The inductive invariant of the library, on top of IInv and QInv.        *)
(***************************************************************************)
LInv ==
  /\ LibTypeOK /\ IdsStay /\ HasRequest
  /\ \A s \in Slots : AtStep(s)
  /\ \A s \in Sending : InOrder(s)
  /\ service => \A c \in Sending : Serves(c)

-----------------------------------------------------------------------------
(* ValuesFrom, by induction over the log.                                  *)

(* A set of numbers with 0 and with the successor of each of its elements  *)
(* has all of them.                                                        *)
LEMMA NatSet ==
  ASSUME NEW T \in SUBSET Nat, 0 \in T, \A n \in Nat : n \in T => n + 1 \in T
  PROVE  T = Nat
  <1> SUFFICES ASSUME Nat \ T # {} PROVE FALSE
    OBVIOUS
  <1>1. PICK R : R = OpToRel(<, Nat) /\ IsWellFoundedOn(R, Nat)
    BY NatLessThanWellFounded
  <1>2. \A x, y \in Nat : x < y => <<x, y>> \in R
    BY <1>1 DEF OpToRel
  <1>3. PICK x \in Nat \ T : \A y \in Nat \ T : <<y, x>> \notin R
    BY <1>1, WFMin
  <1>4. x # 0 /\ x - 1 \in Nat /\ x - 1 < x
    BY <1>3
  <1>5. x - 1 \in T
    BY <1>2, <1>3, <1>4
  <1> QED  BY <1>3, <1>4, <1>5

(* One turn: the message m is from id, or it is not. *)
Take(vs, m, id) == IF m[1] = id THEN Append(vs, m[2]) ELSE vs

(* f has the values among the first n messages of q, for each n up to m. *)
IsUpto(f, m, q, id) ==
  f = [k \in 0..m |-> IF k = 0 THEN <<>> ELSE Take(f[k - 1], q[k], id)]

LEMMA UptoExists ==
  ASSUME NEW q, NEW id, NEW m \in Nat
  PROVE  \E f : IsUpto(f, m, q, id)
  <1> DEFINE T == {n \in Nat : \E f : IsUpto(f, n, q, id)}
  <1>1. 0 \in T
    <2>1. IsUpto([k \in 0..0 |-> <<>>], 0, q, id)
      BY DEF IsUpto
    <2> QED  BY <2>1
  <1>2. ASSUME NEW n \in Nat, n \in T PROVE n + 1 \in T
    <2>1. PICK f : IsUpto(f, n, q, id)
      BY <1>2
    <2>2. PICK last : last = Take(f[n], q[n + 1], id)
      OBVIOUS
    <2>3. PICK g : g = [k \in 0..(n + 1) |-> IF k = n + 1 THEN last ELSE f[k]]
      OBVIOUS
    <2>4. \A k \in 0..n : f[k] = IF k = 0 THEN <<>> ELSE Take(f[k - 1], q[k], id)
      BY <2>1 DEF IsUpto
    <2>5. ASSUME NEW k \in 0..(n + 1)
          PROVE  g[k] = IF k = 0 THEN <<>> ELSE Take(g[k - 1], q[k], id)
      <3>1. CASE k = n + 1
        <4>1. g[k] = last /\ k # 0 /\ k - 1 = n /\ g[n] = f[n]
          BY <1>2, <2>3, <3>1
        <4> QED  BY <2>2, <3>1, <4>1
      <3>2. CASE k # n + 1
        <4>1. k \in 0..n /\ g[k] = f[k]
          BY <1>2, <2>3, <3>2
        <4>2. k # 0 => g[k - 1] = f[k - 1]
          BY <1>2, <2>3, <3>2
        <4> QED  BY <2>4, <4>1, <4>2
      <3> QED  BY <3>1, <3>2
    <2>6. g = [k \in 0..(n + 1) |-> g[k]]
      BY <2>3
    <2>7. IsUpto(g, n + 1, q, id)
      BY <2>5, <2>6 DEF IsUpto
    <2> QED  BY <1>2, <2>7
  <1>3. T = Nat
    <2> HIDE DEF T
    <2>1. T \in SUBSET Nat
      BY DEF T
    <2> QED  BY <1>1, <1>2, <2>1, NatSet
  <1> QED  BY <1>3

LEMMA ValuesUpto ==
  ASSUME NEW S, NEW q \in Seq(S), NEW id
  PROVE  \E f : IsUpto(f, Len(q), q, id) /\ ValuesFrom(q, id) = f[Len(q)]
  <1>a. Len(q) \in Nat
    OBVIOUS
  <1>1. \E f : IsUpto(f, Len(q), q, id)
    BY <1>a, UptoExists
  <1>2. PICK g : g = CHOOSE f : IsUpto(f, Len(q), q, id)
    OBVIOUS
  <1>3. IsUpto(g, Len(q), q, id)
    BY <1>1, <1>2
  <1>4. ValuesFrom(q, id) = g[Len(q)]
    BY <1>2 DEF ValuesFrom, IsUpto, Take
  <1> QED  BY <1>3, <1>4

(* An empty log has no values. *)
LEMMA NoValues == ASSUME NEW id PROVE ValuesFrom(<<>>, id) = <<>>
  <1>a. <<>> \in Seq(Nat) /\ Len(<<>>) = 0
    OBVIOUS
  <1>1. PICK q \in Seq(Nat) : q = <<>> /\ Len(q) = 0
    BY <1>a
  <1>2. PICK f : IsUpto(f, Len(q), q, id) /\ ValuesFrom(q, id) = f[Len(q)]
    BY ValuesUpto
  <1>3. f[0] = <<>>
    BY <1>1, <1>2 DEF IsUpto
  <1> QED  BY <1>1, <1>2, <1>3

(* A message at the end of the log adds its value, if it is from id. *)
LEMMA ValuesAppend ==
  ASSUME NEW S, NEW q \in Seq(S), NEW m \in S, NEW id
  PROVE  ValuesFrom(Append(q, m), id) = Take(ValuesFrom(q, id), m, id)
  <1>1. PICK f : IsUpto(f, Len(q), q, id) /\ ValuesFrom(q, id) = f[Len(q)]
    BY ValuesUpto
  <1>a. Append(q, m) \in Seq(S)
    OBVIOUS
  <1>2. PICK p \in Seq(S) : p = Append(q, m)
    BY <1>a
  <1>3. PICK g : IsUpto(g, Len(p), p, id) /\ ValuesFrom(p, id) = g[Len(p)]
    BY ValuesUpto
  <1>4. PICK n \in Nat : n = Len(q) /\ Len(p) = n + 1
    BY <1>2
  <1>5. p[n + 1] = m /\ \A k \in 1..n : p[k] = q[k]
    BY <1>2, <1>4
  <1>6. /\ \A k \in 0..n : f[k] = IF k = 0 THEN <<>> ELSE Take(f[k - 1], q[k], id)
        /\ \A k \in 0..(n + 1) : g[k] = IF k = 0 THEN <<>> ELSE Take(g[k - 1], p[k], id)
    BY <1>1, <1>3, <1>4 DEF IsUpto
  <1> DEFINE T == {k \in Nat : k <= n => g[k] = f[k]}
  <1>7. 0 \in T
    BY <1>6
  <1>8. ASSUME NEW k \in Nat, k \in T PROVE k + 1 \in T
    <2>1. ASSUME k + 1 <= n PROVE g[k + 1] = f[k + 1]
      <3>1. k + 1 \in 0..n /\ k + 1 \in 0..(n + 1) /\ k + 1 # 0 /\ (k + 1) - 1 = k /\ k + 1 \in 1..n /\ k <= n
        BY <2>1
      <3>2. g[k] = f[k]
        BY <1>8, <3>1
      <3> QED  BY <1>5, <1>6, <3>1, <3>2
    <2>2. k + 1 \in Nat
      OBVIOUS
    <2> QED  BY <2>1, <2>2
  <1>9. T = Nat
    <2> HIDE DEF T
    <2>1. T \in SUBSET Nat
      BY DEF T
    <2> QED  BY <1>7, <1>8, <2>1, NatSet
  <1>10. g[n] = f[n]
    BY <1>9
  <1>11. g[n + 1] = Take(g[n], m, id)
    <2>1. n + 1 \in 0..(n + 1) /\ n + 1 # 0 /\ (n + 1) - 1 = n
      OBVIOUS
    <2> QED  BY <1>5, <1>6, <2>1
  <1> QED  BY <1>1, <1>2, <1>3, <1>4, <1>10, <1>11

(* The values are a sequence. *)
LEMMA ValuesType ==
  ASSUME NEW Src, NEW V, NEW q \in Seq(Src \X V), NEW id
  PROVE  ValuesFrom(q, id) \in Seq(V)
  <1>1. PICK f : IsUpto(f, Len(q), q, id) /\ ValuesFrom(q, id) = f[Len(q)]
    BY ValuesUpto
  <1>2. PICK n \in Nat : n = Len(q)
    OBVIOUS
  <1>3. \A k \in 0..n : f[k] = IF k = 0 THEN <<>> ELSE Take(f[k - 1], q[k], id)
    BY <1>1, <1>2 DEF IsUpto
  <1> DEFINE T == {k \in Nat : k <= n => f[k] \in Seq(V)}
  <1>4. 0 \in T
    <2>1. f[0] = <<>>
      BY <1>3
    <2>2. <<>> \in Seq(V)
      OBVIOUS
    <2> QED  BY <2>1, <2>2
  <1>5. ASSUME NEW k \in Nat, k \in T PROVE k + 1 \in T
    <2>1. ASSUME k + 1 <= n PROVE f[k + 1] \in Seq(V)
      <3>1. k + 1 \in 0..n /\ k + 1 # 0 /\ (k + 1) - 1 = k /\ k + 1 \in 1..n /\ k <= n
        BY <2>1
      <3>2. f[k] \in Seq(V) /\ q[k + 1][2] \in V
        BY <1>2, <1>5, <3>1
      <3>3. f[k + 1] = Take(f[k], q[k + 1], id)
        BY <1>3, <3>1
      <3> QED  BY <3>2, <3>3 DEF Take
    <2>2. k + 1 \in Nat
      OBVIOUS
    <2> QED  BY <2>1, <2>2
  <1>6. T = Nat
    <2> HIDE DEF T
    <2>1. T \in SUBSET Nat
      BY DEF T
    <2> QED  BY <1>4, <1>5, <2>1, NatSet
  <1>7. f[n] \in Seq(V)
    BY <1>6
  <1> QED  BY <1>1, <1>2, <1>7

(* Counting on. *)
LEMMA CountsOn ==
  ASSUME NEW V, NEW q \in Seq(V), CountsUp(q), NEW v \in V, v = Len(q) + 1
  PROVE  CountsUp(Append(q, v)) /\ Len(Append(q, v)) = Len(q) + 1
  <1>a. Append(q, v) \in Seq(V)
    OBVIOUS
  <1>1. PICK p \in Seq(V) : p = Append(q, v)
    BY <1>a
  <1>2. PICK n \in Nat : n = Len(q) /\ Len(p) = n + 1
    BY <1>1
  <1>3. \A k \in 1..n : q[k] = k
    BY <1>2 DEF CountsUp
  <1>4. \A k \in 1..(n + 1) : p[k] = k
    BY <1>1, <1>2, <1>3
  <1>5. p = [k \in 1..(n + 1) |-> k]
    <2>1. p = [k \in 1..Len(p) |-> p[k]]
      OBVIOUS
    <2> QED  BY <1>2, <1>4, <2>1
  <1> QED  BY <1>1, <1>2, <1>5 DEF CountsUp

-----------------------------------------------------------------------------
(* Facts about states of the library. *)

(* Ids tell environments apart. *)
LEMMA IdFacts ==
  ASSUME NEW s \in Slots
  PROVE  /\ Id(s) \in EnvIds /\ Id(s) # NoId /\ ENVX(Id(s)) = s
         /\ \A t \in Slots : Id(s) = Id(t) => s = t
  <1>1. MaxGen \in Nat \ {0}
    BY KernAssumption
  <1>2. \A t : <<1, s>> = <<1, t>> => <<1, s>>[2] = <<1, t>>[2]
    OBVIOUS
  <1> QED  BY <1>1, <1>2 DEF Id, EnvIds, NoId, ENVX

(* A live environment is the one its id stands for. *)
LEMMA IdResolves ==
  ASSUME IdsStay, NEW s \in Slots
  PROVE  envid2env(Id(s), FALSE) = IF status[s] = "FREE" THEN NULL ELSE s
  <1>1. Id(s) # NoId /\ ENVX(Id(s)) = s /\ env_id[s] = Id(s)
    BY IdFacts DEF IdsStay
  <1> QED  BY <1>1 DEF envid2env

(* Any other id stands for the caller, a live environment or nobody. *)
LEMMA ResolvesToId ==
  ASSUME IInv, mode = "user", IdsStay, NEW id \in EnvIds,
         envid2env(id, FALSE) # NULL, envid2env(id, FALSE) # curenv
  PROVE  id = Id(envid2env(id, FALSE))
  <1>1. id # NoId
    BY DEF envid2env
  <1>2. envid2env(id, FALSE) \in Slots /\ env_id[envid2env(id, FALSE)] = id
    BY <1>1, Resolve
  <1> QED  BY <1>2 DEF IdsStay

(* Slot t keeps its place; a queued send may have been ended. *)
Kept(t) ==
  /\ pc'[t] = pc[t] /\ count'[t] = count[t] /\ got'[t] = got[t] /\ log'[t] = log[t]
  /\ status'[t] = "FREE" <=> status[t] = "FREE"
  /\ recving'[t] = recving[t] /\ from'[t] = from[t] /\ value'[t] = value[t]
  /\ \/ eax'[t] = eax[t]
     \/ eax[t] = "SYS_ipc_try_send" /\ eax'[t] = "E_IPC_NOT_RECV"

LEMMA KeptStep ==
  ASSUME NEW s \in Slots, Kept(s), service' = service, AtStep(s)
  PROVE  AtStep(s)'
  <1>1. StepsOf(s)' = StepsOf(s)
    BY DEF StepsOf
  <1>2. pc[s] # "gone" => InCall(s)'
    BY DEF AtStep, InCall, InResult, InLoad, Kept
  <1> QED  BY <1>1, <1>2 DEF AtStep, Kept

LEMMA KeptHolds ==
  ASSUME NEW s, NEW d, Kept(d)
  PROVE  Holds(d, s)' <=> Holds(d, s)
  BY DEF Holds, InLoad, Kept

LEMMA KeptLogged ==
  ASSUME NEW s, NEW d, log'[d] = log[d]
  PROVE  Logged(d, s)' = Logged(d, s)
  BY DEF Logged

LEMMA KeptUntold ==
  ASSUME NEW s, Kept(s), mode # "panic"
  PROVE  Untold(s) \subseteq Untold(s)'
  BY DEF Untold, InResult, RecvSteps, Kept

LEMMA KeptOrder ==
  ASSUME NEW s, Kept(s), Kept(Receiver), mode # "panic", InOrder(s)
  PROVE  InOrder(s)'
  <1>1. /\ Holds(Receiver, s)' <=> Holds(Receiver, s)
        /\ Logged(Receiver, s)' = Logged(Receiver, s)
    BY KeptHolds, KeptLogged DEF Kept
  <1>2. Delivered(s)' = Delivered(s) /\ count'[s] = count[s]
    BY <1>1 DEF Delivered, Kept
  <1>3. Untold(s) \subseteq Untold(s)'
    BY KeptUntold
  <1>4. value'[Receiver] = value[Receiver] /\ pc'[Receiver] = pc[Receiver]
    BY DEF Kept
  <1> QED  BY <1>1, <1>2, <1>3, <1>4 DEF InOrder

LEMMA KeptAnswering ==
  ASSUME NEW c, Kept(Receiver)
  PROVE  Answering(c)' <=> Answering(c)
  BY DEF Answering, InResult, Kept

LEMMA KeptUnanswered ==
  ASSUME NEW c, Kept(c)
  PROVE  Unanswered(c)' <=> Unanswered(c)
  BY DEF Unanswered, Kept

LEMMA KeptServes ==
  ASSUME NEW c, Kept(c), Kept(Receiver), Serves(c)
  PROVE  Serves(c)'
  <1>1. /\ Holds(Receiver, c)' <=> Holds(Receiver, c)
        /\ Answering(c)' <=> Answering(c)
        /\ Unanswered(c)' <=> Unanswered(c)
    BY KeptHolds, KeptAnswering, KeptUnanswered
  <1>2. /\ Logged(Receiver, c)' = Logged(Receiver, c) /\ Logged(c, Receiver)' = Logged(c, Receiver)
        /\ log'[Receiver] = log[Receiver] /\ log'[c] = log[c]
    BY KeptLogged DEF Kept
  <1>3. /\ count'[c] = count[c] /\ from'[c] = from[c] /\ value'[c] = value[c]
        /\ recving'[c] = recving[c] /\ InLoad(c)' = InLoad(c)
    BY DEF Kept, InLoad
  <1> QED  BY <1>1, <1>2, <1>3 DEF Serves

(* The program in slot s moves: what is left to show. *)
Moves(s) ==
  /\ mode = "user" /\ service' = service /\ env_id' = env_id
  /\ \A t \in Slots \ {s} : Kept(t)

LEMMA SenderMoves ==
  ASSUME ProgramsFit, LInv, NEW s \in Sending, Moves(s), LibTypeOK',
         AtStep(s)', InOrder(s)', service => Serves(s)'
  PROVE  LInv'
  <1>1. s \in Slots /\ Receiver \in Slots /\ Receiver # s /\ Sending \subseteq Slots
    BY DEF ProgramsFit
  <1>2. \A t \in Slots : AtStep(t)'
    BY KeptStep DEF LInv, Moves
  <1>3. Kept(Receiver)
    BY <1>1 DEF Moves
  <1>4. \A t \in Sending : InOrder(t)'
    <2> SUFFICES ASSUME NEW t \in Sending, t # s PROVE InOrder(t)'
      OBVIOUS
    <2> QED  BY <1>1, <1>3, KeptOrder DEF LInv, Moves
  <1>5. ASSUME service, NEW t \in Sending PROVE Serves(t)'
    BY <1>1, <1>3, <1>5, KeptServes DEF LInv, Moves
  <1>6. IdsStay' /\ HasRequest' /\ service' = service
    BY <1>3 DEF IdsStay, HasRequest, Kept, Moves, LInv
  <1> QED  BY <1>2, <1>4, <1>5, <1>6 DEF LInv

LEMMA ReceiverMoves ==
  ASSUME ProgramsFit, LInv, Moves(Receiver), LibTypeOK',
         AtStep(Receiver)', HasRequest',
         \A t \in Sending : Kept(t) => InOrder(t)',
         service => \A t \in Sending : Kept(t) => Serves(t)'
  PROVE  LInv'
  <1>1. Receiver \in Slots /\ Sending \subseteq Slots \ {Receiver}
    BY DEF ProgramsFit
  <1>2. \A t \in Slots : AtStep(t)'
    BY KeptStep DEF LInv, Moves
  <1>3. \A t \in Sending : Kept(t)
    BY <1>1 DEF Moves
  <1>4. IdsStay' /\ service' = service
    BY DEF IdsStay, Moves, LInv
  <1> QED  BY <1>2, <1>3, <1>4 DEF LInv

LEMMA OtherMoves ==
  ASSUME ProgramsFit, LInv, NEW s \in Slots, s \notin Sending, s # Receiver,
         Moves(s), LibTypeOK', AtStep(s)'
  PROVE  LInv'
  <1>1. Receiver \in Slots /\ Sending \subseteq Slots
    BY DEF ProgramsFit
  <1>2. \A t \in Slots : AtStep(t)'
    BY KeptStep DEF LInv, Moves
  <1>3. Kept(Receiver) /\ \A t \in Sending : Kept(t)
    BY <1>1 DEF Moves
  <1>4. \A t \in Sending : InOrder(t)' /\ (service => Serves(t)')
    BY <1>3, KeptOrder, KeptServes DEF LInv, Moves
  <1>5. IdsStay' /\ HasRequest' /\ service' = service
    BY <1>3 DEF IdsStay, HasRequest, Kept, Moves, LInv
  <1> QED  BY <1>2, <1>4, <1>5 DEF LInv

LEMMA NobodyMoves ==
  ASSUME ProgramsFit, LInv, LibTypeOK', mode = "user", service' = service, env_id' = env_id,
         \A t \in Slots : Kept(t)
  PROVE  LInv'
  <1>1. 0 \in Slots /\ 0 \notin Sending /\ 0 # Receiver
    BY SchedAssumption DEF ProgramsFit, Slots
  <1>2. Moves(0) /\ AtStep(0)'
    BY <1>1, KeptStep DEF Moves, LInv
  <1> QED  BY <1>1, <1>2, OtherMoves

-----------------------------------------------------------------------------
(* Steps outside the kernel. *)

(* Everything the kernel has stays. *)
KernelSame ==
  /\ status' = status /\ env_id' = env_id /\ recving' = recving /\ from' = from
  /\ value' = value /\ eax' = eax /\ mode' = mode

LEMMA KernelStays ==
  ASSUME UNCHANGED vars
  PROVE  KernelSame
  BY DEF KernelSame, vars, idVars, ipcVars, runVars

(* A program that goes on without the kernel, and leaves its counts alone. *)
LEMMA Jumps ==
  ASSUME LInv, NEW s \in Slots, mode = "user", KernelSame,
         UNCHANGED <<service, count, got, log>>, NEW l, Goto(s, l)
  PROVE  /\ pc'[s] = l
         /\ l \in SendSteps \cup RecvSteps \cup {"exit", "gone"} => LibTypeOK'
         /\ Moves(s)
  <1>1. pc \in [Slots -> SendSteps \cup RecvSteps \cup {"idle", "exit", "gone"}]
    BY DEF LInv, LibTypeOK
  <1>2. pc'[s] = l /\ \A t \in Slots \ {s} : pc'[t] = pc[t]
    BY <1>1 DEF Goto
  <1>3. Moves(s)
    BY <1>2 DEF Moves, Kept, KernelSame
  <1>4. ASSUME l \in SendSteps \cup RecvSteps \cup {"exit", "gone"} PROVE LibTypeOK'
    BY <1>4, <1>1 DEF LInv, LibTypeOK, Goto
  <1> QED  BY <1>2, <1>3, <1>4

(* Who is where. *)
LEMMA WhereSending ==
  ASSUME ProgramsFit, LInv, NEW s \in Slots, pc[s] \in SendSteps \cup RecvSteps
  PROVE  s = Receiver \/ s \in Sending
  BY DEF LInv, AtStep, StepsOf, SendSteps, RecvSteps

(* A sender that neither returns from ipc_recv nor counts a message; an    *)
(* unanswered call stays one, or has not reached the server.               *)
LEMMA SenderGoesOn ==
  ASSUME ProgramsFit, LInv, NEW s \in Sending, Moves(s), LibTypeOK', AtStep(s)',
         log'[s] = log[s], count'[s] = count[s], ~InLoad(s)' \/ recving'[s],
         Untold(s) \subseteq Untold(s)',
         service => \/ Unanswered(s) => Unanswered(s)'
                    \/ ~Holds(Receiver, s) /\ ~Answering(s)
  PROVE  LInv'
  <1>1. Kept(Receiver)
    BY DEF Moves, ProgramsFit
  <1>2. InOrder(s) /\ (service => Serves(s))
    BY DEF LInv
  <1>3. /\ Holds(Receiver, s)' <=> Holds(Receiver, s)
        /\ Logged(Receiver, s)' = Logged(Receiver, s) /\ Logged(s, Receiver)' = Logged(s, Receiver)
        /\ Delivered(s)' = Delivered(s)
        /\ Answering(s)' <=> Answering(s)
    BY <1>1, KeptHolds, KeptLogged, KeptAnswering DEF Delivered, Kept
  <1>4. InOrder(s)'
    BY <1>1, <1>2, <1>3 DEF InOrder, Kept
  <1>5. log'[Receiver] = log[Receiver]
    BY <1>1 DEF Kept
  <1>6. service => Serves(s)'
    BY <1>2, <1>3, <1>5 DEF Serves
  <1> QED  BY <1>4, <1>6, SenderMoves

(* The receiver, when ipc_recv does not return and nothing arrives. *)
LEMMA ReceiverGoesOn ==
  ASSUME ProgramsFit, LInv, Moves(Receiver), LibTypeOK', AtStep(Receiver)', HasRequest',
         log'[Receiver] = log[Receiver], value'[Receiver] = value[Receiver],
         \A t \in Sending : /\ Answering(t)' => Answering(t)
                            /\ Holds(Receiver, t)' => Holds(Receiver, t),
         pc'[Receiver] = "gone" \/ (/\ pc[Receiver] # "gone"
                                    /\ \A t \in Sending : Holds(Receiver, t) => Holds(Receiver, t)')
  PROVE  LInv'
  <1>1. ASSUME NEW t \in Sending, Kept(t) PROVE InOrder(t)' /\ (service => Serves(t)')
    <2>1. InOrder(t) /\ (service => Serves(t))
      BY DEF LInv
    <2>2. Untold(t) \subseteq Untold(t)' /\ (Unanswered(t)' <=> Unanswered(t))
      BY <1>1, KeptUntold, KeptUnanswered DEF Moves
    <2>3. Logged(Receiver, t)' = Logged(Receiver, t) /\ Logged(t, Receiver)' = Logged(t, Receiver)
      BY <1>1, KeptLogged DEF Kept
    <2>4. pc'[Receiver] # "gone" => Delivered(t)' = Delivered(t)
      BY <2>3 DEF Delivered
    <2>5. InOrder(t)'
      BY <1>1, <2>1, <2>2, <2>3, <2>4 DEF InOrder, Kept
    <2>6. /\ InLoad(t)' = InLoad(t) /\ recving'[t] = recving[t] /\ from'[t] = from[t]
          /\ value'[t] = value[t] /\ log'[t] = log[t] /\ count'[t] = count[t]
      BY <1>1 DEF InLoad, Kept
    <2> QED  BY <2>1, <2>2, <2>3, <2>5, <2>6 DEF Serves
  <1> QED  BY <1>1, ReceiverMoves

(* A send that ipc_send takes for undelivered has not reached the receiver. *)
LEMMA NotDelivered ==
  ASSUME ProgramsFit, LInv, NEW s \in Sending, service, Untold(s) = {0}
  PROVE  ~Holds(Receiver, s) /\ ~Answering(s)
  <1>1. InOrder(s) /\ Serves(s) /\ count[s] \in Nat
    BY DEF LInv, LibTypeOK, ProgramsFit
  <1>2. pc[Receiver] # "gone" => Delivered(s) - count[s] = 0
    BY <1>1 DEF InOrder
  <1>3. Len(Logged(Receiver, s)) \in Int
    BY <1>1 DEF Serves
  <1>4. Holds(Receiver, s) => pc[Receiver] # "gone" /\ Len(Logged(Receiver, s)) = count[s]
    BY <1>1 DEF Serves, Holds, InLoad
  <1>5. Answering(s) => pc[Receiver] # "gone" /\ Len(Logged(Receiver, s)) = count[s] + 1
    BY <1>1 DEF Serves, Answering, InResult
  <1> QED  BY <1>1, <1>2, <1>3, <1>4, <1>5 DEF Delivered

(* A send that failed is tried again. *)
LEMMA SendRetriesL ==
  ASSUME ProgramsFit, LInv, mode = "user", NEW s \in Slots, SendRetries(s)
  PROVE  LInv'
  <1>1. /\ pc[s] = "result1" /\ eax[s] = "E_IPC_NOT_RECV" /\ Goto(s, "try2")
        /\ KernelSame /\ UNCHANGED <<service, count, got, log>>
    BY KernelStays DEF SendRetries, progVars
  <1>2. pc'[s] = "try2" /\ LibTypeOK' /\ Moves(s)
    BY <1>1, Jumps DEF SendSteps
  <1>3. AtStep(s)'
    BY <1>1, <1>2 DEF LInv, AtStep, StepsOf, SendSteps, RecvSteps, InCall, InResult, InLoad, KernelSame
  <1>4. CASE s \in Sending
    <2>1. Untold(s) = {0} /\ Untold(s)' = {0}
      BY <1>1, <1>2 DEF Untold, InResult
    <2>2. service => ~Holds(Receiver, s) /\ ~Answering(s)
      BY <1>4, <2>1, NotDelivered
    <2>3. ~InLoad(s)'
      BY <1>2 DEF InLoad
    <2> QED  BY <1>1, <1>2, <1>3, <1>4, <2>1, <2>2, <2>3, SenderGoesOn
  <1>5. CASE s = Receiver
    <2>1. HasRequest'
      BY <1>1, <1>5 DEF LInv, HasRequest, SendSteps
    <2>2. \A t : Holds(Receiver, t)' = FALSE /\ Holds(Receiver, t) = FALSE
      BY <1>1, <1>2, <1>5 DEF Holds, InLoad
    <2>3. \A t : Answering(t)' => Answering(t)
      BY <1>1, <1>2, <1>5 DEF Answering, InResult, KernelSame
    <2> QED  BY <1>1, <1>2, <1>3, <1>5, <2>1, <2>2, <2>3, ReceiverGoesOn DEF KernelSame
  <1> QED  BY <1>1, <1>4, <1>5, WhereSending DEF SendSteps

(* A program that gives up: ipc_send panics. *)
LEMMA SendPanicsL ==
  ASSUME ProgramsFit, IInv, QInv, LInv, mode = "user", SendPanics(curenv)
  PROVE  LInv'
  <1>a. curenv \in Slots /\ eax[curenv] # "SYS_ipc_try_send"
    BY CallerOutside
  <1>b. PICK s \in Slots : s = curenv
    BY <1>a
  <1>1. /\ InResult(s) /\ eax[s] # "SYS_ipc_try_send" /\ Goto(s, "panic")
        /\ KernelSame /\ UNCHANGED <<service, count, got, log>>
    BY <1>a, <1>b, KernelStays DEF SendPanics, progVars, InResult
  <1>2. pc'[s] = "panic" /\ LibTypeOK' /\ Moves(s)
    BY <1>1, Jumps DEF SendSteps
  <1>3. AtStep(s)'
    BY <1>1, <1>2 DEF LInv, AtStep, StepsOf, SendSteps, RecvSteps, InCall, InResult, InLoad, KernelSame
  <1>4. CASE s \in Sending
    <2>1. Untold(s) \subseteq {0, 1} /\ Untold(s)' = {0, 1}
      BY <1>1, <1>2 DEF Untold, InResult, RecvSteps
    <2>2. ~InLoad(s)' /\ Unanswered(s)'
      BY <1>2 DEF InLoad, Unanswered
    <2> QED  BY <1>1, <1>2, <1>3, <1>4, <2>1, <2>2, SenderGoesOn
  <1>5. CASE s = Receiver
    <2>1. HasRequest'
      BY <1>1, <1>5 DEF LInv, HasRequest, SendSteps, InResult
    <2>2. \A t : Holds(Receiver, t)' = FALSE /\ Holds(Receiver, t) = FALSE /\ Answering(t)' = FALSE
      BY <1>1, <1>2, <1>5 DEF Holds, InLoad, InResult, Answering
    <2>3. pc[Receiver] # "gone"
      BY <1>1, <1>5 DEF InResult
    <2> QED  BY <1>1, <1>2, <1>3, <1>5, <2>1, <2>2, <2>3, ReceiverGoesOn DEF KernelSame
  <1> QED  BY <1>1, <1>4, <1>5, WhereSending DEF SendSteps, InResult

(* A program that ends a turn of its loop. *)
LEMMA Turns ==
  ASSUME ProgramsFit, LInv, NEW s \in Slots, mode = "user", KernelSame,
         UNCHANGED <<service, got>>, log' \in [Slots -> Seq(EnvIds \X Values)],
         \A t \in Slots \ {s} : log'[t] = log[t], Turn(s)
  PROVE  /\ pc'[s] = IF count'[s] < MsgBound THEN "try1" ELSE "exit"
         /\ count'[s] = count[s] + 1
         /\ LibTypeOK' /\ Moves(s)
  <1>1. /\ pc \in [Slots -> SendSteps \cup RecvSteps \cup {"idle", "exit", "gone"}]
        /\ count \in [Slots -> Nat]
    BY DEF LInv, LibTypeOK
  <1>2. PICK l \in {"try1", "exit"} : l = IF count'[s] < MsgBound THEN "try1" ELSE "exit"
    OBVIOUS
  <1>3. pc' = [pc EXCEPT ![s] = l] /\ count' = [count EXCEPT ![s] = count[s] + 1]
    BY <1>2 DEF Turn, Goto
  <1>4. /\ pc'[s] = l /\ count'[s] = count[s] + 1
        /\ \A t \in Slots \ {s} : pc'[t] = pc[t] /\ count'[t] = count[t]
    BY <1>1, <1>3
  <1>5. Moves(s)
    BY <1>4 DEF Moves, Kept, KernelSame
  <1>6. LibTypeOK'
    <2>1. l \in SendSteps \cup RecvSteps \cup {"idle", "exit", "gone"} /\ count[s] + 1 \in Nat
      BY <1>1 DEF SendSteps
    <2>2. /\ pc' \in [Slots -> SendSteps \cup RecvSteps \cup {"idle", "exit", "gone"}]
          /\ count' \in [Slots -> Nat]
      BY <1>1, <1>3, <2>1
    <2> QED  BY <2>2 DEF LInv, LibTypeOK
  <1> QED  BY <1>2, <1>4, <1>5, <1>6

(* A send returned: the message has been delivered. *)
LEMMA SendReturnsL ==
  ASSUME ProgramsFit, LInv, mode = "user", NEW s \in Slots, SendReturns(s)
  PROVE  LInv'
  <1>1. /\ InResult(s) /\ eax[s] = "0" /\ AfterSend(s)
        /\ KernelSame /\ UNCHANGED <<service, got, log>>
    BY KernelStays DEF SendReturns, InResult
  <1>2. pc[s] \in SendSteps /\ AtStep(s)
    BY <1>1 DEF InResult, SendSteps, LInv
  <1>3. CASE service /\ s \in Sending
    <2>1. Goto(s, "recv") /\ UNCHANGED count
      BY <1>1, <1>3 DEF AfterSend
    <2>2. pc'[s] = "recv" /\ LibTypeOK' /\ Moves(s)
      BY <1>1, <2>1, Jumps DEF RecvSteps
    <2>3. AtStep(s)'
      BY <1>1, <1>2, <1>3, <2>1, <2>2
         DEF AtStep, StepsOf, SendSteps, RecvSteps, InCall, InResult, InLoad, KernelSame
    <2>4. Untold(s) = {1} /\ Untold(s)' = {1}
      BY <1>1, <2>2 DEF Untold, InResult, RecvSteps
    <2>5. ~InLoad(s)' /\ Unanswered(s)'
      BY <2>2 DEF InLoad, Unanswered
    <2> QED  BY <1>1, <1>3, <2>1, <2>2, <2>3, <2>4, <2>5, SenderGoesOn
  <1>4. CASE service /\ s = Receiver
    <2>1. Goto(s, "recv") /\ UNCHANGED count
      BY <1>1, <1>4 DEF AfterSend
    <2>2. pc'[s] = "recv" /\ LibTypeOK' /\ Moves(s)
      BY <1>1, <2>1, Jumps DEF RecvSteps
    <2>3. AtStep(s)'
      BY <1>1, <1>2, <1>4, <2>1, <2>2
         DEF AtStep, StepsOf, SendSteps, RecvSteps, InCall, InResult, InLoad, KernelSame, ProgramsFit
    <2>4. HasRequest'
      BY <1>4, <2>2 DEF HasRequest, SendSteps
    <2>5. \A t : Holds(Receiver, t)' = FALSE /\ Holds(Receiver, t) = FALSE /\ Answering(t)' = FALSE
      BY <1>1, <2>2, <1>4 DEF Holds, InLoad, InResult, Answering
    <2>6. pc[Receiver] # "gone"
      BY <1>1, <1>4 DEF InResult
    <2> QED  BY <1>1, <1>4, <2>2, <2>3, <2>4, <2>5, <2>6, ReceiverGoesOn DEF KernelSame
  <1>5. CASE ~service
    <2>1. s \in Sending /\ s # Receiver
      BY <1>2, <1>5, WhereSending DEF AtStep, StepsOf, SendSteps, RecvSteps
    <2>2. Turn(s)
      BY <1>1, <1>5 DEF AfterSend
    <2>3. /\ pc'[s] = IF count'[s] < MsgBound THEN "try1" ELSE "exit"
          /\ count'[s] = count[s] + 1
          /\ LibTypeOK' /\ Moves(s)
      <3>1. log' \in [Slots -> Seq(EnvIds \X Values)]
        BY <1>1 DEF LInv, LibTypeOK
      <3> QED  BY <1>1, <2>2, <3>1, Turns
    <2>4. AtStep(s)'
      BY <1>1, <1>2, <1>5, <2>1, <2>3
         DEF AtStep, StepsOf, SendSteps, RecvSteps, InCall, InResult, InLoad, KernelSame
    <2>5. Kept(Receiver)
      BY <2>1, <2>3 DEF Moves, ProgramsFit
    <2>6. Untold(s) = {1} /\ Untold(s)' = {0}
      BY <1>1, <2>3 DEF Untold, InResult, KernelSame
    <2>7. /\ Holds(Receiver, s)' <=> Holds(Receiver, s)
          /\ Logged(Receiver, s)' = Logged(Receiver, s)
          /\ Delivered(s)' = Delivered(s)
      BY <2>5, KeptHolds, KeptLogged DEF Delivered, Kept
    <2>8. InOrder(s)'
      <3>1. InOrder(s) /\ count[s] \in Nat
        BY <2>1 DEF LInv, LibTypeOK
      <3>2. pc[Receiver] # "gone" => Delivered(s) \in Int
        <4>1. Logged(Receiver, s) \in Seq(Values)
          BY ValuesType DEF Logged, LInv, LibTypeOK, ProgramsFit
        <4>2. Len(Logged(Receiver, s)) \in Nat
          BY <4>1
        <4> QED  BY <4>2 DEF Delivered
      <3> QED  BY <2>3, <2>5, <2>6, <2>7, <3>1, <3>2 DEF InOrder, Kept
    <2> QED  BY <1>5, <2>1, <2>3, <2>4, <2>8, SenderMoves
  <1> QED  BY <1>2, <1>3, <1>4, <1>5, WhereSending

(* ipc_recv loads env_ipc_from. *)
LEMMA LoadFromL ==
  ASSUME ProgramsFit, IInv, LInv, mode = "user", NEW s \in Slots, LoadFrom(s)
  PROVE  LInv'
  <1>1. /\ pc[s] = "load_from" /\ eax[s] = "0" /\ Goto(s, "load_value")
        /\ got' = [got EXCEPT ![s] = from[s]]
        /\ KernelSame /\ UNCHANGED <<service, count, log>>
    BY KernelStays DEF LoadFrom
  <1>2. /\ pc \in [Slots -> SendSteps \cup RecvSteps \cup {"idle", "exit", "gone"}]
        /\ got \in [Slots -> EnvIds] /\ from \in [Slots -> EnvIds]
        /\ AtStep(s)
    BY DEF LInv, LibTypeOK, IInv, TypeOK
  <1>3. /\ pc'[s] = "load_value" /\ got'[s] = from[s]
        /\ \A t \in Slots \ {s} : pc'[t] = pc[t] /\ got'[t] = got[t]
    BY <1>1, <1>2 DEF Goto
  <1>4. Moves(s)
    BY <1>1, <1>3 DEF Moves, Kept, KernelSame
  <1>5. LibTypeOK'
    <2>1. "load_value" \in SendSteps \cup RecvSteps \cup {"idle", "exit", "gone"} /\ from[s] \in EnvIds
      BY <1>2 DEF RecvSteps
    <2> QED  BY <1>1, <1>2, <2>1 DEF LInv, LibTypeOK, Goto
  <1>6. ~recving[s] /\ ~recving'[s] /\ InLoad(s) /\ InLoad(s)'
    BY <1>1, <1>2, <1>3 DEF AtStep, InCall, InLoad, KernelSame
  <1>7. AtStep(s)'
    BY <1>1, <1>2, <1>3, <1>6
       DEF AtStep, StepsOf, SendSteps, RecvSteps, InCall, InResult, InLoad, KernelSame
  <1>8. CASE s \in Sending
    <2>1. Kept(Receiver)
      BY <1>4, <1>8 DEF Moves, ProgramsFit
    <2>2. InOrder(s) /\ (service => Serves(s))
      BY <1>8 DEF LInv
    <2>3. /\ Holds(Receiver, s)' <=> Holds(Receiver, s)
          /\ Logged(Receiver, s)' = Logged(Receiver, s) /\ Logged(s, Receiver)' = Logged(s, Receiver)
          /\ Delivered(s)' = Delivered(s)
          /\ Answering(s)' <=> Answering(s)
      BY <1>1, <2>1, KeptHolds, KeptLogged, KeptAnswering DEF Delivered, Kept
    <2>4. Untold(s) = {1} /\ Untold(s)' = {1} /\ ~Unanswered(s)
      BY <1>1, <1>3, <1>6 DEF Untold, InResult, RecvSteps, Unanswered
    <2>5. InOrder(s)'
      BY <1>1, <2>1, <2>2, <2>3, <2>4 DEF InOrder, Kept
    <2>6. service => Serves(s)'
      BY <1>1, <1>6, <2>2, <2>3, <2>4 DEF Serves, KernelSame
    <2> QED  BY <1>4, <1>5, <1>7, <1>8, <2>5, <2>6, SenderMoves
  <1>9. CASE s = Receiver
    <2>1. HasRequest'
      BY <1>3, <1>9 DEF HasRequest, SendSteps
    <2>2. \A t : (Holds(Receiver, t)' <=> Holds(Receiver, t)) /\ ~Answering(t)'
      BY <1>1, <1>3, <1>6, <1>9 DEF Holds, Answering, InResult, KernelSame
    <2> QED  BY <1>1, <1>4, <1>5, <1>7, <1>9, <2>1, <2>2, ReceiverGoesOn DEF KernelSame
  <1> QED  BY <1>1, <1>8, <1>9, WhereSending DEF RecvSteps

(* The log of s after ipc_recv has returned a message. *)
LEMMA LogGrows ==
  ASSUME ProgramsFit, IInv, LInv, mode = "user", NEW s \in Slots, pc[s] = "load_value",
         log' = [log EXCEPT ![s] = Append(log[s], <<got[s], value[s]>>)]
  PROVE  /\ log' \in [Slots -> Seq(EnvIds \X Values)]
         /\ \A t \in Slots \ {s} : log'[t] = log[t]
         /\ log[s] \in Seq(EnvIds \X Values) /\ log'[s] \in Seq(EnvIds \X Values)
         /\ log'[s] = Append(log[s], <<from[s], value[s]>>)
         /\ log'[s] # <<>> /\ LastValue(log'[s]) = value[s]
         /\ value[s] \in Values /\ ~recving[s]
         /\ \A t : from[s] = Id(t) => Logged(s, t)' = Append(Logged(s, t), value[s])
         /\ \A t : from[s] # Id(t) => Logged(s, t)' = Logged(s, t)
  <1>1. /\ got[s] = from[s] /\ ~recving[s] /\ value[s] \in Values
    BY DEF LInv, AtStep, InCall, InLoad
  <1>2. log \in [Slots -> Seq(EnvIds \X Values)] /\ from[s] \in EnvIds
    BY DEF LInv, LibTypeOK, IInv, TypeOK
  <1>3. PICK m \in EnvIds \X Values : m = <<from[s], value[s]>>
    BY <1>1, <1>2
  <1>4. m[1] = from[s] /\ m[2] = value[s]
    BY <1>3
  <1>5. PICK q \in Seq(EnvIds \X Values) : q = log[s]
    BY <1>2
  <1>6. Append(q, m) \in Seq(EnvIds \X Values)
    OBVIOUS
  <1>7. PICK p \in Seq(EnvIds \X Values) : p = Append(q, m)
    BY <1>6
  <1>8. log' = [log EXCEPT ![s] = p]
    BY <1>1, <1>3, <1>5, <1>7
  <1>9. /\ log' \in [Slots -> Seq(EnvIds \X Values)] /\ log'[s] = p
        /\ \A t \in Slots \ {s} : log'[t] = log[t]
    BY ONLY <1>2, <1>8
  <1>10. p # <<>> /\ LastValue(p) = value[s]
    <2>1. Len(p) = Len(q) + 1 /\ p[Len(q) + 1] = m /\ Len(q) \in Nat
      BY <1>7, PushBack
    <2> QED  BY <1>4, <2>1 DEF LastValue
  <1>11. ASSUME NEW t PROVE Logged(s, t)' = Take(Logged(s, t), m, Id(t))
    <2>1. ValuesFrom(p, Id(t)) = Take(ValuesFrom(q, Id(t)), m, Id(t))
      BY <1>7, ValuesAppend
    <2> QED  BY <1>5, <1>9, <2>1 DEF Logged
  <1> QED  BY <1>1, <1>3, <1>4, <1>5, <1>7, <1>9, <1>10, <1>11 DEF Take

(* ipc_recv loads env_ipc_value and returns, to the receiver ... *)
LEMMA LoadValueReceiver ==
  ASSUME ProgramsFit, IInv, LInv, mode = "user", LoadValue(Receiver)
  PROVE  LInv'
  <1>a. Receiver \in Slots /\ Sending \subseteq Slots \ {Receiver}
    BY DEF ProgramsFit
  <1>b. PICK r \in Slots : r = Receiver
    BY <1>a
  <1> DEFINE l == IF service THEN "try1" ELSE "recv"
  <1>1. /\ pc[r] = "load_value" /\ Goto(r, l)
        /\ log' = [log EXCEPT ![r] = Append(log[r], <<got[r], value[r]>>)]
        /\ KernelSame /\ UNCHANGED <<service, got, count>>
    BY <1>b, KernelStays DEF LoadValue, AfterRecv
  <1>2. /\ log' \in [Slots -> Seq(EnvIds \X Values)]
        /\ \A t \in Slots \ {r} : log'[t] = log[t]
        /\ log'[r] # <<>> /\ LastValue(log'[r]) = value[r]
        /\ value[r] \in Values /\ ~recving[r]
        /\ \A t : from[r] = Id(t) => Logged(r, t)' = Append(Logged(r, t), value[r])
        /\ \A t : from[r] # Id(t) => Logged(r, t)' = Logged(r, t)
    BY <1>1, LogGrows
  <1>3. /\ pc \in [Slots -> SendSteps \cup RecvSteps \cup {"idle", "exit", "gone"}]
        /\ AtStep(r)
    BY DEF LInv, LibTypeOK
  <1>4. pc'[r] = l /\ \A t \in Slots \ {r} : pc'[t] = pc[t]
    BY <1>1, <1>3 DEF Goto
  <1>5. Moves(r)
    BY <1>1, <1>2, <1>4 DEF Moves, Kept, KernelSame
  <1>6. LibTypeOK'
    <2>1. l \in SendSteps \cup RecvSteps \cup {"idle", "exit", "gone"}
      BY DEF RecvSteps, SendSteps
    <2> HIDE DEF l
    <2> QED  BY <1>1, <1>2, <1>3, <2>1 DEF LInv, LibTypeOK, Goto
  <1>7. AtStep(r)'
    BY <1>a, <1>b, <1>1, <1>3, <1>4
       DEF AtStep, StepsOf, SendSteps, RecvSteps, InCall, InResult, InLoad, KernelSame
  <1>8. InLoad(r) /\ ~InLoad(r)' /\ got'[r] = from[r] /\ pc'[r] # "gone" /\ pc[r] # "gone"
    <2>1. got[r] = from[r]
      BY <1>1, <1>3 DEF AtStep, InCall
    <2> QED  BY <1>1, <1>4, <2>1 DEF InLoad
  <1>9. HasRequest'
    BY <1>b, <1>2 DEF HasRequest
  <1>10. \A t : (Holds(r, t) <=> from[r] = Id(t)) /\ ~Holds(r, t)' /\ (Answering(t)' => from[r] = Id(t))
    BY <1>b, <1>2, <1>8 DEF Holds, Answering
  <1>11. ASSUME NEW t \in Sending, Kept(t) PROVE InOrder(t)' /\ (service => Serves(t)')
    <2>1. InOrder(t) /\ (service => Serves(t)) /\ Logged(r, t) \in Seq(Values)
      <3>1. Logged(r, t) \in Seq(Values)
        BY ValuesType DEF Logged, LInv, LibTypeOK
      <3> QED  BY <3>1 DEF LInv
    <2>2. Untold(t) \subseteq Untold(t)' /\ (Unanswered(t)' <=> Unanswered(t))
      BY <1>11, KeptUntold, KeptUnanswered
    <2>3. Logged(t, r)' = Logged(t, r)
      BY <1>11, KeptLogged DEF Kept
    <2>4. /\ InLoad(t)' = InLoad(t) /\ recving'[t] = recving[t] /\ from'[t] = from[t]
          /\ value'[t] = value[t] /\ log'[t] = log[t] /\ count'[t] = count[t]
      BY <1>11 DEF InLoad, Kept
    <2>5. count[t] \in Nat
      BY <1>a DEF LInv, LibTypeOK
    <2>6. CASE from[r] = Id(t)
      <3>1. value[r] = Len(Logged(r, t)) + 1 /\ CountsUp(Logged(r, t)) /\ Holds(r, t)
        BY <1>b, <1>10, <2>1, <2>6 DEF InOrder
      <3>2. CountsUp(Append(Logged(r, t), value[r])) /\ Len(Append(Logged(r, t), value[r])) = Len(Logged(r, t)) + 1
        BY <1>2, <2>1, <3>1, CountsOn
      <3>3. CountsUp(Logged(r, t)') /\ Len(Logged(r, t)') = Len(Logged(r, t)) + 1
        BY <1>2, <2>6, <3>2
      <3>4. Delivered(t)' = Delivered(t)
        BY <1>b, <1>10, <2>1, <3>1, <3>3 DEF Delivered
      <3>5. InOrder(t)'
        BY <1>b, <1>8, <1>10, <2>1, <2>2, <2>4, <3>3, <3>4 DEF InOrder, CountsUp
      <3>6. ASSUME service PROVE Serves(t)'
        <4>1. Unanswered(t) /\ Len(Logged(r, t)) = count[t]
          BY <1>b, <2>1, <3>1, <3>6 DEF Serves
        <4>2. ~(InLoad(t) /\ ~recving[t])
          BY <4>1 DEF Unanswered, InLoad
        <4>3. LastValue(log[r])' = count[t] + 1
          BY <1>2, <3>1, <4>1
        <4> QED  BY <1>b, <1>10, <2>1, <2>2, <2>3, <2>4, <2>5, <3>3, <3>6, <4>1, <4>2, <4>3 DEF Serves
      <3> QED  BY <3>5, <3>6
    <2>7. CASE from[r] # Id(t)
      <3>1. Logged(r, t)' = Logged(r, t) /\ ~Holds(r, t) /\ ~Holds(r, t)' /\ ~Answering(t)'
        BY <1>2, <1>10, <2>7
      <3>2. InOrder(t)'
        BY <1>b, <1>8, <2>1, <2>2, <2>4, <3>1 DEF InOrder, Delivered
      <3>3. service => Serves(t)'
        BY <1>b, <2>1, <2>2, <2>3, <2>4, <3>1 DEF Serves
      <3> QED  BY <3>2, <3>3
    <2> QED  BY <2>6, <2>7
  <1> QED  BY <1>b, <1>5, <1>6, <1>7, <1>9, <1>11, ReceiverMoves

(* ... and to a client. *)
LEMMA LoadValueClient ==
  ASSUME ProgramsFit, IInv, LInv, mode = "user", NEW s \in Sending, LoadValue(s)
  PROVE  LInv'
  <1>a. s \in Slots /\ Receiver \in Slots /\ s # Receiver
    BY DEF ProgramsFit
  <1>1. /\ pc[s] = "load_value" /\ Turn(s)
        /\ log' = [log EXCEPT ![s] = Append(log[s], <<got[s], value[s]>>)]
        /\ KernelSame /\ UNCHANGED <<service, got>>
    BY <1>a, KernelStays DEF LoadValue, AfterRecv
  <1>2. /\ log' \in [Slots -> Seq(EnvIds \X Values)]
        /\ \A t \in Slots \ {s} : log'[t] = log[t]
        /\ log[s] \in Seq(EnvIds \X Values)
        /\ log'[s] = Append(log[s], <<from[s], value[s]>>)
        /\ value[s] \in Values /\ ~recving[s]
        /\ \A t : from[s] = Id(t) => Logged(s, t)' = Append(Logged(s, t), value[s])
    BY <1>a, <1>1, LogGrows
  <1>3. /\ pc'[s] = IF count'[s] < MsgBound THEN "try1" ELSE "exit"
        /\ count'[s] = count[s] + 1
        /\ LibTypeOK' /\ Moves(s)
    BY <1>a, <1>1, <1>2, Turns
  <1>4. /\ AtStep(s) /\ service /\ Serves(s) /\ InOrder(s) /\ count[s] \in Nat
        /\ Logged(s, Receiver) \in Seq(Values) /\ Logged(Receiver, s) \in Seq(Values)
    <2>1. AtStep(s) /\ InOrder(s) /\ count[s] \in Nat
      BY <1>a DEF LInv, LibTypeOK
    <2>2. service
      BY <1>a, <1>1, <2>1 DEF AtStep, StepsOf, SendSteps
    <2>3. Logged(s, Receiver) \in Seq(Values) /\ Logged(Receiver, s) \in Seq(Values)
      BY <1>a, ValuesType DEF Logged, LInv, LibTypeOK
    <2> QED  BY <2>1, <2>2, <2>3 DEF LInv
  <1>5. AtStep(s)'
    BY <1>a, <1>1, <1>3, <1>4
       DEF AtStep, StepsOf, SendSteps, RecvSteps, InCall, InResult, InLoad, KernelSame
  <1>6. Kept(Receiver)
    BY <1>a, <1>3 DEF Moves
  <1>7. /\ Holds(Receiver, s)' <=> Holds(Receiver, s)
        /\ Logged(Receiver, s)' = Logged(Receiver, s)
        /\ Delivered(s)' = Delivered(s)
        /\ Answering(s)' <=> Answering(s)
    BY <1>1, <1>6, KeptHolds, KeptLogged, KeptAnswering DEF Delivered, Kept
  <1>8. /\ InLoad(s) /\ ~InLoad(s)' /\ ~Unanswered(s) /\ Untold(s) = {1} /\ Untold(s)' = {0}
    BY <1>1, <1>2, <1>3 DEF InLoad, Unanswered, Untold, InResult, RecvSteps
  <1>9. InOrder(s)'
    <2>1. pc[Receiver] # "gone" => Delivered(s) - count[s] = 1
      BY <1>4, <1>8 DEF InOrder
    <2>2. Delivered(s) \in Int
      <3>1. Len(Logged(Receiver, s)) \in Nat
        BY <1>4
      <3> QED  BY <3>1 DEF Delivered
    <2>3. pc[Receiver] # "gone" => Delivered(s) - (count[s] + 1) = 0
      BY <1>4, <2>1, <2>2
    <2> QED  BY <1>3, <1>4, <1>6, <1>7, <1>8, <2>3 DEF InOrder, Kept
  <1>10. /\ from[s] = Id(Receiver) /\ value[s] = count[s] + 1 /\ Len(Logged(Receiver, s)) = count[s] + 1
         /\ CountsUp(Logged(s, Receiver)) /\ Len(Logged(s, Receiver)) = count[s]
         /\ ~Holds(Receiver, s) /\ ~Answering(s)
    BY <1>2, <1>4, <1>8 DEF Serves
  <1>11. CountsUp(Logged(s, Receiver)') /\ Len(Logged(s, Receiver)') = count[s] + 1
    <2>1. CountsUp(Append(Logged(s, Receiver), value[s]))
            /\ Len(Append(Logged(s, Receiver), value[s])) = Len(Logged(s, Receiver)) + 1
      BY <1>2, <1>4, <1>10, CountsOn
    <2> QED  BY <1>2, <1>10, <2>1
  <1>12. ASSUME NEW k \in 1..Len(log'[s]) PROVE log'[s][k][1] = Id(Receiver)
    <2>1. PICK q \in Seq(EnvIds \X Values) : q = log[s]
      BY <1>2
    <2>2. PICK m \in EnvIds \X Values : m = <<from[s], value[s]>>
      BY <1>a, <1>2 DEF IInv, TypeOK
    <2>3. /\ Len(Append(q, m)) = Len(q) + 1 /\ Append(q, m)[Len(q) + 1] = m
          /\ \A i \in 1..Len(q) : Append(q, m)[i] = q[i]
      BY PushBack
    <2>4. k \in 1..Len(q) \/ k = Len(q) + 1
      <3>1. Len(q) \in Nat
        OBVIOUS
      <3> QED  BY <1>2, <1>12, <2>1, <2>2, <2>3, <3>1
    <2>5. \A i \in 1..Len(q) : q[i][1] = Id(Receiver)
      BY <1>4, <2>1 DEF Serves
    <2>6. m[1] = Id(Receiver)
      BY <1>10, <2>2
    <2> QED  BY <1>2, <2>1, <2>2, <2>3, <2>4, <2>5, <2>6
  <1>13. Serves(s)'
    BY <1>3, <1>4, <1>7, <1>8, <1>10, <1>11, <1>12 DEF Serves
  <1> QED  BY <1>3, <1>5, <1>9, <1>13, SenderMoves

(* The end of a program. *)
LEMMA Leaves ==
  ASSUME ProgramsFit, LInv, mode = "user", NEW s \in Slots, status[s] # "FREE",
         status' = [status EXCEPT ![s] = "FREE"], status \in [Slots -> Statuses],
         UNCHANGED <<env_id, recving, from, value, service, count, got, log>>,
         \A t \in Slots \ {s} : eax'[t] = eax[t], Goto(s, "gone")
  PROVE  LInv'
  <1>1. /\ pc \in [Slots -> SendSteps \cup RecvSteps \cup {"idle", "exit", "gone"}]
        /\ AtStep(s)
    BY DEF LInv, LibTypeOK
  <1>2. pc'[s] = "gone" /\ \A t \in Slots \ {s} : pc'[t] = pc[t]
    BY <1>1 DEF Goto
  <1>3. status'[s] = "FREE" /\ \A t \in Slots \ {s} : status'[t] = status[t]
    OBVIOUS
  <1>4. Moves(s)
    BY <1>2, <1>3 DEF Moves, Kept
  <1>5. LibTypeOK'
    BY <1>1 DEF LInv, LibTypeOK, Goto
  <1>6. AtStep(s)'
    BY <1>1, <1>2, <1>3 DEF AtStep, StepsOf, SendSteps, RecvSteps
  <1>7. pc[s] # "gone"
    BY <1>1 DEF AtStep
  <1>8. CASE s \in Sending
    <2>1. Untold(s) \subseteq {0, 1} /\ Untold(s)' = {0, 1}
      BY <1>2 DEF Untold, InResult, RecvSteps
    <2>2. ~InLoad(s)' /\ Unanswered(s)'
      BY <1>2 DEF InLoad, Unanswered
    <2> QED  BY <1>4, <1>5, <1>6, <1>8, <2>1, <2>2, SenderGoesOn
  <1>9. CASE s = Receiver
    <2>1. HasRequest'
      BY <1>2, <1>9 DEF HasRequest, SendSteps
    <2>2. \A t : Holds(Receiver, t)' = FALSE /\ Answering(t)' = FALSE
      BY <1>2, <1>9 DEF Holds, InLoad, InResult, Answering
    <2> QED  BY <1>2, <1>4, <1>5, <1>6, <1>9, <2>1, <2>2, ReceiverGoesOn
  <1>10. CASE s \notin Sending /\ s # Receiver
    BY <1>4, <1>5, <1>6, <1>10, OtherMoves
  <1> QED  BY <1>8, <1>9, <1>10

LEMMA ExitL ==
  ASSUME ProgramsFit, IInv, LInv, mode = "user", Exit(curenv)
  PROVE  LInv'
  <1>1. curenv \in Slots /\ status[curenv] = "RUNNABLE" /\ status \in [Slots -> Statuses]
          /\ eax \in [Slots -> EaxVals] /\ curenv # NULL
    BY Caller DEF IInv, TypeOK, Statuses
  <1>2. envid2env(NoId, TRUE) = curenv
    BY DEF envid2env
  <1>3. /\ status' = [status EXCEPT ![curenv] = "FREE"]
        /\ eax' = [eax EXCEPT ![curenv] = Result("0")]
        /\ UNCHANGED <<env_id, recving, from, value>>
        /\ Goto(curenv, "gone") /\ UNCHANGED <<service, count, got, log>>
    BY <1>1, <1>2 DEF Exit, progVars, sys_env_destroy, env_destroy, idVars, ipcVars
  <1>4. \A t \in Slots \ {curenv} : eax'[t] = eax[t]
    BY <1>1, <1>3
  <1> QED  BY <1>1, <1>3, <1>4, Leaves

LEMMA DieL ==
  ASSUME ProgramsFit, IInv, LInv, mode = "user", Die(curenv)
  PROVE  LInv'
  <1>1. curenv \in Slots /\ status[curenv] = "RUNNABLE" /\ status \in [Slots -> Statuses]
    BY Caller DEF IInv, TypeOK, Statuses
  <1>2. /\ status' = [status EXCEPT ![curenv] = "FREE"]
        /\ UNCHANGED <<env_id, recving, from, value, eax>>
        /\ Goto(curenv, "gone") /\ UNCHANGED <<service, count, got, log>>
    BY DEF Die, progVars, Fault, env_destroy, idVars, ipcVars
  <1> QED  BY <1>1, <1>2, Leaves

(* The clock. *)
LEMMA TimerL ==
  ASSUME ProgramsFit, LInv, mode = "user", Timer
  PROVE  LInv'
  <1>1. UNCHANGED <<service, pc, count, got, log, status, env_id, recving, from, value, eax>>
    BY DEF Timer, Yield, userVars, idVars, ipcVars
  <1>2. \A t \in Slots : Kept(t)
    BY <1>1 DEF Kept
  <1>3. LibTypeOK'
    BY <1>1 DEF LInv, LibTypeOK
  <1> QED  BY <1>1, <1>2, <1>3, NobodyMoves

(* What sys_ipc_recv does to the environments: the caller waits, and a     *)
(* queued send may end.                                                    *)
LEMMA RecvEffect ==
  ASSUME IInv, QInv, mode = "user", sys_ipc_recv(TRUE)
  PROVE  /\ recving'[curenv] /\ from'[curenv] = NoId
         /\ eax'[curenv] \notin {"0", "SYS_ipc_try_send"}
         /\ value' = value /\ env_id' = env_id
         /\ \A t \in Slots : status'[t] = "FREE" <=> status[t] = "FREE"
         /\ \A t \in Slots \ {curenv} :
              /\ recving'[t] = recving[t] /\ from'[t] = from[t]
              /\ eax'[t] = eax[t] \/ (eax[t] = "SYS_ipc_try_send" /\ eax'[t] = "E_IPC_NOT_RECV")
  <1> DEFINE blocked == [status EXCEPT ![curenv] = "NOT_RUNNABLE"]
             queue   == QueuedFor(env_id[curenv])
  <1>1. /\ curenv \in Slots /\ status[curenv] = "RUNNABLE" /\ eax[curenv] # "SYS_ipc_try_send"
        /\ status \in [Slots -> Statuses] /\ eax \in [Slots -> EaxVals]
        /\ recving \in [Slots -> BOOLEAN] /\ from \in [Slots -> EnvIds]
    BY CallerOutside DEF IInv, TypeOK, Statuses
  <1>2. ASSUME NEW st, BlockInRecv(st)
        PROVE  /\ recving'[curenv] /\ from'[curenv] = NoId
               /\ value' = value /\ env_id' = env_id /\ status' = st
               /\ \A t \in Slots \ {curenv} : recving'[t] = recving[t] /\ from'[t] = from[t]
    <2>1. /\ from' = [from EXCEPT ![curenv] = NoId] /\ recving' = [recving EXCEPT ![curenv] = TRUE]
          /\ value' = value /\ env_id' = env_id /\ status' = st
      BY <1>2 DEF BlockInRecv, idVars
    <2> QED  BY <1>1, <2>1
  <1>3. \A t \in Slots : blocked[t] = "FREE" <=> status[t] = "FREE"
    BY <1>1
  <1>4. Result("error") \notin {"0", "SYS_ipc_try_send"}
    BY DEF Result
  <1>5. ASSUME BlockInRecv(blocked), NEW v, v \notin {"0", "SYS_ipc_try_send"},
               eax' = [eax EXCEPT ![curenv] = v]
        PROVE  /\ recving'[curenv] /\ from'[curenv] = NoId
               /\ eax'[curenv] \notin {"0", "SYS_ipc_try_send"}
               /\ value' = value /\ env_id' = env_id
               /\ \A t \in Slots : status'[t] = "FREE" <=> status[t] = "FREE"
               /\ \A t \in Slots \ {curenv} :
                    recving'[t] = recving[t] /\ from'[t] = from[t] /\ eax'[t] = eax[t]
    <2> HIDE DEF blocked
    <2> QED  BY <1>1, <1>2, <1>3, <1>5
  <1>6. ASSUME NEW k \in queue,
               envid2env(waiting[k].src, FALSE) # NULL,
               BlockInRecv([blocked EXCEPT ![envid2env(waiting[k].src, FALSE)] = "RUNNABLE"]),
               eax' = [eax EXCEPT ![curenv] = "SYS_ipc_recv",
                                  ![envid2env(waiting[k].src, FALSE)] = "E_IPC_NOT_RECV"]
        PROVE  /\ recving'[curenv] /\ from'[curenv] = NoId
               /\ eax'[curenv] \notin {"0", "SYS_ipc_try_send"}
               /\ value' = value /\ env_id' = env_id
               /\ \A t \in Slots : status'[t] = "FREE" <=> status[t] = "FREE"
               /\ \A t \in Slots \ {curenv} :
                    /\ recving'[t] = recving[t] /\ from'[t] = from[t]
                    /\ eax'[t] = eax[t] \/ (eax[t] = "SYS_ipc_try_send" /\ eax'[t] = "E_IPC_NOT_RECV")
    <2>1. k \in 1..Len(waiting) /\ waiting[k].src \in EnvIds /\ ENVX(waiting[k].src) \in Slots
      <3>1. k \in 1..Len(waiting)
        BY DEF QueuedFor
      <3> QED  BY <3>1, EntrySrc
    <2>2. waiting[k].src # NoId
      BY <2>1 DEF QInv, EntriesNotAhead, NoId
    <2>3. PICK w : w = envid2env(waiting[k].src, FALSE)
      OBVIOUS
    <2>4. w \in Slots /\ status[w] # "FREE" /\ w = ENVX(waiting[k].src) /\ env_id[w] = waiting[k].src
      BY <1>6, <2>1, <2>2, <2>3 DEF envid2env
    <2>5. status[w] = "NOT_RUNNABLE" /\ eax[w] = "SYS_ipc_try_send"
      BY <2>1, <2>4 DEF QInv, WaitingSound
    <2>6. w # curenv
      BY <1>1, <2>5
    <2>7. PICK st : st = [blocked EXCEPT ![w] = "RUNNABLE"]
      OBVIOUS
    <2>8. \A t \in Slots : st[t] = "FREE" <=> status[t] = "FREE"
      BY <1>1, <2>4, <2>7
    <2>9. eax' = [eax EXCEPT ![curenv] = "SYS_ipc_recv", ![w] = "E_IPC_NOT_RECV"]
      BY <1>6, <2>3
    <2>10. /\ eax'[curenv] = "SYS_ipc_recv"
           /\ \A t \in Slots \ {curenv} :
                eax'[t] = eax[t] \/ (eax[t] = "SYS_ipc_try_send" /\ eax'[t] = "E_IPC_NOT_RECV")
      BY <1>1, <2>4, <2>5, <2>6, <2>9
    <2>11. BlockInRecv(st)
      BY <1>6, <2>3, <2>7
    <2> QED  BY <1>2, <2>8, <2>10, <2>11
  <1>7. \/ BlockInRecv(blocked) /\ eax' = [eax EXCEPT ![curenv] = Result("error")]
        \/ BlockInRecv(blocked) /\ eax' = [eax EXCEPT ![curenv] = "SYS_ipc_recv"]
        \/ \E k \in queue :
             /\ envid2env(waiting[k].src, FALSE) # NULL
             /\ BlockInRecv([blocked EXCEPT ![envid2env(waiting[k].src, FALSE)] = "RUNNABLE"])
             /\ eax' = [eax EXCEPT ![curenv] = "SYS_ipc_recv",
                                   ![envid2env(waiting[k].src, FALSE)] = "E_IPC_NOT_RECV"]
    BY DEF sys_ipc_recv
  <1> HIDE DEF blocked, queue
  <1>8. CASE BlockInRecv(blocked) /\ eax' = [eax EXCEPT ![curenv] = Result("error")]
    BY <1>4, <1>5, <1>8
  <1>9. CASE BlockInRecv(blocked) /\ eax' = [eax EXCEPT ![curenv] = "SYS_ipc_recv"]
    BY <1>5, <1>9
  <1> QED  BY <1>6, <1>7, <1>8, <1>9

(* ipc_recv enters the kernel. *)
LEMMA RecvL ==
  ASSUME ProgramsFit, IInv, QInv, LInv, mode = "user", Recv(curenv)
  PROVE  LInv'
  <1>a. curenv \in Slots
    BY Caller
  <1>b. PICK s \in Slots : s = curenv
    BY <1>a
  <1>1. /\ pc[s] = "recv" /\ Goto(s, "load_from") /\ UNCHANGED <<service, count, got, log>>
    BY <1>b DEF Recv, progVars
  <1>2. /\ recving'[s] /\ from'[s] = NoId
        /\ eax'[s] \notin {"0", "SYS_ipc_try_send"}
        /\ value' = value /\ env_id' = env_id
        /\ \A t \in Slots : status'[t] = "FREE" <=> status[t] = "FREE"
        /\ \A t \in Slots \ {s} :
             /\ recving'[t] = recving[t] /\ from'[t] = from[t]
             /\ eax'[t] = eax[t] \/ (eax[t] = "SYS_ipc_try_send" /\ eax'[t] = "E_IPC_NOT_RECV")
    <2>1. sys_ipc_recv(TRUE)
      BY DEF Recv
    <2> QED  BY <1>b, <2>1, RecvEffect
  <1>3. /\ pc \in [Slots -> SendSteps \cup RecvSteps \cup {"idle", "exit", "gone"}]
        /\ AtStep(s)
    BY DEF LInv, LibTypeOK
  <1>4. pc'[s] = "load_from" /\ \A t \in Slots \ {s} : pc'[t] = pc[t]
    BY <1>1, <1>3 DEF Goto
  <1>5. Moves(s)
    BY <1>1, <1>2, <1>4 DEF Moves, Kept
  <1>6. LibTypeOK'
    <2>1. "load_from" \in SendSteps \cup RecvSteps \cup {"idle", "exit", "gone"}
      BY DEF RecvSteps
    <2> QED  BY <1>1, <1>3, <2>1 DEF LInv, LibTypeOK, Goto
  <1>7. AtStep(s)'
    BY <1>1, <1>2, <1>3, <1>4 DEF AtStep, StepsOf, SendSteps, RecvSteps, InCall, InResult, InLoad
  <1>8. CASE s \in Sending
    <2>1. Untold(s) = {1} /\ Untold(s)' = {1}
      BY <1>1, <1>4 DEF Untold, InResult, RecvSteps
    <2>2. Unanswered(s)'
      BY <1>2, <1>4 DEF Unanswered
    <2> QED  BY <1>1, <1>2, <1>5, <1>6, <1>7, <1>8, <2>1, <2>2, SenderGoesOn
  <1>9. CASE s = Receiver
    <2>1. HasRequest'
      BY <1>4, <1>9 DEF HasRequest, SendSteps
    <2>2. \A t : ~Holds(Receiver, t)' /\ ~Holds(Receiver, t) /\ ~Answering(t)'
      BY <1>1, <1>2, <1>4, <1>9 DEF Holds, InLoad, InResult, Answering
    <2> QED  BY <1>1, <1>2, <1>5, <1>6, <1>7, <1>9, <2>1, <2>2, ReceiverGoesOn
  <1> QED  BY <1>1, <1>8, <1>9, WhereSending DEF RecvSteps

(* What sys_ipc_try_send does to the environments: nothing arrives, or a   *)
(* receiver that waits has the message.                                    *)
NotSent ==
  /\ recving' = recving /\ from' = from /\ value' = value
  /\ \/ mode' = "panic" /\ eax' = eax
     \/ eax'[curenv] \in {"error", "other", "SYS_ipc_try_send"}
  /\ \A t \in Slots \ {curenv} : eax'[t] = eax[t]

SentTo(d, v) ==
  /\ d # curenv /\ recving[d] /\ status[d] # "FREE"
  /\ ~recving'[d] /\ from'[d] = env_id[curenv] /\ value'[d] = v
  /\ eax'[d] = Result("0") /\ eax'[curenv] = Result("0")
  /\ \A t \in Slots \ {d} : recving'[t] = recving[t] /\ from'[t] = from[t] /\ value'[t] = value[t]
  /\ \A t \in Slots \ {d, curenv} : eax'[t] = eax[t]

LEMMA SendEffect ==
  ASSUME IInv, QInv, IdsStay, mode = "user", NEW id \in EnvIds, NEW v,
         sys_ipc_try_send(id, v, FALSE)
  PROVE  /\ env_id' = env_id /\ \A t \in Slots : status'[t] = "FREE" <=> status[t] = "FREE"
         /\ NotSent \/ \E d \in Slots : id = Id(d) /\ SentTo(d, v)
  <1> DEFINE d == envid2env(id, FALSE)
  <1>1. /\ curenv \in Slots /\ status[curenv] = "RUNNABLE" /\ ~recving[curenv]
        /\ status \in [Slots -> Statuses] /\ eax \in [Slots -> EaxVals]
        /\ recving \in [Slots -> BOOLEAN] /\ from \in [Slots -> EnvIds]
        /\ value \in [Slots -> Values \cup {0}]
    BY CallerOutside DEF IInv, TypeOK, Statuses
  <1>2. CASE Return("error")
    <2>1. Result("error") \in {"error", "other"}
      BY DEF Result
    <2>2. /\ eax' = [eax EXCEPT ![curenv] = Result("error")]
          /\ UNCHANGED <<status, env_id, recving, from, value>>
      BY <1>2 DEF Return, idVars, ipcVars
    <2> QED  BY <1>1, <2>1, <2>2 DEF NotSent
  <1>3. CASE Enqueue(id)
    <2>1. /\ eax' = [eax EXCEPT ![curenv] = "SYS_ipc_try_send"]
          /\ status' = [status EXCEPT ![curenv] = "NOT_RUNNABLE"]
          /\ UNCHANGED <<env_id, recving, from, value>>
      BY <1>3 DEF Enqueue, idVars, ipcVars
    <2> QED  BY <1>1, <2>1 DEF NotSent
  <1>4. CASE mode' = "panic" /\ UNCHANGED <<status, env_id, recving, from, value, eax>>
    BY <1>4 DEF NotSent
  <1>5. CASE d # NULL /\ recving[d] /\ Deliver(d, v)
    <2>1. PICK e \in Slots : e = d /\ status[e] # "FREE"
      BY <1>5, Resolve
    <2>2. e # curenv
      BY <1>1, <1>5, <2>1
    <2>3. id = Id(e)
      BY <1>5, <2>1, <2>2, ResolvesToId
    <2> HIDE DEF d
    <2>4. /\ recving' = [recving EXCEPT ![e] = FALSE]
          /\ from' = [from EXCEPT ![e] = env_id[curenv]]
          /\ value' = [value EXCEPT ![e] = v]
          /\ status' = [status EXCEPT ![e] = "RUNNABLE"]
          /\ eax' = [eax EXCEPT ![e] = Result("0"), ![curenv] = Result("0")]
          /\ env_id' = env_id
      BY <1>5, <2>1 DEF Deliver, idVars
    <2>5. SentTo(e, v)
      BY <1>1, <1>5, <2>1, <2>2, <2>4 DEF SentTo
    <2>6. \A t \in Slots : status'[t] = "FREE" <=> status[t] = "FREE"
      BY <1>1, <2>1, <2>4
    <2> QED  BY <2>3, <2>4, <2>5, <2>6
  <1>6. \/ Return("error") \/ Enqueue(id)
        \/ mode' = "panic" /\ UNCHANGED <<status, env_id, recving, from, value, eax>>
        \/ d # NULL /\ recving[d] /\ Deliver(d, v)
    BY DEF sys_ipc_try_send, idVars, ipcVars
  <1> QED  BY <1>2, <1>3, <1>4, <1>5, <1>6

(* The programs send what a program may send. *)
LEMMA Sendable ==
  ASSUME ProgramsFit, LInv, NEW s \in Slots, pc[s] \in {"try1", "try2"}
  PROVE  SendTo(s) \in EnvIds /\ SendValue(s) \in Values
  <1>1. /\ AtStep(s) /\ got \in [Slots -> EnvIds] /\ count \in [Slots -> Nat]
        /\ log \in [Slots -> Seq(EnvIds \X Values)]
    BY DEF LInv, LibTypeOK
  <1>2. CASE s = Receiver
    <2>1. log[s] # <<>>
      BY <1>2 DEF LInv, HasRequest, SendSteps
    <2>2. PICK q \in Seq(EnvIds \X Values) : q = log[s]
      BY <1>1
    <2>3. Len(q) \in 1..Len(q)
      BY <2>1, <2>2
    <2>4. q[Len(q)] \in EnvIds \X Values
      BY <2>3, EntryTyped
    <2> QED  BY <1>1, <1>2, <2>2, <2>4 DEF SendTo, SendValue
  <1>3. CASE s # Receiver /\ s \in Sending
    <2>1. count[s] < MsgBound /\ count[s] \in Nat
      BY <1>1, <1>3 DEF AtStep
    <2>2. count[s] + 1 \in 1..MsgBound
      BY <2>1 DEF ProgramsFit
    <2>3. Receiver \in Slots /\ env_id[Receiver] = Id(Receiver)
      BY DEF LInv, IdsStay, ProgramsFit
    <2> QED  BY <1>3, <2>2, <2>3, IdFacts DEF SendTo, SendValue, ProgramsFit
  <1> QED  BY <1>2, <1>3, WhereSending DEF SendSteps

(* ipc_send enters the kernel, and the message does not arrive. *)
LEMMA NotSentL ==
  ASSUME ProgramsFit, IInv, QInv, LInv, mode = "user", NEW s \in Slots, s = curenv,
         pc[s] \in {"try1", "try2"}, NEW l \in {"result1", "result2"}, Goto(s, l),
         UNCHANGED <<service, count, got, log, env_id>>,
         \A t \in Slots : status'[t] = "FREE" <=> status[t] = "FREE",
         NotSent
  PROVE  LInv'
  <1>1. /\ recving' = recving /\ from' = from /\ value' = value
        /\ mode' = "panic" \/ eax'[s] \in {"error", "other", "SYS_ipc_try_send"}
        /\ \A t \in Slots \ {s} : eax'[t] = eax[t]
    BY DEF NotSent
  <1>2. /\ pc \in [Slots -> SendSteps \cup RecvSteps \cup {"idle", "exit", "gone"}]
        /\ AtStep(s)
    BY DEF LInv, LibTypeOK
  <1>3. pc'[s] = l /\ \A t \in Slots \ {s} : pc'[t] = pc[t]
    BY <1>2 DEF Goto
  <1>4. Moves(s)
    BY <1>1, <1>3 DEF Moves, Kept
  <1>5. LibTypeOK'
    <2>1. l \in SendSteps \cup RecvSteps \cup {"idle", "exit", "gone"}
      BY DEF SendSteps
    <2> QED  BY <1>2, <2>1 DEF LInv, LibTypeOK, Goto
  <1>6. AtStep(s)'
    BY <1>1, <1>2, <1>3 DEF AtStep, StepsOf, SendSteps, RecvSteps, InCall, InResult, InLoad
  <1>7. CASE s \in Sending
    <2>1. Untold(s) = {0}
      BY DEF Untold
    <2>2. 0 \in Untold(s)'
      BY <1>1, <1>3 DEF Untold, InResult, RecvSteps
    <2>3. ~InLoad(s)' /\ Unanswered(s)'
      BY <1>3 DEF InLoad, Unanswered
    <2> QED  BY <1>4, <1>5, <1>6, <1>7, <2>1, <2>2, <2>3, SenderGoesOn
  <1>8. CASE s = Receiver
    <2>1. HasRequest'
      BY <1>8 DEF LInv, HasRequest, SendSteps
    <2>2. \A t : ~Holds(Receiver, t)' /\ ~Holds(Receiver, t) /\ (Answering(t)' => Answering(t))
      BY <1>3, <1>8 DEF Holds, InLoad, Answering
    <2> QED  BY <1>1, <1>4, <1>5, <1>6, <1>8, <2>1, <2>2, ReceiverGoesOn
  <1> QED  BY <1>7, <1>8, WhereSending DEF SendSteps

(* Two programs move: the one that sends and the one that waits. *)
LEMMA BothMove ==
  ASSUME ProgramsFit, LInv, NEW s \in Slots, NEW d \in Slots,
         mode = "user", service' = service, env_id' = env_id, LibTypeOK',
         \A t \in Slots \ {s, d} : Kept(t),
         AtStep(s)', AtStep(d)', HasRequest',
         \A t \in Sending : (t \in {s, d} \/ Kept(t)) => InOrder(t)' /\ (service => Serves(t)')
  PROVE  LInv'
  <1>1. Sending \subseteq Slots
    BY DEF ProgramsFit
  <1>2. \A t \in Slots : AtStep(t)'
    BY KeptStep DEF LInv
  <1>3. \A t \in Sending : t \in {s, d} \/ Kept(t)
    BY <1>1
  <1>4. IdsStay'
    BY DEF IdsStay, LInv
  <1> QED  BY <1>2, <1>3, <1>4 DEF LInv

(* A message arrives at the receiver ... *)
LEMMA SentToReceiver ==
  ASSUME ProgramsFit, IInv, QInv, LInv, mode = "user", NEW s \in Sending, s = curenv,
         pc[s] \in {"try1", "try2"}, NEW l \in {"result1", "result2"}, Goto(s, l),
         UNCHANGED <<service, count, got, log, env_id>>,
         \A t \in Slots : status'[t] = "FREE" <=> status[t] = "FREE",
         SentTo(Receiver, count[s] + 1)
  PROVE  LInv'
  <1>a. s \in Slots /\ Receiver \in Slots /\ s # Receiver /\ Sending \subseteq Slots \ {Receiver}
          /\ "0" \in Results
    BY DEF ProgramsFit
  <1>b. PICK r \in Slots : r = Receiver
    BY <1>a
  <1>1. /\ recving[r] /\ status[r] # "FREE"
        /\ ~recving'[r] /\ from'[r] = env_id[s] /\ value'[r] = count[s] + 1
        /\ eax'[r] = "0" /\ eax'[s] = "0"
        /\ \A t \in Slots \ {r} : recving'[t] = recving[t] /\ from'[t] = from[t] /\ value'[t] = value[t]
        /\ \A t \in Slots \ {r, s} : eax'[t] = eax[t]
    BY <1>a, <1>b DEF SentTo, Result
  <1>2. /\ pc \in [Slots -> SendSteps \cup RecvSteps \cup {"idle", "exit", "gone"}]
        /\ AtStep(s) /\ AtStep(r) /\ env_id[s] = Id(s) /\ InOrder(s) /\ (service => Serves(s))
        /\ count[s] \in Nat
    BY <1>a DEF LInv, LibTypeOK, IdsStay
  <1>3. pc'[s] = l /\ \A t \in Slots \ {s} : pc'[t] = pc[t]
    BY <1>a, <1>2 DEF Goto
  <1>4. \A t \in Slots \ {s, r} : Kept(t)
    BY <1>1, <1>3 DEF Kept
  <1>5. LibTypeOK'
    <2>1. l \in SendSteps \cup RecvSteps \cup {"idle", "exit", "gone"}
      BY DEF SendSteps
    <2> QED  BY <1>2, <2>1 DEF LInv, LibTypeOK, Goto
  <1>6. pc[r] = "load_from" /\ pc'[r] = "load_from" /\ InLoad(r)' /\ InResult(s)'
    BY <1>a, <1>b, <1>1, <1>2, <1>3 DEF AtStep, InCall, InLoad, InResult
  <1>7. count[s] + 1 \in Values
    <2>1. SendValue(s) \in Values
      BY <1>a, Sendable
    <2> QED  BY <1>a, <2>1 DEF SendValue
  <1>8. AtStep(s)'
    BY <1>a, <1>1, <1>2, <1>3 DEF AtStep, StepsOf, SendSteps, RecvSteps, InCall, InResult, InLoad
  <1>9. AtStep(r)'
    BY <1>a, <1>b, <1>1, <1>2, <1>6, <1>7
       DEF AtStep, StepsOf, SendSteps, RecvSteps, InCall, InResult, InLoad
  <1>10. HasRequest'
    BY <1>b, <1>6 DEF HasRequest, SendSteps
  <1>11. /\ \A t : ~Holds(r, t) /\ ~Answering(t)'
         /\ \A t \in Slots : Holds(r, t)' <=> t = s
    <2>1. \A t \in Slots : Id(s) = Id(t) <=> s = t
      BY <1>a, IdFacts
    <2> QED  BY <1>b, <1>1, <1>2, <1>6, <2>1 DEF Holds, Answering, InResult
  <1>12. \A t, d : Logged(d, t)' = Logged(d, t)
    BY DEF Logged
  <1>13. Len(Logged(r, s)) = count[s]
    <2>1. Untold(s) = {0}
      BY DEF Untold
    <2>2. Delivered(s) - count[s] = 0
      BY <1>b, <1>2, <1>6, <2>1 DEF InOrder
    <2>3. Logged(r, s) \in Seq(Values)
      BY ValuesType DEF Logged, LInv, LibTypeOK
    <2>4. Len(Logged(r, s)) \in Nat
      BY <2>3
    <2> QED  BY <1>b, <1>2, <1>11, <2>2, <2>4 DEF Delivered
  <1>14. InOrder(s)'
    <2>1. 1 \in Untold(s)'
      BY <1>1, <1>6 DEF Untold, InResult
    <2>2. Delivered(s)' = count[s] + 1
      BY <1>a, <1>b, <1>11, <1>12, <1>13 DEF Delivered
    <2>3. Delivered(s)' - count'[s] = 1
      BY <1>2, <2>2
    <2> QED  BY <1>b, <1>1, <1>2, <1>12, <1>13, <2>1, <2>3 DEF InOrder
  <1>15. service => Serves(s)'
    <2>1. ~InLoad(s)' /\ Unanswered(s)'
      BY <1>3 DEF InLoad, Unanswered
    <2> QED  BY <1>b, <1>2, <1>11, <1>12, <1>13, <2>1 DEF Serves
  <1>16. ASSUME NEW t \in Sending, t # s, Kept(t) PROVE InOrder(t)' /\ (service => Serves(t)')
    <2>1. InOrder(t) /\ (service => Serves(t)) /\ t \in Slots
      BY <1>a DEF LInv
    <2>2. ~Holds(r, t)' /\ ~Holds(r, t) /\ ~Answering(t)'
      BY <1>11, <1>16, <2>1
    <2>3. Untold(t) \subseteq Untold(t)'
      BY <1>16, KeptUntold
    <2>4. InOrder(t)'
      BY <1>b, <1>6, <1>12, <2>1, <2>2, <2>3 DEF InOrder, Delivered
    <2>5. /\ InLoad(t)' = InLoad(t) /\ recving'[t] = recving[t] /\ from'[t] = from[t]
          /\ value'[t] = value[t]
      BY <1>16 DEF InLoad, Kept
    <2> QED  BY <1>b, <1>12, <2>1, <2>2, <2>4, <2>5 DEF Serves
  <1> QED  BY <1>a, <1>b, <1>4, <1>5, <1>8, <1>9, <1>10, <1>14, <1>15, <1>16, BothMove

(* ... or, as the answer of the server, at a client. *)
LEMMA SentToClient ==
  ASSUME ProgramsFit, IInv, QInv, LInv, mode = "user", Receiver = curenv,
         pc[Receiver] \in {"try1", "try2"}, NEW l \in {"result1", "result2"}, Goto(Receiver, l),
         UNCHANGED <<service, count, got, log, env_id>>,
         \A t \in Slots : status'[t] = "FREE" <=> status[t] = "FREE",
         NEW d \in Slots, got[Receiver] = Id(d), SentTo(d, LastValue(log[Receiver])),
         LastValue(log[Receiver]) \in Values
  PROVE  LInv'
  <1>a. Receiver \in Slots /\ Sending \subseteq Slots \ {Receiver} /\ "0" \in Results
    BY DEF ProgramsFit
  <1>b. PICK r \in Slots : r = Receiver
    BY <1>a
  <1>1. /\ recving[d] /\ status[d] # "FREE" /\ d # r
        /\ ~recving'[d] /\ from'[d] = env_id[r] /\ value'[d] = LastValue(log[r])
        /\ eax'[d] = "0" /\ eax'[r] = "0"
        /\ \A t \in Slots \ {d} : recving'[t] = recving[t] /\ from'[t] = from[t] /\ value'[t] = value[t]
        /\ \A t \in Slots \ {d, r} : eax'[t] = eax[t]
    BY <1>a, <1>b DEF SentTo, Result
  <1>2. /\ pc \in [Slots -> SendSteps \cup RecvSteps \cup {"idle", "exit", "gone"}]
        /\ AtStep(d) /\ AtStep(r) /\ env_id[r] = Id(r)
    BY <1>a DEF LInv, LibTypeOK, IdsStay
  <1>3. pc'[r] = l /\ \A t \in Slots \ {r} : pc'[t] = pc[t]
    BY <1>b, <1>2 DEF Goto
  <1>4. \A t \in Slots \ {r, d} : Kept(t)
    BY <1>1, <1>3 DEF Kept
  <1>5. LibTypeOK'
    <2>1. l \in SendSteps \cup RecvSteps \cup {"idle", "exit", "gone"}
      BY DEF SendSteps
    <2> QED  BY <1>2, <2>1 DEF LInv, LibTypeOK, Goto
  <1>6. pc[d] = "load_from" /\ pc'[d] = "load_from" /\ InLoad(d)' /\ InResult(r)'
    BY <1>b, <1>1, <1>2, <1>3 DEF AtStep, InCall, InLoad, InResult
  <1>7. d \in Sending /\ service
    <2>1. d \in Sending
      BY <1>b, <1>1, <1>6, WhereSending DEF RecvSteps
    <2>2. service
      BY <1>b, <1>2 DEF AtStep, StepsOf, SendSteps, RecvSteps
    <2> QED  BY <2>1, <2>2
  <1>8. AtStep(r)'
    BY <1>b, <1>1, <1>2, <1>3 DEF AtStep, StepsOf, SendSteps, RecvSteps, InCall, InResult, InLoad
  <1>9. AtStep(d)'
    <2>1. value'[d] \in Values
      BY <1>b, <1>1
    <2> QED  BY <1>1, <1>2, <1>6, <2>1
             DEF AtStep, StepsOf, SendSteps, RecvSteps, InCall, InResult, InLoad
  <1>10. HasRequest'
    BY DEF LInv, HasRequest, SendSteps
  <1>11. /\ \A t : ~Holds(r, t) /\ ~Holds(r, t)'
         /\ \A t : ~Answering(t)'
         /\ Answering(d)
    BY <1>b, <1>1, <1>3 DEF Holds, InLoad, Answering
  <1>12. \A t, e : Logged(e, t)' = Logged(e, t)
    BY DEF Logged
  <1>13. InOrder(d) /\ Serves(d)
    BY <1>7 DEF LInv
  <1>14. InOrder(d)'
    <2>1. Untold(d) = {1} /\ Untold(d)' = {1}
      BY <1>6 DEF Untold, InResult, RecvSteps
    <2>2. pc[r] # "gone" /\ Delivered(d)' = Delivered(d)
      BY <1>b, <1>11, <1>12 DEF Delivered
    <2> QED  BY <1>b, <1>11, <1>12, <1>13, <2>1, <2>2 DEF InOrder
  <1>15. Serves(d)'
    <2>1. Len(Logged(r, d)) = count[d] + 1 /\ LastValue(log[r]) = count[d] + 1
      BY <1>b, <1>11, <1>13 DEF Serves
    <2> QED  BY <1>b, <1>1, <1>2, <1>11, <1>12, <1>13, <2>1 DEF Serves
  <1>16. ASSUME NEW t \in Sending, t # d, Kept(t) PROVE InOrder(t)' /\ (service => Serves(t)')
    <2>1. InOrder(t) /\ (service => Serves(t))
      BY DEF LInv
    <2>2. Untold(t) \subseteq Untold(t)'
      BY <1>16, KeptUntold
    <2>3. pc[r] # "gone" /\ Delivered(t)' = Delivered(t)
      BY <1>b, <1>11, <1>12 DEF Delivered
    <2>4. InOrder(t)'
      BY <1>b, <1>11, <1>12, <2>1, <2>2, <2>3 DEF InOrder
    <2>5. /\ InLoad(t)' = InLoad(t) /\ recving'[t] = recving[t] /\ from'[t] = from[t]
          /\ value'[t] = value[t]
      BY <1>16 DEF InLoad, Kept
    <2> QED  BY <1>b, <1>11, <1>12, <2>1, <2>4, <2>5 DEF Serves
  <1> QED  BY <1>a, <1>b, <1>4, <1>5, <1>8, <1>9, <1>10, <1>14, <1>15, <1>16, BothMove

(* ipc_send enters the kernel. *)
LEMMA TrySendL ==
  ASSUME ProgramsFit, IInv, QInv, LInv, mode = "user", TrySend(curenv)
  PROVE  LInv'
  <1>a. curenv \in Slots
    BY Caller
  <1>b. PICK s \in Slots : s = curenv
    BY <1>a
  <1>1. PICK l \in {"result1", "result2"} : l = IF pc[s] = "try1" THEN "result1" ELSE "result2"
    OBVIOUS
  <1>2. /\ pc[s] \in {"try1", "try2"} /\ Goto(s, l) /\ UNCHANGED <<service, count, got, log>>
        /\ sys_ipc_try_send(SendTo(s), SendValue(s), FALSE)
    BY <1>b, <1>1 DEF TrySend, progVars
  <1>3. SendTo(s) \in EnvIds /\ SendValue(s) \in Values
    BY <1>2, Sendable
  <1>4. /\ env_id' = env_id /\ \A t \in Slots : status'[t] = "FREE" <=> status[t] = "FREE"
        /\ NotSent \/ \E d \in Slots : SendTo(s) = Id(d) /\ SentTo(d, SendValue(s))
    BY <1>2, <1>3, SendEffect DEF LInv
  <1>5. CASE NotSent
    BY <1>b, <1>2, <1>4, <1>5, NotSentL
  <1>6. ASSUME NEW d \in Slots, SendTo(s) = Id(d), SentTo(d, SendValue(s))
        PROVE  LInv'
    <2>1. CASE s = Receiver
      <3>1. got[s] = Id(d) /\ SendValue(s) = LastValue(log[s])
        BY <1>6, <2>1 DEF SendTo, SendValue, LastValue
      <3> QED  BY <1>b, <1>2, <1>3, <1>4, <1>6, <2>1, <3>1, SentToClient
    <2>2. CASE s # Receiver /\ s \in Sending
      <3>1. Receiver \in Slots
        BY DEF ProgramsFit
      <3>2. env_id[Receiver] = Id(Receiver)
        BY <3>1 DEF LInv, IdsStay
      <3>3. d = Receiver /\ SendValue(s) = count[s] + 1
        BY <1>6, <2>2, <3>1, <3>2, IdFacts DEF SendTo, SendValue
      <3> QED  BY <1>b, <1>2, <1>4, <1>6, <2>2, <3>3, SentToReceiver
    <2> QED  BY <1>2, <2>1, <2>2, WhereSending DEF SendSteps
  <1> QED  BY <1>4, <1>5, <1>6

-----------------------------------------------------------------------------
(* The programs start at their first call, with nothing sent. *)
LEMMA CountsNothing == CountsUp(<<>>) /\ Len(<<>>) = 0
  <1>1. <<>> \in Seq(Nat) /\ Len(<<>>) = 0
    OBVIOUS
  <1>2. PICK q \in Seq(Nat) : q = <<>> /\ Len(q) = 0
    BY <1>1
  <1>3. q = [k \in 1..Len(q) |-> q[k]]
    OBVIOUS
  <1>4. 1..Len(q) = {}
    BY <1>2
  <1>5. q = [k \in 1..Len(q) |-> k]
    BY <1>3, <1>4
  <1> QED  BY <1>1, <1>2, <1>5 DEF CountsUp

LEMMA LibInitHolds ==
  ASSUME ProgramsFit, LibInit
  PROVE  LInv
  <1>1. /\ Receiver \in Slots /\ Sending \subseteq Slots \ {Receiver}
        /\ MsgBound \in Nat \ {0} /\ NBoot = NENV
    BY DEF ProgramsFit
  <1>2. \A s \in Slots : s < NBoot
    BY <1>1, SchedAssumption DEF Slots
  <1>3. /\ \A s \in Slots : status[s] = "RUNNABLE" /\ ~recving[s] /\ eax[s] = Result("0")
        /\ IdsStay /\ mode = "user"
    BY <1>2 DEF LibInit, Init, IdsStay, Id
  <1>4. PICK S \in SUBSET Sending :
          pc = [s \in Slots |-> IF s = Receiver THEN "recv"
                                ELSE IF s \in S THEN "try1"
                                ELSE IF s \in Sending THEN "exit" ELSE "idle"]
    BY DEF LibInit
  <1>5. /\ service \in BOOLEAN /\ count = [s \in Slots |-> 0]
        /\ got = [s \in Slots |-> NoId] /\ log = [s \in Slots |-> <<>>]
    BY DEF LibInit
  <1>6. NoId \in EnvIds
    BY KernAssumption, SchedAssumption DEF NoId, EnvIds, Slots
  <1>7. LibTypeOK
    <2>1. <<>> \in Seq(EnvIds \X Values)
      OBVIOUS
    <2> QED  BY <1>4, <1>5, <1>6, <2>1 DEF LibTypeOK, SendSteps, RecvSteps
  <1>8. HasRequest
    BY <1>1, <1>4 DEF HasRequest, SendSteps
  <1>9. Result("0") # "SYS_ipc_try_send"
    BY DEF Result
  <1>10. ASSUME NEW s \in Slots PROVE AtStep(s)
    BY <1>1, <1>3, <1>4, <1>5, <1>9
       DEF AtStep, StepsOf, SendSteps, RecvSteps, InCall, InResult, InLoad
  <1>11. \A s, d \in Slots : Logged(d, s) = <<>>
    BY <1>5, NoValues DEF Logged
  <1>12. \A t : ~Holds(Receiver, t) /\ ~Answering(t)
    BY <1>1, <1>4 DEF Holds, InLoad, Answering, InResult
  <1>13. ASSUME NEW s \in Sending PROVE InOrder(s) /\ Serves(s)
    <2>1. /\ CountsUp(Logged(Receiver, s)) /\ Len(Logged(Receiver, s)) = 0
          /\ CountsUp(Logged(s, Receiver)) /\ Len(Logged(s, Receiver)) = 0
      BY <1>1, <1>11, CountsNothing
    <2>2. pc[s] \in {"try1", "exit"} /\ count[s] = 0 /\ log[s] = <<>>
      BY <1>1, <1>4, <1>5
    <2>3. InOrder(s)
      BY <1>12, <2>1, <2>2 DEF InOrder, Delivered, Untold
    <2>4. Len(log[s]) = 0
      BY <2>2, CountsNothing
    <2> QED  BY <1>12, <2>1, <2>2, <2>3, <2>4 DEF Serves, InLoad
  <1> QED  BY <1>3, <1>7, <1>8, <1>10, <1>13 DEF LInv

(* One step of the programs, with the kernel's part of it. *)
LEMMA LibNextKeeps ==
  ASSUME ProgramsFit, IInv, QInv, LInv, [LibNext]_allVars
  PROVE  IInv' /\ QInv' /\ LInv'
  <1>1. ASSUME UNCHANGED vars PROVE IInv' /\ QInv'
    <2>1. IInv'
      BY <1>1, NextKeeps
    <2>2. UNCHANGED <<status, env_id, recving, eax, waiting>> /\ status \in [Slots -> Statuses]
      BY <1>1 DEF vars, idVars, ipcVars, IInv, TypeOK, Statuses
    <2> QED  BY <2>1, <2>2, QueueKept
  <1>2. CASE UNCHANGED allVars
    <2>1. UNCHANGED vars /\ UNCHANGED <<service, pc, count, got, log>>
      BY <1>2 DEF allVars, userVars
    <2>2. KernelSame
      BY <2>1, KernelStays
    <2>3. LInv'
      <3>1. /\ LibTypeOK' /\ IdsStay' /\ HasRequest' /\ service' = service
        BY <2>1, <2>2 DEF LInv, LibTypeOK, IdsStay, HasRequest, KernelSame
      <3>2. \A s \in Slots : AtStep(s)'
        BY <2>1, <2>2 DEF LInv, AtStep, StepsOf, InCall, InResult, InLoad, KernelSame
      <3>3. /\ \A d, s : Logged(d, s)' = Logged(d, s)
            /\ \A d, s : Holds(d, s)' <=> Holds(d, s)
        BY <2>1, <2>2 DEF Logged, Holds, InLoad, KernelSame
      <3>4. \A s \in Sending : InOrder(s)'
        <4>1. \A s : Untold(s)' = Untold(s) /\ Delivered(s)' = Delivered(s)
          BY <2>1, <2>2, <3>3 DEF Untold, Delivered, InResult, KernelSame
        <4> QED  BY <2>1, <2>2, <3>3, <4>1 DEF LInv, InOrder, KernelSame
      <3>5. service => \A s \in Sending : Serves(s)'
        <4>1. \A s : (Answering(s)' <=> Answering(s)) /\ (Unanswered(s)' <=> Unanswered(s))
          BY <2>1, <2>2 DEF Answering, Unanswered, InResult, KernelSame
        <4> QED  BY <2>1, <2>2, <3>3, <4>1 DEF LInv, Serves, InLoad, KernelSame
      <3> QED  BY <3>1, <3>2, <3>4, <3>5 DEF LInv
    <2> QED  BY <1>1, <2>1, <2>3
  <1>3. CASE LibNext
    <2>1. mode = "user"
      BY <1>3 DEF LibNext
    <2>2. curenv \in Slots
      BY <2>1, Caller
    <2>3. CASE TrySend(curenv)
      <3>1. pc[curenv] \in {"try1", "try2"}
              /\ sys_ipc_try_send(SendTo(curenv), SendValue(curenv), FALSE)
        BY <2>3 DEF TrySend
      <3>2. SendTo(curenv) \in EnvIds /\ SendValue(curenv) \in Values
        BY <2>2, <3>1, Sendable
      <3> QED  BY <2>1, <2>3, <3>1, <3>2, TrySendKeeps, TrySendQ, TrySendL
    <2>4. CASE SendReturns(curenv)
      BY <1>1, <2>1, <2>2, <2>4, SendReturnsL DEF SendReturns
    <2>5. CASE SendRetries(curenv)
      BY <1>1, <2>1, <2>2, <2>5, SendRetriesL DEF SendRetries
    <2>6. CASE SendPanics(curenv)
      BY <1>1, <2>1, <2>6, SendPanicsL DEF SendPanics
    <2>7. CASE Exit(curenv)
      <3>1. sys_env_destroy(NoId) /\ NoId \in EnvIds
        BY <2>7, KernAssumption, SchedAssumption DEF Exit, NoId, EnvIds, Slots
      <3> QED  BY <2>1, <2>7, <3>1, SysDestroyKeeps, SysDestroyQ, ExitL
    <2>8. CASE Recv(curenv)
      <3>1. sys_ipc_recv(TRUE)
        BY <2>8 DEF Recv
      <3> QED  BY <2>1, <2>8, <3>1, RecvKeeps, RecvQ, RecvL
    <2>9. CASE LoadFrom(curenv)
      BY <1>1, <2>1, <2>2, <2>9, LoadFromL DEF LoadFrom
    <2>10. CASE LoadValue(curenv)
      <3>1. pc[curenv] = "load_value" /\ UNCHANGED vars
        BY <2>10 DEF LoadValue
      <3>2. curenv = Receiver \/ curenv \in Sending
        BY <2>2, <3>1, WhereSending DEF RecvSteps
      <3> QED  BY <1>1, <2>1, <2>10, <3>1, <3>2, LoadValueReceiver, LoadValueClient
    <2>11. CASE Die(curenv)
      <3>1. Fault
        BY <2>11 DEF Die
      <3> QED  BY <2>1, <2>11, <3>1, FaultKeeps, FaultQ, DieL
    <2>12. CASE Timer
      <3>1. Yield
        BY <2>12 DEF Timer
      <3> QED  BY <2>1, <2>12, <3>1, YieldKeeps, YieldQ, TimerL
    <2> QED  BY <1>3, <2>3, <2>4, <2>5, <2>6, <2>7, <2>8, <2>9, <2>10, <2>11, <2>12
             DEF LibNext, Step
  <1> QED  BY <1>2, <1>3

(* The inductive invariant holds whatever the programs, the clock and the  *)
(* scheduler do.                                                           *)
THEOREM LibInvariance ==
  ASSUME ProgramsFit
  PROVE  LibSpec => [](IInv /\ QInv /\ LInv)
  <1>1. LibInit => IInv /\ QInv /\ LInv
    <2>1. LibInit => Init
      BY DEF LibInit
    <2> QED  BY <2>1, InitHolds, InitQ, LibInitHolds
  <1>2. (IInv /\ QInv /\ LInv) /\ [LibNext]_allVars => (IInv /\ QInv /\ LInv)'
    BY LibNextKeeps
  <1>3. LibSpec => LibInit /\ [][LibNext]_allVars
    BY PTL DEF LibSpec
  <1> QED  BY <1>1, <1>2, <1>3, PTL

(* What ipc_recv has returned, in the words of the proof. *)
LEMMA ReceivedIs ==
  ASSUME LInv, NEW d \in Slots, NEW s \in Slots
  PROVE  /\ Received(d, s) = IF Holds(d, s) THEN Append(Logged(d, s), value[d]) ELSE Logged(d, s)
         /\ Logged(d, s) \in Seq(Values) /\ Len(Logged(d, s)) \in Nat
         /\ Holds(d, s) => value[d] \in Values
  <1>1. env_id[s] = Id(s) /\ AtStep(d)
    BY DEF LInv, IdsStay
  <1>2. Holds(d, s) => value[d] \in Values
    BY <1>1 DEF AtStep, InCall, Holds, InLoad
  <1>3. Logged(d, s) \in Seq(Values)
    BY ValuesType DEF Logged, LInv, LibTypeOK
  <1>4. Len(Logged(d, s)) \in Nat
    BY <1>3
  <1>5. Pending(d, s) <=> Holds(d, s)
    BY <1>1 DEF Pending, Holds, InLoad
  <1>6. Received(d, s) = IF Holds(d, s) THEN Append(Logged(d, s), value[d]) ELSE Logged(d, s)
    BY <1>1, <1>5 DEF Received, Logged
  <1> QED  BY <1>2, <1>3, <1>4, <1>6

LEMMA OnceInv ==
  ASSUME ProgramsFit, LInv
  PROVE  ExactlyOnce
  <1> SUFFICES ASSUME status[Receiver] # "FREE", NEW s \in Sending
               PROVE  LET r == Received(Receiver, s) IN
                      /\ r = [k \in 1..Len(r) |-> k]
                      /\ Len(r) \in {count[s], count[s] + 1}
                      /\ Len(r) = count[s] + 1 => Unconfirmed(s)
    BY DEF ExactlyOnce
  <1>1. Receiver \in Slots /\ s \in Slots /\ s # Receiver
    BY DEF ProgramsFit
  <1>2. /\ AtStep(Receiver) /\ AtStep(s) /\ InOrder(s) /\ count[s] \in Nat
    BY <1>1 DEF LInv, LibTypeOK
  <1>3. PICK r : r = Received(Receiver, s)
    OBVIOUS
  <1>4. CountsUp(r) /\ Len(r) = Delivered(s) /\ Len(r) \in Nat
    <2>1. CASE Holds(Receiver, s)
      <3>1. /\ r = Append(Logged(Receiver, s), value[Receiver])
            /\ Logged(Receiver, s) \in Seq(Values) /\ Len(Logged(Receiver, s)) \in Nat
            /\ value[Receiver] \in Values
        BY <1>1, <1>3, <2>1, ReceivedIs
      <3>2. value[Receiver] = Len(Logged(Receiver, s)) + 1 /\ CountsUp(Logged(Receiver, s))
        BY <1>2, <2>1 DEF InOrder
      <3>3. CountsUp(r) /\ Len(r) = Len(Logged(Receiver, s)) + 1
        BY <3>1, <3>2, CountsOn
      <3> QED  BY <2>1, <3>1, <3>3 DEF Delivered
    <2>2. CASE ~Holds(Receiver, s)
      <3>1. r = Logged(Receiver, s) /\ Len(Logged(Receiver, s)) \in Nat
        BY <1>1, <1>3, <2>2, ReceivedIs
      <3> QED  BY <1>2, <2>2, <3>1 DEF Delivered, InOrder
    <2> QED  BY <2>1, <2>2
  <1>5. Delivered(s) - count[s] \in Untold(s)
    BY <1>2 DEF AtStep, InOrder
  <1>6. Untold(s) \subseteq {0, 1}
    BY DEF Untold
  <1>7. Len(r) \in {count[s], count[s] + 1}
    <2>1. Len(r) - count[s] \in {0, 1}
      BY <1>4, <1>5, <1>6
    <2> QED  BY <1>2, <1>4, <2>1
  <1>8. ASSUME Len(r) = count[s] + 1 PROVE Unconfirmed(s)
    <2>1. 1 \in Untold(s)
      BY <1>2, <1>4, <1>5, <1>8
    <2>2. pc[s] \notin {"try1", "try2", "exit"}
      BY <2>1 DEF Untold
    <2> QED  BY <1>1, <1>2, <2>2 DEF Unconfirmed, AtStep, StepsOf, SendSteps, RecvSteps
  <1> QED  BY <1>3, <1>4, <1>7, <1>8 DEF CountsUp

LEMMA AnswersInv ==
  ASSUME ProgramsFit, LInv
  PROVE  AnswersOwnRequest
  <1> SUFFICES ASSUME service, NEW s \in Sending
               PROVE  LET answers == Received(s, Receiver) IN
                      /\ \A k \in 1..Len(log[s]) : log[s][k][1] = env_id[Receiver]
                      /\ answers = [k \in 1..Len(answers) |-> k]
                      /\ Len(answers) \in {count[s], count[s] + 1}
                      /\ Len(answers) <= Len(Received(Receiver, s))
    BY DEF AnswersOwnRequest
  <1>1. Receiver \in Slots /\ s \in Slots /\ s # Receiver
    BY DEF ProgramsFit
  <1>2. /\ Serves(s) /\ count[s] \in Nat /\ env_id[Receiver] = Id(Receiver)
    BY <1>1 DEF LInv, LibTypeOK, IdsStay
  <1>3. PICK a : a = Received(s, Receiver)
    OBVIOUS
  <1>4. Len(Logged(Receiver, s)) \in Nat /\ Len(Logged(Receiver, s)) <= Len(Received(Receiver, s))
    <2>1. CASE Holds(Receiver, s)
      <3>1. /\ Received(Receiver, s) = Append(Logged(Receiver, s), value[Receiver])
            /\ Logged(Receiver, s) \in Seq(Values) /\ Len(Logged(Receiver, s)) \in Nat
            /\ value[Receiver] \in Values
        BY <1>1, <2>1, ReceivedIs
      <3>2. Len(Received(Receiver, s)) = Len(Logged(Receiver, s)) + 1
        BY <3>1, PushBack
      <3> QED  BY <3>1, <3>2
    <2>2. CASE ~Holds(Receiver, s)
      BY <1>1, <2>2, ReceivedIs
    <2> QED  BY <2>1, <2>2
  <1>5. CASE Holds(s, Receiver)
    <2>1. /\ a = Append(Logged(s, Receiver), value[s])
          /\ Logged(s, Receiver) \in Seq(Values) /\ value[s] \in Values
      BY <1>1, <1>3, <1>5, ReceivedIs
    <2>2. /\ CountsUp(Logged(s, Receiver)) /\ Len(Logged(s, Receiver)) = count[s]
          /\ value[s] = count[s] + 1 /\ Len(Logged(Receiver, s)) = count[s] + 1
      BY <1>2, <1>5 DEF Serves, Holds
    <2>3. CountsUp(a) /\ Len(a) = count[s] + 1
      BY <2>1, <2>2, CountsOn
    <2> QED  BY <1>2, <1>3, <1>4, <2>2, <2>3 DEF CountsUp, Serves
  <1>6. CASE ~Holds(s, Receiver)
    <2>1. a = Logged(s, Receiver)
      BY <1>1, <1>3, <1>6, ReceivedIs
    <2>2. CountsUp(a) /\ Len(a) = count[s] /\ Len(Logged(Receiver, s)) \in {count[s], count[s] + 1}
      BY <1>2, <2>1 DEF Serves
    <2> QED  BY <1>2, <1>3, <1>4, <2>2 DEF CountsUp, Serves
  <1> QED  BY <1>5, <1>6

(* The receiver gets the messages of each sender in the order sent, none   *)
(* twice, and every send that returned: whatever the interleaving of the   *)
(* loads of ipc_recv with other sends and of the retries of ipc_send, for  *)
(* any number of senders and of messages, and whoever dies.                *)
THEOREM DeliveredOnce ==
  ASSUME ProgramsFit
  PROVE  LibSpec => []ExactlyOnce
  BY LibInvariance, OnceInv, PTL

(* A client of the one server takes no other message for the answer to its *)
(* request, and gets none before the server has seen the request.          *)
THEOREM AnswersAreOwn ==
  ASSUME ProgramsFit
  PROVE  LibSpec => []AnswersOwnRequest
  BY LibInvariance, AnswersInv, PTL
=============================================================================

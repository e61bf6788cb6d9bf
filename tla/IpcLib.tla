------------------------------- MODULE IpcLib -------------------------------
(***************************************************************************)
(* ipc_send and ipc_recv of the user library (lib/ipc.c) on top of Kern,   *)
(* in two sets of programs.  Stream: senders send the values 1, 2, ... to  *)
(* one receiver and exit, the receiver receives for ever.  Service: the    *)
(* receiver is a server that answers each message as serve() of fs/serv.c  *)
(* does, and the senders are clients that call fsipc of lib/file.c: they   *)
(* send a request and receive.  Every instruction of the library that      *)
(* enters the kernel or reads the struct Env the kernel writes is a step   *)
(* of its own, so a clock interrupt can fall between any two.              *)
(***************************************************************************)
EXTENDS Kern

CONSTANTS Receiver,   \* slot of the receiving program
          Sending,    \* slots of the sending programs; some may have nothing to send
          MsgBound,   \* messages or requests each sender has to send
          Mortal      \* slots whose program may die of a fault at any time

(* All slots are in use, and the programs tell success from failure. *)
ProgramsFit ==
  /\ NBoot = NENV
  /\ Receiver \in Slots \ {0} /\ Sending \subseteq Slots \ {0, Receiver}
  /\ MsgBound \in Nat \ {0} /\ 1..MsgBound \subseteq Values
  /\ "0" \in Results
  /\ Mortal \subseteq Slots

VARIABLES service,   \* the programs are a server and its clients
          pc,        \* where each program is
          count,     \* of each sender: sends, or as a client calls, that returned
          got,       \* *from_env_store, once ipc_recv has read it
          log        \* what ipc_recv returned: <<from, value>>, oldest first

progVars == <<service, count, got, log>>
userVars == <<service, pc, count, got, log>>
allVars  == <<vars, userVars>>

LibInit ==
  /\ Init
  /\ service \in BOOLEAN
  /\ \E S \in SUBSET Sending :
       pc = [s \in Slots |-> IF s = Receiver THEN "recv"
                             ELSE IF s \in S THEN "try1"
                             ELSE IF s \in Sending THEN "exit" ELSE "idle"]
  /\ count = [s \in Slots |-> 0]
  /\ got = [s \in Slots |-> NoId]
  /\ log = [s \in Slots |-> <<>>]

Goto(s, l) == pc' = [pc EXCEPT ![s] = l]

(* What the programs do with the library.  The server answers a request    *)
(* with its value, and a client waits for the answer.                      *)
SendTo(s)    == IF s = Receiver THEN got[s] ELSE env_id[Receiver]
SendValue(s) == IF s = Receiver THEN log[s][Len(log[s])][2] ELSE count[s] + 1

\* The end of one turn of a sender's loop.
Turn(s) ==
  /\ count' = [count EXCEPT ![s] = @ + 1]
  /\ Goto(s, IF count'[s] < MsgBound THEN "try1" ELSE "exit")

\* mutant: a client does not wait for the answer
AfterSend_NoWait(s) ==
  IF service /\ s = Receiver THEN Goto(s, "recv") /\ UNCHANGED count ELSE Turn(s)

AfterSend(s) == IF service THEN Goto(s, "recv") /\ UNCHANGED count ELSE Turn(s)

AfterRecv(s) ==
  IF s = Receiver THEN Goto(s, IF service THEN "try1" ELSE "recv") /\ UNCHANGED count
  ELSE Turn(s)

(* ipc_send: one try, and one more if the first ends in -E_IPC_NOT_RECV. *)
TrySend(s) ==
  /\ pc[s] \in {"try1", "try2"}
  /\ sys_ipc_try_send(SendTo(s), SendValue(s), FALSE)
  /\ Goto(s, IF pc[s] = "try1" THEN "result1" ELSE "result2")
  /\ UNCHANGED progVars

\* mutant: ipc_send takes -E_IPC_NOT_RECV for success
SendReturns_IgnoresError(s) ==
  /\ pc[s] \in {"result1", "result2"} /\ eax[s] \in {"0", "E_IPC_NOT_RECV"}
  /\ AfterSend(s)
  /\ UNCHANGED <<vars, service, got, log>>

SendReturns(s) ==
  /\ pc[s] \in {"result1", "result2"} /\ eax[s] = "0"
  /\ AfterSend(s)
  /\ UNCHANGED <<vars, service, got, log>>

SendRetries(s) ==
  /\ pc[s] = "result1" /\ eax[s] = "E_IPC_NOT_RECV"
  /\ Goto(s, "try2")
  /\ UNCHANGED <<vars, progVars>>

SendPanics(s) ==
  /\ \/ pc[s] = "result1" /\ eax[s] \notin {"0", "E_IPC_NOT_RECV"}
     \/ pc[s] = "result2" /\ eax[s] # "0"
  /\ Goto(s, "panic")
  /\ UNCHANGED <<vars, progVars>>

(* exit(): sys_env_destroy(0). *)
Exit(s) ==
  /\ pc[s] = "exit"
  /\ sys_env_destroy(NoId)
  /\ Goto(s, "gone")
  /\ UNCHANGED progVars

(* ipc_recv: the call, then the loads of env_ipc_from and of env_ipc_value. *)
Recv(s) ==
  /\ pc[s] = "recv"
  /\ sys_ipc_recv(TRUE)
  /\ Goto(s, "load_from")
  /\ UNCHANGED progVars

LoadFrom(s) ==
  /\ pc[s] = "load_from" /\ eax[s] = "0"
  /\ got' = [got EXCEPT ![s] = from[s]]
  /\ Goto(s, "load_value")
  /\ UNCHANGED <<vars, service, count, log>>

LoadValue(s) ==
  /\ pc[s] = "load_value"
  /\ log' = [log EXCEPT ![s] = Append(@, <<got[s], value[s]>>)]
  /\ AfterRecv(s)
  /\ UNCHANGED <<vars, service, got>>

Die(s) ==
  /\ s \in Mortal
  /\ Fault
  /\ Goto(s, "gone")
  /\ UNCHANGED progVars

Step(s) == \/ TrySend(s) \/ SendReturns(s) \/ SendRetries(s) \/ SendPanics(s) \/ Exit(s)
           \/ Recv(s) \/ LoadFrom(s) \/ LoadValue(s)

Timer == Yield /\ UNCHANGED userVars

LibNext ==
  /\ mode = "user"
  /\ \/ Step(curenv) \/ Die(curenv)
     \/ Timer

(***************************************************************************)
(* Fairness: the clock ticks for ever, and an environment that is          *)
(* scheduled again and again gets through its next instructions (a time    *)
(* slice is many instructions long).  Nobody has to die.                   *)
(***************************************************************************)
LibSpec ==
  /\ LibInit /\ [][LibNext]_allVars
  /\ WF_allVars(mode = "user" /\ Timer)
  /\ \A s \in Slots : SF_allVars(mode = "user" /\ curenv = s /\ Step(s))

-----------------------------------------------------------------------------
(* The values in log q that came from id, oldest first. *)
ValuesFrom(q, id) ==
  LET upto[k \in 0..Len(q)] ==
        IF k = 0 THEN <<>>
        ELSE IF q[k][1] = id THEN Append(upto[k - 1], q[k][2])
        ELSE upto[k - 1]
  IN upto[Len(q)]

\* d has a message of s in its struct Env that ipc_recv has not yet returned.
Pending(d, s) == pc[d] \in {"load_from", "load_value"} /\ ~recving[d] /\ from[d] = env_id[s]

(* The values ipc_recv has returned to d, or is about to, from sender s. *)
Received(d, s) ==
  IF Pending(d, s) THEN Append(ValuesFrom(log[d], env_id[s]), value[d])
  ELSE ValuesFrom(log[d], env_id[s])

\* Sender s has not been told yet that its last message arrived.
Unconfirmed(s) == pc[s] \in {"result1", "result2", "panic", "gone"}
                             \cup IF service THEN {"recv", "load_from", "load_value"} ELSE {}

(* Exactly once and in order: whatever the interleaving of the loads of    *)
(* ipc_recv with other sends and of the retries of ipc_send with other     *)
(* senders, the receiver gets the messages of each sender in the order     *)
(* sent, none twice and none torn; a send (a call) that has returned was   *)
(* delivered, and only the one in progress may be delivered before.        *)
ExactlyOnce ==
  status[Receiver] # "FREE" =>
    \A s \in Sending :
      LET r == Received(Receiver, s) IN
      /\ r = [k \in 1..Len(r) |-> k]
      /\ Len(r) \in {count[s], count[s] + 1}
      /\ Len(r) = count[s] + 1 => Unconfirmed(s)

(* fsipc takes the first message that arrives for the answer (lib/file.c). *)
(* With the clients of one server as its only senders this is right: every *)
(* message a client receives comes from the server, answers its own latest *)
(* request and no other, and a request that the server has not yet seen is *)
(* never answered.                                                         *)
AnswersOwnRequest ==
  service =>
    \A s \in Sending :
      LET answers == Received(s, Receiver) IN
      /\ \A k \in 1..Len(log[s]) : log[s][k][1] = env_id[Receiver]
      /\ answers = [k \in 1..Len(answers) |-> k]
      /\ Len(answers) \in {count[s], count[s] + 1}
      /\ Len(answers) <= Len(Received(Receiver, s))

(* At the start: the others have nothing to send. *)
Lone(s) == pc[s] = "try1" /\ \A o \in Sending \ {s} : pc[o] = "exit"

(* A sender that is alone, and does not die, gets all its messages         *)
(* through, and a client that is alone all its answers: no wakeup is lost  *)
(* between the queue of sys_ipc_try_send, which sys_ipc_recv empties       *)
(* before the receiver sleeps, and the retry of ipc_send, also when server *)
(* and client send to each other in turn.                                  *)
SendTerminates == \A s \in Sending : Lone(s) => <>(count[s] = MsgBound \/ pc[s] = "gone")
=============================================================================

--------------------------- MODULE PrivateMemory ----------------------------
(***************************************************************************)
(* What fork promises (lib/fork.c): every environment has memory of its    *)
(* own.  A child gets the contents of its parent's pages, one page after   *)
(* the other; after that a write is seen by the environment that made it   *)
(* and by nobody else.  The page faults that sharing costs are invisible:  *)
(* while an environment handles one, its memory stays as it is.            *)
(***************************************************************************)
CONSTANTS Envs, Addrs, Values, NoValue

VARIABLES m,        \* m[e][v]: the content of page v of e, NoValue if there is none
          faulting  \* the environments that handle a page fault

PInit ==
  /\ \E S \in SUBSET Envs : \E start \in [S -> [Addrs -> Values]] :
       m = [e \in Envs |-> IF e \in S THEN start[e] ELSE [v \in Addrs |-> NoValue]]
  /\ faulting = {}

PWrite(e, v, x) ==
  /\ e \notin faulting /\ m[e][v] # NoValue
  /\ m' = [m EXCEPT ![e][v] = x] /\ UNCHANGED faulting

PCopy(e, c, v) ==
  /\ e \notin faulting /\ m[e][v] # NoValue /\ m[c][v] = NoValue
  /\ m' = [m EXCEPT ![c][v] = m[e][v]] /\ UNCHANGED faulting

PFault(e)  == e \notin faulting /\ faulting' = faulting \cup {e} /\ UNCHANGED m
PResume(e) == e \in faulting /\ faulting' = faulting \ {e} /\ UNCHANGED m

PExit(e) ==
  /\ e \notin faulting
  /\ m' = [m EXCEPT ![e] = [v \in Addrs |-> NoValue]] /\ UNCHANGED faulting

PNext ==
  \E e \in Envs :
    \/ \E v \in Addrs : \/ \E x \in Values : PWrite(e, v, x)
                        \/ \E c \in Envs : PCopy(e, c, v)
    \/ PFault(e) \/ PResume(e) \/ PExit(e)

PSpec == PInit /\ [][PNext]_<<m, faulting>>
=============================================================================

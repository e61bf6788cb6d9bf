-------------------------------- MODULE Fork --------------------------------
(***************************************************************************)
(* Copy-on-write fork of the user library (lib/fork.c, lib/pgfault.c) and  *)
(* the page fault upcall it needs (page_fault_handler, kern/trap.c).       *)
(*                                                                         *)
(* An environment that runs writes to its memory, forks or exits.  Each    *)
(* system call of fork and of its page fault handler is a step of its own, *)
(* and so is the copying of a page, so all environments interleave between *)
(* any two of them; a forking environment writes its stack as it goes.     *)
(* The system calls are those of LAB4_CHALLENGE6 (inc/challenge.h).        *)
(*                                                                         *)
(* A definition marked `mutant' is a plausible mistake in the code, kept   *)
(* to show that a property notices it; the specification uses none.        *)
(*                                                                         *)
(* A frame is free when nothing maps it (module Pmap has the counts).      *)
(* Page tables always find a page here.                   *)
(***************************************************************************)
EXTENDS Integers

CONSTANTS Envs,     \* environments, and places for more
          Started,  \* those the kernel may create at boot
          Frames,   \* physical pages
          NPages,   \* mapped pages of the program, from UTEXT up to its stack
          Text,     \* those of them that are read-only at the start
          Values,   \* contents of a page; 0 is a cleared one
          None

VPages  == 1..NPages
Stack   == NPages
PFTEMP  == 0              \* below UTEXT
UXSTACK == NPages + 1     \* the page below UXSTACKTOP
VAs     == 0..(NPages + 1)

ASSUME ForkAssumption ==
  /\ Started \subseteq Envs /\ Started # {} /\ None \notin Frames /\ None \notin Envs
  /\ NPages \in Nat \ {0} /\ Text \subseteq VPages \ {Stack}
  /\ 0 \in Values /\ None \notin Values

VARIABLES tab,      \* tab[e][v]: the frame at page v of e, or None
          perm,     \* perm[e][v]: "RO", "W" or "COW"
          val,      \* the contents of the frames
          at,       \* where each environment is, "free" if there is none
          child,    \* fork: the new environment,
          next,     \*   and the next page to duplicate
          pf,       \* pgfault: its next step ("no": not running),
          va,       \*   and the page the fault was on
          upcall,   \* env_pgfault_upcall is set
          handler   \* _pgfault_handler is set

memVars  == <<tab, perm, val>>
forkVars == <<child, next>>
pfVars   == <<pf, va>>
regVars  == <<upcall, handler>>
vars     == <<memVars, at, forkVars, pfVars, regVars>>

TypeOK ==
  /\ tab  \in [Envs -> [VAs -> Frames \cup {None}]]
  /\ perm \in [Envs -> [VAs -> {"RO", "W", "COW"}]]
  /\ val  \in [Frames -> Values]
  /\ at   \in [Envs -> {"free", "new", "run", "exofork", "dup", "panic"}]
  /\ child \in [Envs -> Envs \cup {None}] /\ next \in [Envs -> 1..(NPages + 1)]
  /\ pf   \in [Envs -> {"no", "alloc", "copy", "map", "unmap", "return"}]
  /\ va   \in [Envs -> VPages]
  /\ upcall \in [Envs -> BOOLEAN] /\ handler \in [Envs -> BOOLEAN]

FreeFrames == {p \in Frames : \A e \in Envs, v \in VAs : tab[e][v] # p}

Init == \E S \in (SUBSET Started) \ {{}} :
  /\ \E f \in [S \X VPages -> Frames] :
       /\ \A x, y \in S \X VPages : f[x] = f[y] => x = y
       /\ tab = [e \in Envs |-> [v \in VAs |-> IF e \in S /\ v \in VPages THEN f[e, v] ELSE None]]
  /\ perm = [e \in Envs |-> [v \in VAs |-> IF e \in S /\ v \in VPages \ Text THEN "W" ELSE "RO"]]
  /\ val = [p \in Frames |-> 0]
  /\ at = [e \in Envs |-> IF e \in S THEN "run" ELSE "free"]
  /\ child = [e \in Envs |-> None] /\ next = [e \in Envs |-> 1]
  /\ pf = [e \in Envs |-> "no"] /\ va = [e \in Envs |-> 1]
  /\ upcall = [e \in Envs |-> FALSE] /\ handler = [e \in Envs |-> FALSE]

\* e executes the code of its program, or of fork; not its fault handler.
Executes(e, where) == at[e] \in where /\ pf[e] = "no"

\* panic() of the library: e runs no further.
panic(e) ==
  /\ at' = [at EXCEPT ![e] = "panic"]
  /\ UNCHANGED <<memVars, forkVars, pfVars, regVars>>

\* Frame p, cleared, at page v of e with permission W.
Alloc(e, v, p) ==
  /\ tab'  = [tab EXCEPT ![e][v] = p]
  /\ perm' = [perm EXCEPT ![e][v] = "W"]
  /\ val'  = [val EXCEPT ![p] = 0]

\* The end of e.
Leave(e) ==
  /\ tab'     = [tab EXCEPT ![e] = [v \in VAs |-> None]]
  /\ perm'    = [perm EXCEPT ![e] = [v \in VAs |-> "RO"]]
  /\ at'      = [at EXCEPT ![e] = "free"]
  /\ child'   = [child EXCEPT ![e] = None] /\ next' = [next EXCEPT ![e] = 1]
  /\ pf'      = [pf EXCEPT ![e] = "no"] /\ va' = [va EXCEPT ![e] = 1]
  /\ upcall'  = [upcall EXCEPT ![e] = FALSE]
  /\ handler' = [handler EXCEPT ![e] = FALSE]
  /\ UNCHANGED val

Exit(e) == Executes(e, {"run"}) /\ Leave(e)

-----------------------------------------------------------------------------
(* A store to page v.  Code of fork stores to the stack, and to the data   *)
(* page of _pgfault_handler before it calls sys_exofork.                   *)
MayStore(e, v) ==
  \/ Executes(e, {"run"}) /\ v \in VPages
  \/ Executes(e, {"exofork"}) /\ v \in VPages \ Text
  \/ Executes(e, {"dup"}) /\ v = Stack

Store(e, v, x) ==
  /\ MayStore(e, v) /\ tab[e][v] # None /\ perm[e][v] = "W"
  /\ val' = [val EXCEPT ![tab[e][v]] = x]
  /\ UNCHANGED <<tab, perm, at, forkVars, pfVars, regVars>>

(* page_fault_handler: to the upcall, if there is one and an exception stack. *)
page_fault_handler(e, v) ==
  /\ MayStore(e, v) /\ tab[e][v] # None /\ perm[e][v] # "W"
  /\ \/ /\ upcall[e] /\ tab[e][UXSTACK] # None /\ perm[e][UXSTACK] = "W"
        /\ pf' = [pf EXCEPT ![e] = "alloc"] /\ va' = [va EXCEPT ![e] = v]
        /\ UNCHANGED <<memVars, at, forkVars, regVars>>
     \/ /\ ~(upcall[e] /\ tab[e][UXSTACK] # None /\ perm[e][UXSTACK] = "W")
        /\ Leave(e)

-----------------------------------------------------------------------------
(* pgfault.  Its check refuses an address only if it has neither a page    *)
(* table nor a copy-on-write mark: a store to a mapped page always passes, *)
(* a read-only page included, and becomes a store to a writable copy.      *)
PfStep(e, from, to) == pf[e] = from /\ pf' = [pf EXCEPT ![e] = to]

pgfault_alloc(e) ==
  \/ pf[e] = "alloc" /\ FreeFrames = {} /\ panic(e)
  \/ /\ PfStep(e, "alloc", "copy")
     /\ \E p \in FreeFrames : Alloc(e, PFTEMP, p)
     /\ UNCHANGED <<at, forkVars, va, regVars>>

\* mutant: no memmove
pgfault_copy_Skipped(e) ==
  PfStep(e, "copy", "map") /\ UNCHANGED <<memVars, at, forkVars, va, regVars>>

pgfault_copy(e) ==
  /\ PfStep(e, "copy", "map")
  /\ val' = [val EXCEPT ![tab[e][PFTEMP]] = val[tab[e][va[e]]]]
  /\ UNCHANGED <<tab, perm, at, forkVars, va, regVars>>

pgfault_map(e) ==
  /\ PfStep(e, "map", "unmap")
  /\ tab'  = [tab EXCEPT ![e][va[e]] = tab[e][PFTEMP]]
  /\ perm' = [perm EXCEPT ![e][va[e]] = "W"]
  /\ UNCHANGED <<val, at, forkVars, va, regVars>>

pgfault_unmap(e) ==
  /\ PfStep(e, "unmap", "return")
  /\ tab'  = [tab EXCEPT ![e][PFTEMP] = None]
  /\ perm' = [perm EXCEPT ![e][PFTEMP] = "RO"]
  /\ UNCHANGED <<val, at, forkVars, va, regVars>>

pgfault(e) ==
  /\ at[e] # "panic"
  /\ pgfault_alloc(e) \/ pgfault_copy(e) \/ pgfault_map(e) \/ pgfault_unmap(e)

(* The end of _pgfault_upcall pushes the trap-time eip on the stack of the *)
(* program, below what it has in use.  That store may fault in turn, on    *)
(* the exception stack, and is repeated when the second handler is done.   *)
_pgfault_upcall(e) ==
  \/ /\ perm[e][Stack] = "W" /\ PfStep(e, "return", "no")
     /\ UNCHANGED <<memVars, at, forkVars, va, regVars>>
  \/ /\ perm[e][Stack] # "W" /\ PfStep(e, "return", "alloc")
     /\ va' = [va EXCEPT ![e] = Stack]
     /\ UNCHANGED <<memVars, at, forkVars, regVars>>

-----------------------------------------------------------------------------
(* fork begins: an exception stack and the upcall, the first time. *)
set_pgfault_handler(e) ==
  /\ Executes(e, {"run"})
  /\ \/ ~handler[e] /\ FreeFrames = {} /\ panic(e)
     \/ /\ ~handler[e]
        /\ \E p \in FreeFrames : Alloc(e, UXSTACK, p)
        /\ upcall'  = [upcall EXCEPT ![e] = TRUE]
        /\ handler' = [handler EXCEPT ![e] = TRUE]
        /\ at' = [at EXCEPT ![e] = "exofork"]
        /\ UNCHANGED <<forkVars, pfVars>>
     \/ /\ handler[e]
        /\ at' = [at EXCEPT ![e] = "exofork"]
        /\ UNCHANGED <<memVars, forkVars, pfVars, regVars>>

sys_exofork(e) ==
  /\ Executes(e, {"exofork"})
  /\ \/ (\A c \in Envs : at[c] # "free") /\ panic(e)
     \/ \E c \in Envs :
          /\ at[c] = "free"
          /\ at' = [at EXCEPT ![e] = "dup", ![c] = "new"]
          /\ child' = [child EXCEPT ![e] = c]
          /\ next' = [next EXCEPT ![e] = 1]
          /\ UNCHANGED <<memVars, pfVars, regVars>>

\* mutant: the parent's mapping stays writable
duppage_ParentKeeps(e, c, v) ==
  LET p == IF perm[e][v] = "RO" THEN "RO" ELSE "COW" IN
  /\ tab'  = [tab EXCEPT ![c][v] = tab[e][v]]
  /\ perm' = [perm EXCEPT ![c][v] = p]

(* duppage: one call that maps the page in the child, then again in the    *)
(* parent.  The loop of fork skips addresses that are not mapped.          *)
duppage(e, c, v) ==
  LET p == IF perm[e][v] = "RO" THEN "RO" ELSE "COW" IN
  /\ tab'  = [tab EXCEPT ![c][v] = tab[e][v]]
  /\ perm' = [perm EXCEPT ![c][v] = p, ![e][v] = p]

\* mutant: the loop runs up to UXSTACKTOP
ForkPage_Further(e) ==
  /\ Executes(e, {"dup"}) /\ next[e] \in VPages \cup {UXSTACK}
  /\ duppage(e, child[e], next[e])
  /\ next' = [next EXCEPT ![e] = @ + 1]
  /\ UNCHANGED <<val, at, child, pfVars, regVars>>

ForkPage(e) ==
  /\ Executes(e, {"dup"}) /\ next[e] \in VPages
  /\ duppage(e, child[e], next[e])
  /\ next' = [next EXCEPT ![e] = @ + 1]
  /\ UNCHANGED <<val, at, child, pfVars, regVars>>

\* mutant: the child gets no upcall
ForkDone_NoUpcall(e) ==
  /\ Executes(e, {"dup"}) /\ next[e] = NPages + 1
  /\ \E p \in FreeFrames : Alloc(child[e], UXSTACK, p)
  /\ at'    = [at EXCEPT ![e] = "run", ![child[e]] = "run"]
  /\ child' = [child EXCEPT ![e] = None]
  /\ next'  = [next EXCEPT ![e] = 1]
  /\ UNCHANGED <<pfVars, regVars>>

(* SYS_uxstack_pgfault_status: the child's exception stack and upcall, and it may run. *)
ForkDone(e) ==
  /\ Executes(e, {"dup"}) /\ next[e] = NPages + 1
  /\ \/ FreeFrames = {} /\ panic(e)
     \/ LET c == child[e] IN
        /\ \E p \in FreeFrames : Alloc(c, UXSTACK, p)
        /\ upcall'  = [upcall EXCEPT ![c] = TRUE]
        /\ handler' = [handler EXCEPT ![c] = handler[e]]
        /\ at'      = [at EXCEPT ![e] = "run", ![c] = "run"]
        /\ child'   = [child EXCEPT ![e] = None]
        /\ next'    = [next EXCEPT ![e] = 1]
        /\ UNCHANGED pfVars

Next ==
  \E e \in Envs :
    \/ \E v \in VPages : page_fault_handler(e, v) \/ \E x \in Values : Store(e, v, x)
    \/ pgfault(e) \/ _pgfault_upcall(e)
    \/ set_pgfault_handler(e) \/ sys_exofork(e) \/ ForkPage(e) \/ ForkDone(e)
    \/ Exit(e)

Spec == Init /\ [][Next]_vars

-----------------------------------------------------------------------------
(* A frame somebody can write is nobody else's: not while a page is being  *)
(* duplicated, and not while a fault handler moves its copy into place.    *)
WritersAlone ==
  \A e, o \in Envs, v, w \in VAs :
    tab[e][v] # None /\ perm[e][v] = "W" /\ tab[o][w] = tab[e][v] => o = e

(* An environment with a page to copy can take the fault: fork lets the    *)
(* child run only when it has an upcall and an exception stack of its own  *)
(* ("Neither user exception stack should ever be marked copy-on-write",    *)
(* lib/fork.c).                                                            *)
CowHandled ==
  \A e \in Envs : at[e] \notin {"free", "new"} /\ (\E v \in VPages : tab[e][v] # None /\ perm[e][v] = "COW")
    => upcall[e] /\ handler[e] /\ tab[e][UXSTACK] # None /\ perm[e][UXSTACK] = "W"

(* Forking gives private memory: with all the steps of fork, of stores and *)
(* of fault handlers interleaved, no environment ever sees the contents of *)
(* one of its pages change but by its own store, and none at all while its *)
(* fault handler copies a page and maps the copy.                          *)
Private == INSTANCE PrivateMemory WITH
  Addrs <- VPages, NoValue <- None, faulting <- {e \in Envs : pf[e] # "no"},
  m <- [e \in Envs |-> [v \in VPages |-> IF tab[e][v] = None THEN None ELSE val[tab[e][v]]]]
ImplementsPrivateMemory == Private!PSpec
=============================================================================

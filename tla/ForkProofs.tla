----------------------------- MODULE ForkProofs -----------------------------
(***************************************************************************)
(* Proofs about copy-on-write fork (module Fork): a frame that somebody    *)
(* can write is nobody else's, every environment can take the faults it    *)
(* will have, and together they give private memory (PrivateMemory).       *)
(***************************************************************************)
EXTENDS Fork, TLAPS

(* Between its two last system calls pgfault has the copy mapped twice. *)
Moving(e, v, w) ==
  /\ pf[e] = "unmap"
  /\ (v = PFTEMP /\ w = va[e]) \/ (v = va[e] /\ w = PFTEMP)

(* WritersAlone, and inside an environment too: a frame that can be        *)
(* written at one page is mapped at no other page.                         *)
Alone ==
  \A e, o \in Envs, v, w \in VAs :
    tab[e][v] # None /\ perm[e][v] = "W" /\ tab[o][w] = tab[e][v]
      => o = e /\ (w = v \/ Moving(e, v, w))

(* An environment that runs has all the pages of the program, and one that *)
(* is free none.                                                           *)
Alive(e) == at[e] \notin {"free", "new"}

Loaded(e) ==
  /\ at[e] = "free" => \A v \in VAs : tab[e][v] = None
  /\ Alive(e) => \A v \in VPages : tab[e][v] # None

(* Where the fault handler of e is. *)
Handling(e) ==
  /\ pf[e] # "no" => Alive(e)
  /\ pf[e] \in {"copy", "map"} => tab[e][PFTEMP] # None /\ perm[e][PFTEMP] = "W"
  /\ pf[e] = "map" => val[tab[e][PFTEMP]] = val[tab[e][va[e]]]

(* e can take a page fault, as it must when it forks or has a page to copy. *)
Ready(e) == upcall[e] /\ handler[e] /\ tab[e][UXSTACK] # None /\ perm[e][UXSTACK] = "W"

Prepared(e) ==
  /\ handler[e] => Ready(e)
  /\ at[e] \in {"exofork", "dup"} => handler[e]
  /\ Alive(e) /\ (\E v \in VPages : tab[e][v] # None /\ perm[e][v] = "COW") => handler[e]

EnvGood(e) == Loaded(e) /\ Handling(e) /\ Prepared(e)

(* The child that e makes does not run, has the pages up to the next one   *)
(* to duplicate, and is nobody else's.                                     *)
ChildGood(e) ==
  at[e] = "dup" =>
    /\ child[e] \in Envs /\ at[child[e]] = "new"
    /\ \A v \in VPages : tab[child[e]][v] # None <=> v < next[e]
    /\ \A o \in Envs : at[o] = "dup" /\ child[o] = child[e] => o = e

(***************************************************************************)
(* The inductive invariant.                                                *)
(***************************************************************************)
MInv == TypeOK /\ Alone /\ (\A e \in Envs : EnvGood(e)) /\ (\A e \in Envs : ChildGood(e))

-----------------------------------------------------------------------------
(* Types, and what a step leaves alone. *)

(* Where the pages are. *)
LEMMA PageFacts ==
  /\ VPages \subseteq VAs /\ PFTEMP \in VAs /\ UXSTACK \in VAs /\ Stack \in VPages /\ 1 \in VPages
  /\ PFTEMP \notin VPages /\ UXSTACK \notin VPages /\ PFTEMP # UXSTACK
  BY ForkAssumption DEF VPages, VAs, PFTEMP, UXSTACK, Stack

(* The types of single entries. *)
LEMMA StateParts ==
  ASSUME TypeOK, NEW e \in Envs
  PROVE  /\ \A v \in VAs : tab[e][v] \in Frames \cup {None} /\ perm[e][v] \in {"RO", "W", "COW"}
         /\ va[e] \in VPages /\ va[e] \in VAs /\ va[e] # PFTEMP /\ va[e] # UXSTACK
         /\ tab[e] \in [VAs -> Frames \cup {None}] /\ perm[e] \in [VAs -> {"RO", "W", "COW"}]
  BY PageFacts DEF TypeOK

(* The step changes nothing that o has, and no frame that o maps. *)
Untouched(o) ==
  /\ tab'[o] = tab[o] /\ perm'[o] = perm[o] /\ at'[o] = at[o]
  /\ pf'[o] = pf[o] /\ va'[o] = va[o] /\ upcall'[o] = upcall[o] /\ handler'[o] = handler[o]
  /\ child'[o] = child[o] /\ next'[o] = next[o]
  /\ \A w \in VAs : tab[o][w] # None => val'[tab[o][w]] = val[tab[o][w]]

(* What is untouched stays good. *)
LEMMA UntouchedGood ==
  ASSUME TypeOK, NEW o \in Envs, EnvGood(o), Untouched(o)
  PROVE  EnvGood(o)'
  <1>1. va[o] \in VPages /\ va[o] \in VAs /\ PFTEMP \in VAs
    BY StateParts, PageFacts
  <1>2. Loaded(o)' /\ Prepared(o)'
    BY DEF EnvGood, Untouched, Loaded, Prepared, Alive, Ready
  <1>3. pf[o] = "map" => val'[tab[o][PFTEMP]] = val'[tab[o][va[o]]]
    BY <1>1 DEF EnvGood, Untouched, Loaded, Handling
  <1>4. Handling(o)'
    BY <1>1, <1>3 DEF EnvGood, Untouched, Handling, Alive
  <1> QED  BY <1>2, <1>4 DEF EnvGood

(* A step of one environment, that is or stays no child under construction *)
(* and does not begin to duplicate pages.                                  *)
LEMMA OneEnv ==
  ASSUME MInv, NEW e \in Envs, Alive(e), at'[e] # "new",
         at'[e] = "dup" => at[e] = "dup" /\ child'[e] = child[e] /\ next'[e] = next[e],
         \A o \in Envs \ {e} : Untouched(o),
         TypeOK', Alone', EnvGood(e)'
  PROVE  MInv'
  <1>1. \A o \in Envs : EnvGood(o)'
    BY UntouchedGood DEF MInv
  <1>2. ASSUME NEW o \in Envs PROVE ChildGood(o)'
    <2> SUFFICES ASSUME at'[o] = "dup"
                 PROVE  /\ child'[o] \in Envs /\ at'[child'[o]] = "new"
                        /\ \A v \in VPages : tab'[child'[o]][v] # None <=> v < next'[o]
                        /\ \A p \in Envs : at'[p] = "dup" /\ child'[p] = child'[o] => p = o
      BY DEF ChildGood
    <2>1. at[o] = "dup" /\ child'[o] = child[o] /\ next'[o] = next[o] /\ ChildGood(o)
      BY DEF Untouched, MInv
    <2>2. child[o] \in Envs /\ at[child[o]] = "new" /\ child[o] # e
      BY <2>1 DEF ChildGood, Alive
    <2>3. at'[child[o]] = at[child[o]] /\ tab'[child[o]] = tab[child[o]]
      BY <2>2 DEF Untouched
    <2>4. ASSUME NEW p \in Envs, at'[p] = "dup", child'[p] = child'[o] PROVE p = o
      <3>1. at[p] = "dup" /\ child[p] = child[o]
        BY <2>1, <2>4 DEF Untouched
      <3> QED  BY <2>1, <3>1 DEF ChildGood
    <2> QED  BY <2>1, <2>2, <2>3, <2>4 DEF ChildGood
  <1> QED  BY <1>1, <1>2 DEF MInv

(* A step that changes no mapping leaves the writers alone. *)
LEMMA AloneKept ==
  ASSUME Alone, UNCHANGED <<tab, perm>>,
         \A e \in Envs : pf[e] = "unmap" => pf'[e] = "unmap" /\ va'[e] = va[e]
  PROVE  Alone'
  BY DEF Alone, Moving

(* A frame that e can write at page v is mapped nowhere else, unless pgfault *)
(* has it mapped twice.                                                      *)
LEMMA OnlyMapping ==
  ASSUME Alone, NEW e \in Envs, NEW v \in VAs, tab[e][v] # None, perm[e][v] = "W",
         pf[e] # "unmap",
         NEW o \in Envs, NEW w \in VAs, tab[o][w] = tab[e][v]
  PROVE  o = e /\ w = v
  BY DEF Alone, Moving

(* Allocating a frame that nobody maps. *)
LEMMA AllocFacts ==
  ASSUME TypeOK, Alone, NEW e \in Envs, NEW v \in VAs, NEW p \in FreeFrames, Alloc(e, v, p),
         pf[e] # "unmap", \A o \in Envs \ {e} : pf'[o] = pf[o] /\ va'[o] = va[o]
  PROVE  /\ tab' \in [Envs -> [VAs -> Frames \cup {None}]]
         /\ perm' \in [Envs -> [VAs -> {"RO", "W", "COW"}]]
         /\ val' \in [Frames -> Values]
         /\ tab'[e][v] # None /\ perm'[e][v] = "W"
         /\ \A w \in VAs \ {v} : tab'[e][w] = tab[e][w] /\ perm'[e][w] = perm[e][w]
         /\ \A o \in Envs \ {e} : tab'[o] = tab[o] /\ perm'[o] = perm[o]
         /\ \A o \in Envs, w \in VAs : tab[o][w] # None => val'[tab[o][w]] = val[tab[o][w]]
         /\ Alone'
  <1>1. /\ p \in Frames /\ p # None
        /\ \A o \in Envs, w \in VAs : tab[o][w] # p
    BY ForkAssumption DEF FreeFrames
  <1>2. /\ tab \in [Envs -> [VAs -> Frames \cup {None}]]
        /\ perm \in [Envs -> [VAs -> {"RO", "W", "COW"}]] /\ val \in [Frames -> Values]
    BY DEF TypeOK
  <1>3. /\ tab' = [tab EXCEPT ![e][v] = p] /\ perm' = [perm EXCEPT ![e][v] = "W"]
        /\ val' = [val EXCEPT ![p] = 0]
    BY DEF Alloc
  <1>4. /\ tab' \in [Envs -> [VAs -> Frames \cup {None}]] /\ tab'[e][v] = p
        /\ \A w \in VAs \ {v} : tab'[e][w] = tab[e][w]
        /\ \A o \in Envs \ {e} : tab'[o] = tab[o]
    BY <1>1, <1>2, <1>3
  <1>5. /\ perm' \in [Envs -> [VAs -> {"RO", "W", "COW"}]] /\ perm'[e][v] = "W"
        /\ \A w \in VAs \ {v} : perm'[e][w] = perm[e][w]
        /\ \A o \in Envs \ {e} : perm'[o] = perm[o]
    BY <1>2, <1>3
  <1>6. val' \in [Frames -> Values] /\ \A q \in Frames \ {p} : val'[q] = val[q]
    BY <1>2, <1>3, ForkAssumption
  <1>7. \A o \in Envs, w \in VAs : tab[o][w] # None => val'[tab[o][w]] = val[tab[o][w]]
    BY <1>1, <1>2, <1>6
  <1>8. \A o \in Envs, w \in VAs : (tab'[o][w] = p) <=> (o = e /\ w = v)
    BY <1>1, <1>4
  <1>9. Alone'
    <2> SUFFICES ASSUME NEW a \in Envs, NEW o \in Envs, NEW x \in VAs, NEW w \in VAs,
                        tab'[a][x] # None, perm'[a][x] = "W", tab'[o][w] = tab'[a][x]
                 PROVE  o = a /\ (w = x \/ Moving(a, x, w)')
      BY DEF Alone
    <2>1. CASE a = e /\ x = v
      BY <1>8, <2>1
    <2>2. CASE ~(a = e /\ x = v)
      <3>1. ~(o = e /\ w = v)
        BY <1>8, <2>2
      <3>2. tab[a][x] = tab'[a][x] /\ perm[a][x] = "W" /\ tab[o][w] = tab[a][x]
        BY <1>4, <1>5, <2>2, <3>1
      <3>3. o = a /\ (w = x \/ Moving(a, x, w))
        BY <3>2 DEF Alone
      <3> QED  BY <3>3 DEF Moving
    <2> QED  BY <2>1, <2>2
  <1> QED  BY <1>1, <1>4, <1>5, <1>6, <1>7, <1>9

-----------------------------------------------------------------------------
(* The steps of one environment. *)

(* panic. *)
LEMMA PanicKeeps ==
  ASSUME MInv, NEW e \in Envs, Alive(e), panic(e)
  PROVE  MInv'
  <1>1. /\ UNCHANGED <<tab, perm, val, child, next, pf, va, upcall, handler>>
        /\ at' = [at EXCEPT ![e] = "panic"]
    BY DEF panic, memVars, forkVars, pfVars, regVars
  <1>2. TypeOK' /\ at'[e] = "panic" /\ \A o \in Envs \ {e} : at'[o] = at[o]
    BY <1>1 DEF MInv, TypeOK
  <1>3. \A o \in Envs \ {e} : Untouched(o)
    BY <1>1, <1>2 DEF Untouched
  <1>4. Alone'
    BY <1>1, AloneKept DEF MInv
  <1>5. EnvGood(e)'
    BY <1>1, <1>2 DEF MInv, EnvGood, Loaded, Handling, Prepared, Ready, Alive
  <1> QED  BY <1>2, <1>3, <1>4, <1>5, OneEnv

(* The end of an environment. *)
LEMMA LeaveKeeps ==
  ASSUME MInv, NEW e \in Envs, Alive(e), pf[e] = "no", Leave(e)
  PROVE  MInv'
  <1>1. TypeOK'
    <2>1. 1 \in VPages /\ 1 \in 1..(NPages + 1)
      BY ForkAssumption DEF VPages
    <2>2. [v \in VAs |-> None] \in [VAs -> Frames \cup {None}] /\ [v \in VAs |-> "RO"] \in [VAs -> {"RO", "W", "COW"}]
      OBVIOUS
    <2> QED  BY <2>1, <2>2 DEF MInv, TypeOK, Leave
  <1>2. /\ \A v \in VAs : tab'[e][v] = None /\ perm'[e][v] = "RO"
        /\ at'[e] = "free" /\ pf'[e] = "no" /\ handler'[e] = FALSE
    BY DEF MInv, TypeOK, Leave
  <1>3. \A o \in Envs \ {e} : Untouched(o)
    BY DEF MInv, TypeOK, Leave, Untouched
  <1>4. Alone'
    <2> SUFFICES ASSUME NEW a \in Envs, NEW o \in Envs, NEW x \in VAs, NEW w \in VAs,
                        tab'[a][x] # None, perm'[a][x] = "W", tab'[o][w] = tab'[a][x]
                 PROVE  o = a /\ (w = x \/ Moving(a, x, w)')
      BY DEF Alone
    <2>1. a # e /\ o # e
      BY <1>2
    <2> QED  BY <1>3, <2>1 DEF MInv, Alone, Moving, Untouched
  <1>5. EnvGood(e)'
    BY <1>2 DEF EnvGood, Loaded, Handling, Prepared, Alive
  <1> QED  BY <1>1, <1>2, <1>3, <1>4, <1>5, OneEnv

(* An environment that may store is alive and not in its handler. *)
LEMMA StorerAlive ==
  ASSUME NEW e \in Envs, NEW v, MayStore(e, v)
  PROVE  Alive(e) /\ pf[e] = "no"
  BY DEF MayStore, Executes, Alive

(* A store: nobody else maps the frame, and e has it at one page only. *)
LEMMA StoreFacts ==
  ASSUME MInv, NEW e \in Envs, NEW v \in VPages, NEW x \in Values, Store(e, v, x)
  PROVE  /\ Alive(e) /\ pf[e] = "no"
         /\ UNCHANGED <<tab, perm, at, child, next, pf, va, upcall, handler>>
         /\ tab[e][v] \in Frames /\ val' \in [Frames -> Values] /\ val'[tab[e][v]] = x
         /\ \A o \in Envs, w \in VAs : tab[o][w] # None /\ ~(o = e /\ w = v)
                                         => val'[tab[o][w]] = val[tab[o][w]]
  <1>1. /\ Alive(e) /\ pf[e] = "no" /\ tab[e][v] # None /\ perm[e][v] = "W" /\ v \in VAs
        /\ UNCHANGED <<tab, perm, at, child, next, pf, va, upcall, handler>>
        /\ val' = [val EXCEPT ![tab[e][v]] = x]
    BY StorerAlive, PageFacts DEF Store, forkVars, pfVars, regVars
  <1>2. tab[e][v] \in Frames /\ val \in [Frames -> Values]
    BY <1>1, StateParts DEF MInv, TypeOK
  <1>3. ASSUME NEW o \in Envs, NEW w \in VAs, tab[o][w] # None, ~(o = e /\ w = v)
        PROVE  val'[tab[o][w]] = val[tab[o][w]]
    <2>1. tab[o][w] # tab[e][v]
      BY <1>1, <1>3, OnlyMapping DEF MInv
    <2>2. tab[o][w] \in Frames
      BY <1>3, StateParts DEF MInv
    <2> QED  BY <1>1, <1>2, <2>1, <2>2
  <1> QED  BY <1>1, <1>2, <1>3

(* Store. *)
LEMMA StoreKeeps ==
  ASSUME MInv, NEW e \in Envs, NEW v \in VPages, NEW x \in Values, Store(e, v, x)
  PROVE  MInv'
  <1>1. /\ Alive(e) /\ pf[e] = "no"
        /\ UNCHANGED <<tab, perm, at, child, next, pf, va, upcall, handler>>
        /\ val' \in [Frames -> Values]
        /\ \A o \in Envs, w \in VAs : tab[o][w] # None /\ ~(o = e /\ w = v)
                                        => val'[tab[o][w]] = val[tab[o][w]]
    BY StoreFacts
  <1>2. TypeOK'
    BY <1>1 DEF MInv, TypeOK
  <1>3. \A o \in Envs \ {e} : Untouched(o)
    BY <1>1 DEF Untouched
  <1>4. Alone'
    BY <1>1, AloneKept DEF MInv
  <1>5. EnvGood(e)'
    BY <1>1 DEF MInv, EnvGood, Loaded, Handling, Prepared, Ready, Alive
  <1> QED  BY <1>1, <1>2, <1>3, <1>4, <1>5, OneEnv DEF Alive

(* The handler of e goes on without any change to memory. *)
LEMMA PfKeeps ==
  ASSUME MInv, NEW e \in Envs, Alive(e), pf[e] # "unmap",
         NEW q \in {"no", "alloc"}, pf' = [pf EXCEPT ![e] = q],
         va' \in [Envs -> VPages], \A o \in Envs \ {e} : va'[o] = va[o],
         UNCHANGED <<memVars, at, forkVars, regVars>>
  PROVE  MInv'
  <1>1. UNCHANGED <<tab, perm, val, at, child, next, upcall, handler>>
    BY DEF memVars, forkVars, regVars
  <1>2. TypeOK' /\ pf'[e] = q /\ \A o \in Envs \ {e} : pf'[o] = pf[o]
    BY <1>1 DEF MInv, TypeOK
  <1>3. \A o \in Envs \ {e} : Untouched(o)
    BY <1>1, <1>2 DEF Untouched
  <1>4. Alone'
    BY <1>1, <1>2, AloneKept DEF MInv
  <1>5. EnvGood(e)'
    BY <1>1, <1>2 DEF MInv, EnvGood, Loaded, Handling, Prepared, Ready, Alive
  <1> QED  BY <1>1, <1>2, <1>3, <1>4, <1>5, OneEnv DEF Alive

(* page_fault_handler. *)
LEMMA FaultKeeps ==
  ASSUME MInv, NEW e \in Envs, NEW v \in VPages, page_fault_handler(e, v)
  PROVE  MInv'
  <1>1. Alive(e) /\ pf[e] = "no"
    BY StorerAlive DEF page_fault_handler
  <1>2. CASE Leave(e)
    BY <1>1, <1>2, LeaveKeeps
  <1>3. CASE /\ pf' = [pf EXCEPT ![e] = "alloc"] /\ va' = [va EXCEPT ![e] = v]
             /\ UNCHANGED <<memVars, at, forkVars, regVars>>
    <2>1. va' \in [Envs -> VPages] /\ \A o \in Envs \ {e} : va'[o] = va[o]
      BY <1>3 DEF MInv, TypeOK
    <2> QED  BY <1>1, <1>3, <2>1, PfKeeps
  <1> QED  BY <1>2, <1>3 DEF page_fault_handler

(* The end of _pgfault_upcall. *)
LEMMA UpcallKeeps ==
  ASSUME MInv, NEW e \in Envs, _pgfault_upcall(e)
  PROVE  MInv'
  <1>1. pf[e] = "return"
    BY DEF _pgfault_upcall, PfStep
  <1>2. Alive(e)
    BY <1>1 DEF MInv, EnvGood, Handling
  <1>3. PICK q \in {"no", "alloc"} :
          /\ pf' = [pf EXCEPT ![e] = q] /\ UNCHANGED <<memVars, at, forkVars, regVars>>
          /\ va' = va \/ va' = [va EXCEPT ![e] = Stack]
    BY DEF _pgfault_upcall, PfStep
  <1>4. va' \in [Envs -> VPages] /\ \A o \in Envs \ {e} : va'[o] = va[o]
    BY <1>3, PageFacts DEF MInv, TypeOK
  <1> QED  BY <1>1, <1>2, <1>3, <1>4, PfKeeps

(* A handler that runs belongs to an environment that is alive. *)
LEMMA HandlerAlive ==
  ASSUME MInv, NEW e \in Envs, pf[e] # "no"
  PROVE  Alive(e) /\ \A v \in VPages : tab[e][v] # None
  BY DEF MInv, EnvGood, Handling, Loaded

(* One step of the handler. *)
LEMMA PfStepFacts ==
  ASSUME TypeOK, NEW e \in Envs, NEW from, NEW to, PfStep(e, from, to),
         to \in {"no", "alloc", "copy", "map", "unmap", "return"}
  PROVE  /\ pf[e] = from /\ pf'[e] = to /\ \A o \in Envs \ {e} : pf'[o] = pf[o]
         /\ pf' \in [Envs -> {"no", "alloc", "copy", "map", "unmap", "return"}]
  BY DEF TypeOK, PfStep

(* pgfault allocates the page for the copy. *)
LEMMA PfAllocKeeps ==
  ASSUME MInv, NEW e \in Envs, pgfault_alloc(e)
  PROVE  MInv'
  <1>1. CASE pf[e] = "alloc" /\ panic(e)
    BY <1>1, HandlerAlive, PanicKeeps
  <1>2. CASE /\ PfStep(e, "alloc", "copy")
             /\ \E p \in FreeFrames : Alloc(e, PFTEMP, p)
             /\ UNCHANGED <<at, forkVars, va, regVars>>
    <2>1. UNCHANGED <<at, child, next, va, upcall, handler>>
      BY <1>2 DEF forkVars, regVars
    <2>2. /\ pf[e] = "alloc" /\ pf'[e] = "copy" /\ \A o \in Envs \ {e} : pf'[o] = pf[o]
          /\ pf' \in [Envs -> {"no", "alloc", "copy", "map", "unmap", "return"}]
      BY <1>2, PfStepFacts DEF MInv
    <2>3. PICK p \in FreeFrames : Alloc(e, PFTEMP, p)
      BY <1>2
    <2>4. /\ tab' \in [Envs -> [VAs -> Frames \cup {None}]]
          /\ perm' \in [Envs -> [VAs -> {"RO", "W", "COW"}]]
          /\ val' \in [Frames -> Values]
          /\ tab'[e][PFTEMP] # None /\ perm'[e][PFTEMP] = "W"
          /\ \A w \in VAs \ {PFTEMP} : tab'[e][w] = tab[e][w] /\ perm'[e][w] = perm[e][w]
          /\ \A o \in Envs \ {e} : tab'[o] = tab[o] /\ perm'[o] = perm[o]
          /\ \A o \in Envs, w \in VAs : tab[o][w] # None => val'[tab[o][w]] = val[tab[o][w]]
          /\ Alone'
      BY <2>1, <2>2, <2>3, AllocFacts, PageFacts DEF MInv
    <2>5. Alive(e)
      BY <2>2, HandlerAlive
    <2>6. TypeOK'
      BY <2>1, <2>2, <2>4 DEF MInv, TypeOK
    <2>7. \A o \in Envs \ {e} : Untouched(o)
      BY <2>1, <2>2, <2>4 DEF Untouched
    <2>8. EnvGood(e)'
      <3>1. Loaded(e)'
        BY <2>1, <2>4, <2>5, PageFacts DEF MInv, EnvGood, Loaded, Alive
      <3>2. Handling(e)'
        BY <2>1, <2>2, <2>4, <2>5 DEF Handling, Alive
      <3>3. Prepared(e)'
        <4>1. handler'[e] => Ready(e)'
          BY <2>1, <2>4, PageFacts DEF MInv, EnvGood, Prepared, Ready
        <4>2. \A w \in VPages : tab'[e][w] = tab[e][w] /\ perm'[e][w] = perm[e][w]
          BY <2>4, PageFacts
        <4> QED  BY <2>1, <4>1, <4>2 DEF MInv, EnvGood, Prepared, Alive
      <3> QED  BY <3>1, <3>2, <3>3 DEF EnvGood
    <2> QED  BY <2>1, <2>4, <2>5, <2>6, <2>7, <2>8, OneEnv DEF Alive
  <1> QED  BY <1>1, <1>2 DEF pgfault_alloc

(* pgfault copies the page: only its own copy changes. *)
LEMMA PfCopyFacts ==
  ASSUME MInv, NEW e \in Envs, pgfault_copy(e)
  PROVE  /\ UNCHANGED <<tab, perm, at, child, next, va, upcall, handler>>
         /\ pf[e] = "copy" /\ pf'[e] = "map" /\ \A o \in Envs \ {e} : pf'[o] = pf[o]
         /\ pf' \in [Envs -> {"no", "alloc", "copy", "map", "unmap", "return"}]
         /\ val' \in [Frames -> Values]
         /\ val'[tab[e][PFTEMP]] = val'[tab[e][va[e]]]
         /\ \A o \in Envs, w \in VAs : tab[o][w] # None /\ ~(o = e /\ w = PFTEMP)
                                         => val'[tab[o][w]] = val[tab[o][w]]
  <1>1. UNCHANGED <<tab, perm, at, child, next, va, upcall, handler>>
    BY DEF pgfault_copy, forkVars, regVars
  <1>2. /\ pf[e] = "copy" /\ pf'[e] = "map" /\ \A o \in Envs \ {e} : pf'[o] = pf[o]
        /\ pf' \in [Envs -> {"no", "alloc", "copy", "map", "unmap", "return"}]
    BY PfStepFacts DEF pgfault_copy, MInv
  <1>3. PICK p, q : p = tab[e][PFTEMP] /\ q = tab[e][va[e]]
    OBVIOUS
  <1>4. p # None /\ perm[e][PFTEMP] = "W" /\ PFTEMP \in VAs
    BY <1>2, <1>3, PageFacts DEF MInv, EnvGood, Handling
  <1>5. q # None /\ va[e] \in VAs /\ va[e] # PFTEMP
    BY <1>2, <1>3, HandlerAlive, StateParts DEF MInv
  <1>6. p \in Frames /\ q \in Frames
    BY <1>3, <1>4, <1>5, StateParts DEF MInv
  <1>7. val \in [Frames -> Values] /\ val' = [val EXCEPT ![p] = val[q]]
    BY <1>3 DEF MInv, TypeOK, pgfault_copy
  <1>8. \A o \in Envs, w \in VAs : tab[o][w] = p => o = e /\ w = PFTEMP
    BY <1>2, <1>3, <1>4, OnlyMapping DEF MInv
  <1>9. p # q
    BY <1>3, <1>5, <1>8
  <1>10. val' \in [Frames -> Values] /\ val'[p] = val[q] /\ val'[q] = val[q]
    BY <1>6, <1>7, <1>9
  <1>11. ASSUME NEW o \in Envs, NEW w \in VAs, tab[o][w] # None, ~(o = e /\ w = PFTEMP)
         PROVE  val'[tab[o][w]] = val[tab[o][w]]
    <2>1. tab[o][w] # p /\ tab[o][w] \in Frames
      BY <1>8, <1>11, StateParts DEF MInv
    <2> QED  BY <1>7, <2>1
  <1> QED  BY <1>1, <1>2, <1>3, <1>10, <1>11

(* pgfault_copy. *)
LEMMA PfCopyKeeps ==
  ASSUME MInv, NEW e \in Envs, pgfault_copy(e)
  PROVE  MInv'
  <1>1. /\ UNCHANGED <<tab, perm, at, child, next, va, upcall, handler>>
        /\ pf[e] = "copy" /\ pf'[e] = "map" /\ \A o \in Envs \ {e} : pf'[o] = pf[o]
        /\ pf' \in [Envs -> {"no", "alloc", "copy", "map", "unmap", "return"}]
        /\ val' \in [Frames -> Values]
        /\ val'[tab[e][PFTEMP]] = val'[tab[e][va[e]]]
        /\ \A o \in Envs, w \in VAs : tab[o][w] # None /\ ~(o = e /\ w = PFTEMP)
                                        => val'[tab[o][w]] = val[tab[o][w]]
    BY PfCopyFacts
  <1>2. Alive(e)
    BY <1>1, HandlerAlive
  <1>3. TypeOK'
    BY <1>1 DEF MInv, TypeOK
  <1>4. \A o \in Envs \ {e} : Untouched(o)
    BY <1>1 DEF Untouched
  <1>5. Alone'
    BY <1>1, AloneKept DEF MInv
  <1>6. EnvGood(e)'
    BY <1>1 DEF MInv, EnvGood, Loaded, Handling, Prepared, Ready, Alive
  <1> QED  BY <1>1, <1>2, <1>3, <1>4, <1>5, <1>6, OneEnv DEF Alive

(* pgfault maps the copy in place of the page. *)
LEMMA PfMapKeeps ==
  ASSUME MInv, NEW e \in Envs, pgfault_map(e)
  PROVE  MInv'
  <1>1. UNCHANGED <<val, at, child, next, va, upcall, handler>>
    BY DEF pgfault_map, forkVars, regVars
  <1>2. /\ pf[e] = "map" /\ pf'[e] = "unmap" /\ \A o \in Envs \ {e} : pf'[o] = pf[o]
        /\ pf' \in [Envs -> {"no", "alloc", "copy", "map", "unmap", "return"}]
    BY PfStepFacts DEF pgfault_map, MInv
  <1>3. PICK p, v : p = tab[e][PFTEMP] /\ v = va[e]
    OBVIOUS
  <1>4. p # None /\ perm[e][PFTEMP] = "W" /\ PFTEMP \in VAs
    BY <1>2, <1>3, PageFacts DEF MInv, EnvGood, Handling
  <1>5. /\ v \in VAs /\ v \in VPages /\ v # PFTEMP /\ v # UXSTACK /\ p \in Frames \cup {None}
        /\ UXSTACK \in VAs /\ PFTEMP # UXSTACK /\ PFTEMP \notin VPages
    BY <1>3, <1>4, StateParts, PageFacts DEF MInv
  <1>6. /\ tab \in [Envs -> [VAs -> Frames \cup {None}]]
        /\ perm \in [Envs -> [VAs -> {"RO", "W", "COW"}]]
        /\ tab' = [tab EXCEPT ![e][v] = p] /\ perm' = [perm EXCEPT ![e][v] = "W"]
    BY <1>3 DEF MInv, TypeOK, pgfault_map
  <1>7. /\ tab' \in [Envs -> [VAs -> Frames \cup {None}]] /\ tab'[e][v] = p
        /\ \A w \in VAs \ {v} : tab'[e][w] = tab[e][w]
        /\ \A o \in Envs \ {e} : tab'[o] = tab[o]
    BY <1>5, <1>6
  <1>8. /\ perm' \in [Envs -> [VAs -> {"RO", "W", "COW"}]] /\ perm'[e][v] = "W"
        /\ \A w \in VAs \ {v} : perm'[e][w] = perm[e][w]
        /\ \A o \in Envs \ {e} : perm'[o] = perm[o]
    BY <1>5, <1>6
  <1>9. Alive(e)
    BY <1>2, HandlerAlive
  <1>10. TypeOK'
    BY <1>1, <1>2, <1>7, <1>8 DEF MInv, TypeOK
  <1>11. \A o \in Envs \ {e} : Untouched(o)
    BY <1>1, <1>2, <1>7, <1>8 DEF Untouched
  <1>12. \A o \in Envs, w \in VAs : tab[o][w] = p => o = e /\ w = PFTEMP
    BY <1>2, <1>3, <1>4, OnlyMapping DEF MInv
  <1>13. \A o \in Envs, w \in VAs : tab'[o][w] = p => o = e /\ w \in {PFTEMP, v}
    BY <1>7, <1>12
  <1>14. Alone'
    <2> SUFFICES ASSUME NEW a \in Envs, NEW o \in Envs, NEW x \in VAs, NEW w \in VAs,
                        tab'[a][x] # None, perm'[a][x] = "W", tab'[o][w] = tab'[a][x]
                 PROVE  o = a /\ (w = x \/ Moving(a, x, w)')
      BY DEF Alone
    <2>1. CASE tab'[a][x] = p
      <3>1. a = e /\ o = e /\ x \in {PFTEMP, v} /\ w \in {PFTEMP, v}
        BY <1>13, <2>1
      <3>2. pf'[e] = "unmap" /\ va'[e] = v
        BY <1>1, <1>2, <1>3
      <3> QED  BY <3>1, <3>2 DEF Moving
    <2>2. CASE tab'[a][x] # p
      <3>1. tab[a][x] = tab'[a][x] /\ perm[a][x] = "W" /\ tab[o][w] = tab[a][x]
        BY <1>7, <1>8, <2>2
      <3>2. o = a /\ (w = x \/ Moving(a, x, w))
        BY <3>1 DEF MInv, Alone
      <3>3. Moving(a, x, w) => a # e
        BY <1>2 DEF Moving
      <3> QED  BY <1>1, <1>2, <3>2, <3>3 DEF Moving
    <2> QED  BY <2>1, <2>2
  <1>15. EnvGood(e)'
    <2>1. Loaded(e)'
      BY <1>1, <1>4, <1>5, <1>7, <1>9, PageFacts DEF MInv, EnvGood, Loaded, Alive
    <2>2. Handling(e)'
      BY <1>1, <1>2, <1>9 DEF Handling, Alive
    <2>3. Prepared(e)'
      <3>1. handler'[e] => Ready(e)'
        BY <1>1, <1>5, <1>7, <1>8 DEF MInv, EnvGood, Prepared, Ready
      <3>2. \A w \in VPages : tab'[e][w] # None /\ perm'[e][w] = "COW"
                                => tab[e][w] # None /\ perm[e][w] = "COW"
        BY <1>5, <1>7, <1>8, PageFacts
      <3> QED  BY <1>1, <3>1, <3>2 DEF MInv, EnvGood, Prepared, Alive
    <2> QED  BY <2>1, <2>2, <2>3 DEF EnvGood
  <1> QED  BY <1>1, <1>9, <1>10, <1>11, <1>14, <1>15, OneEnv DEF Alive

(* pgfault unmaps the temporary page. *)
LEMMA PfUnmapKeeps ==
  ASSUME MInv, NEW e \in Envs, pgfault_unmap(e)
  PROVE  MInv'
  <1>1. UNCHANGED <<val, at, child, next, va, upcall, handler>>
    BY DEF pgfault_unmap, forkVars, regVars
  <1>2. /\ pf[e] = "unmap" /\ pf'[e] = "return" /\ \A o \in Envs \ {e} : pf'[o] = pf[o]
        /\ pf' \in [Envs -> {"no", "alloc", "copy", "map", "unmap", "return"}]
    BY PfStepFacts DEF pgfault_unmap, MInv
  <1>3. /\ tab \in [Envs -> [VAs -> Frames \cup {None}]]
        /\ perm \in [Envs -> [VAs -> {"RO", "W", "COW"}]]
        /\ tab' = [tab EXCEPT ![e][PFTEMP] = None] /\ perm' = [perm EXCEPT ![e][PFTEMP] = "RO"]
    BY DEF MInv, TypeOK, pgfault_unmap
  <1>4. /\ tab' \in [Envs -> [VAs -> Frames \cup {None}]] /\ tab'[e][PFTEMP] = None
        /\ \A w \in VAs \ {PFTEMP} : tab'[e][w] = tab[e][w]
        /\ \A o \in Envs \ {e} : tab'[o] = tab[o]
    BY <1>3, PageFacts
  <1>5. /\ perm' \in [Envs -> [VAs -> {"RO", "W", "COW"}]]
        /\ \A w \in VAs \ {PFTEMP} : perm'[e][w] = perm[e][w]
        /\ \A o \in Envs \ {e} : perm'[o] = perm[o]
    BY <1>3, PageFacts
  <1>6. Alive(e)
    BY <1>2, HandlerAlive
  <1>7. TypeOK'
    BY <1>1, <1>2, <1>4, <1>5 DEF MInv, TypeOK
  <1>8. \A o \in Envs \ {e} : Untouched(o)
    BY <1>1, <1>2, <1>4, <1>5 DEF Untouched
  <1>9. Alone'
    <2> SUFFICES ASSUME NEW a \in Envs, NEW o \in Envs, NEW x \in VAs, NEW w \in VAs,
                        tab'[a][x] # None, perm'[a][x] = "W", tab'[o][w] = tab'[a][x]
                 PROVE  o = a /\ (w = x \/ Moving(a, x, w)')
      BY DEF Alone
    <2>1. ~(a = e /\ x = PFTEMP) /\ ~(o = e /\ w = PFTEMP)
      BY <1>4
    <2>2. tab[a][x] = tab'[a][x] /\ perm[a][x] = "W" /\ tab[o][w] = tab[a][x]
      BY <1>4, <1>5, <2>1
    <2>3. o = a /\ (w = x \/ Moving(a, x, w))
      BY <2>2 DEF MInv, Alone
    <2>4. Moving(a, x, w) => a # e
      BY <2>1, <2>3 DEF Moving
    <2> QED  BY <1>1, <1>2, <2>3, <2>4 DEF Moving
  <1>10. EnvGood(e)'
    <2>1. Loaded(e)'
      BY <1>1, <1>4, <1>6, PageFacts DEF MInv, EnvGood, Loaded, Alive
    <2>2. Handling(e)'
      BY <1>1, <1>2, <1>6 DEF Handling, Alive
    <2>3. Prepared(e)'
      BY <1>1, <1>4, <1>5, PageFacts DEF MInv, EnvGood, Prepared, Ready, Alive
    <2> QED  BY <2>1, <2>2, <2>3 DEF EnvGood
  <1> QED  BY <1>1, <1>6, <1>7, <1>8, <1>9, <1>10, OneEnv DEF Alive

(* set_pgfault_handler. *)
LEMMA SetHandlerKeeps ==
  ASSUME MInv, NEW e \in Envs, set_pgfault_handler(e)
  PROVE  MInv'
  <1>1. Alive(e) /\ pf[e] = "no" /\ at[e] = "run"
    BY DEF set_pgfault_handler, Executes, Alive
  <1>2. CASE panic(e)
    BY <1>1, <1>2, PanicKeeps
  <1>3. CASE /\ \E p \in FreeFrames : Alloc(e, UXSTACK, p)
             /\ upcall'  = [upcall EXCEPT ![e] = TRUE]
             /\ handler' = [handler EXCEPT ![e] = TRUE]
             /\ at' = [at EXCEPT ![e] = "exofork"]
             /\ UNCHANGED <<forkVars, pfVars>>
    <2>1. UNCHANGED <<child, next, pf, va>>
      BY <1>3 DEF forkVars, pfVars
    <2>2. PICK p \in FreeFrames : Alloc(e, UXSTACK, p)
      BY <1>3
    <2>3. /\ tab' \in [Envs -> [VAs -> Frames \cup {None}]]
          /\ perm' \in [Envs -> [VAs -> {"RO", "W", "COW"}]]
          /\ val' \in [Frames -> Values]
          /\ tab'[e][UXSTACK] # None /\ perm'[e][UXSTACK] = "W"
          /\ \A w \in VAs \ {UXSTACK} : tab'[e][w] = tab[e][w] /\ perm'[e][w] = perm[e][w]
          /\ \A o \in Envs \ {e} : tab'[o] = tab[o] /\ perm'[o] = perm[o]
          /\ \A o \in Envs, w \in VAs : tab[o][w] # None => val'[tab[o][w]] = val[tab[o][w]]
          /\ Alone'
      BY <1>1, <2>1, <2>2, AllocFacts, PageFacts DEF MInv
    <2>4. TypeOK'
      BY <1>3, <2>1, <2>3 DEF MInv, TypeOK
    <2>5. at'[e] = "exofork" /\ upcall'[e] /\ handler'[e]
      BY <1>3 DEF MInv, TypeOK
    <2>6. \A o \in Envs \ {e} : Untouched(o)
      BY <1>3, <2>1, <2>3 DEF Untouched, MInv, TypeOK
    <2>7. EnvGood(e)'
      <3>1. Loaded(e)'
        BY <1>1, <2>3, <2>5, PageFacts DEF MInv, EnvGood, Loaded, Alive
      <3>2. Handling(e)'
        BY <1>1, <2>1 DEF Handling
      <3>3. Prepared(e)'
        BY <2>3, <2>5 DEF Prepared, Ready
      <3> QED  BY <3>1, <3>2, <3>3 DEF EnvGood
    <2> QED  BY <1>1, <2>3, <2>4, <2>5, <2>6, <2>7, OneEnv
  <1>4. CASE /\ handler[e]
             /\ at' = [at EXCEPT ![e] = "exofork"]
             /\ UNCHANGED <<memVars, forkVars, pfVars, regVars>>
    <2>1. UNCHANGED <<tab, perm, val, child, next, pf, va, upcall, handler>>
      BY <1>4 DEF memVars, forkVars, pfVars, regVars
    <2>2. TypeOK' /\ at'[e] = "exofork" /\ \A o \in Envs \ {e} : at'[o] = at[o]
      BY <1>4, <2>1 DEF MInv, TypeOK
    <2>3. \A o \in Envs \ {e} : Untouched(o)
      BY <2>1, <2>2 DEF Untouched
    <2>4. Alone'
      BY <2>1, AloneKept DEF MInv
    <2>5. EnvGood(e)'
      BY <1>1, <1>4, <2>1, <2>2 DEF MInv, EnvGood, Loaded, Handling, Prepared, Ready, Alive
    <2> QED  BY <1>1, <2>2, <2>3, <2>4, <2>5, OneEnv
  <1> QED  BY <1>2, <1>3, <1>4 DEF set_pgfault_handler

-----------------------------------------------------------------------------
(* The steps of parent and child. *)

(* sys_exofork: the child starts with nothing. *)
LEMMA ExoforkKeeps ==
  ASSUME MInv, NEW e \in Envs, sys_exofork(e)
  PROVE  MInv'
  <1>1. Alive(e) /\ pf[e] = "no" /\ at[e] = "exofork"
    BY DEF sys_exofork, Executes, Alive
  <1>2. CASE panic(e)
    BY <1>1, <1>2, PanicKeeps
  <1>3. ASSUME NEW c \in Envs, at[c] = "free",
               at' = [at EXCEPT ![e] = "dup", ![c] = "new"],
               child' = [child EXCEPT ![e] = c],
               next' = [next EXCEPT ![e] = 1],
               UNCHANGED <<memVars, pfVars, regVars>>
        PROVE  MInv'
    <2>1. UNCHANGED <<tab, perm, val, pf, va, upcall, handler>>
      BY <1>3 DEF memVars, pfVars, regVars
    <2>2. /\ c # e /\ at'[e] = "dup" /\ at'[c] = "new" /\ \A o \in Envs \ {e, c} : at'[o] = at[o]
          /\ child'[e] = c /\ next'[e] = 1
          /\ \A o \in Envs \ {e} : child'[o] = child[o] /\ next'[o] = next[o]
      BY <1>1, <1>3 DEF MInv, TypeOK
    <2>3. TypeOK'
      <3>1. 1 \in 1..(NPages + 1)
        BY ForkAssumption
      <3> QED  BY <1>3, <2>1, <3>1 DEF MInv, TypeOK
    <2>4. Alone'
      BY <2>1, AloneKept DEF MInv
    <2>5. ASSUME NEW o \in Envs PROVE EnvGood(o)'
      <3>1. CASE o \in {e, c}
        BY <1>1, <1>3, <2>1, <2>2, <3>1 DEF MInv, EnvGood, Loaded, Handling, Prepared, Ready, Alive
      <3>2. CASE o \notin {e, c}
        BY <2>1, <2>2, <3>2, UntouchedGood DEF MInv, Untouched
      <3> QED  BY <3>1, <3>2
    <2>6. ASSUME NEW o \in Envs PROVE ChildGood(o)'
      <3>1. \A v \in VPages : tab[c][v] = None /\ ~(v < 1)
        BY <1>3, PageFacts DEF MInv, EnvGood, Loaded, VPages
      <3>2. \A p \in Envs \ {e} :
              at'[p] = "dup" => at[p] = "dup" /\ child'[p] = child[p] /\ child[p] \in Envs \ {c, e}
                                /\ ChildGood(p) /\ next'[p] = next[p]
        BY <1>1, <1>3, <2>2 DEF MInv, ChildGood
      <3>3. CASE o = e
        BY <2>1, <2>2, <3>1, <3>2, <3>3 DEF ChildGood
      <3>4. CASE o # e
        BY <2>1, <2>2, <3>2, <3>4 DEF ChildGood
      <3> QED  BY <3>3, <3>4
    <2> QED  BY <2>3, <2>4, <2>5, <2>6 DEF MInv
  <1> QED  BY <1>2, <1>3 DEF sys_exofork

(* What duplicating a page changes. *)
LEMMA ForkPageFacts ==
  ASSUME MInv, NEW e \in Envs, ForkPage(e),
         NEW c, c = child[e], NEW v, v = next[e],
         NEW q, q = IF perm[e][v] = "RO" THEN "RO" ELSE "COW"
  PROVE  /\ at[e] = "dup" /\ Alive(e) /\ pf[e] = "no" /\ c \in Envs /\ c # e /\ at[c] = "new"
         /\ v \in VPages /\ v \in VAs /\ q \in {"RO", "COW"} /\ tab[e][v] # None /\ tab[c][v] = None
         /\ UNCHANGED <<val, at, child, pf, va, upcall, handler>>
         /\ next' = [next EXCEPT ![e] = v + 1]
         /\ tab' \in [Envs -> [VAs -> Frames \cup {None}]] /\ tab'[c][v] = tab[e][v]
         /\ perm' \in [Envs -> [VAs -> {"RO", "W", "COW"}]] /\ perm'[c][v] = q /\ perm'[e][v] = q
         /\ \A o \in Envs \ {c} : tab'[o] = tab[o]
         /\ \A o \in Envs \ {c, e} : perm'[o] = perm[o]
         /\ \A w \in VAs \ {v} : /\ tab'[c][w] = tab[c][w]
                                 /\ perm'[c][w] = perm[c][w] /\ perm'[e][w] = perm[e][w]
  <1>1. /\ at[e] = "dup" /\ Alive(e) /\ pf[e] = "no" /\ v \in VPages /\ v \in VAs
        /\ UNCHANGED <<val, at, child, pf, va, upcall, handler>>
        /\ next' = [next EXCEPT ![e] = v + 1]
    BY PageFacts DEF ForkPage, Executes, Alive, pfVars, regVars
  <1>2. c \in Envs /\ at[c] = "new" /\ c # e /\ tab[e][v] # None
    BY <1>1 DEF MInv, ChildGood, EnvGood, Loaded
  <1>3. ~(v < v)
    BY <1>1 DEF VPages
  <1>4. tab[c][v] = None
    BY <1>1, <1>2, <1>3 DEF MInv, ChildGood
  <1>5. q \in {"RO", "COW"}
    OBVIOUS
  <1>6. /\ tab \in [Envs -> [VAs -> Frames \cup {None}]]
        /\ perm \in [Envs -> [VAs -> {"RO", "W", "COW"}]]
        /\ tab' = [tab EXCEPT ![c][v] = tab[e][v]]
        /\ perm' = [perm EXCEPT ![c][v] = q, ![e][v] = q]
    BY DEF MInv, TypeOK, ForkPage, duppage
  <1>7. PICK p \in Frames \cup {None} : p = tab[e][v]
    BY <1>1, <1>6
  <1>8. tab' = [tab EXCEPT ![c][v] = p]
    BY <1>6, <1>7
  <1>9. /\ tab' \in [Envs -> [VAs -> Frames \cup {None}]] /\ tab'[c][v] = tab[e][v]
        /\ \A o \in Envs \ {c} : tab'[o] = tab[o]
        /\ \A w \in VAs \ {v} : tab'[c][w] = tab[c][w]
    BY <1>1, <1>2, <1>6, <1>7, <1>8
  <1>10. /\ perm' \in [Envs -> [VAs -> {"RO", "W", "COW"}]] /\ perm'[c][v] = q /\ perm'[e][v] = q
         /\ \A o \in Envs \ {c, e} : perm'[o] = perm[o]
         /\ \A w \in VAs \ {v} : perm'[c][w] = perm[c][w] /\ perm'[e][w] = perm[e][w]
    BY <1>1, <1>2, <1>5, <1>6
  <1> QED  BY <1>1, <1>2, <1>4, <1>5, <1>9, <1>10

(* fork duplicates a page. *)
LEMMA ForkPageKeeps ==
  ASSUME MInv, NEW e \in Envs, ForkPage(e)
  PROVE  MInv'
  <1>1. PICK c, v, q : c = child[e] /\ v = next[e] /\ q = IF perm[e][v] = "RO" THEN "RO" ELSE "COW"
    OBVIOUS
  <1>2. /\ at[e] = "dup" /\ Alive(e) /\ pf[e] = "no" /\ c \in Envs /\ c # e /\ at[c] = "new"
        /\ v \in VPages /\ v \in VAs /\ q \in {"RO", "COW"} /\ tab[e][v] # None /\ tab[c][v] = None
        /\ UNCHANGED <<val, at, child, pf, va, upcall, handler>>
        /\ next' = [next EXCEPT ![e] = v + 1]
        /\ tab' \in [Envs -> [VAs -> Frames \cup {None}]] /\ tab'[c][v] = tab[e][v]
        /\ perm' \in [Envs -> [VAs -> {"RO", "W", "COW"}]] /\ perm'[c][v] = q /\ perm'[e][v] = q
        /\ \A o \in Envs \ {c} : tab'[o] = tab[o]
        /\ \A o \in Envs \ {c, e} : perm'[o] = perm[o]
        /\ \A w \in VAs \ {v} : /\ tab'[c][w] = tab[c][w]
                                /\ perm'[c][w] = perm[c][w] /\ perm'[e][w] = perm[e][w]
    BY <1>1, ForkPageFacts
  <1>3. /\ v + 1 \in 1..(NPages + 1) /\ next' \in [Envs -> 1..(NPages + 1)] /\ next'[e] = v + 1
        /\ \A o \in Envs \ {e} : next'[o] = next[o]
    BY <1>2, ForkAssumption DEF MInv, TypeOK, VPages
  <1>4. TypeOK'
    BY <1>2, <1>3 DEF MInv, TypeOK
  <1>5. pf[c] = "no" /\ ~Alive(c)
    BY <1>2 DEF MInv, EnvGood, Handling, Alive
  <1>6. Alone'
    <2> SUFFICES ASSUME NEW a \in Envs, NEW o \in Envs, NEW x \in VAs, NEW w \in VAs,
                        tab'[a][x] # None, perm'[a][x] = "W", tab'[o][w] = tab'[a][x]
                 PROVE  o = a /\ (w = x \/ Moving(a, x, w)')
      BY DEF Alone
    <2>1. ~(a = c /\ x = v) /\ ~(a = e /\ x = v)
      BY <1>2
    <2>2. tab'[a][x] = tab[a][x] /\ perm[a][x] = "W"
      BY <1>2, <2>1
    <2>3. ~(o = c /\ w = v)
      <3> SUFFICES ASSUME o = c /\ w = v PROVE FALSE
        OBVIOUS
      <3>1. tab[e][v] = tab[a][x]
        BY <1>2, <2>2
      <3>2. e = a /\ (v = x \/ Moving(a, x, v))
        BY <1>2, <2>2, <3>1 DEF MInv, Alone
      <3> QED  BY <1>2, <2>1, <3>2 DEF Moving
    <2>4. tab[o][w] = tab[a][x]
      BY <1>2, <2>2, <2>3
    <2>5. o = a /\ (w = x \/ Moving(a, x, w))
      BY <2>2, <2>4 DEF MInv, Alone
    <2> QED  BY <1>2, <2>5 DEF Moving
  <1>7. ASSUME NEW o \in Envs PROVE EnvGood(o)'
    <2>1. CASE o = e
      <3>1. Loaded(e)' /\ Handling(e)'
        BY <1>2 DEF MInv, EnvGood, Loaded, Handling, Alive
      <3>2. handler[e] /\ Ready(e) /\ UXSTACK \in VAs \ {v}
        BY <1>2, PageFacts DEF MInv, EnvGood, Prepared
      <3>3. Prepared(e)'
        BY <1>2, <3>2 DEF Prepared, Ready
      <3> QED  BY <2>1, <3>1, <3>3 DEF EnvGood
    <2>2. CASE o = c
      <3>1. Loaded(c)' /\ Handling(c)'
        BY <1>2, <1>5 DEF Loaded, Handling, Alive
      <3>2. UXSTACK \in VAs \ {v}
        BY <1>2, PageFacts
      <3>3. Prepared(c)'
        BY <1>2, <3>2 DEF MInv, EnvGood, Prepared, Ready, Alive
      <3> QED  BY <2>2, <3>1, <3>3 DEF EnvGood
    <2>3. CASE o \notin {e, c}
      BY <1>2, <1>3, <2>3, UntouchedGood DEF MInv, Untouched
    <2> QED  BY <2>1, <2>2, <2>3
  <1>8. ASSUME NEW o \in Envs PROVE ChildGood(o)'
    <2> SUFFICES ASSUME at[o] = "dup"
                 PROVE  /\ child[o] \in Envs /\ at[child[o]] = "new"
                        /\ \A w \in VPages : tab'[child[o]][w] # None <=> w < next'[o]
                        /\ \A p \in Envs : at[p] = "dup" /\ child[p] = child[o] => p = o
      BY <1>2 DEF ChildGood
    <2>1. /\ child[o] \in Envs /\ at[child[o]] = "new"
          /\ \A w \in VPages : tab[child[o]][w] # None <=> w < next[o]
          /\ \A p \in Envs : at[p] = "dup" /\ child[p] = child[o] => p = o
      BY DEF MInv, ChildGood
    <2>2. CASE o = e
      <3>1. ASSUME NEW w \in VPages PROVE tab'[c][w] # None <=> w < v + 1
        <4>1. w \in VAs
          BY PageFacts
        <4>2. CASE w = v
          BY <1>2, <4>2 DEF VPages
        <4>3. CASE w # v
          <5>1. w < v <=> w < v + 1
            BY <1>2, <4>3, ForkAssumption DEF VPages
          <5> QED  BY <1>1, <1>2, <2>1, <2>2, <4>1, <4>3, <5>1
        <4> QED  BY <4>2, <4>3
      <3> QED  BY <1>1, <1>3, <2>1, <2>2, <3>1
    <2>3. CASE o # e
      <3>1. child[o] # c
        BY <1>1, <1>2, <2>1, <2>3
      <3> QED  BY <1>2, <1>3, <2>1, <2>3, <3>1
    <2> QED  BY <2>2, <2>3
  <1> QED  BY <1>4, <1>6, <1>7, <1>8 DEF MInv

(* What the end of fork changes, when there is memory. *)
LEMMA ForkDoneFacts ==
  ASSUME MInv, NEW e \in Envs, ForkDone(e), ~panic(e), NEW c, c = child[e]
  PROVE  /\ at[e] = "dup" /\ Alive(e) /\ pf[e] = "no" /\ c \in Envs /\ c # e /\ at[c] = "new"
         /\ pf[c] = "no" /\ \A v \in VPages : tab[c][v] # None
         /\ UNCHANGED <<pf, va>>
         /\ upcall' = [upcall EXCEPT ![c] = TRUE] /\ handler' = [handler EXCEPT ![c] = handler[e]]
         /\ at' = [at EXCEPT ![e] = "run", ![c] = "run"]
         /\ child' = [child EXCEPT ![e] = None] /\ next' = [next EXCEPT ![e] = 1]
         /\ tab' \in [Envs -> [VAs -> Frames \cup {None}]]
         /\ perm' \in [Envs -> [VAs -> {"RO", "W", "COW"}]]
         /\ val' \in [Frames -> Values]
         /\ tab'[c][UXSTACK] # None /\ perm'[c][UXSTACK] = "W"
         /\ \A w \in VAs \ {UXSTACK} : tab'[c][w] = tab[c][w] /\ perm'[c][w] = perm[c][w]
         /\ \A o \in Envs \ {c} : tab'[o] = tab[o] /\ perm'[o] = perm[o]
         /\ \A o \in Envs, w \in VAs : tab[o][w] # None => val'[tab[o][w]] = val[tab[o][w]]
         /\ Alone'
  <1>1. at[e] = "dup" /\ Alive(e) /\ pf[e] = "no" /\ next[e] = NPages + 1
    BY DEF ForkDone, Executes, Alive
  <1>2. c \in Envs /\ at[c] = "new" /\ c # e
    BY <1>1 DEF MInv, ChildGood
  <1>3. \A v \in VPages : v < NPages + 1
    BY ForkAssumption DEF VPages
  <1>4. pf[c] = "no" /\ \A v \in VPages : tab[c][v] # None
    BY <1>1, <1>2, <1>3 DEF MInv, ChildGood, EnvGood, Handling, Alive
  <1>5. /\ \E p \in FreeFrames : Alloc(c, UXSTACK, p)
        /\ upcall' = [upcall EXCEPT ![c] = TRUE] /\ handler' = [handler EXCEPT ![c] = handler[e]]
        /\ at' = [at EXCEPT ![e] = "run", ![c] = "run"]
        /\ child' = [child EXCEPT ![e] = None] /\ next' = [next EXCEPT ![e] = 1]
        /\ UNCHANGED <<pf, va>>
    BY DEF ForkDone, pfVars
  <1>6. PICK p \in FreeFrames : Alloc(c, UXSTACK, p)
    BY <1>5
  <1>7. /\ tab' \in [Envs -> [VAs -> Frames \cup {None}]]
        /\ perm' \in [Envs -> [VAs -> {"RO", "W", "COW"}]]
        /\ val' \in [Frames -> Values]
        /\ tab'[c][UXSTACK] # None /\ perm'[c][UXSTACK] = "W"
        /\ \A w \in VAs \ {UXSTACK} : tab'[c][w] = tab[c][w] /\ perm'[c][w] = perm[c][w]
        /\ \A o \in Envs \ {c} : tab'[o] = tab[o] /\ perm'[o] = perm[o]
        /\ \A o \in Envs, w \in VAs : tab[o][w] # None => val'[tab[o][w]] = val[tab[o][w]]
        /\ Alone'
    BY <1>2, <1>4, <1>5, <1>6, AllocFacts, PageFacts DEF MInv
  <1> QED  BY <1>1, <1>2, <1>4, <1>5, <1>7

(* The end of fork. *)
LEMMA ForkDoneKeeps ==
  ASSUME MInv, NEW e \in Envs, ForkDone(e)
  PROVE  MInv'
  <1>1. CASE panic(e)
    BY <1>1, PanicKeeps DEF ForkDone, Executes, Alive
  <1>2. CASE ~panic(e)
    <2>1. PICK c : c = child[e]
      OBVIOUS
    <2>2. /\ at[e] = "dup" /\ Alive(e) /\ pf[e] = "no" /\ c \in Envs /\ c # e /\ at[c] = "new"
          /\ pf[c] = "no" /\ \A v \in VPages : tab[c][v] # None
          /\ UNCHANGED <<pf, va>>
          /\ upcall' = [upcall EXCEPT ![c] = TRUE] /\ handler' = [handler EXCEPT ![c] = handler[e]]
          /\ at' = [at EXCEPT ![e] = "run", ![c] = "run"]
          /\ child' = [child EXCEPT ![e] = None] /\ next' = [next EXCEPT ![e] = 1]
          /\ tab' \in [Envs -> [VAs -> Frames \cup {None}]]
          /\ perm' \in [Envs -> [VAs -> {"RO", "W", "COW"}]]
          /\ val' \in [Frames -> Values]
          /\ tab'[c][UXSTACK] # None /\ perm'[c][UXSTACK] = "W"
          /\ \A w \in VAs \ {UXSTACK} : tab'[c][w] = tab[c][w] /\ perm'[c][w] = perm[c][w]
          /\ \A o \in Envs \ {c} : tab'[o] = tab[o] /\ perm'[o] = perm[o]
          /\ \A o \in Envs, w \in VAs : tab[o][w] # None => val'[tab[o][w]] = val[tab[o][w]]
          /\ Alone'
      BY <1>2, <2>1, ForkDoneFacts
    <2>3. TypeOK
      BY DEF MInv
    <2>4. TypeOK'
      <3>1. 1 \in 1..(NPages + 1)
        BY ForkAssumption
      <3> QED  BY <2>2, <2>3, <3>1 DEF TypeOK
    <2>5. /\ at'[e] = "run" /\ at'[c] = "run" /\ \A o \in Envs \ {e, c} : at'[o] = at[o]
          /\ \A o \in Envs \ {c} : upcall'[o] = upcall[o] /\ handler'[o] = handler[o]
          /\ \A o \in Envs \ {e} : child'[o] = child[o] /\ next'[o] = next[o]
          /\ upcall'[c] /\ handler'[c] = handler[e]
      BY <2>2, <2>3 DEF TypeOK
    <2>6. handler[e]
      BY <2>2 DEF MInv, EnvGood, Prepared
    <2>7. ASSUME NEW o \in Envs PROVE EnvGood(o)'
      <3>1. CASE o = e
        <4>1. /\ tab'[e] = tab[e] /\ perm'[e] = perm[e] /\ at'[e] = "run" /\ pf'[e] = "no"
              /\ upcall'[e] = upcall[e] /\ handler'[e] = handler[e] /\ handler[e]
          BY <2>2, <2>5, <2>6
        <4>2. Alive(e) /\ EnvGood(e)
          BY <2>2 DEF MInv
        <4> QED  BY <3>1, <4>1, <4>2 DEF EnvGood, Loaded, Handling, Prepared, Ready, Alive
      <3>2. CASE o = c
        <4>1. Loaded(c)'
          <5>1. \A v \in VPages : tab'[c][v] # None
            BY <2>2, PageFacts
          <5> QED  BY <2>5, <5>1 DEF Loaded
        <4>2. Handling(c)'
          BY <2>2 DEF Handling
        <4>3. Prepared(c)'
          BY <2>2, <2>5, <2>6 DEF Prepared, Ready
        <4> QED  BY <3>2, <4>1, <4>2, <4>3 DEF EnvGood
      <3>3. CASE o \notin {e, c}
        BY <2>2, <2>5, <3>3, UntouchedGood, ZenonT(60) DEF MInv, Untouched
      <3> QED  BY <3>1, <3>2, <3>3
    <2>8. ASSUME NEW o \in Envs PROVE ChildGood(o)'
      <3> SUFFICES ASSUME at'[o] = "dup"
                   PROVE  /\ child'[o] \in Envs /\ at'[child'[o]] = "new"
                          /\ \A w \in VPages : tab'[child'[o]][w] # None <=> w < next'[o]
                          /\ \A p \in Envs : at'[p] = "dup" /\ child'[p] = child'[o] => p = o
        BY DEF ChildGood
      <3>1. \A p \in Envs : at'[p] = "dup" => /\ p \notin {e, c} /\ at[p] = "dup"
                                              /\ child'[p] = child[p] /\ next'[p] = next[p]
        BY <2>5
      <3>2. /\ child[o] \in Envs /\ at[child[o]] = "new"
            /\ \A w \in VPages : tab[child[o]][w] # None <=> w < next[o]
            /\ \A p \in Envs : at[p] = "dup" /\ child[p] = child[o] => p = o
        BY <3>1 DEF MInv, ChildGood
      <3>3. child[o] \notin {c, e}
        BY <2>1, <2>2, <3>1, <3>2
      <3>4. at'[child[o]] = "new" /\ tab'[child[o]] = tab[child[o]]
        BY <2>2, <2>5, <3>2, <3>3, ZenonT(60)
      <3> QED  BY <3>1, <3>2, <3>4
    <2> QED  BY <2>2, <2>4, <2>7, <2>8 DEF MInv
  <1> QED  BY <1>1, <1>2

-----------------------------------------------------------------------------
(* The theorems. *)

(* At the start nothing is shared. *)
LEMMA InitHolds == Init => MInv
  <1> SUFFICES ASSUME Init PROVE MInv
    OBVIOUS
  <1>1. PICK S \in (SUBSET Started) \ {{}} :
    /\ \E f \in [S \X VPages -> Frames] :
         /\ \A x, y \in S \X VPages : f[x] = f[y] => x = y
         /\ tab = [e \in Envs |-> [v \in VAs |-> IF e \in S /\ v \in VPages THEN f[e, v] ELSE None]]
    /\ perm = [e \in Envs |-> [v \in VAs |-> IF e \in S /\ v \in VPages \ Text THEN "W" ELSE "RO"]]
    /\ val = [p \in Frames |-> 0]
    /\ at = [e \in Envs |-> IF e \in S THEN "run" ELSE "free"]
    /\ child = [e \in Envs |-> None] /\ next = [e \in Envs |-> 1]
    /\ pf = [e \in Envs |-> "no"] /\ va = [e \in Envs |-> 1]
    /\ upcall = [e \in Envs |-> FALSE] /\ handler = [e \in Envs |-> FALSE]
    BY DEF Init
  <1>2. PICK f \in [S \X VPages -> Frames] :
         /\ \A x, y \in S \X VPages : f[x] = f[y] => x = y
         /\ tab = [e \in Envs |-> [v \in VAs |-> IF e \in S /\ v \in VPages THEN f[e, v] ELSE None]]
    BY <1>1
  <1>3. ASSUME NEW e \in Envs, NEW v \in VAs
        PROVE  /\ e \in S /\ v \in VPages => tab[e][v] = f[<<e, v>>] /\ tab[e][v] \in Frames
               /\ ~(e \in S /\ v \in VPages) => tab[e][v] = None
    BY <1>2
  <1>4. /\ tab = [e \in Envs |-> tab[e]]
        /\ \A e \in Envs : tab[e] = [v \in VAs |-> tab[e][v]]
    BY <1>2
  <1>5. \A e \in Envs, v \in VAs : tab[e][v] \in Frames \cup {None}
    BY <1>3
  <1>6. tab \in [Envs -> [VAs -> Frames \cup {None}]]
    BY <1>4, <1>5
  <1>7. 1 \in VPages /\ 1 \in 1..(NPages + 1)
    BY ForkAssumption DEF VPages
  <1>8. TypeOK
    BY <1>1, <1>6, <1>7, ForkAssumption DEF TypeOK
  <1>9. Alone
    <2> SUFFICES ASSUME NEW e \in Envs, NEW o \in Envs, NEW v \in VAs, NEW w \in VAs,
                        tab[e][v] # None, tab[o][w] = tab[e][v]
                 PROVE  o = e /\ w = v
      BY DEF Alone
    <2>1. <<e, v>> \in S \X VPages /\ <<o, w>> \in S \X VPages
      BY <1>3
    <2>2. f[<<o, w>>] = f[<<e, v>>]
      BY <1>3, <2>1
    <2> QED  BY <1>2, <2>1, <2>2
  <1>10. ASSUME NEW e \in Envs PROVE EnvGood(e)
    <2>1. Loaded(e)
      <3>1. e \in S => at[e] = "run" /\ \A v \in VPages : tab[e][v] # None
        <4>1. None \notin Frames /\ VPages \subseteq VAs
          BY ForkAssumption, PageFacts
        <4>2. e \in S => at[e] = "run"
          BY <1>1
        <4> QED  BY <1>3, <4>1, <4>2
      <3>2. e \notin S => at[e] = "free" /\ \A v \in VAs : tab[e][v] = None
        BY <1>1, <1>3
      <3> QED  BY <3>1, <3>2 DEF Loaded, Alive
    <2>2. Handling(e)
      BY <1>1 DEF Handling
    <2>3. \A v \in VPages : perm[e][v] # "COW"
      BY <1>1, PageFacts
    <2>4. Prepared(e)
      BY <1>1, <2>3 DEF Prepared
    <2> QED  BY <2>1, <2>2, <2>4 DEF EnvGood
  <1>11. \A e \in Envs : ChildGood(e)
    BY <1>1 DEF ChildGood
  <1> QED  BY <1>8, <1>9, <1>10, <1>11 DEF MInv

(* Every step keeps the invariant. *)
LEMMA NextKeeps == MInv /\ [Next]_vars => MInv'
  <1> SUFFICES ASSUME MInv, [Next]_vars PROVE MInv'
    OBVIOUS
  <1>1. CASE UNCHANGED vars
    <2>1. UNCHANGED <<tab, perm, val, at, child, next, pf, va, upcall, handler>>
      BY <1>1 DEF vars, memVars, forkVars, pfVars, regVars
    <2>2. TypeOK' /\ Alone'
      BY <2>1 DEF MInv, TypeOK, Alone, Moving
    <2>3. \A e \in Envs : EnvGood(e)'
      BY <2>1 DEF MInv, EnvGood, Loaded, Handling, Prepared, Ready, Alive
    <2>4. \A e \in Envs : ChildGood(e)'
      BY <2>1 DEF MInv, ChildGood
    <2> QED  BY <2>2, <2>3, <2>4 DEF MInv
  <1>2. ASSUME NEW e \in Envs, pgfault(e) PROVE MInv'
    BY <1>2, PfAllocKeeps, PfCopyKeeps, PfMapKeeps, PfUnmapKeeps DEF pgfault
  <1>3. ASSUME NEW e \in Envs, Exit(e) PROVE MInv'
    BY <1>3, LeaveKeeps DEF Exit, Executes, Alive
  <1>4. CASE Next
    BY <1>2, <1>3, <1>4, FaultKeeps, StoreKeeps, UpcallKeeps, SetHandlerKeeps, ExoforkKeeps,
       ForkPageKeeps, ForkDoneKeeps DEF Next
  <1> QED  BY <1>1, <1>4

(* The inductive invariant holds in every state of every behaviour. *)
THEOREM Invariance == Spec => []MInv
  BY InitHolds, NextKeeps, PTL DEF Spec

(* Every variable keeps its type: in particular no page table has anything *)
(* but frames in it, and the page a fault was on is one of the program's.  *)
THEOREM TypeCorrect == Spec => []TypeOK
  <1>1. MInv => TypeOK
    BY DEF MInv
  <1> QED  BY <1>1, Invariance, PTL

(* However many environments fork, store and fault at the same time, a     *)
(* frame that one of them can write is mapped by nobody else (duppage and  *)
(* pgfault, lib/fork.c).                                                   *)
THEOREM NobodyElseMaps == Spec => []WritersAlone
  <1>1. MInv => WritersAlone
    BY DEF MInv, Alone, WritersAlone
  <1> QED  BY <1>1, Invariance, PTL

(* An environment that runs with a copy-on-write page has the upcall, the  *)
(* handler and the exception stack that the fault on it needs (fork,       *)
(* lib/fork.c).                                                            *)
THEOREM FaultsTaken == Spec => []CowHandled
  <1>1. MInv => CowHandled
    BY DEF MInv, EnvGood, Prepared, Ready, Alive, CowHandled
  <1> QED  BY <1>1, Invariance, PTL

-----------------------------------------------------------------------------
(* The refinement: fork gives private memory. *)

(* What e sees at page v, the memories of all, and who handles a fault. *)
Cell(e, v) == IF tab[e][v] = None THEN None ELSE val[tab[e][v]]
Seen       == [e \in Envs |-> [v \in VPages |-> Cell(e, v)]]
Faulting   == {e \in Envs : pf[e] # "no"}

(* The steps of PrivateMemory in these terms. *)
LEMMA AbstractSteps ==
  ASSUME NEW e \in Envs, NEW v \in VPages
  PROVE  /\ Private!PExit(e) <=>
              /\ e \notin Faulting
              /\ Seen' = [Seen EXCEPT ![e] = [w \in VPages |-> None]] /\ Faulting' = Faulting
         /\ Private!PFault(e) <=> e \notin Faulting /\ Faulting' = Faulting \cup {e} /\ Seen' = Seen
         /\ Private!PResume(e) <=> e \in Faulting /\ Faulting' = Faulting \ {e} /\ Seen' = Seen
         /\ \A x : Private!PWrite(e, v, x) <=>
              /\ e \notin Faulting /\ Seen[e][v] # None
              /\ Seen' = [Seen EXCEPT ![e][v] = x] /\ Faulting' = Faulting
         /\ \A c : Private!PCopy(e, c, v) <=>
              /\ e \notin Faulting /\ Seen[e][v] # None /\ Seen[c][v] = None
              /\ Seen' = [Seen EXCEPT ![c][v] = Seen[e][v]] /\ Faulting' = Faulting
  BY DEF Private!PExit, Private!PFault, Private!PResume, Private!PWrite, Private!PCopy,
         Seen, Cell, Faulting

(* A step of PrivateMemory, or none. *)
AbstractStep == Private!PNext \/ (Seen' = Seen /\ Faulting' = Faulting)

(* Nobody sees a change. *)
LEMMA NothingSeen ==
  ASSUME \A o \in Envs, w \in VPages : tab'[o][w] = tab[o][w],
         \A o \in Envs, w \in VPages : tab[o][w] # None => val'[tab[o][w]] = val[tab[o][w]]
  PROVE  Seen' = Seen
  BY DEF Seen, Cell

(* The same environments handle a fault. *)
LEMMA SameFaulting ==
  ASSUME \A o \in Envs : (pf'[o] # "no") <=> (pf[o] # "no")
  PROVE  Faulting' = Faulting
  BY DEF Faulting

(* The end of an environment. *)
LEMMA LeaveSeen ==
  ASSUME MInv, NEW e \in Envs, pf[e] = "no", Leave(e)
  PROVE  AbstractStep
  <1>1. /\ \A v \in VAs : tab'[e][v] = None
        /\ \A o \in Envs \ {e} : tab'[o] = tab[o]
        /\ \A o \in Envs \ {e} : pf'[o] = pf[o]
        /\ pf'[e] = "no" /\ val' = val
    BY DEF MInv, TypeOK, Leave
  <1>2. Faulting' = Faulting /\ e \notin Faulting
    BY <1>1, SameFaulting DEF Faulting
  <1>3. Seen' = [Seen EXCEPT ![e] = [w \in VPages |-> None]]
    <2>1. \A v \in VPages : Cell(e, v)' = None
      BY <1>1, PageFacts DEF Cell
    <2>2. \A o \in Envs \ {e}, v \in VPages : Cell(o, v)' = Cell(o, v)
      BY <1>1 DEF Cell
    <2> QED  BY <2>1, <2>2 DEF Seen
  <1>4. Private!PExit(e)
    BY <1>2, <1>3, PageFacts, AbstractSteps
  <1> QED  BY <1>4 DEF AbstractStep, Private!PNext

(* A store. *)
LEMMA StoreSeen ==
  ASSUME MInv, NEW e \in Envs, NEW v \in VPages, NEW x \in Values, Store(e, v, x)
  PROVE  AbstractStep
  <1>1. /\ pf[e] = "no" /\ UNCHANGED <<tab, pf>>
        /\ tab[e][v] \in Frames /\ val'[tab[e][v]] = x
        /\ \A o \in Envs, w \in VAs : tab[o][w] # None /\ ~(o = e /\ w = v)
                                        => val'[tab[o][w]] = val[tab[o][w]]
    BY StoreFacts
  <1>2. tab[e][v] # None /\ val[tab[e][v]] # None
    BY <1>1, ForkAssumption DEF MInv, TypeOK
  <1>3. Faulting' = Faulting /\ e \notin Faulting
    BY <1>1, SameFaulting DEF Faulting
  <1>4. Seen[e][v] # None
    BY <1>2 DEF Seen, Cell
  <1>5. Cell(e, v)' = x
    BY <1>1, <1>2 DEF Cell
  <1>6. \A o \in Envs, w \in VPages : ~(o = e /\ w = v) => Cell(o, w)' = Cell(o, w)
    BY <1>1, PageFacts DEF Cell
  <1>7. Seen' = [Seen EXCEPT ![e][v] = x]
    BY <1>5, <1>6 DEF Seen
  <1>8. Private!PWrite(e, v, x)
    BY <1>3, <1>4, <1>7, AbstractSteps
  <1> QED  BY <1>8 DEF AbstractStep, Private!PNext

(* A page fault is taken, or ends the environment. *)
LEMMA FaultSeen ==
  ASSUME MInv, NEW e \in Envs, NEW v \in VPages, page_fault_handler(e, v)
  PROVE  AbstractStep
  <1>1. pf[e] = "no"
    BY StorerAlive DEF page_fault_handler
  <1>2. CASE Leave(e)
    BY <1>1, <1>2, LeaveSeen
  <1>3. CASE pf' = [pf EXCEPT ![e] = "alloc"] /\ UNCHANGED memVars
    <2>1. pf'[e] = "alloc" /\ \A o \in Envs \ {e} : pf'[o] = pf[o]
      BY <1>3 DEF MInv, TypeOK
    <2>2. Faulting' = Faulting \cup {e} /\ e \notin Faulting
      BY <1>1, <2>1 DEF Faulting
    <2>3. Seen' = Seen
      BY <1>3, NothingSeen DEF memVars
    <2>4. Private!PFault(e)
      BY <2>2, <2>3, PageFacts, AbstractSteps
    <2> QED  BY <2>4 DEF AbstractStep, Private!PNext
  <1> QED  BY <1>2, <1>3 DEF page_fault_handler

(* The handler returns, or faults in turn. *)
LEMMA UpcallSeen ==
  ASSUME MInv, NEW e \in Envs, _pgfault_upcall(e)
  PROVE  AbstractStep
  <1>1. PICK q \in {"no", "alloc"} : PfStep(e, "return", q) /\ UNCHANGED <<tab, perm, val>>
    BY DEF _pgfault_upcall, memVars
  <1>2. pf[e] = "return" /\ pf'[e] = q /\ \A o \in Envs \ {e} : pf'[o] = pf[o]
    BY <1>1, PfStepFacts DEF MInv
  <1>3. Seen' = Seen
    BY <1>1, NothingSeen
  <1>4. CASE q = "alloc"
    <2>1. Faulting' = Faulting
      BY <1>2, <1>4, SameFaulting
    <2> QED  BY <1>3, <2>1 DEF AbstractStep
  <1>5. CASE q = "no"
    <2>1. Faulting' = Faulting \ {e} /\ e \in Faulting
      BY <1>2, <1>5 DEF Faulting
    <2>2. Private!PResume(e)
      BY <1>3, <2>1, PageFacts, AbstractSteps
    <2> QED  BY <2>2 DEF AbstractStep, Private!PNext
  <1> QED  BY <1>4, <1>5

(* Allocating a page outside of the program is not seen. *)
LEMMA AllocSeen ==
  ASSUME MInv, NEW e \in Envs, NEW v \in {PFTEMP, UXSTACK}, NEW p \in FreeFrames, Alloc(e, v, p)
  PROVE  Seen' = Seen
  <1>1. p \in Frames /\ \A o \in Envs, w \in VAs : tab[o][w] # p
    BY DEF FreeFrames
  <1>2. tab' = [tab EXCEPT ![e][v] = p] /\ val' = [val EXCEPT ![p] = 0]
    BY DEF Alloc
  <1>3. \A o \in Envs, w \in VPages : tab'[o][w] = tab[o][w]
    BY <1>2, PageFacts DEF MInv, TypeOK
  <1>4. \A o \in Envs, w \in VPages : tab[o][w] # None => val'[tab[o][w]] = val[tab[o][w]]
    <2>1. \A q \in Frames : q # p => val'[q] = val[q]
      BY <1>2 DEF MInv, TypeOK
    <2>2. \A o \in Envs, w \in VPages : tab[o][w] \in Frames \cup {None} /\ tab[o][w] # p
      BY <1>1, StateParts, PageFacts DEF MInv
    <2> QED  BY <2>1, <2>2
  <1> QED  BY <1>3, <1>4, NothingSeen

(* No step of the handler is seen: when it maps the copy, that is equal to *)
(* the page.                                                               *)
LEMMA HandlerSeen ==
  ASSUME MInv, NEW e \in Envs, pgfault(e)
  PROVE  AbstractStep
  <1>1. CASE panic(e)
    <2>1. UNCHANGED <<tab, val, pf>>
      BY <1>1 DEF panic, memVars, pfVars
    <2> QED  BY <2>1, NothingSeen, SameFaulting DEF AbstractStep
  <1>2. CASE PfStep(e, "alloc", "copy") /\ \E p \in FreeFrames : Alloc(e, PFTEMP, p)
    <2>1. pf[e] = "alloc" /\ pf'[e] = "copy" /\ \A o \in Envs \ {e} : pf'[o] = pf[o]
      BY <1>2, PfStepFacts DEF MInv
    <2>2. Faulting' = Faulting
      BY <2>1, SameFaulting
    <2>3. Seen' = Seen
      BY <1>2, AllocSeen
    <2> QED  BY <2>2, <2>3 DEF AbstractStep
  <1>3. CASE pgfault_copy(e)
    <2>1. /\ tab' = tab /\ pf[e] = "copy" /\ pf'[e] = "map" /\ \A o \in Envs \ {e} : pf'[o] = pf[o]
          /\ \A o \in Envs, w \in VAs : tab[o][w] # None /\ ~(o = e /\ w = PFTEMP)
                                          => val'[tab[o][w]] = val[tab[o][w]]
      BY <1>3, PfCopyFacts
    <2>2. Faulting' = Faulting
      BY <2>1, SameFaulting
    <2>3. \A o \in Envs, w \in VPages : tab[o][w] # None => val'[tab[o][w]] = val[tab[o][w]]
      BY <2>1, PageFacts
    <2>4. Seen' = Seen
      BY <2>1, <2>3, NothingSeen
    <2> QED  BY <2>2, <2>4 DEF AbstractStep
  <1>4. CASE pgfault_map(e)
    <2>1. pf[e] = "map" /\ pf'[e] = "unmap" /\ \A o \in Envs \ {e} : pf'[o] = pf[o]
      BY <1>4, PfStepFacts DEF pgfault_map, MInv
    <2>2. Faulting' = Faulting
      BY <2>1, SameFaulting
    <2>3. PICK p, v : p = tab[e][PFTEMP] /\ v = va[e]
      OBVIOUS
    <2>4. p # None /\ val[p] = val[tab[e][v]]
      BY <2>1, <2>3 DEF MInv, EnvGood, Handling
    <2>5. v \in VPages /\ v \in VAs /\ tab[e][v] # None
      BY <2>1, <2>3, HandlerAlive, StateParts DEF MInv
    <2>6. tab' = [tab EXCEPT ![e][v] = p] /\ val' = val
      BY <1>4, <2>3 DEF pgfault_map
    <2>7. /\ tab'[e][v] = p
          /\ \A o \in Envs, w \in VPages : ~(o = e /\ w = v) => tab'[o][w] = tab[o][w]
      BY <2>5, <2>6, PageFacts DEF MInv, TypeOK
    <2>8. \A o \in Envs, w \in VPages : Cell(o, w)' = Cell(o, w)
      BY <2>4, <2>5, <2>6, <2>7 DEF Cell
    <2>9. Seen' = Seen
      BY <2>8 DEF Seen
    <2> QED  BY <2>2, <2>9 DEF AbstractStep
  <1>5. CASE pgfault_unmap(e)
    <2>1. pf[e] = "unmap" /\ pf'[e] = "return" /\ \A o \in Envs \ {e} : pf'[o] = pf[o]
      BY <1>5, PfStepFacts DEF pgfault_unmap, MInv
    <2>2. Faulting' = Faulting
      BY <2>1, SameFaulting
    <2>3. tab' = [tab EXCEPT ![e][PFTEMP] = None] /\ val' = val
      BY <1>5 DEF pgfault_unmap
    <2>4. \A o \in Envs, w \in VPages : tab'[o][w] = tab[o][w]
      BY <2>3, PageFacts DEF MInv, TypeOK
    <2>5. Seen' = Seen
      BY <2>3, <2>4, NothingSeen
    <2> QED  BY <2>2, <2>5 DEF AbstractStep
  <1> QED  BY <1>1, <1>2, <1>3, <1>4, <1>5 DEF pgfault, pgfault_alloc

(* Of fork itself only the pages of the child are seen. *)
LEMMA ForkSeen ==
  ASSUME MInv, NEW e \in Envs,
         set_pgfault_handler(e) \/ sys_exofork(e) \/ ForkPage(e) \/ ForkDone(e)
  PROVE  AbstractStep
  <1>1. ASSUME UNCHANGED <<memVars, pfVars>> PROVE AbstractStep
    <2>1. UNCHANGED <<tab, val, pf>>
      BY <1>1 DEF memVars, pfVars
    <2> QED  BY <2>1, NothingSeen, SameFaulting DEF AbstractStep
  <1>2. CASE panic(e)
    BY <1>1, <1>2 DEF panic
  <1>3. ASSUME NEW c \in Envs, UNCHANGED pfVars, \E p \in FreeFrames : Alloc(c, UXSTACK, p)
        PROVE  AbstractStep
    <2>1. Seen' = Seen
      BY <1>3, AllocSeen
    <2>2. Faulting' = Faulting
      BY <1>3, SameFaulting DEF pfVars
    <2> QED  BY <2>1, <2>2 DEF AbstractStep
  <1>4. CASE set_pgfault_handler(e)
    BY <1>1, <1>2, <1>3, <1>4 DEF set_pgfault_handler
  <1>5. CASE sys_exofork(e)
    BY <1>1, <1>2, <1>5 DEF sys_exofork
  <1>6. CASE ForkDone(e)
    <2>1. at[e] = "dup"
      BY <1>6 DEF ForkDone, Executes
    <2>2. child[e] \in Envs
      BY <2>1 DEF MInv, ChildGood
    <2> QED  BY <1>2, <1>3, <1>6, <2>2 DEF ForkDone
  <1>7. CASE ForkPage(e)
    <2>1. PICK c, v, q : c = child[e] /\ v = next[e] /\ q = IF perm[e][v] = "RO" THEN "RO" ELSE "COW"
      OBVIOUS
    <2>2. /\ pf[e] = "no" /\ c \in Envs /\ v \in VPages /\ v \in VAs /\ c # e
          /\ tab[e][v] # None /\ tab[c][v] = None
          /\ UNCHANGED <<val, pf>> /\ tab'[c][v] = tab[e][v]
          /\ \A o \in Envs \ {c} : tab'[o] = tab[o]
          /\ \A w \in VAs \ {v} : tab'[c][w] = tab[c][w]
      BY <1>7, <2>1, ForkPageFacts
    <2>3. Faulting' = Faulting /\ e \notin Faulting
      BY <2>2, SameFaulting DEF Faulting
    <2>4. tab[e][v] \in Frames /\ val[tab[e][v]] # None
      BY <2>2, StateParts, ForkAssumption DEF MInv, TypeOK
    <2>5. PICK x : x = Cell(e, v)
      OBVIOUS
    <2>6. Cell(e, v) # None /\ Cell(c, v) = None /\ Cell(c, v)' = x
      BY <2>2, <2>4, <2>5 DEF Cell
    <2>7. Seen[e][v] = x /\ x # None /\ Seen[c][v] = None
      BY <2>2, <2>5, <2>6 DEF Seen
    <2>8. \A o \in Envs, w \in VPages : ~(o = c /\ w = v) => Cell(o, w)' = Cell(o, w)
      BY <2>2, PageFacts DEF Cell
    <2>9. Seen' = [Seen EXCEPT ![c][v] = x]
      BY <2>2, <2>6, <2>8, ZenonT(60) DEF Seen
    <2>10. Private!PCopy(e, c, v)
      BY <2>2, <2>3, <2>7, <2>9, AbstractSteps
    <2> QED  BY <2>2, <2>10 DEF AbstractStep, Private!PNext
  <1> QED  BY <1>4, <1>5, <1>6, <1>7

(* The initial memory is one of PrivateMemory. *)
LEMMA InitPrivate == Init => Private!PInit
  <1> SUFFICES ASSUME Init PROVE Private!PInit
    OBVIOUS
  <1>1. MInv
    BY InitHolds
  <1>2. PICK S \in SUBSET Envs : at = [e \in Envs |-> IF e \in S THEN "run" ELSE "free"]
    <2>1. PICK S \in (SUBSET Started) \ {{}} : at = [e \in Envs |-> IF e \in S THEN "run" ELSE "free"]
      BY DEF Init
    <2>2. S \in SUBSET Envs
      BY ForkAssumption
    <2> QED  BY <2>1, <2>2
  <1>3. val = [p \in Frames |-> 0] /\ pf = [e \in Envs |-> "no"]
    BY DEF Init
  <1>4. PICK start : start = [e \in S |-> [v \in VPages |-> 0]]
    OBVIOUS
  <1>5. start \in [S -> [VPages -> Values]]
    BY <1>4, ForkAssumption
  <1>6. ASSUME NEW e \in Envs, NEW v \in VPages
        PROVE  (e \in S => Cell(e, v) = 0) /\ (e \notin S => Cell(e, v) = None)
    <2>1. e \in S => tab[e][v] # None
      BY <1>1, <1>2 DEF MInv, EnvGood, Loaded, Alive
    <2>2. e \notin S => tab[e][v] = None
      BY <1>1, <1>2, PageFacts DEF MInv, EnvGood, Loaded
    <2>3. tab[e][v] \in Frames \cup {None}
      BY <1>1, StateParts, PageFacts DEF MInv
    <2> QED  BY <1>3, <2>1, <2>2, <2>3 DEF Cell
  <1>7. Seen = [e \in Envs |-> IF e \in S THEN start[e] ELSE [v \in VPages |-> None]]
    BY <1>4, <1>6 DEF Seen
  <1>8. Faulting = {}
    BY <1>3 DEF Faulting
  <1> QED  BY <1>5, <1>7, <1>8 DEF Private!PInit, Seen, Cell, Faulting

(* Every step of fork, of stores and of fault handlers is one of           *)
(* PrivateMemory or is not seen.                                           *)
LEMMA StepPrivate == MInv /\ [Next]_vars => AbstractStep
  <1> SUFFICES ASSUME MInv, [Next]_vars PROVE AbstractStep
    OBVIOUS
  <1>1. CASE UNCHANGED vars
    <2>1. UNCHANGED <<tab, val, pf>>
      BY <1>1 DEF vars, memVars, pfVars
    <2> QED  BY <2>1, NothingSeen, SameFaulting DEF AbstractStep
  <1>2. ASSUME NEW e \in Envs, Exit(e) PROVE AbstractStep
    BY <1>2, LeaveSeen DEF Exit, Executes
  <1>3. CASE Next
    BY <1>2, <1>3, FaultSeen, StoreSeen, HandlerSeen, UpcallSeen, ForkSeen DEF Next
  <1> QED  BY <1>1, <1>3

(* Fork implements private memory: whatever the number of environments,    *)
(* frames and pages, no interleaving of forks, stores, faults and exits    *)
(* lets an environment see a page of its change but by its own store       *)
(* (lib/fork.c, lib/pgfault.c).                                            *)
THEOREM ForkImplements == Spec => ImplementsPrivateMemory
  <1>1. AbstractStep => [Private!PNext]_<<Seen, Faulting>>
    BY DEF AbstractStep
  <1>2. MInv /\ [Next]_vars => [Private!PNext]_<<Seen, Faulting>>
    BY <1>1, StepPrivate
  <1>3. Init => Private!PInit
    BY InitPrivate
  <1>4. Spec => Private!PInit /\ [][Private!PNext]_<<Seen, Faulting>>
    BY <1>2, <1>3, Invariance, PTL DEF Spec
  <1> QED  BY <1>4, PTL DEF ImplementsPrivateMemory, Private!PSpec, Seen, Cell, Faulting
=============================================================================

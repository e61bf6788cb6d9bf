-------------------------------- MODULE Pmap --------------------------------
(***************************************************************************)
(* Physical pages and user address spaces: the page allocator, the         *)
(* reference counts and the two-level page tables of kern/pmap.c, the      *)
(* system calls on memory of kern/syscall.c, and the parts of env_alloc    *)
(* and env_free (kern/env.c) that allocate and free pages.                 *)
(*                                                                         *)
(* A reference to a page is kept in a place: the page directory of an      *)
(* environment (env_cr3), an entry of that directory (a page table), or an *)
(* entry of a page table (a user page).  One function gives the page at    *)
(* every place.  Any environment may operate on any other here; envid2env  *)
(* is in Kern.  The first page of an address space is not one of the       *)
(* addresses: page_remove of an unmapped address reads a struct Page there.*)
(***************************************************************************)
EXTENDS Integers, FiniteSets

CONSTANTS Envs,     \* environments (a slot used again is the same element)
          PDs,      \* entries of a page directory below UTOP
          PTs,      \* entries of a page table
          Pages,    \* physical pages on the free list after page_init
          NoPage,   \* the content of an entry that is not present
          RefMod    \* 2^16: pp_ref is a uint16_t

ASSUME PmapAssumption ==
  /\ IsFiniteSet(Envs) /\ IsFiniteSet(PDs) /\ IsFiniteSet(PTs) /\ IsFiniteSet(Pages)
  /\ NoPage \notin Pages
  /\ RefMod \in Nat /\ RefMod > 1

VAs == PDs \X PTs

(* The places a reference to a page can be in. *)
Dir(e)       == <<"pgdir", e>>
Table(e, d)  == <<"pde", e, d>>
Entry(e, va) == <<"pte", e, va>>

DirPlaces   == {Dir(e) : e \in Envs}
TablePlaces == {Table(x[1], x[2]) : x \in Envs \X PDs}
EntryPlaces == {Entry(x[1], x[2]) : x \in Envs \X VAs}
Places      == DirPlaces \cup TablePlaces \cup EntryPlaces

PlacesOf(e) == {Dir(e)} \cup {Table(e, d) : d \in PDs} \cup {Entry(e, va) : va \in VAs}

VARIABLES mem,      \* tab: the page at each place; wr: the entries with PTE_W;
                    \* ref: pp_ref; free: page_free_list
          stopped   \* the kernel has faulted, or has freed a page in use: what
                    \* happens after that is not followed

vars == <<mem, stopped>>

Memory == [tab : [Places -> Pages \cup {NoPage}], wr : SUBSET EntryPlaces,
           ref : [Pages -> 0..(RefMod - 1)], free : SUBSET Pages]

TypeOK == mem \in Memory /\ stopped \in BOOLEAN

Alive(e) == mem.tab[Dir(e)] # NoPage

-----------------------------------------------------------------------------
(* kern/pmap.c.  An operator takes a memory and gives the memory after.  *)

page_free(m, p) == [m EXCEPT !.free = @ \cup {p}]

IncRef(m, p) == [m EXCEPT !.ref[p] = (@ + 1) % RefMod]
DecRef(m, p) == [m EXCEPT !.ref[p] = (@ - 1) % RefMod]

page_decref(m, p) ==
  LET m1 == DecRef(m, p) IN
  IF m1.ref[p] = 0 THEN page_free(m1, p) ELSE m1

\* Page p off the free list and referred to from place x.
Take(m, p, x) == [m EXCEPT !.free = @ \ {p}, !.tab[x] = p]

\* mutant: the new page table stays on the free list
pgdir_walk_NotTaken(m, e, d) ==
  IF m.tab[Table(e, d)] # NoPage THEN {m}
  ELSE {[m EXCEPT !.tab[Table(e, d)] = q, !.ref[q] = 1] : q \in m.free}

\* The memories pgdir_walk(e, va, 1) can leave: none if it returns NULL.
pgdir_walk(m, e, d) ==
  IF m.tab[Table(e, d)] # NoPage THEN {m}
  ELSE {[Take(m, q, Table(e, d)) EXCEPT !.ref[q] = 1] : q \in m.free}

\* page_remove of an address that is mapped.
page_remove(m, x) ==
  [page_decref(m, m.tab[x]) EXCEPT !.tab[x] = NoPage, !.wr = @ \ {x}]

\* mutant: the old mapping is not counted down when the page is the same
Vacate_NoDecRef(m, x, p) ==
  IF m.tab[x] = NoPage \/ m.tab[x] = p THEN m ELSE page_remove(m, x)

\* mutant: the same page again is removed first
Vacate_Always(m, x, p) ==
  IF m.tab[x] = NoPage THEN m ELSE page_remove(m, x)

\* page_insert: the same page again at the same place only changes permissions.
Vacate(m, x, p) ==
  IF m.tab[x] = NoPage THEN m
  ELSE IF m.tab[x] # p THEN page_remove(m, x) ELSE DecRef(m, p)

\* mutant: the permission goes into the page directory entry
Install_InPde(m, x, p, w) ==
  [IncRef(m, p) EXCEPT !.tab[x] = p,
                       !.wr = IF w THEN @ \cup {Table(x[2], x[3][1])} ELSE @ \ {x}]

Install(m, x, p, w) ==
  [IncRef(m, p) EXCEPT !.tab[x] = p, !.wr = IF w THEN @ \cup {x} ELSE @ \ {x}]

\* Empty for -E_NO_MEM.
page_insert(m, e, p, va, w) ==
  LET x == Entry(e, va) IN
  {Install(Vacate(m1, x, p), x, p, w) : m1 \in pgdir_walk(m, e, va[1])}

-----------------------------------------------------------------------------
Init ==
  /\ mem = [tab |-> [x \in Places |-> NoPage], wr |-> {},
            ref |-> [p \in Pages |-> 0], free |-> Pages]
  /\ stopped = FALSE

(* env_setup_vm, of env_alloc. *)
env_setup_vm(e) ==
  /\ ~Alive(e)
  /\ \E p \in mem.free : mem' = IncRef(Take(mem, p, Dir(e)), p)
  /\ UNCHANGED stopped

(***************************************************************************)
(* env_free: page_remove of every mapped address, page_decref of every     *)
(* page table and of the page directory.  A page is freed when one of the  *)
(* decrements takes its pp_ref to 0.                                       *)
(***************************************************************************)
Uses(m, p, X) == Cardinality({x \in X : m.tab[x] = p})

env_free(e) ==
  /\ Alive(e)
  /\ mem' =
       LET X == PlacesOf(e) IN
       [tab  |-> [x \in Places |-> IF x \in X THEN NoPage ELSE mem.tab[x]],
        wr   |-> mem.wr \ X,
        ref  |-> [p \in Pages |-> (mem.ref[p] - Uses(mem, p, X)) % RefMod],
        free |-> mem.free \cup
                 {p \in Pages : \E k \in 1..Uses(mem, p, X) : (mem.ref[p] - k) % RefMod = 0}]
  /\ UNCHANGED stopped

(* sys_page_alloc: if page_insert fails the page goes back. *)
sys_page_alloc(e, va, w) ==
  /\ Alive(e)
  /\ \E p \in mem.free :
       LET m1   == [mem EXCEPT !.free = @ \ {p}]
           done == page_insert(m1, e, p, va, w)
       IN \/ done # {} /\ mem' \in done
          \/ done = {} /\ mem' = page_free(m1, p)
  /\ UNCHANGED stopped

(***************************************************************************)
(* The common part of sys_page_map and of the page transfer of             *)
(* sys_ipc_try_send: the page at address va of e also at dva of d.  When   *)
(* page_insert fails both call page_free on the page they were to share.   *)
(***************************************************************************)
\* mutant: no check of PTE_W
MayShare_Unchecked(m, e, va, w) == m.tab[Entry(e, va)] # NoPage

MayShare(m, e, va, w) ==
  /\ m.tab[Entry(e, va)] # NoPage
  /\ w => Entry(e, va) \in m.wr

Share(m, e, va, d, dva, w) ==
  LET p    == m.tab[Entry(e, va)]
      done == page_insert(m, d, p, dva, w)
  IN \/ done # {} /\ mem' \in done /\ UNCHANGED stopped
     \/ done = {} /\ mem' = page_free(m, p) /\ stopped' = TRUE

sys_page_map(e, va, d, dva, w) ==
  /\ Alive(e) /\ Alive(d)
  /\ MayShare(mem, e, va, w)
  /\ Share(mem, e, va, d, dva, w)

(* The receiver d waits for a page at dva. *)
sys_ipc_try_send(e, va, d, dva, w) ==
  /\ d # e
  /\ sys_page_map(e, va, d, dva, w)

(* SYS_page_map_update_perm: e maps its page into d, then again into itself. *)
sys_page_map_update_perm(e, va, d, dva, w) ==
  /\ Alive(e) /\ Alive(d)
  /\ MayShare(mem, e, va, w)
  /\ \E m1 \in page_insert(mem, d, mem.tab[Entry(e, va)], dva, w) :
       Share(m1, e, va, e, dva, w)

(***************************************************************************)
(* sys_page_unmap calls page_remove, which looks at whether there is a     *)
(* page table entry and not at whether it is present: page_decref(NULL)    *)
(* faults in the kernel.                                                   *)
(***************************************************************************)
sys_page_unmap(e, va) ==
  /\ Alive(e)
  /\ mem.tab[Table(e, va[1])] # NoPage
  /\ IF mem.tab[Entry(e, va)] # NoPage
     THEN mem' = page_remove(mem, Entry(e, va)) /\ UNCHANGED stopped
     ELSE stopped' = TRUE /\ UNCHANGED mem

Next ==
  /\ ~stopped
  /\ \E e \in Envs :
       \/ env_setup_vm(e)
       \/ env_free(e)
       \/ \E va \in VAs : sys_page_unmap(e, va)
       \/ \E va \in VAs, w \in BOOLEAN : sys_page_alloc(e, va, w)
       \/ \E va, dva \in VAs, d \in Envs, w \in BOOLEAN :
            \/ sys_page_map(e, va, d, dva, w)
            \/ sys_ipc_try_send(e, va, d, dva, w)
            \/ sys_page_map_update_perm(e, va, d, dva, w)

Spec == Init /\ [][Next]_vars

-----------------------------------------------------------------------------
(* pp_ref "is the count of pointers (usually in page table entries) to     *)
(* this page" (inc/memlayout.h:172), through every sequence of allocating, *)
(* sharing, remapping, unmapping and destroying.                           *)
RefCountExact == \A p \in Pages : mem.ref[p] = Uses(mem, p, Places)

(* No use after free and no leak: a page is on the free list exactly when  *)
(* nothing refers to it, unless the kernel ran out of memory for a page    *)
(* table in sys_page_map.                                                  *)
FreeExact == ~stopped => \A p \in Pages : p \in mem.free <=> Uses(mem, p, Places) = 0

(* Page directories and tables form a tree of their own.  A page that      *)
(* holds one is nothing else: no environment has it mapped and no other    *)
(* environment shares it.  An address is mapped only through a page table, *)
(* and a dead environment, without a page directory, keeps nothing.        *)
TablesPrivate ==
  /\ \A x \in DirPlaces \cup TablePlaces, y \in Places :
       mem.tab[x] # NoPage /\ mem.tab[x] = mem.tab[y] => x = y
  /\ \A e \in Envs :
       /\ ~Alive(e) => \A d \in PDs : mem.tab[Table(e, d)] = NoPage
       /\ \A va \in VAs : mem.tab[Table(e, va[1])] = NoPage => mem.tab[Entry(e, va)] = NoPage

Writable(m, p) == \E x \in m.wr : m.tab[x] = p

(* Write access is never made out of read access: once nobody can write a  *)
(* page that is in use, nobody can until it has been free                  *)
(* ("it also must not grant write access to a read-only page",             *)
(* kern/syscall.c:316).                                                    *)
NoWriteUpgrade ==
  [][\A p \in Pages : p \notin mem.free /\ ~Writable(mem, p) => ~Writable(mem', p)]_vars
=============================================================================

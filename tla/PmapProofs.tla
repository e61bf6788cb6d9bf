----------------------------- MODULE PmapProofs -----------------------------
(***************************************************************************)
(* Proofs about the physical pages and page tables of Pmap.                *)
(*                                                                         *)
(* That the kernel types are respected and that no operation makes write   *)
(* access out of read access holds without condition.  The reference       *)
(* counts are exact as long as no page is referred to from RefMod places:  *)
(* pp_ref is 16 bits wide and nothing in kern/pmap.c looks at its limit.   *)
(***************************************************************************)
EXTENDS Pmap, FiniteSetTheorems, TLAPS

(* No page has as many references as would make its pp_ref wrap around. *)
NoOverflow == \A p \in Pages : Uses(mem, p, Places) < RefMod

(* pp_ref counts the references, in memory m. *)
Counted(m) == \A p \in Pages : m.ref[p] = Uses(m, p, Places)

(* The free list of m holds the pages nothing refers to, except those of R, *)
(* which an operation has taken and not yet put in its place.              *)
FreeBut(m, R) == \A p \in Pages : p \in m.free <=> Uses(m, p, Places) = 0 /\ p \notin R

(* TablesPrivate, of a memory. *)
Tree(m) ==
  /\ \A x \in DirPlaces \cup TablePlaces, y \in Places :
       m.tab[x] # NoPage /\ m.tab[x] = m.tab[y] => x = y
  /\ \A e \in Envs :
       /\ m.tab[Dir(e)] = NoPage => \A d \in PDs : m.tab[Table(e, d)] = NoPage
       /\ \A va \in VAs : m.tab[Table(e, va[1])] = NoPage => m.tab[Entry(e, va)] = NoPage

Good(m, R) == m \in Memory /\ Counted(m) /\ FreeBut(m, R) /\ Tree(m)

(***************************************************************************)
(* The inductive invariant.                                                *)
(***************************************************************************)
MInv == TypeOK /\ Counted(mem) /\ Tree(mem) /\ (~stopped => FreeBut(mem, {}))

-----------------------------------------------------------------------------
(* Places. *)

(* The three kinds of places, and what a place names, are told apart. *)
LEMMA Kinds ==
  /\ \A e \in Envs : Dir(e) \in DirPlaces /\ Dir(e) \in Places
  /\ \A e \in Envs, d \in PDs : Table(e, d) \in TablePlaces /\ Table(e, d) \in Places
  /\ \A e \in Envs, va \in VAs : Entry(e, va) \in EntryPlaces /\ Entry(e, va) \in Places
  /\ DirPlaces \cap TablePlaces = {} /\ DirPlaces \cap EntryPlaces = {}
  /\ TablePlaces \cap EntryPlaces = {}
  <1>1. \A x \in DirPlaces : x[1] = "pgdir"
    BY DEF DirPlaces, Dir
  <1>2. \A x \in TablePlaces : x[1] = "pde"
    BY DEF TablePlaces, Table
  <1>3. \A x \in EntryPlaces : x[1] = "pte"
    BY DEF EntryPlaces, Entry
  <1>4. \A e \in Envs : Dir(e) \in DirPlaces
    BY DEF DirPlaces
  <1>5. ASSUME NEW e \in Envs, NEW d \in PDs PROVE Table(e, d) \in TablePlaces
    <2>1. <<e, d>> \in Envs \X PDs /\ <<e, d>>[1] = e /\ <<e, d>>[2] = d
      OBVIOUS
    <2> QED  BY <2>1 DEF TablePlaces
  <1>6. ASSUME NEW e \in Envs, NEW va \in VAs PROVE Entry(e, va) \in EntryPlaces
    <2>1. <<e, va>> \in Envs \X VAs /\ <<e, va>>[1] = e /\ <<e, va>>[2] = va
      OBVIOUS
    <2> QED  BY <2>1 DEF EntryPlaces
  <1> QED  BY <1>1, <1>2, <1>3, <1>4, <1>5, <1>6 DEF Places

(* A place stands for one environment and one address. *)
LEMMA Distinct ==
  /\ \A e, f : Dir(e) = Dir(f) => e = f
  /\ \A e, f, d, c : Table(e, d) = Table(f, c) => e = f /\ d = c
  /\ \A e, f, v, u : Entry(e, v) = Entry(f, u) => e = f /\ v = u
  BY DEF Dir, Table, Entry

(* An address belongs to an entry of the directory. *)
LEMMA VaType ==
  ASSUME NEW va \in VAs
  PROVE  va[1] \in PDs
  BY DEF VAs

(* There are finitely many places. *)
LEMMA PlacesFinite == IsFiniteSet(Places)
  <1>1. IsFiniteSet(DirPlaces)
    <2> DEFINE f == [e \in Envs |-> Dir(e)]
    <2>1. f \in Surjection(Envs, DirPlaces)
      BY DEF Surjection, DirPlaces
    <2> QED  BY <2>1, FS_Surjection, PmapAssumption
  <1>2. IsFiniteSet(Envs \X PDs) /\ IsFiniteSet(VAs)
    BY FS_Product, PmapAssumption DEF VAs
  <1>3. IsFiniteSet(Envs \X VAs)
    BY <1>2, FS_Product, PmapAssumption
  <1>4. IsFiniteSet(TablePlaces)
    <2> DEFINE f == [x \in Envs \X PDs |-> Table(x[1], x[2])]
    <2>1. f \in Surjection(Envs \X PDs, TablePlaces)
      BY DEF Surjection, TablePlaces
    <2> QED  BY <1>2, <2>1, FS_Surjection
  <1>5. IsFiniteSet(EntryPlaces)
    <2> DEFINE f == [x \in Envs \X VAs |-> Entry(x[1], x[2])]
    <2>1. f \in Surjection(Envs \X VAs, EntryPlaces)
      BY DEF Surjection, EntryPlaces
    <2> QED  BY <1>3, <2>1, FS_Surjection
  <1> QED  BY <1>1, <1>4, <1>5, FS_Union DEF Places

-----------------------------------------------------------------------------
(* Counting references. *)

(* The count is a number, 0 for a page nothing refers to. *)
LEMMA UsesType ==
  ASSUME NEW m, NEW p, NEW X \in SUBSET Places
  PROVE  /\ Uses(m, p, X) \in Nat
         /\ IsFiniteSet({x \in X : m.tab[x] = p})
         /\ Uses(m, p, X) = 0 <=> \A x \in X : m.tab[x] # p
  <1> DEFINE S == {x \in X : m.tab[x] = p}
  <1>1. IsFiniteSet(S)
    <2>1. S \in SUBSET Places
      OBVIOUS
    <2> QED  BY <2>1, PlacesFinite, FS_Subset
  <1>2. Cardinality(S) \in Nat /\ (Cardinality(S) = 0 <=> S = {})
    BY <1>1, FS_CardinalityType, FS_EmptySet
  <1>3. Uses(m, p, X) = Cardinality(S)
    BY DEF Uses
  <1> QED  BY <1>1, <1>2, <1>3

(* A page that some place holds is counted. *)
LEMMA InUse ==
  ASSUME NEW m, NEW x \in Places
  PROVE  Uses(m, m.tab[x], Places) # 0
  <1>1. PICK p : p = m.tab[x]
    OBVIOUS
  <1>2. Uses(m, p, Places) = 0 <=> \A y \in Places : m.tab[y] # p
    BY UsesType
  <1> QED  BY <1>1, <1>2

(* The page at place x, and at no other, goes from a in m to b in n. *)
Moved(m, n, x, a, b) ==
  /\ a # b /\ m.tab[x] = a /\ n.tab[x] = b
  /\ \A y \in Places \ {x} : n.tab[y] = m.tab[y]

(* A place that gets another page counts one less for the old page, one    *)
(* more for the new one, and nothing for the others.                       *)
LEMMA UsesMoved ==
  ASSUME NEW m, NEW n, NEW x \in Places, NEW a, NEW b, Moved(m, n, x, a, b)
  PROVE  /\ Uses(n, a, Places) = Uses(m, a, Places) - 1 /\ Uses(m, a, Places) > 0
         /\ Uses(n, b, Places) = Uses(m, b, Places) + 1
         /\ \A p : p # a /\ p # b => Uses(n, p, Places) = Uses(m, p, Places)
  <1> DEFINE S(k, p) == {y \in Places : k.tab[y] = p}
  <1>1. \A k, p : Uses(k, p, Places) = Cardinality(S(k, p)) /\ IsFiniteSet(S(k, p))
                    /\ Cardinality(S(k, p)) \in Nat
    <2> SUFFICES ASSUME NEW k, NEW p
                 PROVE  /\ Uses(k, p, Places) = Cardinality(S(k, p))
                        /\ IsFiniteSet(S(k, p)) /\ Cardinality(S(k, p)) \in Nat
      OBVIOUS
    <2>1. IsFiniteSet(S(k, p))
      <3>1. S(k, p) \in SUBSET Places
        OBVIOUS
      <3> HIDE DEF S
      <3> QED  BY <3>1, PlacesFinite, FS_Subset
    <2> QED  BY <2>1, FS_CardinalityType DEF Uses
  <1>2. S(n, a) = S(m, a) \ {x} /\ x \in S(m, a)
    BY DEF Moved
  <1>3. S(n, b) = S(m, b) \cup {x} /\ x \notin S(m, b)
    BY DEF Moved
  <1>4. \A p : p # a /\ p # b => S(n, p) = S(m, p)
    BY DEF Moved
  <1> HIDE DEF S
  <1>5. Cardinality(S(n, a)) = Cardinality(S(m, a)) - 1
    BY <1>1, <1>2, FS_RemoveElement
  <1>6. Cardinality(S(n, b)) = Cardinality(S(m, b)) + 1
    BY <1>1, <1>3, FS_AddElement, ZenonT(60)
  <1> QED  BY <1>1, <1>4, <1>5, <1>6

(* The count depends on the places only. *)
LEMMA UsesSame ==
  ASSUME NEW m, NEW n, \A y \in Places : n.tab[y] = m.tab[y]
  PROVE  \A p : Uses(n, p, Places) = Uses(m, p, Places)
  <1>1. \A p : {x \in Places : n.tab[x] = p} = {x \in Places : m.tab[x] = p}
    OBVIOUS
  <1> QED  BY <1>1 DEF Uses

(* The 16 bit counter, one up and one down. *)
Up(n)   == (n + 1) % RefMod
Down(n) == (n - 1) % RefMod

(* Below its limit the counter counts. *)
LEMMA NoWrap ==
  ASSUME NEW n \in 0..(RefMod - 1)
  PROVE  /\ Up(n) \in 0..(RefMod - 1) /\ Down(n) \in 0..(RefMod - 1)
         /\ n + 1 < RefMod => Up(n) = n + 1
         /\ n > 0 => Down(n) = n - 1
  <1>1. RefMod \in Nat /\ RefMod > 1
    BY PmapAssumption
  <1> QED  BY <1>1, SMT DEF Up, Down

-----------------------------------------------------------------------------
(* What the operators of kern/pmap.c leave, place by place and page by page. *)

(* What is in a memory. *)
LEMMA MemoryType ==
  ASSUME NEW m \in Memory
  PROVE  /\ \A x \in Places : m.tab[x] \in Pages \cup {NoPage}
         /\ \A p \in Pages : m.ref[p] \in 0..(RefMod - 1)
         /\ m.wr \subseteq EntryPlaces /\ m.free \subseteq Pages
  BY DEF Memory

(* One reference more. *)
LEMMA IncRefGives ==
  ASSUME NEW m \in Memory, NEW p \in Pages
  PROVE  /\ IncRef(m, p) \in Memory
         /\ IncRef(m, p).tab = m.tab /\ IncRef(m, p).wr = m.wr /\ IncRef(m, p).free = m.free
         /\ IncRef(m, p).ref[p] = Up(m.ref[p])
         /\ \A q \in Pages \ {p} : IncRef(m, p).ref[q] = m.ref[q]
  <1>1. Up(m.ref[p]) \in 0..(RefMod - 1)
    BY MemoryType, NoWrap
  <1>2. IncRef(m, p) = [m EXCEPT !.ref[p] = Up(@)]
    BY DEF IncRef, Up
  <1> QED  BY <1>1, <1>2 DEF Memory

(* One reference less. *)
LEMMA DecRefGives ==
  ASSUME NEW m \in Memory, NEW p \in Pages
  PROVE  /\ DecRef(m, p) \in Memory
         /\ DecRef(m, p).tab = m.tab /\ DecRef(m, p).wr = m.wr /\ DecRef(m, p).free = m.free
         /\ DecRef(m, p).ref[p] = Down(m.ref[p])
         /\ \A q \in Pages \ {p} : DecRef(m, p).ref[q] = m.ref[q]
  <1>1. Down(m.ref[p]) \in 0..(RefMod - 1)
    BY MemoryType, NoWrap
  <1>2. DecRef(m, p) = [m EXCEPT !.ref[p] = Down(@)]
    BY DEF DecRef, Down
  <1> QED  BY <1>1, <1>2 DEF Memory

(* page_free. *)
LEMMA FreeGives ==
  ASSUME NEW m \in Memory, NEW p \in Pages
  PROVE  /\ page_free(m, p) \in Memory
         /\ page_free(m, p).tab = m.tab /\ page_free(m, p).wr = m.wr
         /\ page_free(m, p).ref = m.ref
         /\ page_free(m, p).free = m.free \cup {p}
  BY DEF page_free, Memory

(* page_decref. *)
LEMMA PageDecrefGives ==
  ASSUME NEW m \in Memory, NEW p \in Pages
  PROVE  /\ page_decref(m, p) \in Memory
         /\ page_decref(m, p).tab = m.tab /\ page_decref(m, p).wr = m.wr
         /\ page_decref(m, p).ref[p] = Down(m.ref[p])
         /\ \A q \in Pages \ {p} : page_decref(m, p).ref[q] = m.ref[q]
         /\ page_decref(m, p).free = IF Down(m.ref[p]) = 0 THEN m.free \cup {p} ELSE m.free
  <1>1. PICK m1 \in Memory : m1 = DecRef(m, p)
    BY DecRefGives
  <1>2. /\ m1.tab = m.tab /\ m1.wr = m.wr /\ m1.free = m.free
        /\ m1.ref[p] = Down(m.ref[p]) /\ \A q \in Pages \ {p} : m1.ref[q] = m.ref[q]
    BY <1>1, DecRefGives
  <1>3. page_decref(m, p) = IF m1.ref[p] = 0 THEN page_free(m1, p) ELSE m1
    BY <1>1 DEF page_decref
  <1>4. /\ page_free(m1, p) \in Memory /\ page_free(m1, p).tab = m1.tab
        /\ page_free(m1, p).wr = m1.wr /\ page_free(m1, p).ref = m1.ref
        /\ page_free(m1, p).free = m1.free \cup {p}
    BY FreeGives
  <1> QED  BY <1>2, <1>3, <1>4

(* Place x gets page or no page v, and the entries of W write permission. *)
Put(m, x, v, W) == [m EXCEPT !.tab[x] = v, !.wr = W]

(* What such an assignment leaves. *)
LEMMA PutGives ==
  ASSUME NEW m \in Memory, NEW x \in Places, NEW v \in Pages \cup {NoPage},
         NEW W \in SUBSET EntryPlaces
  PROVE  /\ Put(m, x, v, W) \in Memory /\ Put(m, x, v, W).wr = W
         /\ Put(m, x, v, W).ref = m.ref /\ Put(m, x, v, W).free = m.free
         /\ Put(m, x, v, W).tab[x] = v
         /\ \A y \in Places \ {x} : Put(m, x, v, W).tab[y] = m.tab[y]
  <1>0. PICK n : n = Put(m, x, v, W)
    OBVIOUS
  <1>1. n = [tab |-> [m.tab EXCEPT ![x] = v], wr |-> W, ref |-> m.ref, free |-> m.free]
    BY <1>0 DEF Memory, Put
  <1>2. PICK t : t = [m.tab EXCEPT ![x] = v]
    OBVIOUS
  <1>3. /\ t \in [Places -> Pages \cup {NoPage}]
        /\ t[x] = v /\ \A y \in Places \ {x} : t[y] = m.tab[y]
    BY <1>2 DEF Memory
  <1>4. n \in Memory
    BY <1>1, <1>2, <1>3 DEF Memory
  <1> QED  BY <1>0, <1>1, <1>2, <1>3, <1>4

(* page_remove of a place that holds a page. *)
LEMMA RemoveGives ==
  ASSUME NEW m \in Memory, NEW x \in Places, m.tab[x] # NoPage
  PROVE  /\ m.tab[x] \in Pages
         /\ page_remove(m, x) \in Memory
         /\ page_remove(m, x).tab[x] = NoPage
         /\ \A y \in Places \ {x} : page_remove(m, x).tab[y] = m.tab[y]
         /\ page_remove(m, x).wr = m.wr \ {x}
         /\ page_remove(m, x).ref[m.tab[x]] = Down(m.ref[m.tab[x]])
         /\ \A p \in Pages \ {m.tab[x]} : page_remove(m, x).ref[p] = m.ref[p]
         /\ Down(m.ref[m.tab[x]]) = 0 => page_remove(m, x).free = m.free \cup {m.tab[x]}
         /\ Down(m.ref[m.tab[x]]) # 0 => page_remove(m, x).free = m.free
  <1>1. PICK q \in Pages : q = m.tab[x]
    BY MemoryType
  <1>2. PICK m1 \in Memory : m1 = page_decref(m, q)
    BY PageDecrefGives
  <1>3. m1.wr \ {x} \in SUBSET EntryPlaces
    BY MemoryType
  <1>4. PICK n : n = Put(m1, x, NoPage, m1.wr \ {x})
    OBVIOUS
  <1>5. n = page_remove(m, x)
    BY <1>1, <1>2, <1>4 DEF page_remove, Put
  <1>6. /\ n \in Memory /\ n.wr = m1.wr \ {x} /\ n.ref = m1.ref /\ n.free = m1.free
        /\ n.tab[x] = NoPage /\ \A y \in Places \ {x} : n.tab[y] = m1.tab[y]
    BY <1>3, <1>4, PutGives
  <1>7. /\ m1.tab = m.tab /\ m1.wr = m.wr /\ m1.ref[q] = Down(m.ref[q])
        /\ \A p \in Pages \ {q} : m1.ref[p] = m.ref[p]
        /\ m1.free = IF Down(m.ref[q]) = 0 THEN m.free \cup {q} ELSE m.free
    BY <1>2, PageDecrefGives
  <1> QED  BY <1>1, <1>5, <1>6, <1>7

(* pgdir_walk: the table was there, or is a page of the free list. *)
LEMMA WalkGives ==
  ASSUME NEW m \in Memory, NEW e \in Envs, NEW d \in PDs, NEW n \in pgdir_walk(m, e, d)
  PROVE  \/ n = m /\ m.tab[Table(e, d)] # NoPage
         \/ \E q \in m.free :
              /\ m.tab[Table(e, d)] = NoPage
              /\ n \in Memory
              /\ n.tab[Table(e, d)] = q
              /\ \A y \in Places \ {Table(e, d)} : n.tab[y] = m.tab[y]
              /\ n.wr = m.wr /\ n.free = m.free \ {q}
              /\ n.ref[q] = 1 /\ \A p \in Pages \ {q} : n.ref[p] = m.ref[p]
  <1>1. CASE m.tab[Table(e, d)] # NoPage
    BY <1>1 DEF pgdir_walk
  <1>2. CASE m.tab[Table(e, d)] = NoPage
    <2>1. PICK q \in m.free : n = [Take(m, q, Table(e, d)) EXCEPT !.ref[q] = 1]
      BY <1>2 DEF pgdir_walk
    <2>2. q \in Pages /\ Table(e, d) \in Places /\ 1 \in 0..(RefMod - 1)
      BY Kinds, PmapAssumption DEF Memory
    <2> QED  BY <1>2, <2>1, <2>2 DEF Take, Memory
  <1> QED  BY <1>1, <1>2

(* The last part of page_insert. *)
LEMMA InstallGives ==
  ASSUME NEW m \in Memory, NEW x \in EntryPlaces, NEW p \in Pages, NEW w \in BOOLEAN
  PROVE  /\ Install(m, x, p, w) \in Memory
         /\ Install(m, x, p, w).tab[x] = p
         /\ \A y \in Places \ {x} : Install(m, x, p, w).tab[y] = m.tab[y]
         /\ w => Install(m, x, p, w).wr = m.wr \cup {x}
         /\ ~w => Install(m, x, p, w).wr = m.wr \ {x}
         /\ Install(m, x, p, w).ref[p] = Up(m.ref[p])
         /\ \A q \in Pages \ {p} : Install(m, x, p, w).ref[q] = m.ref[q]
         /\ Install(m, x, p, w).free = m.free
  <1>1. x \in Places
    BY DEF Places
  <1>2. PICK m1 \in Memory : m1 = IncRef(m, p)
    BY IncRefGives
  <1>3. PICK W : W = IF w THEN m1.wr \cup {x} ELSE m1.wr \ {x}
    OBVIOUS
  <1>4. W \in SUBSET EntryPlaces
    BY <1>3, MemoryType
  <1>5. PICK n : n = Put(m1, x, p, W)
    OBVIOUS
  <1>6. n = Install(m, x, p, w)
    BY <1>2, <1>3, <1>5 DEF Install, Put
  <1>7. /\ n \in Memory /\ n.wr = W /\ n.ref = m1.ref /\ n.free = m1.free
        /\ n.tab[x] = p /\ \A y \in Places \ {x} : n.tab[y] = m1.tab[y]
    BY <1>1, <1>4, <1>5, PutGives
  <1>8. /\ m1.tab = m.tab /\ m1.wr = m.wr /\ m1.free = m.free
        /\ m1.ref[p] = Up(m.ref[p]) /\ \A q \in Pages \ {p} : m1.ref[q] = m.ref[q]
    BY <1>2, IncRefGives
  <1> QED  BY <1>3, <1>6, <1>7, <1>8

(* The middle part of page_insert. *)
LEMMA VacateGives ==
  ASSUME NEW m \in Memory, NEW x \in Places, NEW p \in Pages
  PROVE  /\ Vacate(m, x, p) \in Memory
         /\ \A y \in Places \ {x} : Vacate(m, x, p).tab[y] = m.tab[y]
         /\ Vacate(m, x, p).tab[x] \in {NoPage, p}
         /\ Vacate(m, x, p).wr \subseteq m.wr
  <1>1. CASE m.tab[x] = NoPage
    BY <1>1 DEF Vacate
  <1>2. CASE m.tab[x] # NoPage /\ m.tab[x] # p
    <2>1. Vacate(m, x, p) = page_remove(m, x)
      BY <1>2 DEF Vacate
    <2> QED  BY <1>2, <2>1, RemoveGives
  <1>3. CASE m.tab[x] # NoPage /\ m.tab[x] = p
    <2>1. Vacate(m, x, p) = DecRef(m, p)
      BY <1>3 DEF Vacate
    <2> QED  BY <1>3, <2>1, DecRefGives
  <1> QED  BY <1>1, <1>2, <1>3

-----------------------------------------------------------------------------
(* The operators keep a good memory good. *)

(* A reference is taken away from an address. *)
LEMMA TreeCut ==
  ASSUME NEW m, NEW n, Tree(m), NEW x \in EntryPlaces,
         n.tab[x] = NoPage, \A y \in Places \ {x} : n.tab[y] = m.tab[y]
  PROVE  Tree(n)
  <1>1. x \in Places /\ x \notin DirPlaces /\ x \notin TablePlaces
    BY Kinds DEF Places
  <1>2. \A y \in DirPlaces \cup TablePlaces : y \in Places /\ n.tab[y] = m.tab[y]
    BY <1>1 DEF Places
  <1>3. \A y \in DirPlaces \cup TablePlaces, z \in Places :
           n.tab[y] # NoPage /\ n.tab[y] = n.tab[z] => y = z
    BY <1>2 DEF Tree
  <1>4. ASSUME NEW e \in Envs
        PROVE  /\ n.tab[Dir(e)] = NoPage => \A d \in PDs : n.tab[Table(e, d)] = NoPage
               /\ \A va \in VAs : n.tab[Table(e, va[1])] = NoPage => n.tab[Entry(e, va)] = NoPage
    BY <1>2, Kinds, VaType DEF Tree
  <1> QED  BY <1>3, <1>4 DEF Tree

(* A page that is no table gets mapped at an address with a page table. *)
LEMMA TreePut ==
  ASSUME NEW m, NEW n, Tree(m), NEW e \in Envs, NEW va \in VAs, NEW p \in Pages,
         m.tab[Table(e, va[1])] # NoPage,
         \A y \in DirPlaces \cup TablePlaces : m.tab[y] # p,
         n.tab[Entry(e, va)] = p, \A y \in Places \ {Entry(e, va)} : n.tab[y] = m.tab[y]
  PROVE  Tree(n)
  <1> DEFINE x == Entry(e, va)
  <1>1. x \in Places /\ x \notin DirPlaces /\ x \notin TablePlaces
    BY Kinds
  <1>2. \A y \in Places : n.tab[y] = IF y = x THEN p ELSE m.tab[y]
    BY <1>1
  <1> HIDE DEF x
  <1>3. \A y \in DirPlaces \cup TablePlaces : y \in Places /\ n.tab[y] = m.tab[y]
    BY <1>1, <1>2 DEF Places
  <1>4. \A y \in DirPlaces \cup TablePlaces, z \in Places :
           n.tab[y] # NoPage /\ n.tab[y] = n.tab[z] => y = z
    BY <1>2, <1>3 DEF Tree
  <1>5. ASSUME NEW f \in Envs
        PROVE  n.tab[Dir(f)] = NoPage => \A d \in PDs : n.tab[Table(f, d)] = NoPage
    BY <1>3, Kinds DEF Tree
  <1>6. ASSUME NEW f \in Envs, NEW u \in VAs, n.tab[Table(f, u[1])] = NoPage
        PROVE  n.tab[Entry(f, u)] = NoPage
    <2>1. m.tab[Table(f, u[1])] = NoPage /\ Entry(f, u) \in Places
      BY <1>3, <1>6, Kinds, VaType
    <2>2. m.tab[Entry(f, u)] = NoPage
      BY <2>1 DEF Tree
    <2>3. Entry(f, u) # x
      BY <2>1, Distinct DEF x
    <2> QED  BY <1>2, <2>1, <2>2, <2>3
  <1> QED  BY <1>4, <1>5, <1>6 DEF Tree

(* page_remove. *)
LEMMA RemoveGood ==
  ASSUME NEW m, NEW R, Good(m, R), NEW x \in EntryPlaces, m.tab[x] # NoPage, m.tab[x] \notin R
  PROVE  Good(page_remove(m, x), R)
  <1>1. m \in Memory /\ x \in Places /\ Tree(m) /\ Counted(m) /\ FreeBut(m, R)
    BY DEF Good, Places
  <1>2. PICK q \in Pages : q = m.tab[x]
    BY <1>1, MemoryType
  <1>3. PICK n : n = page_remove(m, x)
    OBVIOUS
  <1>4. /\ n \in Memory /\ n.tab[x] = NoPage /\ \A y \in Places \ {x} : n.tab[y] = m.tab[y]
        /\ n.ref[q] = Down(m.ref[q]) /\ \A p \in Pages \ {q} : n.ref[p] = m.ref[p]
        /\ Down(m.ref[q]) = 0 => n.free = m.free \cup {q}
        /\ Down(m.ref[q]) # 0 => n.free = m.free
    BY <1>1, <1>2, <1>3, RemoveGives
  <1>5. Moved(m, n, x, q, NoPage)
    BY <1>2, <1>4 DEF Moved
  <1>6. /\ Uses(n, q, Places) = Uses(m, q, Places) - 1 /\ Uses(m, q, Places) > 0
        /\ \A p : p # q /\ p # NoPage => Uses(n, p, Places) = Uses(m, p, Places)
    BY <1>1, <1>5, UsesMoved
  <1>7. m.ref[q] = Uses(m, q, Places) /\ m.ref[q] \in 0..(RefMod - 1)
    BY <1>1, MemoryType DEF Counted
  <1>8. Down(m.ref[q]) = Uses(n, q, Places)
    BY <1>6, <1>7, NoWrap
  <1>9. Counted(n)
    BY <1>1, <1>4, <1>6, <1>8, PmapAssumption DEF Counted
  <1>10. FreeBut(n, R)
    <2>1. q \in n.free <=> Uses(n, q, Places) = 0 /\ q \notin R
      <3>1. q \notin m.free
        BY <1>1, <1>6, <1>7 DEF FreeBut
      <3> QED  BY <1>2, <1>4, <1>8, <3>1
    <2>2. ASSUME NEW p \in Pages \ {q}
          PROVE  p \in n.free <=> Uses(n, p, Places) = 0 /\ p \notin R
      <3>1. p \in n.free <=> p \in m.free
        BY <1>4
      <3> QED  BY <1>1, <1>6, <3>1, PmapAssumption DEF FreeBut
    <2> QED  BY <2>1, <2>2 DEF FreeBut
  <1>11. Tree(n)
    BY <1>1, <1>4, TreeCut
  <1> QED  BY <1>3, <1>4, <1>9, <1>10, <1>11 DEF Good

(* One more place for page p, which is nobody's or in use: page_insert,    *)
(* after the place is vacated.                                             *)
LEMMA OneMore ==
  ASSUME NEW m, NEW R, Good(m, R), NEW p \in Pages, R \subseteq {p}, p \notin m.free,
         NEW x \in Places, m.tab[x] = NoPage,
         NEW n \in Memory, n.tab[x] = p, \A y \in Places \ {x} : n.tab[y] = m.tab[y],
         n.ref[p] = Up(m.ref[p]), \A q \in Pages \ {p} : n.ref[q] = m.ref[q],
         n.free = m.free, Tree(n), Uses(n, p, Places) < RefMod
  PROVE  Good(n, {})
  <1>1. m \in Memory /\ Counted(m) /\ FreeBut(m, R)
    BY DEF Good
  <1>2. Moved(m, n, x, NoPage, p)
    BY PmapAssumption DEF Moved
  <1>3. /\ Uses(n, p, Places) = Uses(m, p, Places) + 1
        /\ \A q : q # NoPage /\ q # p => Uses(n, q, Places) = Uses(m, q, Places)
    BY <1>2, UsesMoved
  <1>4. m.ref[p] = Uses(m, p, Places) /\ m.ref[p] \in 0..(RefMod - 1)
    BY <1>1, MemoryType DEF Counted
  <1>5. Up(m.ref[p]) = Uses(n, p, Places) /\ Uses(n, p, Places) # 0
    BY <1>3, <1>4, NoWrap
  <1>6. Counted(n)
    BY <1>1, <1>3, <1>5, PmapAssumption DEF Counted
  <1>7. FreeBut(n, {})
    BY <1>1, <1>3, <1>5, PmapAssumption DEF FreeBut
  <1> QED  BY <1>6, <1>7 DEF Good

(* page_insert, once there is a page table. *)
LEMMA InstallGood ==
  ASSUME NEW m, NEW R, Good(m, R), NEW e \in Envs, NEW va \in VAs, NEW p \in Pages,
         NEW w \in BOOLEAN, R \subseteq {p}, p \notin m.free,
         m.tab[Table(e, va[1])] # NoPage,
         \A y \in DirPlaces \cup TablePlaces : m.tab[y] # p,
         NEW n, n = Install(Vacate(m, Entry(e, va), p), Entry(e, va), p, w),
         Uses(n, p, Places) < RefMod
  PROVE  Good(n, {})
  <1>1. PICK x \in EntryPlaces : x = Entry(e, va)
    BY Kinds
  <1>2. PICK v : v = Vacate(m, x, p)
    OBVIOUS
  <1>3. m \in Memory /\ x \in Places /\ Tree(m) /\ Counted(m) /\ FreeBut(m, R)
    BY DEF Good, Places
  <1>4. /\ v \in Memory /\ v.tab[x] \in {NoPage, p}
        /\ \A y \in Places \ {x} : v.tab[y] = m.tab[y]
    BY <1>2, <1>3, VacateGives
  <1>5. /\ n \in Memory /\ n.tab[x] = p /\ \A y \in Places \ {x} : n.tab[y] = v.tab[y]
        /\ n.ref[p] = Up(v.ref[p]) /\ \A q \in Pages \ {p} : n.ref[q] = v.ref[q]
        /\ n.free = v.free
    <2>1. n = Install(v, x, p, w)
      BY <1>1, <1>2
    <2> QED  BY <1>4, <2>1, InstallGives
  <1>6. v = IF m.tab[x] = NoPage THEN m
            ELSE IF m.tab[x] # p THEN page_remove(m, x) ELSE DecRef(m, p)
    BY <1>2 DEF Vacate
  <1>7. \A y \in Places \ {x} : n.tab[y] = m.tab[y]
    BY <1>4, <1>5
  <1>8. Tree(n)
    BY <1>1, <1>3, <1>5, <1>7, TreePut
  <1>9. CASE m.tab[x] = NoPage
    <2>1. v = m
      BY <1>6, <1>9
    <2> QED  BY <1>3, <1>5, <1>8, <1>9, <2>1, OneMore
  <1>10. CASE m.tab[x] # NoPage /\ m.tab[x] # p
    <2>1. v = page_remove(m, x) /\ m.tab[x] \notin R
      BY <1>6, <1>10
    <2>2. Good(v, R)
      BY <1>10, <2>1, RemoveGood
    <2>3. v.tab[x] = NoPage /\ p \notin v.free
      BY <1>3, <1>10, <2>1, RemoveGives
    <2> QED  BY <1>3, <1>5, <1>8, <2>2, <2>3, OneMore
  <1>11. CASE m.tab[x] = p
    <2>1. v = DecRef(m, p)
      BY <1>6, <1>11, PmapAssumption
    <2>2. \A q : Uses(n, q, Places) = Uses(m, q, Places)
      <3>1. \A y \in Places : n.tab[y] = m.tab[y]
        BY <1>5, <1>7, <1>11
      <3> QED  BY <3>1, UsesSame
    <2>3. m.ref[p] = Uses(m, p, Places) /\ m.ref[p] \in 0..(RefMod - 1)
      BY <1>3, MemoryType DEF Counted
    <2>4. Uses(m, p, Places) # 0
      BY <1>3, <1>11, UsesType
    <2>5. /\ v.ref[p] = Down(m.ref[p]) /\ \A q \in Pages \ {p} : v.ref[q] = m.ref[q]
          /\ v.free = m.free
      BY <1>3, <2>1, DecRefGives
    <2>6. Down(m.ref[p]) = m.ref[p] - 1
      BY <2>3, <2>4, NoWrap
    <2>7. v.ref[p] \in 0..(RefMod - 1) /\ v.ref[p] + 1 = m.ref[p]
      BY <1>4, <2>3, <2>5, <2>6, MemoryType
    <2>8. n.ref[p] = m.ref[p]
      <3>1. Up(v.ref[p]) = v.ref[p] + 1
        BY <2>3, <2>7, NoWrap, PmapAssumption
      <3> QED  BY <1>5, <2>7, <3>1
    <2>9. Counted(n)
      BY <1>3, <1>5, <2>2, <2>5, <2>8 DEF Counted
    <2>10. FreeBut(n, {})
      BY <1>3, <1>5, <2>2, <2>4, <2>5 DEF FreeBut
    <2> QED  BY <1>5, <1>8, <2>9, <2>10 DEF Good
  <1> QED  BY <1>9, <1>10, <1>11

(* pgdir_walk takes a page that nothing refers to, for a table. *)
LEMMA WalkGood ==
  ASSUME NEW m, NEW R, Good(m, R), NEW e \in Envs, NEW d \in PDs, NEW n \in pgdir_walk(m, e, d),
         m.tab[Dir(e)] # NoPage
  PROVE  /\ Good(n, R)
         /\ n.tab[Table(e, d)] # NoPage
         /\ \A p \in Pages \ m.free : /\ p \notin n.free
                                      /\ \A y \in Places : m.tab[y] # p => n.tab[y] # p
  <1>1. PICK x \in TablePlaces : x = Table(e, d)
    BY Kinds
  <1>2. m \in Memory /\ x \in Places /\ Tree(m) /\ Counted(m) /\ FreeBut(m, R)
    BY DEF Good, Places
  <1>3. CASE n = m /\ m.tab[x] # NoPage
    BY <1>1, <1>3
  <1>4. CASE \E q \in m.free :
               /\ m.tab[x] = NoPage
               /\ n \in Memory
               /\ n.tab[x] = q
               /\ \A y \in Places \ {x} : n.tab[y] = m.tab[y]
               /\ n.free = m.free \ {q}
               /\ n.ref[q] = 1 /\ \A p \in Pages \ {q} : n.ref[p] = m.ref[p]
    <2>1. PICK q \in m.free :
               /\ m.tab[x] = NoPage
               /\ n \in Memory
               /\ n.tab[x] = q
               /\ \A y \in Places \ {x} : n.tab[y] = m.tab[y]
               /\ n.free = m.free \ {q}
               /\ n.ref[q] = 1 /\ \A p \in Pages \ {q} : n.ref[p] = m.ref[p]
      BY <1>4
    <2>2. q \in Pages /\ q # NoPage
      BY <1>2, <2>1, MemoryType, PmapAssumption
    <2>3. Uses(m, q, Places) = 0 /\ q \notin R
      BY <1>2, <2>1, <2>2 DEF FreeBut
    <2>4. \A y \in Places : m.tab[y] # q
      BY <2>3, UsesType
    <2>5. Moved(m, n, x, NoPage, q)
      BY <2>1, <2>2 DEF Moved
    <2>6. Uses(n, q, Places) = 1 /\ \A p \in Pages \ {q} : Uses(n, p, Places) = Uses(m, p, Places)
      <3>1. /\ Uses(n, q, Places) = Uses(m, q, Places) + 1
            /\ \A p : p # NoPage /\ p # q => Uses(n, p, Places) = Uses(m, p, Places)
        BY <1>2, <2>5, UsesMoved
      <3> QED  BY <2>3, <3>1, PmapAssumption
    <2>7. Counted(n)
      BY <1>2, <2>1, <2>6 DEF Counted
    <2>8. FreeBut(n, R)
      BY <1>2, <2>1, <2>3, <2>6 DEF FreeBut
    <2>9. Tree(n)
      <3>1. \A y \in Places : n.tab[y] = IF y = x THEN q ELSE m.tab[y]
        BY <2>1
      <3>2. DirPlaces \cup TablePlaces \subseteq Places /\ x \notin DirPlaces /\ x \notin EntryPlaces
        BY Kinds DEF Places
      <3>3. \A y \in DirPlaces \cup TablePlaces, z \in Places :
               n.tab[y] # NoPage /\ n.tab[y] = n.tab[z] => y = z
        BY <1>2, <2>4, <3>1, <3>2 DEF Tree
      <3>4. ASSUME NEW f \in Envs, n.tab[Dir(f)] = NoPage, NEW c \in PDs
            PROVE  n.tab[Table(f, c)] = NoPage
        <4>1. m.tab[Dir(f)] = NoPage
          BY <3>1, <3>2, <3>4, Kinds
        <4>2. f # e /\ m.tab[Table(f, c)] = NoPage
          BY <1>2, <4>1 DEF Tree
        <4>3. Table(f, c) # x
          BY <1>1, <4>2, Distinct
        <4> QED  BY <3>1, <4>2, <4>3, Kinds
      <3>5. ASSUME NEW f \in Envs, NEW u \in VAs, n.tab[Table(f, u[1])] = NoPage
            PROVE  n.tab[Entry(f, u)] = NoPage
        <4>1. Table(f, u[1]) # x /\ m.tab[Table(f, u[1])] = NoPage
          BY <2>2, <3>1, <3>5, Kinds, VaType
        <4>2. m.tab[Entry(f, u)] = NoPage
          BY <1>2, <4>1 DEF Tree
        <4> QED  BY <3>1, <3>2, <4>2, Kinds
      <3> QED  BY <3>3, <3>4, <3>5 DEF Tree
    <2>10. Good(n, R)
      BY <2>1, <2>7, <2>8, <2>9 DEF Good
    <2> QED  BY <1>1, <2>1, <2>2, <2>10
  <1> QED  BY <1>1, <1>2, <1>3, <1>4, WalkGives

(* What page_insert leaves at the places that are not page tables. *)
LEMMA InsertPlaces ==
  ASSUME NEW m \in Memory, NEW e \in Envs, NEW va \in VAs, NEW p \in Pages, NEW w \in BOOLEAN,
         NEW n \in page_insert(m, e, p, va, w)
  PROVE  /\ n \in Memory
         /\ n.tab[Entry(e, va)] = p
         /\ \A y \in EntryPlaces \ {Entry(e, va)} : n.tab[y] = m.tab[y]
         /\ \A y \in DirPlaces : n.tab[y] = m.tab[y]
         /\ n.wr \subseteq IF w THEN m.wr \cup {Entry(e, va)} ELSE m.wr \ {Entry(e, va)}
  <1> DEFINE x == Entry(e, va)
  <1>1. PICK k \in pgdir_walk(m, e, va[1]) : n = Install(Vacate(k, x, p), x, p, w)
    BY DEF page_insert
  <1>2. va[1] \in PDs /\ x \in Places /\ x \in EntryPlaces /\ Table(e, va[1]) \in TablePlaces
    BY VaType, Kinds
  <1>3. k \in Memory /\ k.wr = m.wr /\ \A y \in Places \ {Table(e, va[1])} : k.tab[y] = m.tab[y]
    BY <1>2, WalkGives DEF Memory
  <1> HIDE DEF x
  <1>4. PICK v : v = Vacate(k, x, p)
    OBVIOUS
  <1>5. /\ v \in Memory /\ v.wr \subseteq k.wr
        /\ \A y \in Places \ {x} : v.tab[y] = k.tab[y]
    BY <1>2, <1>3, <1>4, VacateGives
  <1>6. /\ n \in Memory /\ n.tab[x] = p /\ \A y \in Places \ {x} : n.tab[y] = v.tab[y]
        /\ w => n.wr = v.wr \cup {x}
        /\ ~w => n.wr = v.wr \ {x}
    <2>1. n = Install(v, x, p, w)
      BY <1>1, <1>4
    <2> QED  BY <1>2, <1>5, <2>1, InstallGives
  <1>8. DirPlaces \subseteq Places /\ EntryPlaces \subseteq Places
    BY DEF Places
  <1>9. \A y \in EntryPlaces \cup DirPlaces : y # Table(e, va[1]) /\ (y \in DirPlaces => y # x)
    BY <1>2, Kinds
  <1> QED  BY <1>2, <1>3, <1>5, <1>6, <1>8, <1>9 DEF x

(* page_insert takes away no reference to the page it inserts. *)
LEMMA InsertMore ==
  ASSUME NEW m \in Memory, NEW e \in Envs, NEW va \in VAs, NEW p \in Pages, NEW w \in BOOLEAN,
         NEW n \in page_insert(m, e, p, va, w)
  PROVE  Uses(m, p, Places) <= Uses(n, p, Places)
  <1>1. PICK x : x = Entry(e, va)
    OBVIOUS
  <1>2. PICK k \in pgdir_walk(m, e, va[1]) : n = Install(Vacate(k, x, p), x, p, w)
    BY <1>1 DEF page_insert
  <1>3. va[1] \in PDs /\ x \in Places /\ x \in EntryPlaces
    BY <1>1, VaType, Kinds
  <1>4. k \in Memory /\ \A y \in Places : m.tab[y] = p => k.tab[y] = p
    BY <1>3, WalkGives, PmapAssumption
  <1>5. PICK v : v = Vacate(k, x, p)
    OBVIOUS
  <1>6. v \in Memory /\ \A y \in Places \ {x} : v.tab[y] = k.tab[y]
    BY <1>3, <1>4, <1>5, VacateGives
  <1>7. n.tab[x] = p /\ \A y \in Places \ {x} : n.tab[y] = v.tab[y]
    BY <1>2, <1>3, <1>5, <1>6, InstallGives
  <1>8. \A y \in Places : m.tab[y] = p => n.tab[y] = p
    BY <1>4, <1>6, <1>7
  <1> DEFINE S == {y \in Places : m.tab[y] = p}
             T == {y \in Places : n.tab[y] = p}
  <1>9. S \in SUBSET T /\ T \in SUBSET Places
    BY <1>8
  <1>10. Uses(m, p, Places) = Cardinality(S) /\ Uses(n, p, Places) = Cardinality(T)
    BY DEF Uses
  <1> HIDE DEF S, T
  <1>11. IsFiniteSet(T)
    BY <1>9, PlacesFinite, FS_Subset
  <1> QED  BY <1>9, <1>10, <1>11, FS_Subset

(* page_insert keeps a good memory good, of a page that is in use or taken. *)
LEMMA InsertGood ==
  ASSUME NEW m, NEW R, Good(m, R), NEW e \in Envs, NEW va \in VAs, NEW p \in Pages,
         NEW w \in BOOLEAN, R \subseteq {p}, p \notin m.free,
         m.tab[Dir(e)] # NoPage,
         \A y \in DirPlaces \cup TablePlaces : m.tab[y] # p,
         NEW n \in page_insert(m, e, p, va, w),
         Uses(n, p, Places) < RefMod
  PROVE  /\ Good(n, {})
         /\ \A y \in DirPlaces \cup TablePlaces : n.tab[y] # p
  <1>1. PICK k \in pgdir_walk(m, e, va[1]) :
          n = Install(Vacate(k, Entry(e, va), p), Entry(e, va), p, w)
    BY DEF page_insert
  <1>2. va[1] \in PDs
    BY VaType
  <1>3. /\ Good(k, R) /\ k.tab[Table(e, va[1])] # NoPage
        /\ p \notin k.free /\ \A y \in Places : m.tab[y] # p => k.tab[y] # p
    BY <1>2, WalkGood
  <1>4. \A y \in DirPlaces \cup TablePlaces : k.tab[y] # p
    BY <1>3 DEF Places
  <1>5. Good(n, {})
    BY <1>1, <1>3, <1>4, InstallGood
  <1>6. n.tab[Entry(e, va)] = p
    <2>1. m \in Memory
      BY DEF Good
    <2> QED  BY <2>1, InsertPlaces
  <1>7. ASSUME NEW y \in DirPlaces \cup TablePlaces PROVE n.tab[y] # p
    <2>1. Entry(e, va) \in Places /\ Entry(e, va) # y
      BY Kinds
    <2> QED  BY <1>5, <1>6, <2>1, PmapAssumption DEF Good, Tree
  <1> QED  BY <1>5, <1>7

-----------------------------------------------------------------------------
(* Every action keeps the type. *)

(* A memory of page_insert is a memory. *)
LEMMA ShareType ==
  ASSUME NEW m \in Memory, NEW e \in Envs, NEW va \in VAs, NEW d \in Envs, NEW dva \in VAs,
         NEW w \in BOOLEAN, m.tab[Entry(e, va)] # NoPage, Share(m, e, va, d, dva, w),
         stopped \in BOOLEAN
  PROVE  TypeOK'
  <1>1. PICK p \in Pages : p = m.tab[Entry(e, va)]
    BY MemoryType, Kinds
  <1>2. CASE mem' \in page_insert(m, d, p, dva, w) /\ UNCHANGED stopped
    BY <1>2, InsertPlaces DEF TypeOK
  <1>3. CASE mem' = page_free(m, p) /\ stopped' = TRUE
    BY <1>3, FreeGives DEF TypeOK
  <1> QED  BY <1>1, <1>2, <1>3 DEF Share

(* One step of the kernel. *)
LEMMA TypeKept == TypeOK /\ [Next]_vars => TypeOK'
  <1> SUFFICES ASSUME TypeOK, [Next]_vars PROVE TypeOK'
    OBVIOUS
  <1>1. mem \in Memory /\ stopped \in BOOLEAN
    BY DEF TypeOK
  <1>2. ASSUME NEW e \in Envs, env_setup_vm(e) PROVE TypeOK'
    <2>1. PICK p \in mem.free : mem' = IncRef(Take(mem, p, Dir(e)), p)
      BY <1>2 DEF env_setup_vm
    <2>2. p \in Pages /\ Dir(e) \in Places
      BY <1>1, MemoryType, Kinds
    <2>3. Take(mem, p, Dir(e)) \in Memory
      BY <1>1, <2>2 DEF Take, Memory
    <2> QED  BY <1>1, <1>2, <2>1, <2>2, <2>3, IncRefGives DEF TypeOK, env_setup_vm
  <1>3. ASSUME NEW e \in Envs, env_free(e) PROVE TypeOK'
    <2> DEFINE X == PlacesOf(e)
               r == [p \in Pages |-> (mem.ref[p] - Uses(mem, p, X)) % RefMod]
    <2>1. X \in SUBSET Places
      BY Kinds DEF PlacesOf
    <2>2. r \in [Pages -> 0..(RefMod - 1)]
      <3>1. ASSUME NEW p \in Pages PROVE (mem.ref[p] - Uses(mem, p, X)) % RefMod \in 0..(RefMod - 1)
        <4> HIDE DEF X
        <4>1. mem.ref[p] \in 0..(RefMod - 1) /\ Uses(mem, p, X) \in Nat
          BY <1>1, <2>1, MemoryType, UsesType
        <4> QED  BY <4>1, PmapAssumption, SMT
      <3> QED  BY <3>1
    <2>3. [x \in Places |-> IF x \in X THEN NoPage ELSE mem.tab[x]]
            \in [Places -> Pages \cup {NoPage}]
      BY <1>1, MemoryType
    <2>4. mem.wr \ X \in SUBSET EntryPlaces /\ mem.free \in SUBSET Pages
      BY <1>1, MemoryType
    <2> HIDE DEF X, r
    <2>5. mem' \in Memory
      BY <1>3, <2>2, <2>3, <2>4 DEF env_free, Memory, X, r
    <2> QED  BY <1>1, <1>3, <2>5 DEF TypeOK, env_free
  <1>4. ASSUME NEW e \in Envs, NEW va \in VAs, sys_page_unmap(e, va) PROVE TypeOK'
    <2>1. CASE mem.tab[Entry(e, va)] # NoPage
      BY <1>1, <1>4, <2>1, RemoveGives, Kinds DEF TypeOK, sys_page_unmap
    <2>2. CASE mem.tab[Entry(e, va)] = NoPage
      BY <1>1, <1>4, <2>2 DEF TypeOK, sys_page_unmap
    <2> QED  BY <2>1, <2>2
  <1>5. ASSUME NEW e \in Envs, NEW va \in VAs, NEW w \in BOOLEAN, sys_page_alloc(e, va, w)
        PROVE  TypeOK'
    <2>1. PICK p, m1 :
            /\ p \in mem.free
            /\ m1 = [mem EXCEPT !.free = @ \ {p}]
            /\ \/ mem' \in page_insert(m1, e, p, va, w)
               \/ mem' = page_free(m1, p)
      BY <1>5 DEF sys_page_alloc
    <2>2. p \in Pages /\ m1 \in Memory
      BY <1>1, <2>1, MemoryType DEF Memory
    <2>3. mem' \in Memory
      BY <2>1, <2>2, InsertPlaces, FreeGives
    <2> QED  BY <1>1, <1>5, <2>3 DEF TypeOK, sys_page_alloc
  <1>6. ASSUME NEW e \in Envs, NEW va \in VAs, NEW dva \in VAs, NEW d \in Envs, NEW w \in BOOLEAN,
               sys_page_map(e, va, d, dva, w)
        PROVE  TypeOK'
    BY <1>1, <1>6, ShareType DEF sys_page_map, MayShare
  <1>7. ASSUME NEW e \in Envs, NEW va \in VAs, NEW dva \in VAs, NEW d \in Envs, NEW w \in BOOLEAN,
               sys_page_map_update_perm(e, va, d, dva, w)
        PROVE  TypeOK'
    <2>1. PICK p \in Pages : p = mem.tab[Entry(e, va)]
      BY <1>1, <1>7, MemoryType, Kinds DEF sys_page_map_update_perm, MayShare
    <2>2. PICK m1 \in page_insert(mem, d, p, dva, w) : Share(m1, e, va, e, dva, w)
      BY <1>7, <2>1 DEF sys_page_map_update_perm
    <2>3. m1 \in Memory /\ m1.tab[Entry(e, va)] # NoPage
      BY <1>1, <2>1, <2>2, InsertPlaces, Kinds, PmapAssumption
    <2> QED  BY <1>1, <2>2, <2>3, ShareType
  <1>8. CASE UNCHANGED vars
    BY <1>8 DEF TypeOK, vars
  <1> QED  BY <1>2, <1>3, <1>4, <1>5, <1>6, <1>7, <1>8 DEF Next, sys_ipc_try_send

(* The page tables hold pages, the counters stay 16 bit counters, and      *)
(* write permission is given to entries of page tables only.               *)
THEOREM TypeCorrect == Spec => []TypeOK
  <1>1. Init => TypeOK
    <2>1. 0 \in 0..(RefMod - 1)
      BY PmapAssumption
    <2>2. Init => mem \in Memory
      BY <2>1 DEF Init, Memory
    <2> QED  BY <2>2 DEF Init, TypeOK
  <1> QED  BY <1>1, TypeKept, PTL DEF Spec

-----------------------------------------------------------------------------
(* Write access. *)

(* page_insert makes nothing writable but the page it inserts, and that    *)
(* only when asked to.                                                     *)
LEMMA InsertWrites ==
  ASSUME NEW m \in Memory, NEW e \in Envs, NEW va \in VAs, NEW p \in Pages, NEW w \in BOOLEAN,
         NEW n \in page_insert(m, e, p, va, w), NEW q \in Pages, Writable(n, q)
  PROVE  Writable(m, q) \/ (w /\ q = p)
  <1>1. PICK x : x = Entry(e, va)
    OBVIOUS
  <1>2. /\ n.tab[x] = p /\ \A y \in EntryPlaces \ {x} : n.tab[y] = m.tab[y]
        /\ n.wr \subseteq IF w THEN m.wr \cup {x} ELSE m.wr \ {x}
    BY <1>1, InsertPlaces
  <1>3. PICK y \in n.wr : n.tab[y] = q
    BY DEF Writable
  <1>4. CASE y = x
    BY <1>2, <1>3, <1>4
  <1>5. CASE y # x
    <2>1. y \in m.wr /\ y \in EntryPlaces
      BY <1>2, <1>3, <1>5, MemoryType
    <2> QED  BY <1>2, <1>3, <1>5, <2>1 DEF Writable
  <1> QED  BY <1>4, <1>5

(* Sharing a page gives write access to that page at most. *)
LEMMA ShareWrites ==
  ASSUME NEW m \in Memory, NEW e \in Envs, NEW va \in VAs, NEW d \in Envs, NEW dva \in VAs,
         NEW w \in BOOLEAN, NEW p \in Pages, m.tab[Entry(e, va)] = p,
         Share(m, e, va, d, dva, w), NEW q \in Pages, Writable(mem', q)
  PROVE  Writable(m, q) \/ (w /\ q = p)
  <1>1. CASE mem' \in page_insert(m, d, p, dva, w)
    BY <1>1, InsertWrites
  <1>2. CASE mem' = page_free(m, p)
    <2>1. mem'.wr = m.wr /\ mem'.tab = m.tab
      BY <1>2, FreeGives
    <2> QED  BY <2>1 DEF Writable
  <1> QED  BY <1>1, <1>2 DEF Share

(* What NoWriteUpgrade says of one step. *)
NoUpgrade == \A p \in Pages : p \notin mem.free /\ ~Writable(mem, p) => ~Writable(mem', p)

(* A page that is in use and that nobody can write becomes writable for    *)
(* nobody, whatever call is made.                                          *)
LEMMA StepNoUpgrade ==
  ASSUME TypeOK, Next
  PROVE  NoUpgrade
  <1>1. mem \in Memory
    BY DEF TypeOK
  <1>2. ASSUME NEW e \in Envs, env_setup_vm(e) PROVE NoUpgrade
    <2>1. PICK p \in mem.free : mem' = IncRef(Take(mem, p, Dir(e)), p)
      BY <1>2 DEF env_setup_vm
    <2>2. p \in Pages /\ Dir(e) \in Places /\ Dir(e) \notin EntryPlaces
      BY <1>1, MemoryType, Kinds
    <2>3. PICK m1 : m1 = Take(mem, p, Dir(e))
      OBVIOUS
    <2>4. /\ m1 \in Memory /\ m1.wr = mem.wr
          /\ \A y \in Places \ {Dir(e)} : m1.tab[y] = mem.tab[y]
      BY <1>1, <2>2, <2>3 DEF Take, Memory
    <2>5. mem'.tab = m1.tab /\ mem'.wr = mem.wr
      BY <2>1, <2>2, <2>3, <2>4, IncRefGives
    <2>6. mem.wr \subseteq Places \ {Dir(e)}
      BY <1>1, <2>2, MemoryType DEF Places
    <2> QED  BY <2>4, <2>5, <2>6 DEF NoUpgrade, Writable
  <1>3. ASSUME NEW e \in Envs, env_free(e) PROVE NoUpgrade
    <2>1. /\ mem'.wr = mem.wr \ PlacesOf(e)
          /\ mem'.tab = [x \in Places |-> IF x \in PlacesOf(e) THEN NoPage ELSE mem.tab[x]]
      BY <1>3 DEF env_free
    <2>2. mem.wr \subseteq Places
      BY <1>1, MemoryType DEF Places
    <2>3. \A y \in mem'.wr : y \in mem.wr /\ mem'.tab[y] = mem.tab[y]
      BY <2>1, <2>2
    <2> QED  BY <2>3 DEF NoUpgrade, Writable
  <1>4. ASSUME NEW e \in Envs, NEW va \in VAs, sys_page_unmap(e, va) PROVE NoUpgrade
    <2>1. PICK x \in EntryPlaces : x = Entry(e, va) /\ x \in Places
      BY Kinds
    <2>2. CASE mem.tab[x] # NoPage
      <3>1. mem' = page_remove(mem, x)
        BY <1>4, <2>1, <2>2 DEF sys_page_unmap
      <3>2. mem'.wr = mem.wr \ {x} /\ \A y \in Places \ {x} : mem'.tab[y] = mem.tab[y]
        BY <1>1, <2>1, <2>2, <3>1, RemoveGives
      <3>3. mem.wr \subseteq Places
        BY <1>1, MemoryType DEF Places
      <3> QED  BY <3>2, <3>3 DEF NoUpgrade, Writable
    <2>3. CASE mem.tab[x] = NoPage
      BY <1>4, <2>1, <2>3 DEF NoUpgrade, sys_page_unmap, Writable
    <2> QED  BY <2>2, <2>3
  <1>5. ASSUME NEW e \in Envs, NEW va \in VAs, NEW w \in BOOLEAN, sys_page_alloc(e, va, w)
        PROVE  NoUpgrade
    <2>1. PICK p, m1 :
            /\ p \in mem.free
            /\ m1 = [mem EXCEPT !.free = @ \ {p}]
            /\ \/ mem' \in page_insert(m1, e, p, va, w)
               \/ mem' = page_free(m1, p)
      BY <1>5 DEF sys_page_alloc
    <2>2. p \in Pages /\ m1 \in Memory /\ m1.wr = mem.wr /\ m1.tab = mem.tab
      BY <1>1, <2>1, MemoryType DEF Memory
    <2>3. \A q : Writable(m1, q) <=> Writable(mem, q)
      BY <2>2 DEF Writable
    <2>4. CASE mem' \in page_insert(m1, e, p, va, w)
      <3>1. \A q \in Pages : Writable(mem', q) => Writable(m1, q) \/ (w /\ q = p)
        BY <2>2, <2>4, InsertWrites
      <3> QED  BY <2>1, <2>3, <3>1 DEF NoUpgrade
    <2>5. CASE mem' = page_free(m1, p)
      <3>1. mem'.wr = m1.wr /\ mem'.tab = m1.tab
        BY <2>2, <2>5, FreeGives
      <3> QED  BY <2>2, <3>1 DEF NoUpgrade, Writable
    <2> QED  BY <2>1, <2>4, <2>5
  <1>6. ASSUME NEW e \in Envs, NEW va \in VAs, NEW w \in BOOLEAN, MayShare(mem, e, va, w)
        PROVE  /\ mem.tab[Entry(e, va)] \in Pages
               /\ w => Writable(mem, mem.tab[Entry(e, va)])
    BY <1>1, <1>6, MemoryType, Kinds DEF MayShare, Writable
  <1>7. ASSUME NEW e \in Envs, NEW va \in VAs, NEW dva \in VAs, NEW d \in Envs, NEW w \in BOOLEAN,
               sys_page_map(e, va, d, dva, w)
        PROVE  NoUpgrade
    <2>1. PICK p \in Pages : p = mem.tab[Entry(e, va)] /\ (w => Writable(mem, p))
      BY <1>6, <1>7 DEF sys_page_map
    <2>2. \A q \in Pages : Writable(mem', q) => Writable(mem, q) \/ (w /\ q = p)
      BY <1>1, <1>7, <2>1, ShareWrites DEF sys_page_map
    <2> QED  BY <2>1, <2>2 DEF NoUpgrade
  <1>8. ASSUME NEW e \in Envs, NEW va \in VAs, NEW dva \in VAs, NEW d \in Envs, NEW w \in BOOLEAN,
               sys_page_map_update_perm(e, va, d, dva, w)
        PROVE  NoUpgrade
    <2>1. PICK p \in Pages : p = mem.tab[Entry(e, va)] /\ (w => Writable(mem, p))
      BY <1>6, <1>8 DEF sys_page_map_update_perm
    <2>2. PICK m1 \in page_insert(mem, d, p, dva, w) : Share(m1, e, va, e, dva, w)
      BY <1>8, <2>1 DEF sys_page_map_update_perm
    <2>3. m1 \in Memory /\ m1.tab[Entry(e, va)] = p
      BY <1>1, <2>1, <2>2, InsertPlaces, Kinds
    <2>4. \A q \in Pages : Writable(m1, q) => Writable(mem, q) \/ (w /\ q = p)
      BY <1>1, <2>2, InsertWrites
    <2>5. \A q \in Pages : Writable(mem', q) => Writable(m1, q) \/ (w /\ q = p)
      BY <2>2, <2>3, ShareWrites
    <2> QED  BY <2>1, <2>4, <2>5 DEF NoUpgrade
  <1> QED  BY <1>2, <1>3, <1>4, <1>5, <1>7, <1>8 DEF Next, sys_ipc_try_send

(* No system call grants write access to a page that is mapped read-only   *)
(* everywhere: only a page fresh from the free list becomes writable.      *)
THEOREM NeverUpgraded == Spec => NoWriteUpgrade
  <1>1. TypeOK /\ [Next]_vars => [NoUpgrade]_vars
    BY StepNoUpgrade
  <1>2. NoWriteUpgrade <=> [][NoUpgrade]_vars
    BY DEF NoWriteUpgrade, NoUpgrade
  <1> QED  BY <1>1, <1>2, TypeCorrect, PTL DEF Spec

-----------------------------------------------------------------------------
(* Reference counts. *)

(* At the start every page is free and no place holds one. *)
LEMMA InitCounts == Init => MInv
  <1> SUFFICES ASSUME Init PROVE MInv
    OBVIOUS
  <1>1. /\ \A x \in Places : mem.tab[x] = NoPage
        /\ \A p \in Pages : mem.ref[p] = 0 /\ p \in mem.free
    BY DEF Init
  <1>2. TypeOK
    <2>1. 0 \in 0..(RefMod - 1)
      BY PmapAssumption
    <2>2. mem \in Memory
      BY <2>1 DEF Init, Memory
    <2> QED  BY <2>2 DEF Init, TypeOK
  <1>3. \A p \in Pages : Uses(mem, p, Places) = 0
    BY <1>1, UsesType, PmapAssumption, ZenonT(60)
  <1>4. Counted(mem) /\ FreeBut(mem, {})
    BY <1>1, <1>3 DEF Counted, FreeBut
  <1>5. Tree(mem)
    BY <1>1, Kinds, VaType DEF Tree, Places
  <1> QED  BY <1>2, <1>4, <1>5 DEF MInv

(* A good memory is all the invariant asks for. *)
LEMMA GoodSuffices ==
  ASSUME TypeOK', Good(mem', {})
  PROVE  MInv'
  <1>1. Counted(mem') /\ Tree(mem') /\ FreeBut(mem', {})
    BY DEF Good
  <1> QED  BY <1>1 DEF MInv, Counted, Tree, FreeBut, Uses

(* Sharing the page at an address: the page is in use and is no table. *)
LEMMA ShareCounts ==
  ASSUME NEW m, Good(m, {}), NEW e \in Envs, NEW va \in VAs, NEW d \in Envs, NEW dva \in VAs,
         NEW w \in BOOLEAN, m.tab[Entry(e, va)] # NoPage, m.tab[Dir(d)] # NoPage,
         Share(m, e, va, d, dva, w), TypeOK', NoOverflow'
  PROVE  MInv'
  <1>1. m \in Memory /\ Counted(m) /\ Tree(m) /\ FreeBut(m, {})
    BY DEF Good
  <1>2. PICK p \in Pages : p = m.tab[Entry(e, va)]
    BY <1>1, MemoryType, Kinds
  <1>3. Entry(e, va) \in Places /\ \A y \in DirPlaces \cup TablePlaces : y # Entry(e, va)
    BY Kinds
  <1>4. p \notin m.free
    <2>1. Uses(m, p, Places) # 0
      BY <1>2, <1>3, InUse
    <2> QED  BY <1>1, <2>1 DEF FreeBut
  <1>5. \A y \in DirPlaces \cup TablePlaces : m.tab[y] # p
    BY <1>1, <1>2, <1>3, PmapAssumption DEF Tree
  <1>6. Uses(mem', p, Places) < RefMod
    BY DEF NoOverflow, Uses
  <1>7. CASE mem' \in page_insert(m, d, p, dva, w)
    <2>1. Good(mem', {})
      BY <1>4, <1>5, <1>6, <1>7, InsertGood
    <2> QED  BY <2>1, GoodSuffices
  <1>8. CASE mem' = page_free(m, p) /\ stopped' = TRUE
    <2>1. mem'.tab = m.tab /\ mem'.ref = m.ref
      BY <1>1, <1>8, FreeGives
    <2>2. \A q : Uses(mem', q, Places) = Uses(m, q, Places)
      BY <2>1, UsesSame
    <2>3. Counted(mem') /\ Tree(mem')
      BY <1>1, <2>1, <2>2 DEF Counted, Tree
    <2> QED  BY <1>8, <2>3 DEF MInv, Counted, Tree, Uses
  <1> QED  BY <1>2, <1>7, <1>8 DEF Share

(* env_free: each page loses the references of the environment, and is     *)
(* free when there were no others.                                         *)
LEMMA EnvFreeCounts ==
  ASSUME Good(mem, {}), NEW e \in Envs, env_free(e), mem' \in Memory
  PROVE  Good(mem', {})
  <1> DEFINE X == PlacesOf(e)
             n == mem'
  <1>1. mem \in Memory /\ Counted(mem) /\ Tree(mem) /\ FreeBut(mem, {})
    BY DEF Good
  <1>2. X \in SUBSET Places
    BY Kinds DEF PlacesOf
  <1>3. /\ n.tab = [x \in Places |-> IF x \in X THEN NoPage ELSE mem.tab[x]]
        /\ n.ref = [p \in Pages |-> (mem.ref[p] - Uses(mem, p, X)) % RefMod]
        /\ n.free = mem.free \cup
                    {p \in Pages : \E k \in 1..Uses(mem, p, X) : (mem.ref[p] - k) % RefMod = 0}
    BY DEF env_free
  <1>4. \A x \in Places : n.tab[x] = IF x \in X THEN NoPage ELSE mem.tab[x]
    BY <1>3
  <1>5. /\ Dir(e) \in X
        /\ \A f \in Envs : Dir(f) \in X => f = e
        /\ \A d \in PDs : Table(e, d) \in X
        /\ \A va \in VAs : Entry(e, va) \in X
        /\ \A f \in Envs, d \in PDs : Table(f, d) \in X => f = e
        /\ \A f \in Envs, va \in VAs : Entry(f, va) \in X => f = e
    <2>1. \A x \in X : \/ x = Dir(e)
                       \/ \E d \in PDs : x = Table(e, d)
                       \/ \E va \in VAs : x = Entry(e, va)
      BY DEF PlacesOf
    <2>2. Dir(e) \in X /\ (\A d \in PDs : Table(e, d) \in X) /\ \A va \in VAs : Entry(e, va) \in X
      BY DEF PlacesOf
    <2> HIDE DEF X
    <2>3. \A f \in Envs : Dir(f) \in X => f = e
      BY <2>1, Kinds, Distinct
    <2>4. \A f \in Envs, d \in PDs : Table(f, d) \in X => f = e
      BY <2>1, Kinds, Distinct
    <2>5. \A f \in Envs, va \in VAs : Entry(f, va) \in X => f = e
      BY <2>1, Kinds, Distinct
    <2> QED  BY <2>2, <2>3, <2>4, <2>5
  <1> HIDE DEF X, n
  <1>6. Tree(n)
    <2>1. \A y \in DirPlaces \cup TablePlaces, z \in Places :
             n.tab[y] # NoPage /\ n.tab[y] = n.tab[z] => y = z
      <3>1. \A y \in DirPlaces \cup TablePlaces : y \in Places
        BY DEF Places
      <3> QED  BY <1>1, <1>4, <3>1 DEF Tree
    <2>2. ASSUME NEW f \in Envs, n.tab[Dir(f)] = NoPage, NEW d \in PDs
          PROVE  n.tab[Table(f, d)] = NoPage
      <3>1. CASE f = e
        BY <1>4, <1>5, <3>1, Kinds
      <3>2. CASE f # e
        <4>1. mem.tab[Dir(f)] = NoPage
          BY <1>4, <1>5, <2>2, <3>2, Kinds
        <4> QED  BY <1>1, <1>4, <4>1, Kinds DEF Tree
      <3> QED  BY <3>1, <3>2
    <2>3. ASSUME NEW f \in Envs, NEW va \in VAs, n.tab[Table(f, va[1])] = NoPage
          PROVE  n.tab[Entry(f, va)] = NoPage
      <3>1. CASE f = e
        BY <1>4, <1>5, <3>1, Kinds
      <3>2. CASE f # e
        <4>1. mem.tab[Table(f, va[1])] = NoPage
          BY <1>4, <1>5, <2>3, <3>2, Kinds, VaType
        <4> QED  BY <1>1, <1>4, <4>1, Kinds DEF Tree
      <3> QED  BY <3>1, <3>2
    <2> QED  BY <2>1, <2>2, <2>3 DEF Tree
  <1>7. ASSUME NEW p \in Pages
        PROVE  /\ Uses(mem, p, X) \in Nat
               /\ Uses(n, p, Places) \in Nat
               /\ Uses(n, p, Places) = Uses(mem, p, Places) - Uses(mem, p, X)
    <2> DEFINE S == {x \in Places : mem.tab[x] = p}
               T == {x \in X : mem.tab[x] = p}
               U == {x \in Places : n.tab[x] = p}
    <2>1. U = S \ T /\ S \cap T = T /\ S \in SUBSET Places
      BY <1>2, <1>4, PmapAssumption
    <2>2. Uses(mem, p, X) \in Nat /\ Uses(n, p, Places) \in Nat
      BY <1>2, UsesType
    <2>3. /\ Uses(mem, p, X) = Cardinality(T) /\ Uses(mem, p, Places) = Cardinality(S)
          /\ Uses(n, p, Places) = Cardinality(U)
      BY DEF Uses
    <2> HIDE DEF S, T, U
    <2>4. IsFiniteSet(S)
      BY <2>1, PlacesFinite, FS_Subset
    <2>5. Cardinality(U) = Cardinality(S) - Cardinality(T)
      <3>1. Cardinality(S \ T) = Cardinality(S) - Cardinality(S \cap T)
        BY <2>4, FS_Difference
      <3> QED  BY <2>1, <3>1
    <2> QED  BY <2>2, <2>3, <2>5
  <1>8. \A p \in Pages : mem.ref[p] = Uses(mem, p, Places) /\ mem.ref[p] \in 0..(RefMod - 1)
    BY <1>1, MemoryType DEF Counted
  <1>9. ASSUME NEW p \in Pages
        PROVE  n.ref[p] = Uses(n, p, Places)
    <2>1. n.ref[p] = (mem.ref[p] - Uses(mem, p, X)) % RefMod
      BY <1>3
    <2>2. PICK u \in Nat : u = Uses(n, p, Places) /\ u = mem.ref[p] - Uses(mem, p, X) /\ u < RefMod
      BY <1>7, <1>8, PmapAssumption
    <2>3. u % RefMod = u
      BY <2>2, PmapAssumption, SMT
    <2> QED  BY <2>1, <2>2, <2>3
  <1>10. ASSUME NEW p \in Pages
         PROVE  p \in n.free <=> Uses(n, p, Places) = 0
    <2>1. PICK r \in 0..(RefMod - 1), c \in Nat :
            r = mem.ref[p] /\ c = Uses(mem, p, X) /\ c <= r /\ Uses(n, p, Places) = r - c
      BY <1>7, <1>8
    <2>2. p \in mem.free <=> r = 0
      BY <1>1, <1>8, <2>1 DEF FreeBut
    <2>3. (\E k \in 1..c : (r - k) % RefMod = 0) <=> (c = r /\ r > 0)
      <3>1. ASSUME NEW k \in 1..c PROVE (r - k) % RefMod = r - k
        BY <2>1, PmapAssumption, SMT
      <3>2. ASSUME NEW k \in 1..c, (r - k) % RefMod = 0 PROVE c = r /\ r > 0
        BY <2>1, <3>1, <3>2, PmapAssumption
      <3>3. ASSUME c = r, r > 0 PROVE \E k \in 1..c : (r - k) % RefMod = 0
        <4>1. r \in 1..c
          BY <2>1, <3>3
        <4>2. (r - r) % RefMod = r - r
          BY <3>1, <4>1
        <4> QED  BY <2>1, <4>1, <4>2
      <3> QED  BY <3>2, <3>3
    <2>4. p \in n.free <=> (p \in mem.free \/ \E k \in 1..c : (r - k) % RefMod = 0)
      BY <1>3, <2>1
    <2> QED  BY <2>1, <2>2, <2>3, <2>4
  <1> QED  BY <1>6, <1>9, <1>10 DEF Good, Counted, FreeBut, n

(* One step of the kernel. *)
LEMMA CountsKept == MInv /\ NoOverflow' /\ [Next]_vars => MInv'
  <1> SUFFICES ASSUME MInv, NoOverflow', [Next]_vars PROVE MInv'
    OBVIOUS
  <1>1. TypeOK /\ TypeOK'
    BY TypeKept DEF MInv
  <1>2. mem' \in Memory
    BY <1>1 DEF TypeOK
  <1>3. CASE UNCHANGED vars
    BY <1>1, <1>3 DEF MInv, vars, Counted, Tree, FreeBut, Uses
  <1>4. CASE Next
    <2>1. ~stopped /\ Good(mem, {}) /\ mem \in Memory
      BY <1>1, <1>4 DEF Next, MInv, Good, TypeOK
    <2>2. Counted(mem) /\ Tree(mem) /\ FreeBut(mem, {})
      BY <2>1 DEF Good
    <2>3. \A p \in Pages : Uses(mem', p, Places) < RefMod
      BY DEF NoOverflow, Uses
    <2>4. ASSUME NEW e \in Envs, env_setup_vm(e) PROVE MInv'
      <3>1. PICK p \in mem.free : mem' = IncRef(Take(mem, p, Dir(e)), p)
        BY <2>4 DEF env_setup_vm
      <3>2. PICK x \in DirPlaces : x = Dir(e)
        BY Kinds
      <3>3. p \in Pages /\ x \in Places /\ mem.tab[x] = NoPage
        BY <2>1, <2>4, <3>2, MemoryType DEF Places, env_setup_vm, Alive
      <3>4. PICK m1 : m1 = Take(mem, p, x)
        OBVIOUS
      <3>5. /\ m1 \in Memory /\ m1.ref = mem.ref /\ m1.free = mem.free \ {p}
            /\ m1.tab[x] = p /\ \A y \in Places \ {x} : m1.tab[y] = mem.tab[y]
        BY <2>1, <3>3, <3>4 DEF Take, Memory
      <3>6. /\ mem'.tab = m1.tab /\ mem'.free = m1.free
            /\ mem'.ref[p] = Up(m1.ref[p]) /\ \A q \in Pages \ {p} : mem'.ref[q] = m1.ref[q]
        BY <3>1, <3>2, <3>3, <3>4, <3>5, IncRefGives
      <3>7. Uses(mem, p, Places) = 0
        BY <2>2, <3>1, <3>3 DEF FreeBut
      <3>8. \A y \in Places : mem.tab[y] # p
        BY <3>7, UsesType
      <3>9. Tree(mem')
        <4>1. \A y \in Places : mem'.tab[y] = IF y = x THEN p ELSE mem.tab[y]
          BY <3>5, <3>6
        <4>2. /\ DirPlaces \cup TablePlaces \subseteq Places /\ EntryPlaces \subseteq Places
              /\ x \notin TablePlaces /\ x \notin EntryPlaces
          BY Kinds DEF Places
        <4>3. \A y \in DirPlaces \cup TablePlaces, z \in Places :
                 mem'.tab[y] # NoPage /\ mem'.tab[y] = mem'.tab[z] => y = z
          BY <2>2, <3>8, <4>1, <4>2 DEF Tree
        <4>4. ASSUME NEW f \in Envs, mem'.tab[Dir(f)] = NoPage, NEW d \in PDs
              PROVE  mem'.tab[Table(f, d)] = NoPage
          <5>1. mem.tab[Dir(f)] = NoPage
            BY <3>3, <4>1, <4>4, Kinds
          <5> QED  BY <2>2, <4>1, <4>2, <5>1, Kinds DEF Tree
        <4>5. ASSUME NEW f \in Envs, NEW va \in VAs, mem'.tab[Table(f, va[1])] = NoPage
              PROVE  mem'.tab[Entry(f, va)] = NoPage
          <5>1. mem.tab[Table(f, va[1])] = NoPage
            BY <4>1, <4>2, <4>5, Kinds, VaType
          <5> QED  BY <2>2, <4>1, <4>2, <5>1, Kinds DEF Tree
        <4> QED  BY <4>3, <4>4, <4>5 DEF Tree
      <3>10. PICK m2 \in Memory : /\ m2.tab = mem.tab /\ m2.ref = mem.ref
                                  /\ m2.free = mem.free \ {p}
        <4>1. [mem EXCEPT !.free = mem.free \ {p}] \in Memory
          BY <2>1 DEF Memory
        <4> QED  BY <2>1, <4>1 DEF Memory
      <3>11. Good(m2, {p})
        <4>1. \A q : Uses(m2, q, Places) = Uses(mem, q, Places)
          BY <3>10, UsesSame
        <4> QED  BY <2>2, <3>10, <3>7, <4>1 DEF Good, Counted, Tree, FreeBut
      <3>12. Good(mem', {})
        <4>1. /\ m2.tab[x] = NoPage /\ {p} \subseteq {p} /\ p \notin m2.free
              /\ mem'.tab[x] = p /\ \A y \in Places \ {x} : mem'.tab[y] = m2.tab[y]
              /\ mem'.ref[p] = Up(m2.ref[p]) /\ \A q \in Pages \ {p} : mem'.ref[q] = m2.ref[q]
              /\ mem'.free = m2.free /\ Uses(mem', p, Places) < RefMod
          BY <2>3, <3>3, <3>5, <3>6, <3>10
        <4> QED  BY <1>2, <3>3, <3>9, <3>11, <4>1, OneMore
      <3> QED  BY <1>1, <3>12, GoodSuffices
    <2>5. ASSUME NEW e \in Envs, env_free(e) PROVE MInv'
      BY <1>1, <1>2, <2>1, <2>5, EnvFreeCounts, GoodSuffices
    <2>6. ASSUME NEW e \in Envs, NEW va \in VAs, sys_page_unmap(e, va) PROVE MInv'
      <3>1. PICK x \in EntryPlaces : x = Entry(e, va)
        BY Kinds
      <3>2. CASE mem.tab[x] # NoPage
        <4>1. mem' = page_remove(mem, x)
          BY <2>6, <3>1, <3>2 DEF sys_page_unmap
        <4>2. Good(mem', {})
          BY <2>1, <3>2, <4>1, RemoveGood
        <4> QED  BY <1>1, <4>2, GoodSuffices
      <3>3. CASE mem.tab[x] = NoPage
        <4>1. mem' = mem
          BY <2>6, <3>1, <3>3 DEF sys_page_unmap
        <4> QED  BY <1>1, <2>1, <4>1, GoodSuffices
      <3> QED  BY <3>2, <3>3
    <2>7. ASSUME NEW e \in Envs, NEW va \in VAs, NEW w \in BOOLEAN, sys_page_alloc(e, va, w)
          PROVE  MInv'
      <3>1. PICK p, m1 :
              /\ p \in mem.free
              /\ m1 = [mem EXCEPT !.free = @ \ {p}]
              /\ \/ mem' \in page_insert(m1, e, p, va, w)
                 \/ mem' = page_free(m1, p)
        BY <2>7 DEF sys_page_alloc
      <3>2. /\ p \in Pages /\ m1 \in Memory /\ m1.tab = mem.tab /\ m1.ref = mem.ref
            /\ m1.free = mem.free \ {p}
        BY <2>1, <3>1, MemoryType DEF Memory
      <3>3. Uses(mem, p, Places) = 0 /\ \A y \in Places : mem.tab[y] # p
        <4>1. Uses(mem, p, Places) = 0
          BY <2>2, <3>1, <3>2 DEF FreeBut
        <4> QED  BY <4>1, UsesType
      <3>4. Good(m1, {p})
        <4>1. \A q : Uses(m1, q, Places) = Uses(mem, q, Places)
          BY <3>2, UsesSame
        <4> QED  BY <2>2, <3>2, <3>3, <4>1 DEF Good, Counted, Tree, FreeBut
      <3>5. CASE mem' \in page_insert(m1, e, p, va, w)
        <4>1. m1.tab[Dir(e)] # NoPage /\ p \notin m1.free
          BY <2>7, <3>2 DEF sys_page_alloc, Alive
        <4>2. \A y \in DirPlaces \cup TablePlaces : m1.tab[y] # p
          BY <3>2, <3>3 DEF Places
        <4>3. Good(mem', {})
          BY <2>3, <3>2, <3>4, <3>5, <4>1, <4>2, InsertGood
        <4> QED  BY <1>1, <4>3, GoodSuffices
      <3>6. CASE mem' = page_free(m1, p)
        <4>1. /\ mem'.tab = mem.tab /\ mem'.ref = mem.ref /\ mem'.free = mem.free
          <5>1. mem'.tab = m1.tab /\ mem'.ref = m1.ref /\ mem'.free = m1.free \cup {p}
            BY <3>2, <3>6, FreeGives
          <5> QED  BY <3>1, <3>2, <5>1
        <4>2. \A q : Uses(mem', q, Places) = Uses(mem, q, Places)
          BY <4>1, UsesSame
        <4>3. Good(mem', {})
          BY <1>2, <2>2, <4>1, <4>2 DEF Good, Counted, Tree, FreeBut
        <4> QED  BY <1>1, <4>3, GoodSuffices
      <3> QED  BY <3>1, <3>5, <3>6
    <2>8. ASSUME NEW e \in Envs, NEW va \in VAs, NEW dva \in VAs, NEW d \in Envs, NEW w \in BOOLEAN,
                 sys_page_map(e, va, d, dva, w)
          PROVE  MInv'
      <3>1. /\ mem.tab[Entry(e, va)] # NoPage /\ mem.tab[Dir(d)] # NoPage
            /\ Share(mem, e, va, d, dva, w)
        BY <2>8 DEF sys_page_map, MayShare, Alive
      <3> QED  BY <1>1, <2>1, <3>1, ShareCounts
    <2>9. ASSUME NEW e \in Envs, NEW va \in VAs, NEW dva \in VAs, NEW d \in Envs, NEW w \in BOOLEAN,
                 sys_page_map_update_perm(e, va, d, dva, w)
          PROVE  MInv'
      <3>1. /\ mem.tab[Entry(e, va)] # NoPage
            /\ mem.tab[Dir(d)] # NoPage /\ mem.tab[Dir(e)] # NoPage
        BY <2>9 DEF sys_page_map_update_perm, MayShare, Alive
      <3>2. PICK p \in Pages : p = mem.tab[Entry(e, va)]
        BY <2>1, <3>1, MemoryType, Kinds
      <3>3. PICK m1 \in page_insert(mem, d, p, dva, w) : Share(m1, e, va, e, dva, w)
        BY <2>9, <3>2 DEF sys_page_map_update_perm
      <3>4. m1 \in Memory /\ m1.tab[Entry(e, va)] = p /\ \A y \in DirPlaces : m1.tab[y] = mem.tab[y]
        BY <2>1, <3>2, <3>3, InsertPlaces, Kinds
      <3>5. Uses(m1, p, Places) < RefMod
        <4>1. Uses(m1, p, Places) \in Nat /\ Uses(mem', p, Places) \in Nat
          BY UsesType
        <4>2. CASE mem' \in page_insert(m1, e, p, dva, w)
          BY <2>3, <3>4, <4>1, <4>2, InsertMore, PmapAssumption
        <4>3. CASE mem' = page_free(m1, p)
          <5>1. mem'.tab = m1.tab
            BY <3>4, <4>3, FreeGives
          <5> QED  BY <2>3, <5>1, UsesSame
        <4> QED  BY <3>3, <3>4, <4>2, <4>3 DEF Share
      <3>6. p \notin mem.free /\ \A y \in DirPlaces \cup TablePlaces : mem.tab[y] # p
        <4>1. Entry(e, va) \in Places /\ \A y \in DirPlaces \cup TablePlaces : y # Entry(e, va)
          BY Kinds
        <4>2. Uses(mem, p, Places) # 0
          BY <3>2, <4>1, InUse
        <4> QED  BY <2>2, <3>1, <3>2, <4>1, <4>2 DEF FreeBut, Tree
      <3>7. Good(m1, {})
        BY <2>1, <3>1, <3>3, <3>5, <3>6, InsertGood
      <3>8. m1.tab[Dir(e)] # NoPage /\ m1.tab[Entry(e, va)] # NoPage
        BY <3>1, <3>2, <3>4, Kinds
      <3> QED  BY <1>1, <3>3, <3>7, <3>8, ShareCounts
    <2> QED  BY <1>4, <2>4, <2>5, <2>6, <2>7, <2>8, <2>9 DEF Next, sys_ipc_try_send
  <1> QED  BY <1>3, <1>4

(* The inductive invariant, while no counter has to wrap around. *)
THEOREM Invariance == Spec /\ []NoOverflow => []MInv
  BY InitCounts, CountsKept, PTL DEF Spec

(* pp_ref is the number of places that refer to the page, after any        *)
(* sequence of allocating, sharing, remapping, unmapping and destroying,   *)
(* as long as that number fits into its 16 bits.                           *)
THEOREM CountsExact == Spec /\ []NoOverflow => []RefCountExact
  <1>1. MInv => RefCountExact
    BY DEF MInv, Counted, RefCountExact
  <1> QED  BY <1>1, Invariance, PTL

(* A page is on the free list exactly when nothing refers to it: none is   *)
(* freed while it is used and none is lost.                                *)
THEOREM FreeListCorrect == Spec /\ []NoOverflow => []FreeExact
  <1>1. MInv => FreeExact
    BY DEF MInv, FreeBut, FreeExact
  <1> QED  BY <1>1, Invariance, PTL

(* Page directories and page tables are shared with nobody and mapped      *)
(* nowhere; a dead environment keeps no page.                              *)
THEOREM TablesAreTree == Spec /\ []NoOverflow => []TablesPrivate
  <1>1. MInv => TablesPrivate
    BY DEF MInv, Tree, TablesPrivate, Alive
  <1> QED  BY <1>1, Invariance, PTL

(* With fewer places than a 16 bit counter can count, as in the instance   *)
(* that is model checked, the three hold without condition.                *)
THEOREM SmallSystem ==
  ASSUME Cardinality(Places) < RefMod
  PROVE  Spec => [](RefCountExact /\ FreeExact /\ TablesPrivate)
  <1>1. NoOverflow
    <2> SUFFICES ASSUME NEW p \in Pages PROVE Uses(mem, p, Places) < RefMod
      BY DEF NoOverflow
    <2> DEFINE S == {x \in Places : mem.tab[x] = p}
    <2>1. S \in SUBSET Places /\ Uses(mem, p, Places) = Cardinality(S)
      BY DEF Uses
    <2> HIDE DEF S
    <2>2. Cardinality(S) <= Cardinality(Places)
      BY <2>1, PlacesFinite, FS_Subset
    <2>3. Cardinality(S) \in Nat /\ Cardinality(Places) \in Nat
      BY <2>1, PlacesFinite, FS_Subset, FS_CardinalityType
    <2> QED  BY <2>1, <2>2, <2>3, PmapAssumption
  <1> QED  BY <1>1, CountsExact, FreeListCorrect, TablesAreTree, PTL
=============================================================================

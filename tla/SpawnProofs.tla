----------------------------- MODULE SpawnProofs ----------------------------
(***************************************************************************)
(* Proofs about spawn: for every page size, every program file whose       *)
(* headers keep what the linker guarantees and every argument vector, a    *)
(* child that runs has the image and the arguments, byte by byte, and      *)
(* pages are handed over to it.                                            *)
(***************************************************************************)
EXTENDS Spawn, WellFoundedInduction, TLAPS

-----------------------------------------------------------------------------
(* Arithmetic of pages. *)

(* Induction: a set of numbers with 0 and with the successor of each of    *)
(* its elements has all of them.                                           *)
LEMMA NatSet ==
  ASSUME NEW T \in SUBSET Nat, 0 \in T, \A n \in Nat : n \in T => n + 1 \in T
  PROVE  T = Nat
  <1> SUFFICES ASSUME Nat \ T # {} PROVE FALSE
    OBVIOUS
  <1>1. PICK R : R = OpToRel(<, Nat) /\ IsWellFoundedOn(R, Nat)
    BY NatLessThanWellFounded
  <1>2. \A x, y \in Nat : x < y => <<x, y>> \in R
    BY <1>1 DEF OpToRel
  <1>3. PICK x \in Nat \ T : \A y \in Nat \ T : <<y, x>> \notin R
    BY <1>1, WFMin
  <1>4. x # 0 /\ x - 1 \in Nat /\ x - 1 < x
    BY <1>3
  <1>5. x - 1 \in T
    BY <1>2, <1>3, <1>4
  <1> QED  BY <1>3, <1>4, <1>5

(* A quotient and a remainder are the only ones. *)
LEMMA DivUnique ==
  ASSUME NEW N \in Nat \ {0}, NEW q \in Int, NEW r \in 0..(N - 1), NEW a, a = N * q + r
  PROVE  a \div N = q /\ a % N = r
  OBVIOUS

(* Every number has a quotient and a remainder. *)
LEMMA DivExists ==
  ASSUME NEW N \in Nat \ {0}, NEW a \in Int
  PROVE  \E q \in Int, r \in 0..(N - 1) : a = N * q + r
  <1> DEFINE T == {n \in Nat : \E q \in Int, r \in 0..(N - 1) : n = N * q + r}
  <1>1. 0 \in T
    <2>1. 0 \in Int /\ 0 \in 0..(N - 1) /\ 0 = N * 0 + 0
      OBVIOUS
    <2> QED  BY <2>1
  <1>2. ASSUME NEW n \in Nat, n \in T PROVE n + 1 \in T
    <2>1. PICK q \in Int, r \in 0..(N - 1) : n = N * q + r
      BY <1>2
    <2>2. CASE r + 1 \in 0..(N - 1)
      <3>1. n + 1 = N * q + (r + 1)
        BY <2>1
      <3> QED  BY <2>2, <3>1
    <2>3. CASE r = N - 1
      <3>1. n + 1 = N * (q + 1) + 0 /\ 0 \in 0..(N - 1) /\ q + 1 \in Int
        BY <2>1, <2>3
      <3> QED  BY <3>1
    <2> QED  BY <2>2, <2>3
  <1>3. T = Nat
    <2> HIDE DEF T
    <2>1. T \in SUBSET Nat
      BY DEF T
    <2> QED  BY <1>1, <1>2, <2>1, NatSet
  <1>4. CASE a \in Nat
    BY <1>3, <1>4
  <1>5. CASE a \notin Nat
    <2>0. -a \in Nat
      BY <1>5
    <2>1. -a \in T
      BY <1>3, <2>0
    <2>2. PICK q \in Int, r \in 0..(N - 1) : -a = N * q + r
      BY <2>1
    <2>3. CASE r = 0
      <3>1. a = N * (-q) + 0 /\ 0 \in 0..(N - 1) /\ -q \in Int
        BY <2>2, <2>3
      <3> QED  BY <3>1
    <2>4. CASE r # 0
      <3>1. N * (-q - 1) = -(N * q) - N
        OBVIOUS
      <3>2. a = N * (-q - 1) + (N - r) /\ N - r \in 0..(N - 1) /\ -q - 1 \in Int
        BY <2>2, <2>4, <3>1
      <3> QED  BY <3>2
    <2> QED  BY <2>3, <2>4
  <1> QED  BY <1>4, <1>5

(* What \div and % are. *)
LEMMA DivMod ==
  ASSUME NEW N \in Nat \ {0}, NEW a \in Int
  PROVE  /\ a \div N \in Int /\ a % N \in 0..(N - 1) /\ a % N \in Nat
         /\ a = N * (a \div N) + (a % N)
  <1>1. PICK q \in Int, r \in 0..(N - 1) : a = N * q + r
    BY DivExists
  <1>2. a \div N = q /\ a % N = r
    BY <1>1, DivUnique
  <1> QED  BY <1>1, <1>2

(* Products keep the order. *)
LEMMA ProductOrder ==
  ASSUME NEW N \in Nat \ {0}, NEW x \in Int, NEW y \in Int, x <= y
  PROVE  N * x <= N * y /\ N * x \in Int /\ N * y \in Int
  <1>1. PICK m \in Nat : y = x + m
    <2>1. y - x \in Nat /\ y = x + (y - x)
      OBVIOUS
    <2> QED  BY <2>1
  <1>2. N * m \in Nat
    OBVIOUS
  <1>3. N * y = N * x + N * m
    BY <1>1
  <1> QED  BY <1>2, <1>3

(* Which multiples are below a number, and which above it. *)
LEMMA DivOrder ==
  ASSUME NEW N \in Nat \ {0}, NEW a \in Int, NEW k \in Int
  PROVE  /\ N * k <= a => k <= a \div N
         /\ a < N * k => a \div N < k
  <1>1. PICK q \in Int, r \in 0..(N - 1) : a = N * q + r /\ a \div N = q
    BY DivMod
  <1>2. ASSUME N * k <= a, k > q PROVE FALSE
    <2>1. N * (q + 1) <= N * k
      BY <1>2, ProductOrder
    <2>2. N * (q + 1) = N * q + N
      OBVIOUS
    <2> QED  BY <1>1, <1>2, <2>1, <2>2
  <1>3. ASSUME a < N * k, k <= q PROVE FALSE
    <2>1. N * k <= N * q
      BY <1>3, ProductOrder
    <2> QED  BY <1>1, <1>3, <2>1
  <1> QED  BY <1>1, <1>2, <1>3
-----------------------------------------------------------------------------
(* The inductive invariant. *)

Pages   == 0..(NPages - 1)
Working == pc \in {"segment", "read", "map", "unmap"}
Runs    == child = "RUNNABLE"

(* Page q of header g as the child is to find it: the bytes of the file,   *)
(* from the start of the page on, and zeros after the last of them.        *)
Wanted(g, j) == IF j < image[g].filesz THEN FileByte(image[g].offset + j) ELSE Zero
PageContents(g, q) == [o \in Offsets |-> Wanted(g, PGSIZE * q + o - image[g].va)]

FirstPage(g) == image[g].va \div PGSIZE
Turn         == i \div PGSIZE
Reached      == FirstPage(h) + Turn + IF pc = "unmap" THEN 1 ELSE 0

PageDone(g, q) ==
  /\ map[q] # None
  /\ frames[map[q]] = PageContents(g, q)
  /\ q \in writable <=> image[g].write

(* What a physical page may hold. *)
Contents == {ZeroPage, StackContents} \cup {PageContents(g, q) : g \in DOMAIN image, q \in Int}

FramesGood == frames \in Seq(Contents)

(* The page at UTEMP: new, or filled, but not the child's yet. *)
TempGood ==
  /\ pc \in {"open", "header", "exofork", "stack_alloc", "segment", "returned"} => utemp = None
  /\ pc \in {"stack_map", "read", "map"} => utemp # None /\ \A p \in Pages : map[p] # utemp
  /\ pc = "read" => frames[utemp] = ZeroPage
  /\ pc = "map" => frames[utemp] = PageContents(h, FirstPage(h) + Turn)

(* No two addresses of the child are one page. *)
Private == \A p, q \in Pages : map[p] = map[q] /\ map[p] # None => p = q

ChildGood ==
  /\ pc # "returned" => child # "RUNNABLE"
  /\ pc \in {"open", "header", "exofork"} => child = "FREE"
  /\ Runs => h = Len(image) + 1 /\ tf = Ustack(init_esp)
  /\ pc = "returned" /\ result \in {"header", "map_segment"} => child = "FREE" /\ ~fd

StackDone ==
  /\ map[StackPage] # None
  /\ frames[map[StackPage]] = StackContents
  /\ StackPage \in writable

StackGood ==
  /\ pc \in {"stack_map", "stack_unmap"} \/ Working \/ Runs => StackFits
  /\ pc = "stack_unmap" \/ Working \/ Runs => StackDone

(* The loops of spawn and of map_segment. *)
LoopGood ==
  /\ pc \in {"open", "header", "exofork", "stack_alloc", "stack_map", "stack_unmap"} => h = 1 /\ i = 0
  /\ Working => h \in 1..(Len(image) + 1) /\ Turn \in Nat /\ i = PGSIZE * Turn
  /\ pc \in {"read", "map", "unmap"} => h \in DOMAIN image /\ image[h].load /\ i < Seg.memsz

(* The pages of the headers before h, and of h those before the current    *)
(* one, are in place.                                                      *)
PagesGood ==
  Working \/ Runs =>
    \A g \in DOMAIN image : \A q \in PagesOf(image[g]) :
      image[g].load /\ (g < h \/ (g = h /\ q < Reached)) => PageDone(g, q)

SInv ==
  /\ TypeOK /\ FramesGood /\ TempGood /\ Private
  /\ ChildGood /\ StackGood /\ LoopGood /\ PagesGood

(* What is meant to be in the pages depends on the call only. *)
LEMMA CallFixed ==
  ASSUME UNCHANGED callVars
  PROVE  /\ StackContents' = StackContents /\ init_esp' = init_esp
         /\ StackFits' <=> StackFits
         /\ Contents' = Contents
         /\ \A g, q : PageContents(g, q)' = PageContents(g, q)
         /\ \A g : FirstPage(g)' = FirstPage(g)
  <1>1. image' = image /\ argv' = argv
    BY DEF callVars
  <1>2. string_size' = string_size
    BY <1>1 DEF string_size
  <1>3. \A k : string_store(k)' = string_store(k)
    BY <1>1, <1>2 DEF string_store
  <1>4. argv_store' = argv_store /\ init_esp' = init_esp
    BY <1>1, <1>3 DEF argv_store, init_esp
  <1>5. StackContents' = StackContents
    BY <1>1, <1>3, <1>4 DEF StackContents
  <1>6. \A g, q : PageContents(g, q)' = PageContents(g, q)
    BY <1>1 DEF PageContents, Wanted
  <1>7. Contents' = Contents
    BY <1>1, <1>5, <1>6 DEF Contents
  <1> QED  BY <1>1, <1>4, <1>5, <1>6, <1>7 DEF StackFits, FirstPage

-----------------------------------------------------------------------------
(* Program headers and the pages of their segments. *)

LEMMA ImageFacts ==
  ASSUME TypeOK
  PROVE  /\ image \in Seq(Headers) /\ Len(image) \in Nat /\ DOMAIN image = 1..Len(image)
         /\ \A g \in DOMAIN image :
              /\ image[g].va \in Nat /\ image[g].memsz \in Nat
              /\ image[g].filesz \in Nat /\ image[g].offset \in Nat
              /\ image[g].load \in BOOLEAN /\ image[g].write \in BOOLEAN
              /\ image[g].filesz <= image[g].memsz
              /\ image[g].va % PGSIZE = image[g].offset % PGSIZE
              /\ image[g].va + image[g].memsz <= PGSIZE * (NPages - 1)
         /\ \A f, g \in DOMAIN image :
              f # g /\ image[f].load /\ image[g].load => PagesOf(image[f]) \cap PagesOf(image[g]) = {}
  <1>1. WellFormed(image)
    BY SpawnAssumption DEF TypeOK
  <1>2. image \in Seq(Headers) /\ Len(image) \in Nat /\ DOMAIN image = 1..Len(image)
    BY <1>1 DEF WellFormed
  <1>3. \A g \in DOMAIN image : image[g] \in Headers
    BY <1>2
  <1> QED  BY <1>1, <1>2, <1>3 DEF WellFormed, Headers

(* The pages of a segment are pages of the child below its stack. *)
LEMMA PagesFacts ==
  ASSUME TypeOK, NEW g \in DOMAIN image
  PROVE  /\ FirstPage(g) \in Nat
         /\ image[g].va = PGSIZE * FirstPage(g) + (image[g].va % PGSIZE)
         /\ image[g].va % PGSIZE \in 0..(PGSIZE - 1)
         /\ \A q \in PagesOf(image[g]) : q \in Pages /\ q # StackPage /\ q \in Int /\ q >= FirstPage(g)
  <1>1. PICK va \in Nat, top \in Int :
          /\ va = image[g].va /\ top = image[g].va + image[g].memsz - 1
          /\ top < PGSIZE * (NPages - 1)
    <2>1. PICK va \in Nat, memsz \in Nat, w \in Int :
            /\ va = image[g].va /\ memsz = image[g].memsz
            /\ w = PGSIZE * (NPages - 1) /\ va + memsz <= w
      BY ImageFacts, SpawnAssumption
    <2>2. va + memsz - 1 \in Int /\ va + memsz - 1 < w
      BY <2>1
    <2> QED  BY <2>1, <2>2
  <1>2. PGSIZE \in Nat \ {0} /\ NPages \in Nat \ {0} /\ NPages - 1 \in Int
    BY SpawnAssumption
  <1>3. va \div PGSIZE \in Int /\ va % PGSIZE \in 0..(PGSIZE - 1)
        /\ va = PGSIZE * (va \div PGSIZE) + (va % PGSIZE)
    BY <1>2, DivMod
  <1>4. 0 <= va \div PGSIZE
    <2>1. PGSIZE * 0 <= va
      BY <1>2
    <2> QED  BY <1>2, <2>1, DivOrder
  <1>5. top \div PGSIZE < NPages - 1 /\ top \div PGSIZE \in Int
    BY <1>1, <1>2, DivOrder, DivMod
  <1>6. PICK first \in Int, last \in Int : first = va \div PGSIZE /\ last = top \div PGSIZE
    BY <1>3, <1>5
  <1>7. PagesOf(image[g]) = first..last /\ FirstPage(g) = first
    BY <1>1, <1>6 DEF PagesOf, FirstPage
  <1>8. first >= 0 /\ last < NPages - 1
    BY <1>4, <1>5, <1>6
  <1>9. \A q \in first..last : q \in Pages /\ q # StackPage /\ q \in Int /\ q >= first
    BY <1>2, <1>8 DEF Pages, StackPage
  <1>10. va = PGSIZE * first + (va % PGSIZE)
    BY <1>3, <1>6
  <1> QED  BY <1>1, <1>3, <1>7, <1>8, <1>9, <1>10

(* The segment as map_segment sees it. *)
LEMMA SegFields ==
  ASSUME TypeOK, h \in DOMAIN image
  PROVE  /\ Seg.va = PGSIZE * FirstPage(h)
         /\ Seg.memsz = image[h].memsz + (image[h].va % PGSIZE)
         /\ Seg.filesz = image[h].filesz + (image[h].va % PGSIZE)
         /\ Seg.offset = image[h].offset - (image[h].va % PGSIZE)
         /\ Seg.write = image[h].write
         /\ Seg.memsz \in Nat /\ Seg.filesz \in Nat /\ Seg.offset \in Int
  <1>1. PICK ph, d : ph = image[h] /\ d = image[h].va % PGSIZE
    OBVIOUS
  <1>2. /\ ph \in Headers /\ ph.va = PGSIZE * FirstPage(h) + d /\ d \in 0..(PGSIZE - 1)
        /\ FirstPage(h) \in Nat
    BY <1>1, ImageFacts, PagesFacts
  <1>3. Seg = [ph EXCEPT !.va = @ - d, !.memsz = @ + d, !.filesz = @ + d, !.offset = @ - d]
    BY <1>1 DEF Seg, Aligned
  <1>4. /\ Seg.va = ph.va - d /\ Seg.memsz = ph.memsz + d /\ Seg.filesz = ph.filesz + d
        /\ Seg.offset = ph.offset - d /\ Seg.write = ph.write
    BY <1>2, <1>3 DEF Headers
  <1>5. d \in Nat /\ PGSIZE * FirstPage(h) \in Nat
    BY <1>2, SpawnAssumption
  <1>6. ph.memsz \in Nat /\ ph.filesz \in Nat /\ ph.offset \in Nat /\ ph.va \in Nat
    BY <1>2 DEF Headers
  <1>7. ph.va - d = PGSIZE * FirstPage(h)
    BY <1>2, <1>5, <1>6
  <1>8. ph.memsz + d \in Nat /\ ph.filesz + d \in Nat /\ ph.offset - d \in Int
    BY <1>5, <1>6
  <1> QED  BY <1>1, <1>4, <1>7, <1>8

(* A turn of the loop is about the next page of the segment, and what it   *)
(* reads from the file is what that page is to hold.                       *)
LEMMA TurnPage ==
  ASSUME TypeOK, LoopGood, Working, h \in DOMAIN image, i < Seg.memsz
  PROVE  /\ Page = FirstPage(h) + Turn /\ Page \in PagesOf(image[h])
         /\ Page \in Pages /\ Page # StackPage /\ Page \in Int
         /\ \A o \in Offsets :
              /\ o < Seg.filesz - i <=> PGSIZE * Page + o - image[h].va < image[h].filesz
              /\ Seg.offset + i + o = image[h].offset + (PGSIZE * Page + o - image[h].va)
  <1>1. PICK va \in Nat, memsz \in Nat, filesz \in Nat, offset \in Nat, d \in Nat :
          /\ va = image[h].va /\ memsz = image[h].memsz /\ filesz = image[h].filesz
          /\ offset = image[h].offset /\ d = image[h].va % PGSIZE
    <2>1. image[h].va % PGSIZE \in Nat
      BY PagesFacts, SpawnAssumption
    <2> QED  BY <2>1, ImageFacts
  <1>2. PICK first \in Nat, n \in Nat : first = FirstPage(h) /\ n = Turn /\ i = PGSIZE * n
    BY PagesFacts DEF LoopGood
  <1>3. PGSIZE \in Nat \ {0} /\ i \in Nat
    BY SpawnAssumption DEF TypeOK
  <1>4. PICK u \in Nat : u = PGSIZE * first
    BY <1>2, <1>3
  <1>5. va = u + d /\ Seg.va = u /\ Seg.memsz = memsz + d /\ Seg.filesz = filesz + d /\ Seg.offset = offset - d
    BY <1>1, <1>2, <1>4, PagesFacts, SegFields
  <1>6. PGSIZE * (first + n) = u + i
    BY <1>2, <1>3, <1>4
  <1>7. Page = first + n
    <2>1. PICK k \in Int, w \in Int : k = first + n /\ w = u + i /\ w = PGSIZE * k
      BY <1>3, <1>4, <1>6
    <2>2. w = PGSIZE * k + 0 /\ 0 \in 0..(PGSIZE - 1)
      BY <1>3, <2>1
    <2>3. w \div PGSIZE = k
      BY <1>3, <2>2, DivUnique
    <2> QED  BY <1>5, <2>1, <2>3 DEF Page
  <1>8. Page \in PagesOf(image[h])
    <2>1. PICK top \in Int : top = va + memsz - 1
      BY <1>1
    <2>2. u + i <= top
      BY <1>3, <1>5, <2>1
    <2>3. first + n <= top \div PGSIZE /\ top \div PGSIZE \in Int
      <3>1. PICK k \in Int : k = first + n /\ PGSIZE * k <= top
        BY <1>6, <2>2
      <3> QED  BY <1>3, <3>1, DivOrder, DivMod
    <2>4. PICK last \in Int : last = top \div PGSIZE /\ PagesOf(image[h]) = first..last
      BY <1>1, <1>2, <2>1, <2>3 DEF PagesOf, FirstPage
    <2> QED  BY <1>7, <2>3, <2>4
  <1>9. ASSUME NEW o \in Offsets
        PROVE  /\ o < Seg.filesz - i <=> PGSIZE * Page + o - va < filesz
               /\ Seg.offset + i + o = offset + (PGSIZE * Page + o - va)
    <2>1. PGSIZE * Page = u + i
      BY <1>6, <1>7
    <2>2. o \in Nat
      BY <1>3 DEF Offsets
    <2>3. PICK w \in Int : w = PGSIZE * Page /\ w = u + i
      BY <1>3, <2>1
    <2>4. (o < Seg.filesz - i <=> w + o - va < filesz) /\ Seg.offset + i + o = offset + (w + o - va)
      BY <1>3, <1>5, <2>2, <2>3
    <2> QED  BY <2>3, <2>4
  <1> QED  BY <1>1, <1>2, <1>7, <1>8, <1>9, PagesFacts

(* When the loop ends all pages of the segment have had their turn. *)
LEMMA SegmentEnds ==
  ASSUME TypeOK, LoopGood, Working, h \in DOMAIN image, i >= Seg.memsz
  PROVE  \A q \in PagesOf(image[h]) : q < FirstPage(h) + Turn
  <1>1. PICK va \in Nat, memsz \in Nat, d \in Nat :
          va = image[h].va /\ memsz = image[h].memsz /\ d = image[h].va % PGSIZE
    <2>1. image[h].va % PGSIZE \in Nat
      BY PagesFacts, SpawnAssumption
    <2> QED  BY <2>1, ImageFacts
  <1>2. PICK first \in Nat, n \in Nat : first = FirstPage(h) /\ n = Turn /\ i = PGSIZE * n
    BY PagesFacts DEF LoopGood
  <1>3. PGSIZE \in Nat \ {0} /\ i \in Nat
    BY SpawnAssumption DEF TypeOK
  <1>4. PICK u \in Nat : u = PGSIZE * first
    BY <1>2, <1>3
  <1>5. va = u + d /\ Seg.memsz = memsz + d
    BY <1>1, <1>2, <1>4, PagesFacts, SegFields
  <1>6. PGSIZE * (first + n) = u + i
    BY <1>2, <1>3, <1>4
  <1>7. PICK top \in Int : top = va + memsz - 1
    BY <1>1
  <1>8. top < u + i
    BY <1>3, <1>5, <1>7
  <1>9. top \div PGSIZE < first + n /\ top \div PGSIZE \in Int
    <2>1. PICK k \in Int : k = first + n /\ top < PGSIZE * k
      BY <1>6, <1>8
    <2> QED  BY <1>3, <2>1, DivOrder, DivMod
  <1>10. PICK last \in Int : last = top \div PGSIZE /\ PagesOf(image[h]) = first..last
    BY <1>1, <1>2, <1>7, <1>9 DEF PagesOf, FirstPage
  <1> QED  BY <1>2, <1>9, <1>10

-----------------------------------------------------------------------------
(* Steps. *)

LEMMA AppendFacts ==
  ASSUME NEW S, NEW s \in Seq(S), NEW x \in S, NEW t, t = Append(s, x)
  PROVE  /\ t \in Seq(S) /\ Len(s) \in Nat /\ Len(t) = Len(s) + 1
         /\ \A n \in 1..Len(s) : t[n] = s[n]
         /\ t[Len(s) + 1] = x
  OBVIOUS

(* The pages the child has stay as they are; there may be new ones. *)
FramesKept ==
  /\ frames' \in Seq(Contents)
  /\ Len(frames) <= Len(frames')
  /\ \A p \in Pages : map[p] # None => frames'[map[p]] = frames[map[p]]

(* What stays when the child's address space does not change. *)
LEMMA SpaceKept ==
  ASSUME SInv, UNCHANGED callVars, UNCHANGED spaceVars, FramesKept
  PROVE  /\ FramesGood' /\ Private'
         /\ map' \in [Pages -> 0..Len(frames')] /\ writable' \subseteq Pages
         /\ StackDone => StackDone'
         /\ \A g \in DOMAIN image : \A q \in PagesOf(image[g]) : PageDone(g, q) => PageDone(g, q)'
  <1>1. map' = map /\ writable' = writable /\ image' = image /\ argv' = argv
    BY DEF spaceVars, callVars
  <1>2. map \in [Pages -> 0..Len(frames)] /\ writable \subseteq Pages /\ Len(frames) \in Nat
        /\ Len(frames') \in Nat
    BY DEF SInv, TypeOK, Pages, FramesGood, FramesKept
  <1>3. 0..Len(frames) \subseteq 0..Len(frames')
    BY <1>2 DEF FramesKept
  <1>4. FramesGood'
    BY CallFixed DEF FramesGood, FramesKept
  <1>5. Private'
    BY <1>1 DEF SInv, Private
  <1>6. map' \in [Pages -> 0..Len(frames')]
    BY <1>1, <1>2, <1>3
  <1>7. StackPage \in Pages
    BY SpawnAssumption DEF StackPage, Pages
  <1>8. ASSUME StackDone PROVE StackDone'
    <2>1. StackContents' = StackContents
      BY CallFixed
    <2> QED  BY <1>1, <1>7, <1>8, <2>1 DEF StackDone, FramesKept
  <1>9. ASSUME NEW g \in DOMAIN image, NEW q \in PagesOf(image[g]), PageDone(g, q)
        PROVE  PageDone(g, q)'
    <2>1. q \in Pages
      BY PagesFacts DEF SInv
    <2>2. PageContents(g, q)' = PageContents(g, q)
      BY CallFixed
    <2> QED  BY <1>1, <1>9, <2>1, <2>2 DEF PageDone, FramesKept
  <1> QED  BY <1>1, <1>2, <1>4, <1>5, <1>6, <1>8, <1>9

(* Nothing changes in the pages. *)
LEMMA SameFrames ==
  ASSUME SInv, UNCHANGED frames
  PROVE  FramesKept
  <1>1. Len(frames) \in Nat
    BY DEF SInv, FramesGood
  <1> QED  BY <1>1 DEF SInv, FramesGood, FramesKept

(* A new page. *)
LEMMA NewFrame ==
  ASSUME SInv, frames' = Append(frames, ZeroPage)
  PROVE  /\ FramesKept
         /\ Len(frames') = Len(frames) + 1 /\ Len(frames) \in Nat
         /\ Len(frames') # None /\ Len(frames') \in 0..Len(frames')
         /\ frames'[Len(frames')] = ZeroPage
         /\ \A p \in Pages : map[p] # Len(frames')
  <1>1. frames \in Seq(Contents) /\ ZeroPage \in Contents
    BY DEF SInv, FramesGood, Contents
  <1>2. /\ frames' \in Seq(Contents) /\ Len(frames) \in Nat /\ Len(frames') = Len(frames) + 1
        /\ \A n \in 1..Len(frames) : frames'[n] = frames[n]
        /\ frames'[Len(frames) + 1] = ZeroPage
    BY <1>1, AppendFacts
  <1>3. \A p \in Pages : map[p] \in 0..Len(frames)
    BY DEF SInv, TypeOK, Pages
  <1>4. \A p \in Pages : map[p] # None => map[p] \in 1..Len(frames)
    BY <1>2, <1>3 DEF None
  <1>5. FramesKept
    BY <1>2, <1>4 DEF FramesKept
  <1>6. \A p \in Pages : map[p] # Len(frames) + 1
    BY <1>2, <1>3
  <1> QED  BY <1>2, <1>5, <1>6 DEF None

(* The page at UTEMP is filled. *)
LEMMA FillFrame ==
  ASSUME SInv, pc \in {"stack_map", "read"}, NEW c \in Contents,
         frames' = [frames EXCEPT ![utemp] = c]
  PROVE  /\ FramesKept /\ Len(frames') = Len(frames) /\ frames'[utemp] = c
         /\ utemp \in 1..Len(frames)
  <1>1. frames \in Seq(Contents) /\ Len(frames) \in Nat
    BY DEF SInv, FramesGood
  <1>2. utemp # None /\ utemp \in 0..Len(frames) /\ \A p \in Pages : map[p] # utemp
    BY DEF SInv, TempGood, TypeOK
  <1>3. utemp \in 1..Len(frames)
    BY <1>1, <1>2 DEF None
  <1>4. frames' \in Seq(Contents) /\ Len(frames') = Len(frames) /\ frames'[utemp] = c
        /\ \A n \in 1..Len(frames) : n # utemp => frames'[n] = frames[n]
    BY <1>1, <1>3
  <1>5. \A p \in Pages : map[p] # None => map[p] \in 1..Len(frames)
    BY <1>1 DEF SInv, TypeOK, Pages, None
  <1>6. FramesKept
    BY <1>1, <1>2, <1>4, <1>5 DEF FramesKept
  <1> QED  BY <1>3, <1>4, <1>6

(* A page that nobody has goes to the child. *)
LEMMA MapPage ==
  ASSUME SInv, UNCHANGED callVars, FramesKept, NEW p \in Pages, NEW f \in 1..Len(frames'),
         \A q \in Pages : map[q] # f,
         map' = [map EXCEPT ![p] = f],
         writable' \subseteq Pages, \A q \in Pages \ {p} : q \in writable' <=> q \in writable
  PROVE  /\ FramesGood' /\ Private' /\ map' \in [Pages -> 0..Len(frames')] /\ map'[p] = f /\ f # None
         /\ p # StackPage => (StackDone => StackDone')
         /\ \A g \in DOMAIN image : \A q \in PagesOf(image[g]) :
              q # p => (PageDone(g, q) => PageDone(g, q)')
  <1>1. image' = image /\ argv' = argv
    BY DEF callVars
  <1>2. map \in [Pages -> 0..Len(frames)] /\ Len(frames) \in Nat /\ Len(frames') \in Nat
    BY DEF SInv, TypeOK, Pages, FramesGood, FramesKept
  <1>3. 0..Len(frames) \subseteq 0..Len(frames') /\ f \in 0..Len(frames') /\ f # None
    BY <1>2 DEF FramesKept, None
  <1>4. FramesGood'
    BY CallFixed DEF FramesGood, FramesKept
  <1>5. map'[p] = f /\ \A q \in Pages \ {p} : map'[q] = map[q]
    BY <1>2
  <1>6. map' \in [Pages -> 0..Len(frames')]
    BY <1>2, <1>3
  <1>7. Private'
    BY <1>5 DEF SInv, Private
  <1>8. StackPage \in Pages
    BY SpawnAssumption DEF StackPage, Pages
  <1>9. ASSUME StackDone, p # StackPage PROVE StackDone'
    <2>1. StackContents' = StackContents
      BY CallFixed
    <2> QED  BY <1>5, <1>8, <1>9, <2>1 DEF StackDone, FramesKept
  <1>10. ASSUME NEW g \in DOMAIN image, NEW q \in PagesOf(image[g]), q # p, PageDone(g, q)
         PROVE  PageDone(g, q)'
    <2>1. q \in Pages
      BY PagesFacts DEF SInv
    <2>2. PageContents(g, q)' = PageContents(g, q)
      BY CallFixed
    <2> QED  BY <1>1, <1>5, <1>10, <2>1, <2>2 DEF PageDone, FramesKept
  <1> QED  BY <1>3, <1>4, <1>5, <1>6, <1>7, <1>9, <1>10

(* The steps before the loop over the headers. *)
LEMMA EarlyStep ==
  ASSUME SInv, Open \/ ReadHeader \/ Exofork \/ StackAlloc
  PROVE  SInv'
  <1>1. UNCHANGED callVars /\ UNCHANGED spaceVars /\ UNCHANGED <<h, i, tf>>
    BY DEF Open, ReadHeader, Exofork, StackAlloc
  <1>2. pc \in {"open", "header", "exofork", "stack_alloc"}
        /\ pc' \in {"header", "exofork", "stack_alloc", "stack_map", "returned", "panicked", "overrun"}
    BY DEF Open, ReadHeader, Exofork, StackAlloc, mmap, Return
  <1>3. \/ UNCHANGED <<frames, utemp>> /\ pc' # "stack_map"
        \/ AllocUTEMP /\ pc = "stack_alloc" /\ pc' = "stack_map" /\ StackFits
    BY DEF Open, ReadHeader, Exofork, StackAlloc, mmap, Return
  <1>4. utemp = None /\ child # "RUNNABLE" /\ h = 1 /\ i = 0 /\ (pc # "stack_alloc" => child = "FREE")
    BY <1>2 DEF SInv, TempGood, ChildGood, LoopGood
  <1>5. child' # "RUNNABLE"
    BY <1>4 DEF Open, ReadHeader, Exofork, StackAlloc
  <1>6. FramesKept
    <2>1. CASE UNCHANGED frames
      BY <2>1, SameFrames
    <2>2. CASE AllocUTEMP
      BY <2>2, NewFrame DEF AllocUTEMP
    <2> QED  BY <1>3, <2>1, <2>2
  <1>7. FramesGood' /\ Private' /\ map' \in [Pages -> 0..Len(frames')] /\ writable' \subseteq Pages
    BY <1>1, <1>6, SpaceKept
  <1>8. utemp' \in 0..Len(frames') /\ (pc' = "stack_map" => utemp' # None /\ \A p \in Pages : map'[p] # utemp')
        /\ (pc' # "stack_map" => utemp' = None)
    <2>1. CASE UNCHANGED <<frames, utemp>> /\ pc' # "stack_map"
      BY <1>4, <2>1 DEF SInv, TypeOK
    <2>2. CASE AllocUTEMP /\ pc' = "stack_map"
      BY <1>1, <2>2, NewFrame DEF AllocUTEMP, spaceVars
    <2> QED  BY <1>3, <2>1, <2>2
  <1>9. TypeOK'
    <2>1. mmap_cnt' \in 0..MmapMax
      BY SpawnAssumption DEF Open, ReadHeader, Exofork, StackAlloc, mmap, SInv, TypeOK
    <2>2. /\ child' \in {"FREE", "NOT_RUNNABLE", "RUNNABLE"} /\ fd' \in BOOLEAN
          /\ result' \in {"none", "child", "open", "header", "exofork", "init_stack", "map_segment"}
      BY DEF Open, ReadHeader, Exofork, StackAlloc, mmap, Return, SInv, TypeOK
    <2> QED  BY <1>1, <1>2, <1>7, <1>8, <2>1, <2>2 DEF SInv, TypeOK, callVars, Pages
  <1>10. TempGood'
    BY <1>2, <1>8 DEF TempGood
  <1>11. ChildGood'
    <2>1. pc' \in {"header", "exofork"} => child' = "FREE"
      BY <1>4 DEF Open, ReadHeader, Exofork, StackAlloc, mmap, Return
    <2>2. pc' = "returned" /\ result' \in {"header", "map_segment"} => child' = "FREE" /\ ~fd'
      BY <1>4 DEF Open, ReadHeader, Exofork, StackAlloc, mmap, Return
    <2> QED  BY <1>2, <1>5, <2>1, <2>2 DEF ChildGood, Runs
  <1>12. StackGood'
    BY <1>1, <1>2, <1>3, <1>5, CallFixed DEF StackGood, Working, Runs
  <1>13. LoopGood'
    BY <1>1, <1>2, <1>4 DEF LoopGood, Working
  <1>14. PagesGood'
    BY <1>2, <1>5 DEF PagesGood, Working, Runs
  <1> QED  BY <1>7, <1>9, <1>10, <1>11, <1>12, <1>13, <1>14 DEF SInv

LEMMA StackMapStep ==
  ASSUME SInv, StackMap
  PROVE  SInv'
  <1>1. UNCHANGED callVars /\ UNCHANGED <<h, i, fd, mmap_cnt, child, tf>> /\ pc = "stack_map"
    BY DEF StackMap
  <1>2. frames' = [frames EXCEPT ![utemp] = StackContents] /\ StackContents \in Contents
    BY DEF StackMap, Contents
  <1>3. FramesKept /\ Len(frames') = Len(frames) /\ frames'[utemp] = StackContents
        /\ utemp \in 1..Len(frames) /\ Len(frames) \in Nat
    <2>1. Len(frames) \in Nat
      BY DEF SInv, FramesGood
    <2>2. pc \in {"stack_map", "read"}
      BY <1>1
    <2> QED  BY <1>2, <2>1, <2>2, FillFrame
  <1>4. \/ /\ map' = [map EXCEPT ![StackPage] = utemp] /\ writable' = writable \cup {StackPage}
           /\ pc' = "stack_unmap" /\ UNCHANGED <<utemp, result>>
        \/ utemp' = None /\ pc' = "returned" /\ result' = "init_stack" /\ UNCHANGED spaceVars
    BY DEF StackMap, Return
  <1>5. StackPage \in Pages
    BY SpawnAssumption DEF StackPage, Pages
  <1>6. child # "RUNNABLE" /\ h = 1 /\ i = 0 /\ StackFits /\ \A p \in Pages : map[p] # utemp
    BY <1>1 DEF SInv, ChildGood, LoopGood, StackGood, TempGood
  <1>7. /\ FramesGood' /\ Private' /\ map' \in [Pages -> 0..Len(frames')] /\ writable' \subseteq Pages
        /\ pc' = "stack_unmap" => StackDone'
    <2>1. CASE UNCHANGED spaceVars /\ pc' = "returned"
      BY <1>1, <1>3, <2>1, SpaceKept
    <2>2. CASE map' = [map EXCEPT ![StackPage] = utemp] /\ writable' = writable \cup {StackPage}
      <3>1. writable' \subseteq Pages /\ \A q \in Pages \ {StackPage} : q \in writable' <=> q \in writable
        BY <1>5, <2>2 DEF SInv, TypeOK, Pages
      <3>2. /\ FramesGood' /\ Private' /\ map' \in [Pages -> 0..Len(frames')]
            /\ map'[StackPage] = utemp /\ utemp # None
        BY <1>1, <1>3, <1>5, <1>6, <2>2, <3>1, MapPage
      <3>3. StackContents' = StackContents
        BY <1>1, CallFixed
      <3> QED  BY <1>3, <2>2, <3>1, <3>2, <3>3 DEF StackDone
    <2> QED  BY <1>4, <2>1, <2>2
  <1>8. utemp' \in 0..Len(frames') /\ pc' \in {"stack_unmap", "returned"}
        /\ (pc' = "returned" => utemp' = None /\ result' = "init_stack")
    BY <1>3, <1>4 DEF None
  <1>9. TypeOK'
    BY <1>1, <1>4, <1>7, <1>8 DEF SInv, TypeOK, callVars, Pages
  <1>10. TempGood' /\ ChildGood' /\ LoopGood' /\ PagesGood'
    BY <1>1, <1>6, <1>8 DEF TempGood, ChildGood, LoopGood, PagesGood, Working, Runs
  <1>11. StackGood'
    BY <1>1, <1>6, <1>7, <1>8, CallFixed DEF StackGood, Working, Runs
  <1> QED  BY <1>7, <1>9, <1>10, <1>11 DEF SInv

(* Quotients of the offsets the loop goes through. *)
LEMMA TurnFacts ==
  ASSUME TypeOK
  PROVE  /\ 0 \div PGSIZE = 0 /\ 0 = PGSIZE * 0
         /\ \A n \in Nat : i = PGSIZE * n =>
              (i + PGSIZE) \div PGSIZE = n + 1 /\ i + PGSIZE = PGSIZE * (n + 1) /\ i + PGSIZE \in Nat
  <1>1. PGSIZE \in Nat \ {0} /\ i \in Nat
    BY SpawnAssumption DEF TypeOK
  <1>2. 0 = PGSIZE * 0 /\ 0 = PGSIZE * 0 + 0 /\ 0 \in 0..(PGSIZE - 1) /\ 0 \in Int
    BY <1>1
  <1>3. 0 \div PGSIZE = 0
    BY <1>1, <1>2, DivUnique
  <1>4. ASSUME NEW n \in Nat, i = PGSIZE * n
        PROVE  (i + PGSIZE) \div PGSIZE = n + 1 /\ i + PGSIZE = PGSIZE * (n + 1) /\ i + PGSIZE \in Nat
    <2>1. PICK k \in Int, w \in Int : k = n + 1 /\ w = i + PGSIZE /\ w = PGSIZE * k
      BY <1>1, <1>4
    <2>2. w = PGSIZE * k + 0
      BY <1>1, <2>1
    <2>3. w \div PGSIZE = k
      BY <1>1, <1>2, <2>2, DivUnique
    <2> QED  BY <1>1, <2>1, <2>3
  <1> QED  BY <1>2, <1>3, <1>4

LEMMA StackUnmapStep ==
  ASSUME SInv, StackUnmap
  PROVE  SInv'
  <1>1. /\ UNCHANGED callVars /\ UNCHANGED spaceVars /\ UNCHANGED <<result, h, i, fd, mmap_cnt, frames, child, tf>>
        /\ pc = "stack_unmap" /\ pc' = "segment" /\ utemp' = None
    BY DEF StackUnmap
  <1>2. h = 1 /\ i = 0 /\ child # "RUNNABLE" /\ StackDone /\ StackFits
    BY <1>1 DEF SInv, LoopGood, ChildGood, StackGood
  <1>3. FramesKept
    BY <1>1, SameFrames
  <1>4. /\ FramesGood' /\ Private' /\ map' \in [Pages -> 0..Len(frames')] /\ writable' \subseteq Pages
        /\ StackDone'
    BY <1>1, <1>2, <1>3, SpaceKept
  <1>5. TypeOK'
    <2>1. utemp' \in 0..Len(frames')
      BY <1>1 DEF SInv, FramesGood, None
    <2> QED  BY <1>1, <1>4, <2>1 DEF SInv, TypeOK, callVars, Pages
  <1>6. TempGood' /\ ChildGood' /\ StackGood'
    BY <1>1, <1>2, <1>4, CallFixed DEF TempGood, ChildGood, StackGood, Working, Runs
  <1>7. Turn' = 0 /\ i' = PGSIZE * Turn'
    BY <1>1, <1>2, TurnFacts DEF SInv, Turn
  <1>8. Len(image) \in Nat /\ DOMAIN image = 1..Len(image)
    BY ImageFacts DEF SInv
  <1>9. LoopGood'
    BY <1>1, <1>2, <1>7, <1>8 DEF LoopGood, callVars
  <1>10. PagesGood'
    <2>1. ASSUME NEW g \in DOMAIN image, NEW q \in PagesOf(image[g])
          PROVE  ~(g < h') /\ ~(g = h' /\ q < Reached')
      <3>1. FirstPage(g) \in Nat /\ q \in Int /\ q >= FirstPage(g)
        BY PagesFacts DEF SInv
      <3>2. g = h' => Reached' = FirstPage(g)
        <4>1. FirstPage(g)' = FirstPage(g)
          BY <1>1, CallFixed
        <4> QED  BY <1>1, <1>7, <3>1, <4>1 DEF Reached
      <3> QED  BY <1>1, <1>2, <1>8, <3>1, <3>2
    <2> QED  BY <1>1, <2>1 DEF PagesGood, callVars
  <1> QED  BY <1>4, <1>5, <1>6, <1>9, <1>10 DEF SInv

LEMMA SkipStep ==
  ASSUME SInv, SkipHeader
  PROVE  SInv'
  <1>1. /\ UNCHANGED callVars /\ UNCHANGED spaceVars
        /\ UNCHANGED <<pc, result, fd, mmap_cnt, frames, utemp, child, tf>>
        /\ pc = "segment" /\ h <= Len(image) /\ h' = h + 1 /\ i' = 0
        /\ ~image[h].load \/ i >= Seg.memsz
    BY DEF SkipHeader
  <1>2. Len(image) \in Nat /\ DOMAIN image = 1..Len(image) /\ h \in 1..(Len(image) + 1)
        /\ Working /\ child # "RUNNABLE"
    BY <1>1, ImageFacts DEF SInv, LoopGood, Working, ChildGood
  <1>3. FramesKept
    BY <1>1, SameFrames
  <1>4. /\ FramesGood' /\ Private' /\ map' \in [Pages -> 0..Len(frames')] /\ writable' \subseteq Pages
        /\ StackDone'
        /\ \A g \in DOMAIN image : \A q \in PagesOf(image[g]) : PageDone(g, q) => PageDone(g, q)'
    BY <1>1, <1>2, <1>3, SpaceKept DEF SInv, StackGood
  <1>5. h' \in 1..(Len(image) + 1) /\ h \in DOMAIN image /\ h \in Nat /\ h' \in Nat
    BY <1>1, <1>2
  <1>6. TypeOK'
    BY <1>1, <1>4, <1>5 DEF SInv, TypeOK, callVars, Pages
  <1>7. TempGood' /\ ChildGood'
    BY <1>1, <1>2 DEF SInv, TempGood, ChildGood, Runs
  <1>8. StackGood'
    BY <1>1, <1>2, <1>4, CallFixed DEF SInv, StackGood, Working, Runs
  <1>9. Turn' = 0 /\ i' = PGSIZE * Turn'
    BY <1>1, TurnFacts DEF SInv, Turn
  <1>10. LoopGood'
    BY <1>1, <1>5, <1>9 DEF LoopGood, callVars
  <1>11. PagesGood'
    <2>1. ASSUME NEW g \in DOMAIN image, NEW q \in PagesOf(image[g]), image[g].load,
                 g < h' \/ (g = h' /\ q < Reached')
          PROVE  PageDone(g, q)
      <3>1. FirstPage(g) \in Nat /\ q \in Int /\ q >= FirstPage(g)
        BY PagesFacts DEF SInv
      <3>2. g = h' => Reached' = FirstPage(g)
        <4>1. FirstPage(g)' = FirstPage(g)
          BY <1>1, CallFixed
        <4> QED  BY <1>1, <1>9, <3>1, <4>1 DEF Reached
      <3>3. g < h \/ g = h
        BY <1>1, <1>2, <1>5, <2>1, <3>1, <3>2
      <3>4. CASE g < h
        BY <1>2, <2>1, <3>4 DEF SInv, PagesGood
      <3>5. CASE g = h
        <4>1. q < FirstPage(h) + Turn
          BY <1>1, <1>2, <1>5, <2>1, <3>5, SegmentEnds DEF SInv
        <4>2. Reached = FirstPage(h) + Turn
          <5>1. Turn \in Nat
            BY <1>2 DEF SInv, LoopGood
          <5> QED  BY <1>1, <3>1, <3>5, <5>1 DEF Reached
        <4> QED  BY <1>2, <2>1, <3>5, <4>1, <4>2 DEF SInv, PagesGood
      <3> QED  BY <3>3, <3>4, <3>5
    <2> QED  BY <1>1, <1>4, <2>1 DEF PagesGood, callVars
  <1> QED  BY <1>4, <1>6, <1>7, <1>8, <1>10, <1>11 DEF SInv

(* The error path of spawn. *)
LEMMA FailStep ==
  ASSUME SInv, pc = "segment", SegmentFails, UNCHANGED callVars, UNCHANGED spaceVars,
         UNCHANGED <<h, i, mmap_cnt, frames, utemp, tf>>
  PROVE  SInv'
  <1>1. pc' = "returned" /\ child' = "FREE" /\ ~fd' /\ fd' \in BOOLEAN /\ result' = "map_segment"
    BY DEF SegmentFails, Return
  <1>2. FramesKept
    BY SameFrames
  <1>3. FramesGood' /\ Private' /\ map' \in [Pages -> 0..Len(frames')] /\ writable' \subseteq Pages
    BY <1>2, SpaceKept
  <1>4. TypeOK'
    BY <1>1, <1>3 DEF SInv, TypeOK, callVars, Pages
  <1>5. TempGood' /\ ChildGood' /\ StackGood' /\ LoopGood' /\ PagesGood'
    BY <1>1 DEF SInv, TempGood, ChildGood, StackGood, LoopGood, PagesGood, Working, Runs
  <1> QED  BY <1>3, <1>4, <1>5 DEF SInv

(* The page of this turn is now in the child: the loop can go on. *)
LEMMA PageEnters ==
  ASSUME SInv, UNCHANGED callVars, UNCHANGED h, Working, h \in DOMAIN image, image[h].load, i < Seg.memsz,
         FramesKept, NEW f \in 1..Len(frames'), \A q \in Pages : map[q] # f, InChild(f),
         frames'[f] = PageContents(h, Page)
  PROVE  /\ FramesGood' /\ Private' /\ map' \in [Pages -> 0..Len(frames')] /\ writable' \subseteq Pages
         /\ StackDone'
         /\ \A g \in DOMAIN image : \A q \in PagesOf(image[g]) :
              /\ g < h /\ image[g].load => PageDone(g, q)'
              /\ g = h /\ q < FirstPage(h) + Turn + 1 => PageDone(g, q)'
  <1>1. /\ Page = FirstPage(h) + Turn /\ Page \in PagesOf(image[h]) /\ Page \in Pages
        /\ Page # StackPage /\ Page \in Int /\ Seg.write = image[h].write
    BY TurnPage, SegFields DEF SInv
  <1>2. PICK p : p = Page
    OBVIOUS
  <1>3. map' = [map EXCEPT ![p] = f] /\ writable' = IF image[h].write THEN writable \cup {p} ELSE writable \ {p}
    BY <1>1, <1>2 DEF InChild
  <1>4. /\ writable' \subseteq Pages /\ \A q \in Pages \ {p} : q \in writable' <=> q \in writable
        /\ p \in writable' <=> image[h].write
    BY <1>1, <1>2, <1>3 DEF SInv, TypeOK, Pages
  <1>5. /\ FramesGood' /\ Private' /\ map' \in [Pages -> 0..Len(frames')] /\ map'[p] = f /\ f # None
        /\ StackDone => StackDone'
        /\ \A g \in DOMAIN image : \A q \in PagesOf(image[g]) :
              q # p => (PageDone(g, q) => PageDone(g, q)')
    BY <1>1, <1>2, <1>3, <1>4, MapPage
  <1>6. StackDone
    BY DEF SInv, StackGood
  <1>7. PageDone(h, p)'
    <2>1. PageContents(h, p)' = PageContents(h, p)
      BY CallFixed
    <2> QED  BY <1>2, <1>4, <1>5, <2>1 DEF PageDone, callVars
  <1>8. ASSUME NEW g \in DOMAIN image, NEW q \in PagesOf(image[g]), g < h, image[g].load
        PROVE  PageDone(g, q)'
    <2>1. q # p
      <3>1. g # h
        BY <1>8, ImageFacts DEF SInv
      <3> QED  BY <1>1, <1>2, <1>8, <3>1, ImageFacts DEF SInv
    <2>2. PageDone(g, q)
      BY <1>8 DEF SInv, PagesGood
    <2> QED  BY <1>5, <2>1, <2>2
  <1>9. ASSUME NEW q \in PagesOf(image[h]), q < FirstPage(h) + Turn + 1
        PROVE  PageDone(h, q)'
    <2>1. q \in Int /\ FirstPage(h) \in Nat /\ Turn \in Nat
      BY PagesFacts DEF SInv, LoopGood
    <2>2. CASE q = p
      BY <1>7, <2>2
    <2>3. CASE q # p
      <3>1. q < FirstPage(h) + Turn
        BY <1>1, <1>2, <1>9, <2>1, <2>3
      <3>2. q < Reached
        BY <2>1, <3>1 DEF Reached
      <3>3. PageDone(h, q)
        BY <3>2 DEF SInv, PagesGood
      <3> QED  BY <1>5, <2>3, <3>3
    <2> QED  BY <2>2, <2>3
  <1>10. ASSUME NEW g \in DOMAIN image, NEW q \in PagesOf(image[g]), g = h, q < FirstPage(h) + Turn + 1
         PROVE  PageDone(g, q)'
    BY <1>9, <1>10
  <1> QED  BY <1>4, <1>5, <1>6, <1>8, <1>10

LEMMA BlankStep ==
  ASSUME SInv, BlankPage
  PROVE  SInv'
  <1>1. /\ UNCHANGED callVars /\ UNCHANGED <<h, mmap_cnt, utemp, tf>>
        /\ pc = "segment" /\ h <= Len(image) /\ image[h].load /\ i < Seg.memsz /\ i >= Seg.filesz
    BY DEF BlankPage, InSegment
  <1>2. h \in DOMAIN image /\ Working /\ child # "RUNNABLE" /\ StackFits /\ utemp = None
    BY <1>1, ImageFacts DEF SInv, LoopGood, Working, ChildGood, StackGood, TempGood
  <1>3. CASE SegmentFails /\ UNCHANGED <<frames, spaceVars, i>>
    BY <1>1, <1>3, FailStep
  <1>4. CASE /\ frames' = Append(frames, ZeroPage) /\ InChild(Len(frames')) /\ i' = i + PGSIZE
             /\ UNCHANGED <<pc, result, fd, child>>
    <2>1. PICK f : f = Len(frames')
      OBVIOUS
    <2>2. /\ FramesKept /\ f \in 1..Len(frames') /\ frames'[f] = ZeroPage
          /\ \A q \in Pages : map[q] # f
      BY <1>4, <2>1, NewFrame DEF None
    <2>3. ZeroPage = PageContents(h, Page)
      <3>1. ASSUME NEW o \in Offsets PROVE ~(PGSIZE * Page + o - image[h].va < image[h].filesz)
        <4>1. o \in Nat /\ i \in Nat /\ Seg.filesz \in Nat
          BY <1>2, SegFields, SpawnAssumption DEF Offsets, SInv, TypeOK
        <4>2. ~(o < Seg.filesz - i)
          BY <1>1, <4>1
        <4> QED  BY <1>1, <1>2, <4>2, TurnPage DEF SInv
      <3> QED  BY <3>1 DEF ZeroPage, PageContents, Wanted
    <2>4. /\ FramesGood' /\ Private' /\ map' \in [Pages -> 0..Len(frames')] /\ writable' \subseteq Pages
          /\ StackDone'
          /\ \A g \in DOMAIN image : \A q \in PagesOf(image[g]) :
               /\ g < h /\ image[g].load => PageDone(g, q)'
               /\ g = h /\ q < FirstPage(h) + Turn + 1 => PageDone(g, q)'
      BY <1>1, <1>2, <1>4, <2>1, <2>2, <2>3, PageEnters
    <2>5. Turn \in Nat /\ Turn' = Turn + 1 /\ i' = PGSIZE * Turn' /\ i' \in Nat
      BY <1>2, <1>4, TurnFacts DEF SInv, LoopGood, Turn
    <2>6. TypeOK'
      <3>1. utemp' \in 0..Len(frames')
        BY <1>1, <1>2, <2>2, <2>1 DEF None
      <3> QED  BY <1>1, <1>4, <2>4, <2>5, <3>1 DEF SInv, TypeOK, callVars, Pages
    <2>7. TempGood' /\ ChildGood'
      BY <1>1, <1>2, <1>4 DEF TempGood, ChildGood, Runs
    <2>8. StackGood'
      BY <1>1, <1>2, <1>4, <2>4, CallFixed DEF StackGood, Working, Runs
    <2>9. LoopGood'
      BY <1>1, <1>4, <2>5 DEF SInv, LoopGood, callVars, Working
    <2>10. PagesGood'
      <3>1. Reached' = FirstPage(h) + Turn + 1
        <4>1. FirstPage(h)' = FirstPage(h) /\ FirstPage(h) \in Nat
          BY <1>1, <1>2, CallFixed, PagesFacts DEF SInv
        <4> QED  BY <1>1, <1>4, <2>5, <4>1 DEF Reached, FirstPage
      <3> QED  BY <1>1, <2>4, <3>1 DEF PagesGood, callVars
    <2> QED  BY <2>4, <2>6, <2>7, <2>8, <2>9, <2>10 DEF SInv
  <1> QED  BY <1>3, <1>4 DEF BlankPage

(* Steps of a turn that leave the loop and the child's pages where they are. *)
LEMMA SameTurn ==
  ASSUME SInv, UNCHANGED callVars, UNCHANGED <<h, i>>, Working, pc # "unmap", pc' # "unmap",
         FramesKept, UNCHANGED spaceVars
  PROVE  /\ StackDone' /\ PagesGood' /\ (Working' => h' \in 1..(Len(image') + 1) /\ Turn' \in Nat /\ i' = PGSIZE * Turn')
         /\ Turn' = Turn /\ \A g : FirstPage(g)' = FirstPage(g)
  <1>1. /\ StackDone'
        /\ \A g \in DOMAIN image : \A q \in PagesOf(image[g]) : PageDone(g, q) => PageDone(g, q)'
    BY SpaceKept DEF SInv, StackGood
  <1>2. Turn' = Turn /\ \A g : FirstPage(g)' = FirstPage(g)
    BY CallFixed DEF Turn
  <1>3. Reached' = Reached
    BY <1>2 DEF Reached, FirstPage
  <1>4. PagesGood'
    BY <1>1, <1>3 DEF SInv, PagesGood, callVars
  <1> QED  BY <1>1, <1>2, <1>4 DEF SInv, LoopGood, callVars

LEMMA FileStep ==
  ASSUME SInv, FilePage
  PROVE  SInv'
  <1>1. /\ UNCHANGED callVars /\ UNCHANGED spaceVars /\ UNCHANGED <<h, i, mmap_cnt, tf>>
        /\ pc = "segment" /\ h <= Len(image) /\ image[h].load /\ i < Seg.memsz
    BY DEF FilePage, InSegment
  <1>2. h \in DOMAIN image /\ Working /\ child # "RUNNABLE" /\ StackFits
    BY <1>1, ImageFacts DEF SInv, LoopGood, Working, ChildGood, StackGood
  <1>3. CASE SegmentFails /\ UNCHANGED <<frames, utemp>>
    BY <1>1, <1>3, FailStep
  <1>4. CASE AllocUTEMP /\ pc' = "read" /\ UNCHANGED <<result, fd, child>>
    <2>1. /\ frames' = Append(frames, ZeroPage) /\ utemp' = Len(frames')
      BY <1>4 DEF AllocUTEMP
    <2>2. /\ FramesKept /\ utemp' # None /\ utemp' \in 0..Len(frames') /\ frames'[utemp'] = ZeroPage
          /\ \A q \in Pages : map'[q] # utemp'
      BY <1>1, <2>1, NewFrame DEF spaceVars
    <2>3. FramesGood' /\ Private' /\ map' \in [Pages -> 0..Len(frames')] /\ writable' \subseteq Pages
      BY <1>1, <2>2, SpaceKept
    <2>4. /\ StackDone' /\ PagesGood'
          /\ h' \in 1..(Len(image') + 1) /\ Turn' \in Nat /\ i' = PGSIZE * Turn'
      BY <1>1, <1>2, <1>4, <2>2, SameTurn DEF Working
    <2>5. TypeOK'
      BY <1>1, <1>4, <2>2, <2>3 DEF SInv, TypeOK, callVars, Pages
    <2>6. TempGood' /\ ChildGood'
      BY <1>1, <1>2, <1>4, <2>2 DEF TempGood, ChildGood, Runs
    <2>7. StackGood'
      BY <1>1, <1>2, <2>4, CallFixed DEF StackGood
    <2>8. LoopGood'
      <3>1. Seg' = Seg /\ image' = image
        BY <1>1 DEF Seg, Aligned, callVars
      <3> QED  BY <1>1, <1>2, <1>4, <2>4, <3>1 DEF LoopGood
    <2> QED  BY <2>3, <2>4, <2>5, <2>6, <2>7, <2>8 DEF SInv
  <1> QED  BY <1>3, <1>4 DEF FilePage

LEMMA ReadStep ==
  ASSUME SInv, SegmentRead
  PROVE  SInv'
  <1>1. /\ UNCHANGED callVars /\ UNCHANGED spaceVars /\ UNCHANGED <<result, h, i, fd, utemp, child, tf>>
        /\ pc = "read" /\ pc' \in {"panicked", "map", "overrun"} /\ mmap("map", ReadPage)
    BY DEF SegmentRead, mmap
  <1>2. h \in DOMAIN image /\ image[h].load /\ i < Seg.memsz /\ Working /\ child # "RUNNABLE" /\ StackFits
        /\ frames[utemp] = ZeroPage /\ utemp # None /\ \A q \in Pages : map[q] # utemp
    BY <1>1 DEF SInv, LoopGood, Working, ChildGood, StackGood, TempGood
  <1>3. PICK c : c = PageContents(h, Page)
    OBVIOUS
  <1>4. c \in Contents
    BY <1>2, <1>3, TurnPage DEF SInv, Contents
  <1>5. ReadPage = [frames EXCEPT ![utemp] = c]
    <2>1. \A o \in Offsets : ZeroPage[o] = Zero
      BY DEF ZeroPage
    <2>2. c = [o \in Offsets |-> IF o < Seg.filesz - i THEN FileByte(Seg.offset + i + o) ELSE ZeroPage[o]]
      <3>1. ASSUME NEW o \in Offsets
            PROVE  Wanted(h, PGSIZE * Page + o - image[h].va)
                     = IF o < Seg.filesz - i THEN FileByte(Seg.offset + i + o) ELSE ZeroPage[o]
        <4>1. /\ o < Seg.filesz - i <=> PGSIZE * Page + o - image[h].va < image[h].filesz
              /\ Seg.offset + i + o = image[h].offset + (PGSIZE * Page + o - image[h].va)
          BY <1>2, TurnPage DEF SInv
        <4> QED  BY <2>1, <4>1 DEF Wanted
      <3> QED  BY <1>3, <3>1 DEF PageContents
    <2> QED  BY <1>2, <2>2 DEF ReadPage
  <1>6. /\ FramesKept /\ (pc' = "map" => frames'[utemp] = c) /\ Len(frames') = Len(frames)
        /\ mmap_cnt' \in 0..MmapMax
    <2>1. CASE UNCHANGED <<frames, mmap_cnt>> /\ pc' = "panicked"
      BY <2>1, SameFrames DEF SInv, TypeOK
    <2>2. CASE frames' = ReadPage
      <3>1. FramesKept /\ Len(frames') = Len(frames) /\ frames'[utemp] = c
        BY <1>1, <1>4, <1>5, <2>2, FillFrame
      <3>2. mmap_cnt' \in 0..MmapMax
        BY <1>1, SpawnAssumption DEF mmap, SInv, TypeOK
      <3> QED  BY <3>1, <3>2
    <2> QED  BY <1>1, <2>1, <2>2 DEF mmap
  <1>7. FramesGood' /\ Private' /\ map' \in [Pages -> 0..Len(frames')] /\ writable' \subseteq Pages
    BY <1>1, <1>6, SpaceKept
  <1>8. /\ StackDone' /\ PagesGood'
        /\ Working' => h' \in 1..(Len(image') + 1) /\ Turn' \in Nat /\ i' = PGSIZE * Turn'
        /\ Turn' = Turn /\ FirstPage(h)' = FirstPage(h)
    BY <1>1, <1>2, <1>6, SameTurn
  <1>9. TypeOK'
    BY <1>1, <1>6, <1>7 DEF SInv, TypeOK, callVars, Pages
  <1>10. TempGood'
    <2>1. pc' = "map" => utemp' # None /\ \A q \in Pages : map'[q] # utemp'
      BY <1>1, <1>2 DEF spaceVars
    <2>2. pc' = "map" => frames'[utemp'] = PageContents(h, FirstPage(h) + Turn)'
      <3>1. PageContents(h, FirstPage(h) + Turn)' = PageContents(h, FirstPage(h) + Turn)
        BY <1>1, <1>8 DEF PageContents, Wanted, callVars
      <3> QED  BY <1>1, <1>2, <1>3, <1>6, <3>1, TurnPage DEF SInv
    <2> QED  BY <1>1, <2>1, <2>2 DEF TempGood
  <1>11. ChildGood'
    BY <1>1, <1>2 DEF ChildGood, Runs
  <1>12. StackGood'
    BY <1>1, <1>2, <1>8, CallFixed DEF StackGood
  <1>13. LoopGood'
    <2>1. Seg' = Seg /\ image' = image
      BY <1>1 DEF Seg, Aligned, callVars
    <2> QED  BY <1>1, <1>2, <1>8, <2>1 DEF LoopGood
  <1> QED  BY <1>7, <1>8, <1>9, <1>10, <1>11, <1>12, <1>13 DEF SInv

LEMMA MapStep ==
  ASSUME SInv, SegmentMap
  PROVE  SInv'
  <1>1. /\ UNCHANGED callVars /\ UNCHANGED <<result, h, i, fd, mmap_cnt, frames, utemp, child, tf>>
        /\ pc = "map"
        /\ \/ pc' = "unmap" /\ InChild(utemp)
           \/ pc' = "panicked" /\ UNCHANGED spaceVars
    BY DEF SegmentMap
  <1>2. h \in DOMAIN image /\ image[h].load /\ i < Seg.memsz /\ Working /\ child # "RUNNABLE" /\ StackFits
        /\ frames[utemp] = PageContents(h, FirstPage(h) + Turn) /\ utemp # None
        /\ Turn \in Nat /\ i = PGSIZE * Turn /\ h \in 1..(Len(image) + 1)
        /\ \A q \in Pages : map[q] # utemp
    BY <1>1 DEF SInv, LoopGood, Working, ChildGood, StackGood, TempGood
  <1>3. FramesKept /\ utemp \in 1..Len(frames')
    <2>1. utemp \in 0..Len(frames) /\ Len(frames) \in Nat
      BY DEF SInv, TypeOK, FramesGood
    <2> QED  BY <1>1, <1>2, <2>1, SameFrames DEF None
  <1>4. Turn' = Turn /\ FirstPage(h)' = FirstPage(h) /\ FirstPage(h) \in Nat /\ Seg' = Seg /\ image' = image
    BY <1>1, <1>2, CallFixed, PagesFacts DEF SInv, Turn, Seg, Aligned, callVars
  <1>5. CASE pc' = "panicked" /\ UNCHANGED spaceVars
    <2>1. FramesGood' /\ Private' /\ map' \in [Pages -> 0..Len(frames')] /\ writable' \subseteq Pages
      BY <1>1, <1>3, <1>5, SpaceKept
    <2>2. TypeOK'
      BY <1>1, <1>5, <2>1 DEF SInv, TypeOK, callVars, Pages
    <2>3. TempGood' /\ ChildGood' /\ StackGood' /\ LoopGood' /\ PagesGood'
      BY <1>1, <1>2, <1>5 DEF TempGood, ChildGood, StackGood, LoopGood, PagesGood, Working, Runs
    <2> QED  BY <2>1, <2>2, <2>3 DEF SInv
  <1>6. CASE pc' = "unmap" /\ InChild(utemp)
    <2>1. frames'[utemp] = PageContents(h, Page)
      BY <1>1, <1>2, TurnPage DEF SInv
    <2>2. /\ FramesGood' /\ Private' /\ map' \in [Pages -> 0..Len(frames')] /\ writable' \subseteq Pages
          /\ StackDone'
          /\ \A g \in DOMAIN image : \A q \in PagesOf(image[g]) :
               /\ g < h /\ image[g].load => PageDone(g, q)'
               /\ g = h /\ q < FirstPage(h) + Turn + 1 => PageDone(g, q)'
      BY <1>1, <1>2, <1>3, <1>6, <2>1, PageEnters
    <2>3. TypeOK'
      BY <1>1, <1>6, <2>2 DEF SInv, TypeOK, callVars, Pages
    <2>4. TempGood' /\ ChildGood'
      BY <1>1, <1>2, <1>6 DEF TempGood, ChildGood, Runs
    <2>5. StackGood'
      BY <1>1, <1>2, <1>6, <2>2, CallFixed DEF StackGood, Working, Runs
    <2>6. LoopGood'
      <3>0. h' = h /\ i' = i
        BY <1>1
      <3>1. h' \in DOMAIN image' /\ image'[h'].load /\ i' < Seg'.memsz
        BY <1>2, <1>4, <3>0
      <3>2. h' \in 1..(Len(image') + 1) /\ Turn' \in Nat /\ i' = PGSIZE * Turn'
        BY <1>2, <1>4, <3>0
      <3> QED  BY <1>6, <3>1, <3>2 DEF LoopGood
    <2>7. PagesGood'
      <3>1. Reached' = FirstPage(h) + Turn + 1
        BY <1>1, <1>2, <1>4, <1>6 DEF Reached, FirstPage
      <3> QED  BY <1>1, <1>4, <2>2, <3>1 DEF PagesGood
    <2> QED  BY <2>2, <2>3, <2>4, <2>5, <2>6, <2>7 DEF SInv
  <1> QED  BY <1>1, <1>5, <1>6

LEMMA UnmapStep ==
  ASSUME SInv, SegmentUnmap
  PROVE  SInv'
  <1>1. /\ UNCHANGED callVars /\ UNCHANGED spaceVars /\ UNCHANGED <<result, h, fd, mmap_cnt, frames, child, tf>>
        /\ pc = "unmap" /\ pc' = "segment" /\ utemp' = None /\ i' = i + PGSIZE
    BY DEF SegmentUnmap
  <1>2. h \in DOMAIN image /\ Working /\ child # "RUNNABLE" /\ StackFits /\ StackDone
        /\ Turn \in Nat /\ i = PGSIZE * Turn /\ h \in 1..(Len(image) + 1)
    BY <1>1 DEF SInv, LoopGood, Working, ChildGood, StackGood
  <1>3. FramesKept
    BY <1>1, SameFrames
  <1>4. /\ FramesGood' /\ Private' /\ map' \in [Pages -> 0..Len(frames')] /\ writable' \subseteq Pages
        /\ StackDone'
        /\ \A g \in DOMAIN image : \A q \in PagesOf(image[g]) : PageDone(g, q) => PageDone(g, q)'
    BY <1>1, <1>2, <1>3, SpaceKept
  <1>5. Turn' = Turn + 1 /\ i' = PGSIZE * Turn' /\ i' \in Nat
    BY <1>1, <1>2, TurnFacts DEF SInv, Turn
  <1>6. TypeOK'
    <2>1. utemp' \in 0..Len(frames')
      BY <1>1 DEF SInv, FramesGood, None
    <2> QED  BY <1>1, <1>4, <1>5, <2>1 DEF SInv, TypeOK, callVars, Pages
  <1>7. TempGood' /\ ChildGood'
    BY <1>1, <1>2 DEF TempGood, ChildGood, Runs
  <1>8. StackGood'
    BY <1>1, <1>2, <1>4, CallFixed DEF StackGood
  <1>9. LoopGood'
    BY <1>1, <1>2, <1>5 DEF LoopGood, callVars
  <1>10. PagesGood'
    <2>1. Reached' = Reached
      <3>1. FirstPage(h)' = FirstPage(h) /\ FirstPage(h) \in Nat
        BY <1>1, <1>2, CallFixed, PagesFacts DEF SInv
      <3> QED  BY <1>1, <1>2, <1>5, <3>1 DEF Reached, FirstPage
    <2> QED  BY <1>1, <1>2, <1>4, <2>1 DEF SInv, PagesGood, callVars
  <1> QED  BY <1>4, <1>6, <1>7, <1>8, <1>9, <1>10 DEF SInv

-----------------------------------------------------------------------------
(* Where init_stack puts things. *)

(* The definition of string_size, for the first m strings. *)
IsSize(f, m) == f = [k \in 0..m |-> IF k = 0 THEN 0 ELSE f[k - 1] + argv[k] + 1]

LEMMA SizeExists ==
  ASSUME NEW m \in Nat
  PROVE  \E f : IsSize(f, m)
  <1> DEFINE T == {n \in Nat : \E f : IsSize(f, n)}
  <1>1. 0 \in T
    <2>1. IsSize([k \in 0..0 |-> 0], 0)
      BY DEF IsSize
    <2> QED  BY <2>1
  <1>2. ASSUME NEW n \in Nat, n \in T PROVE n + 1 \in T
    <2>1. PICK f : IsSize(f, n)
      BY <1>2
    <2>2. PICK last : last = f[n] + argv[n + 1] + 1
      OBVIOUS
    <2>3. PICK g : g = [k \in 0..(n + 1) |-> IF k = n + 1 THEN last ELSE f[k]]
      OBVIOUS
    <2>4. \A k \in 0..n : f[k] = IF k = 0 THEN 0 ELSE f[k - 1] + argv[k] + 1
      BY <2>1 DEF IsSize
    <2>5. ASSUME NEW k \in 0..(n + 1)
          PROVE  g[k] = IF k = 0 THEN 0 ELSE g[k - 1] + argv[k] + 1
      <3>1. CASE k = n + 1
        <4>1. g[k] = last /\ k # 0 /\ k - 1 = n /\ g[n] = f[n]
          BY <1>2, <2>3, <3>1
        <4> QED  BY <2>2, <3>1, <4>1
      <3>2. CASE k # n + 1
        <4>1. k \in 0..n /\ g[k] = f[k]
          BY <1>2, <2>3, <3>2
        <4>2. k # 0 => g[k - 1] = f[k - 1]
          BY <1>2, <2>3, <3>2
        <4> QED  BY <2>4, <4>1, <4>2
      <3> QED  BY <3>1, <3>2
    <2>6. g = [k \in 0..(n + 1) |-> g[k]]
      BY <2>3
    <2>7. IsSize(g, n + 1)
      BY <2>5, <2>6 DEF IsSize
    <2> QED  BY <1>2, <2>7
  <1>3. T = Nat
    <2> HIDE DEF T
    <2>1. T \in SUBSET Nat
      BY DEF T
    <2> QED  BY <1>1, <1>2, <2>1, NatSet
  <1> QED  BY <1>3

(* The sizes add up. *)
LEMMA SizeDef ==
  ASSUME TypeOK
  PROVE  /\ argv \in Seq(Nat) /\ Len(argv) \in Nat
         /\ string_size[0] = 0
         /\ \A k \in 1..Len(argv) : argv[k] \in Nat /\ string_size[k] = string_size[k - 1] + argv[k] + 1
  <1>1. argv \in Seq(Nat) /\ Len(argv) \in Nat
    BY SpawnAssumption DEF TypeOK
  <1>2. \E f : IsSize(f, Len(argv))
    BY <1>1, SizeExists
  <1>3. string_size = CHOOSE f : IsSize(f, Len(argv))
    BY DEF string_size, IsSize
  <1>4. IsSize(string_size, Len(argv))
    BY <1>2, <1>3
  <1>5. \A k \in 0..Len(argv) : string_size[k] = IF k = 0 THEN 0 ELSE string_size[k - 1] + argv[k] + 1
    BY <1>4 DEF IsSize
  <1> QED  BY <1>1, <1>5

(* They are numbers, and those of more strings are larger. *)
LEMMA SizeFacts ==
  ASSUME TypeOK
  PROVE  \A l \in 0..Len(argv) : /\ string_size[l] \in Nat
                                  /\ \A k \in 0..l : string_size[k] <= string_size[l]
  <1> DEFINE Good(l) == /\ string_size[l] \in Nat
                        /\ \A k \in 0..l : string_size[k] \in Nat /\ string_size[k] <= string_size[l]
  <1> DEFINE T == {l \in Nat : l <= Len(argv) => Good(l)}
  <1>1. 0 \in T
    <2>1. Good(0)
      BY SizeDef
    <2> QED  BY <2>1
  <1>2. ASSUME NEW n \in Nat, n \in T PROVE n + 1 \in T
    <2> SUFFICES ASSUME n + 1 <= Len(argv) PROVE Good(n + 1)
      OBVIOUS
    <2>1. n + 1 \in 1..Len(argv) /\ (n + 1) - 1 = n /\ n <= Len(argv)
      BY SizeDef
    <2>2. argv[n + 1] \in Nat /\ string_size[n + 1] = string_size[n] + argv[n + 1] + 1
      BY <2>1, SizeDef
    <2>3. Good(n)
      BY <1>2, <2>1
    <2>4. PICK u \in Nat, v \in Nat, w \in Nat :
            u = string_size[n] /\ v = argv[n + 1] /\ w = string_size[n + 1] /\ w = u + v + 1
      BY <2>2, <2>3
    <2>5. ASSUME NEW k \in 0..(n + 1) PROVE string_size[k] \in Nat /\ string_size[k] <= w
      <3>1. CASE k = n + 1
        <4>1. string_size[k] = string_size[n + 1]
          BY <3>1
        <4>2. w <= w
          OBVIOUS
        <4> QED  BY <2>4, <4>1, <4>2
      <3>2. CASE k # n + 1
        <4>1. k \in 0..n
          BY <3>2
        <4>2. string_size[k] \in Nat /\ string_size[k] <= u
          BY <2>3, <2>4, <4>1
        <4> QED  BY <2>4, <4>2
      <3> QED  BY <3>1, <3>2
    <2> QED  BY <2>4, <2>5
  <1>3. T = Nat
    <2> HIDE DEF T
    <2>1. T \in SUBSET Nat
      BY DEF T
    <2> QED  BY <1>1, <1>2, <2>1, NatSet
  <1>4. Len(argv) \in Nat
    BY SizeDef
  <1>5. ASSUME NEW l \in 0..Len(argv) PROVE Good(l)
    <2>1. l \in T /\ l <= Len(argv)
      BY <1>3, <1>4
    <2> QED  BY <2>1
  <1> QED  BY <1>5

(* The strings follow each other up to the end of the page. *)
LEMMA StringPlaces ==
  ASSUME TypeOK
  PROVE  /\ string_store(1) \in Int /\ string_store(1) <= PGSIZE
         /\ \A k \in 1..Len(argv) :
              /\ string_store(k) \in Int /\ argv[k] \in Nat
              /\ string_store(1) <= string_store(k)
              /\ string_store(k) + argv[k] < PGSIZE
              /\ \A l \in 1..Len(argv) : k < l => string_store(k) + argv[k] < string_store(l)
  <1>1. PGSIZE \in Nat /\ Len(argv) \in Nat /\ string_size[0] = 0
    BY SizeDef, SpawnAssumption
  <1>2. PICK total \in Nat : total = string_size[Len(argv)]
    BY <1>1, SizeFacts
  <1>3. string_store(1) = PGSIZE - total
    <2>1. string_store(1) = PGSIZE - total + string_size[1 - 1] /\ 1 - 1 = 0
      BY <1>2 DEF string_store
    <2> QED  BY <1>1, <2>1
  <1>4. ASSUME NEW k \in 1..Len(argv)
        PROVE  \E s \in Nat, e \in Nat :
                 /\ s = string_size[k - 1] /\ e = string_size[k] /\ argv[k] \in Nat /\ e = s + argv[k] + 1
                 /\ e <= total /\ string_store(k) = PGSIZE - total + s
                 /\ \A l \in 1..Len(argv) : k < l => string_size[l - 1] \in Nat /\ e <= string_size[l - 1]
    <2>1. k - 1 \in 0..Len(argv) /\ k \in 0..Len(argv) /\ Len(argv) \in 0..Len(argv)
      BY <1>1
    <2>2. ASSUME NEW l \in 1..Len(argv), k < l
          PROVE  string_size[l - 1] \in Nat /\ string_size[k] <= string_size[l - 1]
      <3>1. l - 1 \in 0..Len(argv) /\ k \in 0..(l - 1)
        BY <1>1, <2>2
      <3> QED  BY <3>1, SizeFacts
    <2>3. string_size[k - 1] \in Nat /\ string_size[k] \in Nat /\ string_size[k] <= total
      BY <1>2, <2>1, SizeFacts
    <2>4. argv[k] \in Nat /\ string_size[k] = string_size[k - 1] + argv[k] + 1
      BY SizeDef
    <2>5. string_store(k) = PGSIZE - total + string_size[k - 1]
      BY <1>2 DEF string_store
    <2> QED  BY <2>2, <2>3, <2>4, <2>5
  <1>5. ASSUME NEW k \in 1..Len(argv)
        PROVE  /\ string_store(k) \in Int /\ argv[k] \in Nat
               /\ string_store(1) <= string_store(k)
               /\ string_store(k) + argv[k] < PGSIZE
               /\ \A l \in 1..Len(argv) : k < l => string_store(k) + argv[k] < string_store(l)
    <2>1. PICK s \in Nat, e \in Nat :
                 /\ s = string_size[k - 1] /\ e = string_size[k] /\ argv[k] \in Nat /\ e = s + argv[k] + 1
                 /\ e <= total /\ string_store(k) = PGSIZE - total + s
                 /\ \A l \in 1..Len(argv) : k < l => string_size[l - 1] \in Nat /\ e <= string_size[l - 1]
      BY <1>4
    <2>2. ASSUME NEW l \in 1..Len(argv), k < l PROVE string_store(k) + argv[k] < string_store(l)
      <3>1. PICK t \in Nat : t = string_size[l - 1] /\ e <= t
        BY <2>1, <2>2
      <3>2. string_store(l) = PGSIZE - total + t
        BY <1>2, <3>1 DEF string_store
      <3>3. PICK z \in Nat, a \in Int, b \in Int :
              z = argv[k] /\ a = string_store(k) /\ b = string_store(l) /\ a = PGSIZE - total + s
              /\ b = PGSIZE - total + t /\ e = s + z + 1
        BY <1>1, <2>1, <3>2
      <3>4. a + z < b
        BY <1>1, <3>1, <3>3, SMTT(30)
      <3> QED  BY <3>3, <3>4
    <2> QED  BY <1>1, <1>3, <2>1, <2>2, SMTT(30)
  <1> QED  BY <1>1, <1>3, <1>5

(* The pointers lie below the strings, the two words below the pointers,   *)
(* and if the page is large enough all of it is in the page.               *)
LEMMA StackPlaces ==
  ASSUME TypeOK
  PROVE  /\ argv_store \in Int /\ init_esp \in Int /\ init_esp = argv_store - 2 * WORD
         /\ argv_store + WORD * (Len(argv) + 1) <= string_store(1)
         /\ argv_store < PGSIZE /\ init_esp < PGSIZE
         /\ \A k \in 1..Len(argv) :
              /\ argv_store <= argv_store + WORD * (k - 1)
              /\ argv_store + WORD * (k - 1) < argv_store + WORD * Len(argv)
              /\ argv_store + WORD * (k - 1) \in Int
         /\ argv_store <= argv_store + WORD * Len(argv)
         /\ argv_store + WORD * Len(argv) < string_store(1)
         /\ argv_store + WORD * Len(argv) \in Int
  <1>1. WORD \in Nat \ {0} /\ Len(argv) \in Nat /\ PGSIZE \in Nat
    BY SizeDef, SpawnAssumption
  <1>2. PICK s \in Int, m \in Int :
          /\ s = string_store(1) /\ s <= PGSIZE /\ m = s \div WORD /\ WORD * m <= s /\ WORD * m \in Int
    <2>1. PICK s \in Int : s = string_store(1) /\ s <= PGSIZE
      BY StringPlaces
    <2>2. s \div WORD \in Int /\ s % WORD \in Nat /\ s = WORD * (s \div WORD) + (s % WORD)
      BY <1>1, DivMod
    <2>3. PICK m \in Int, r \in Nat : m = s \div WORD /\ s = WORD * m + r
      BY <2>2
    <2>4. WORD * m \in Int /\ WORD * m <= s
      BY <1>1, <2>3
    <2> QED  BY <2>1, <2>3, <2>4
  <1>3. PICK v \in Nat, w \in Nat, u \in Int :
          v = WORD * Len(argv) /\ w = WORD * (Len(argv) + 1) /\ w = v + WORD /\ u = WORD * m
    BY <1>1, <1>2
  <1>4. argv_store = u - w /\ init_esp = argv_store - 2 * WORD
    BY <1>2, <1>3 DEF argv_store, init_esp
  <1>5. PICK a \in Int : a = argv_store /\ a + w <= s /\ a < PGSIZE /\ a <= a + v /\ a + v < s
    <2>1. u <= s /\ s <= PGSIZE
      BY <1>2, <1>3
    <2>2. w = v + WORD
      BY <1>3
    <2>3. u - w \in Int /\ (u - w) + w <= s /\ u - w < PGSIZE /\ u - w <= (u - w) + v /\ (u - w) + v < s
      BY <1>1, <2>1, <2>2
    <2> QED  BY <1>4, <2>3
  <1>6. ASSUME NEW k \in 1..Len(argv)
        PROVE  a <= a + WORD * (k - 1) /\ a + WORD * (k - 1) < a + v /\ a + WORD * (k - 1) \in Int
    <2>1. PICK l \in Int, n \in Int : l = k - 1 /\ n = Len(argv) /\ 0 <= l /\ l + 1 <= n
      BY <1>1
    <2>2. WORD * 0 <= WORD * l /\ WORD * (l + 1) <= WORD * n
      BY <1>1, <2>1, ProductOrder
    <2>3. PICK x \in Int : x = WORD * l /\ WORD * 0 = 0 /\ WORD * (l + 1) = x + WORD /\ WORD * n = v
      BY <1>1, <1>3, <2>1
    <2>4. 0 <= x /\ x + WORD <= v
      BY <2>2, <2>3
    <2>5. a <= a + x /\ a + x < a + v /\ a + x \in Int
      BY <1>1, <2>4
    <2> QED  BY <2>1, <2>3, <2>5
  <1>7. init_esp = a - 2 * WORD /\ init_esp \in Int /\ init_esp < PGSIZE
    <2>1. a - 2 * WORD \in Int /\ a - 2 * WORD < PGSIZE
      BY <1>1, <1>5
    <2> QED  BY <1>4, <1>5, <2>1
  <1>8. a + WORD * (Len(argv) + 1) <= string_store(1)
    BY <1>2, <1>3, <1>5
  <1>9. a <= a + WORD * Len(argv) /\ a + WORD * Len(argv) < string_store(1) /\ a + WORD * Len(argv) \in Int
    BY <1>2, <1>3, <1>5
  <1>10. ASSUME NEW k \in 1..Len(argv)
         PROVE  /\ a <= a + WORD * (k - 1) /\ a + WORD * (k - 1) < a + WORD * Len(argv)
                /\ a + WORD * (k - 1) \in Int
    BY <1>3, <1>6
  <1> QED  BY <1>5, <1>7, <1>8, <1>9, <1>10

LEMMA StartStep ==
  ASSUME SInv, Start
  PROVE  SInv'
  <1>1. /\ UNCHANGED callVars /\ UNCHANGED spaceVars /\ UNCHANGED <<h, i, mmap_cnt, frames, utemp>>
        /\ pc = "segment" /\ h > Len(image) /\ fd' = FALSE /\ child' = "RUNNABLE"
        /\ tf' = Ustack(init_esp) /\ pc' = "returned" /\ result' = "child"
    BY DEF Start, Return
  <1>2. Len(image) \in Nat /\ h \in 1..(Len(image) + 1) /\ Working /\ StackFits /\ utemp = None
    BY <1>1, ImageFacts DEF SInv, LoopGood, Working, StackGood, TempGood
  <1>3. FramesKept
    BY <1>1, SameFrames
  <1>4. /\ FramesGood' /\ Private' /\ map' \in [Pages -> 0..Len(frames')] /\ writable' \subseteq Pages
        /\ StackDone'
        /\ \A g \in DOMAIN image : \A q \in PagesOf(image[g]) : PageDone(g, q) => PageDone(g, q)'
    BY <1>1, <1>2, <1>3, SpaceKept DEF SInv, StackGood
  <1>5. tf' \in Nat
    <2>1. init_esp \in Int /\ init_esp >= 0
      BY <1>2, StackPlaces DEF SInv, StackFits
    <2>2. PGSIZE * StackPage \in Nat
      BY SpawnAssumption DEF StackPage
    <2> QED  BY <1>1, <2>1, <2>2 DEF Ustack
  <1>6. TypeOK'
    BY <1>1, <1>4, <1>5 DEF SInv, TypeOK, callVars, Pages
  <1>7. h = Len(image) + 1
    BY <1>1, <1>2
  <1>8. TempGood' /\ LoopGood'
    BY <1>1, <1>2 DEF TempGood, LoopGood, Working
  <1>9. ChildGood'
    <2>1. Ustack(init_esp)' = Ustack(init_esp)
      BY <1>1, CallFixed DEF Ustack
    <2> QED  BY <1>1, <1>7, <2>1 DEF ChildGood, Runs, callVars
  <1>10. StackGood'
    BY <1>1, <1>2, <1>4, CallFixed DEF StackGood
  <1>11. PagesGood'
    <2>1. ASSUME NEW g \in DOMAIN image, NEW q \in PagesOf(image[g]), image[g].load PROVE PageDone(g, q)'
      <3>1. g < h
        BY <1>2, <1>7, ImageFacts DEF SInv
      <3> QED  BY <1>2, <1>4, <2>1, <3>1 DEF SInv, PagesGood
    <2> QED  BY <1>1, <2>1 DEF PagesGood, callVars
  <1> QED  BY <1>4, <1>6, <1>8, <1>9, <1>10, <1>11 DEF SInv

LEMMA InitHolds == Init => SInv
  <1> SUFFICES ASSUME Init PROVE SInv
    OBVIOUS
  <1>1. TypeOK
    <2>1. mmap_cnt \in 0..MmapMax
      BY SpawnAssumption DEF Init
    <2>2. Len(frames) = 0
      BY DEF Init
    <2>3. map \in [0..(NPages - 1) -> 0..Len(frames)] /\ utemp \in 0..Len(frames)
      BY <2>2 DEF Init, None
    <2>4. h \in Nat /\ i \in Nat /\ tf \in Nat
      BY DEF Init, None
    <2> QED  BY <2>1, <2>3, <2>4 DEF Init, TypeOK
  <1>2. FramesGood
    BY DEF Init, FramesGood
  <1>3. TempGood /\ Private /\ ChildGood /\ StackGood /\ LoopGood /\ PagesGood
    BY DEF Init, TempGood, Private, ChildGood, StackGood, LoopGood, PagesGood, Working, Runs, Pages
  <1> QED  BY <1>1, <1>2, <1>3 DEF SInv

LEMMA StutterHolds ==
  ASSUME SInv, UNCHANGED vars
  PROVE  SInv'
  <1>1. /\ UNCHANGED callVars /\ UNCHANGED spaceVars
        /\ UNCHANGED <<pc, result, h, i, fd, mmap_cnt, frames, utemp, child, tf>>
    BY DEF vars
  <1>2. FramesKept
    BY <1>1, SameFrames
  <1>3. /\ FramesGood' /\ Private' /\ (StackDone => StackDone')
        /\ \A g \in DOMAIN image : \A q \in PagesOf(image[g]) : PageDone(g, q) => PageDone(g, q)'
    BY <1>1, <1>2, SpaceKept
  <1>4. TypeOK' /\ Turn' = Turn /\ Reached' = Reached /\ Seg' = Seg /\ image' = image
    BY <1>1 DEF SInv, TypeOK, callVars, spaceVars, Turn, Reached, FirstPage, Seg, Aligned
  <1>5. TempGood'
    <2>1. PageContents(h, FirstPage(h) + Turn)' = PageContents(h, FirstPage(h) + Turn)
      BY <1>1 DEF PageContents, Wanted, FirstPage, Turn, callVars
    <2> QED  BY <1>1, <2>1 DEF SInv, TempGood, spaceVars
  <1>6. ChildGood'
    <2>1. Ustack(init_esp)' = Ustack(init_esp)
      BY <1>1, CallFixed DEF Ustack
    <2> QED  BY <1>1, <1>4, <2>1 DEF SInv, ChildGood, Runs
  <1>7. StackGood'
    BY <1>1, <1>3, CallFixed DEF SInv, StackGood, Working, Runs
  <1>8. LoopGood'
    BY <1>1, <1>4 DEF SInv, LoopGood, Working
  <1>9. PagesGood'
    BY <1>1, <1>3, <1>4 DEF SInv, PagesGood, Working, Runs
  <1> QED  BY <1>3, <1>4, <1>5, <1>6, <1>7, <1>8, <1>9 DEF SInv

(* The inductive invariant holds. *)
THEOREM Invariance == Spec => []SInv
  <1>1. SInv /\ [Next]_vars => SInv'
    <2> SUFFICES ASSUME SInv, [Next]_vars PROVE SInv'
      OBVIOUS
    <2>1. CASE Open \/ ReadHeader \/ Exofork \/ StackAlloc
      BY <2>1, EarlyStep
    <2>2. CASE StackMap
      BY <2>2, StackMapStep
    <2>3. CASE StackUnmap
      BY <2>3, StackUnmapStep
    <2>4. CASE SkipHeader
      BY <2>4, SkipStep
    <2>5. CASE BlankPage
      BY <2>5, BlankStep
    <2>6. CASE FilePage
      BY <2>6, FileStep
    <2>7. CASE SegmentRead
      BY <2>7, ReadStep
    <2>8. CASE SegmentMap
      BY <2>8, MapStep
    <2>9. CASE SegmentUnmap
      BY <2>9, UnmapStep
    <2>10. CASE Start
      BY <2>10, StartStep
    <2>11. CASE UNCHANGED vars
      BY <2>11, StutterHolds
    <2> QED  BY <2>1, <2>2, <2>3, <2>4, <2>5, <2>6, <2>7, <2>8, <2>9, <2>10, <2>11 DEF Next
  <1> QED  BY <1>1, InitHolds, PTL DEF Spec

(* The variables of spawn have their types; the tables of lib/mmap.c never *)
(* count more entries than they have.                                      *)
THEOREM TypeCorrect == Spec => []TypeOK
  <1>1. SInv => TypeOK
    BY DEF SInv
  <1> QED  BY <1>1, Invariance, PTL

(* Pages are handed over: nothing stays at UTEMP, no two addresses of the  *)
(* child are one page, and a failed spawn leaves neither a child nor an    *)
(* open file (lib/spawn.c).                                                *)
THEOREM PagesHandedOver == Spec => []HandedOver
  <1>1. SInv => HandedOver
    <2> SUFFICES ASSUME SInv PROVE HandedOver
      OBVIOUS
    <2>1. DOMAIN map = Pages
      BY DEF SInv, TypeOK, Pages
    <2>2. pc = "returned" => utemp = None
      BY DEF SInv, TempGood
    <2>3. child = "RUNNABLE" => pc = "returned"
      BY DEF SInv, ChildGood
    <2>4. \A p, q \in DOMAIN map : map[p] = map[q] /\ map[p] # None => p = q
      BY <2>1 DEF SInv, Private
    <2>5. pc = "returned" /\ result \in {"header", "map_segment"} => child = "FREE" /\ ~fd
      BY DEF SInv, ChildGood
    <2> QED  BY <2>2, <2>3, <2>4, <2>5 DEF HandedOver
  <1> QED  BY <1>1, Invariance, PTL

(* A child that runs has the whole image of the program file, byte by      *)
(* byte, however its segments lie on the pages, and may write exactly the  *)
(* writable segments (map_segment of lib/spawn.c), for every page size and *)
(* every file whose headers keep what the linker guarantees.               *)
THEOREM ImageComplete == Spec => []ImageExact
  <1>1. SInv => ImageExact
    <2> SUFFICES ASSUME SInv, child = "RUNNABLE", NEW g \in DOMAIN image, image[g].load
                 PROVE  /\ \A j \in 0..(image[g].memsz - 1) :
                             /\ Mapped(image[g].va + j)
                             /\ ChildByte(image[g].va + j)
                                  = IF j < image[g].filesz THEN FileByte(image[g].offset + j) ELSE Zero
                        /\ \A p \in PagesOf(image[g]) : p \in writable <=> image[g].write
      BY DEF ImageExact
    <2>1. \A q \in PagesOf(image[g]) : PageDone(g, q)
      <3>1. h = Len(image) + 1 /\ g < h
        BY ImageFacts DEF SInv, ChildGood, Runs
      <3> QED  BY <3>1 DEF SInv, PagesGood, Runs
    <2>2. ASSUME NEW j \in 0..(image[g].memsz - 1)
          PROVE  /\ Mapped(image[g].va + j)
                 /\ ChildByte(image[g].va + j) = Wanted(g, j)
      <3>1. PICK va \in Nat, memsz \in Nat, k \in Nat, a \in Int, top \in Int :
              /\ va = image[g].va /\ memsz = image[g].memsz /\ k = j /\ k < memsz
              /\ a = va + k /\ top = va + memsz - 1 /\ va <= a /\ a <= top
        <4>1. image[g].va \in Nat /\ image[g].memsz \in Nat
          BY ImageFacts DEF SInv
        <4>2. PICK va \in Nat, memsz \in Nat, k \in Nat :
                va = image[g].va /\ memsz = image[g].memsz /\ k = j /\ k < memsz
          BY <4>1
        <4>3. va + k \in Int /\ va + memsz - 1 \in Int /\ va <= va + k /\ va + k <= va + memsz - 1
          BY <4>2
        <4> QED  BY <4>2, <4>3
      <3>2. PGSIZE \in Nat \ {0}
        BY SpawnAssumption
      <3>3. PICK q \in Int, o \in Offsets, first \in Int, last \in Int :
              /\ q = a \div PGSIZE /\ o = a % PGSIZE /\ a = PGSIZE * q + o /\ o \in Nat
              /\ first = va \div PGSIZE /\ last = top \div PGSIZE
              /\ PGSIZE * first <= va
        <4>1. /\ a \div PGSIZE \in Int /\ a % PGSIZE \in Offsets /\ a % PGSIZE \in Nat
              /\ a = PGSIZE * (a \div PGSIZE) + (a % PGSIZE)
          BY <3>2, DivMod DEF Offsets
        <4>0. /\ va \div PGSIZE \in Int /\ va % PGSIZE \in Nat
              /\ va = PGSIZE * (va \div PGSIZE) + (va % PGSIZE)
          BY <3>2, DivMod
        <4>2. PICK m \in Int, r \in Nat : m = va \div PGSIZE /\ va = PGSIZE * m + r
          BY <4>0
        <4>3. PGSIZE * m <= va
          BY <3>2, <4>2
        <4>4. top \div PGSIZE \in Int
          BY <3>2, DivMod
        <4> QED  BY <4>1, <4>2, <4>3, <4>4
      <3>4. q \in first..last
        <4>1. PGSIZE * first <= a
          BY <3>1, <3>2, <3>3
        <4>2. first <= q
          BY <3>2, <3>3, <4>1, DivOrder
        <4>3. PGSIZE * q <= top
          BY <3>1, <3>2, <3>3
        <4>4. q <= last
          BY <3>2, <3>3, <4>3, DivOrder
        <4> QED  BY <4>2, <4>4
      <3>5. q \in PagesOf(image[g])
        BY <3>1, <3>3, <3>4 DEF PagesOf
      <3>6. map[q] # None /\ frames[map[q]][o] = Wanted(g, PGSIZE * q + o - va)
        BY <2>1, <3>1, <3>5, ZenonT(60) DEF PageDone, PageContents
      <3>7. PGSIZE * q + o - va = j
        <4>1. a - va = k
          BY <3>1
        <4>2. PICK w \in Int : w = PGSIZE * q /\ a = w + o
          BY <3>2, <3>3
        <4>3. w + o - va = k
          BY <3>3, <4>1, <4>2
        <4> QED  BY <3>1, <4>2, <4>3
      <3> QED  BY <3>1, <3>3, <3>6, <3>7 DEF Mapped, ChildByte
    <2>3. \A p \in PagesOf(image[g]) : p \in writable <=> image[g].write
      BY <2>1 DEF PageDone
    <2> QED  BY <2>2, <2>3 DEF Wanted
  <1> QED  BY <1>1, Invariance, PTL

(* What the child reads at an offset of its stack page. *)
LEMMA StackByte ==
  ASSUME SInv, child = "RUNNABLE", NEW o \in Offsets
  PROVE  ChildByte(Ustack(o)) = StackContents[o] /\ Ustack(o) \div PGSIZE = StackPage /\ Ustack(o) \in Nat
  <1>1. PGSIZE \in Nat \ {0} /\ StackPage \in Int /\ o \in 0..(PGSIZE - 1) /\ StackPage \in Nat
    BY SpawnAssumption DEF StackPage, Offsets
  <1>2. PICK a : a = PGSIZE * StackPage + o /\ a = Ustack(o)
    BY DEF Ustack
  <1>3. a \div PGSIZE = StackPage /\ a % PGSIZE = o
    BY <1>1, <1>2, DivUnique
  <1>4. frames[map[StackPage]] = StackContents
    BY DEF SInv, StackGood, StackDone, Runs
  <1>5. a \in Nat
    BY <1>1, <1>2
  <1> QED  BY <1>2, <1>3, <1>4, <1>5 DEF ChildByte

(* An address further up in the page. *)
LEMMA UstackPlus ==
  ASSUME NEW o \in Int, NEW n \in Int
  PROVE  Ustack(o) + n = Ustack(o + n)
  <1>1. PGSIZE * StackPage \in Int
    BY SpawnAssumption DEF StackPage
  <1> QED  BY <1>1 DEF Ustack

(* The contents of the stack page, one place after the other. *)
LEMMA PointerHere ==
  ASSUME TypeOK, StackFits, NEW k \in 1..Len(argv)
  PROVE  /\ argv_store + WORD * (k - 1) \in Offsets
         /\ StackContents[argv_store + WORD * (k - 1)] = WordAt(Ustack(string_store(k)))
  <1>1. PICK a \in Int, o \in Int, e \in Int :
          /\ a = argv_store /\ o = argv_store + WORD * (k - 1) /\ e = init_esp
          /\ a <= o /\ o < string_store(1) /\ string_store(1) <= PGSIZE /\ string_store(1) \in Int
          /\ e = a - 2 * WORD /\ e >= 0
    BY StackPlaces, StringPlaces DEF StackFits
  <1>2. WORD \in Nat \ {0} /\ PGSIZE \in Nat \ {0}
    BY SpawnAssumption
  <1>3. o \in Offsets
    BY <1>1, <1>2 DEF Offsets
  <1>4. (o - a) \div WORD = k - 1
    <2>1. PICK n \in Int, d \in Int : n = k - 1 /\ d = o - a /\ d = WORD * n
      BY <1>1, <1>2
    <2>2. d = WORD * n + 0 /\ 0 \in 0..(WORD - 1)
      BY <1>2, <2>1
    <2>3. d \div WORD = n
      BY <1>2, <2>2, DivUnique
    <2> QED  BY <2>1, <2>3
  <1>5. ((o - a) \div WORD) + 1 = k
    BY <1>4
  <1>6. \E l \in 1..Len(argv) : o = argv_store + WORD * (l - 1)
    BY <1>1
  <1>7. StackContents[o] = WordAt(Ustack(string_store(((o - a) \div WORD) + 1)))
    BY <1>1, <1>3, <1>6 DEF StackContents
  <1> QED  BY <1>1, <1>3, <1>5, <1>7

LEMMA WordsHere ==
  ASSUME TypeOK, StackFits
  PROVE  /\ argv_store + WORD * Len(argv) \in Offsets
         /\ StackContents[argv_store + WORD * Len(argv)] = WordAt(0)
         /\ argv_store - WORD \in Offsets
         /\ StackContents[argv_store - WORD] = WordAt(Ustack(argv_store))
         /\ init_esp \in Offsets
         /\ StackContents[init_esp] = WordAt(Len(argv))
  <1>1. PICK a \in Int, e \in Int, n \in Int, s \in Int :
          /\ a = argv_store /\ e = init_esp /\ n = argv_store + WORD * Len(argv) /\ s = string_store(1)
          /\ a <= n /\ n < s /\ s <= PGSIZE /\ a < PGSIZE
          /\ e = a - 2 * WORD /\ e >= 0
    BY StackPlaces, StringPlaces DEF StackFits
  <1>2. WORD \in Nat \ {0} /\ PGSIZE \in Nat \ {0}
    BY SpawnAssumption
  <1>3. \A k \in 1..Len(argv) : \E o \in Int : o = argv_store + WORD * (k - 1) /\ a <= o /\ o < n
    BY <1>1, StackPlaces
  <1>4. PICK v \in Int : v = a - WORD
    BY <1>1, <1>2
  <1>5. n \in Offsets /\ v \in Offsets /\ e \in Offsets /\ v < a /\ e < a /\ v # n /\ e # n /\ e # v
    BY <1>1, <1>2, <1>4 DEF Offsets
  <1>6. StackContents[n] = WordAt(0)
    <2>1. ~ \E k \in 1..Len(argv) : n = argv_store + WORD * (k - 1)
      BY <1>3
    <2> QED  BY <1>1, <1>5, <2>1 DEF StackContents
  <1>7. StackContents[v] = WordAt(Ustack(argv_store))
    <2>1. ~ \E k \in 1..Len(argv) : v = argv_store + WORD * (k - 1)
      BY <1>3, <1>5
    <2> QED  BY <1>1, <1>4, <1>5, <2>1 DEF StackContents
  <1>8. StackContents[e] = WordAt(Len(argv))
    <2>1. ~ \E k \in 1..Len(argv) : e = argv_store + WORD * (k - 1)
      BY <1>3, <1>5
    <2> QED  BY <1>1, <1>4, <1>5, <2>1 DEF StackContents
  <1> QED  BY <1>1, <1>4, <1>5, <1>6, <1>7, <1>8

(* Character j of string k, and the end of the string. *)
InString(k, o) == o \in string_store(k)..(string_store(k) + argv[k] - 1)

LEMMA StringsHere ==
  ASSUME TypeOK, StackFits, NEW k \in 1..Len(argv)
  PROVE  /\ \A j \in 1..argv[k] :
              /\ string_store(k) + j - 1 \in Offsets
              /\ StackContents[string_store(k) + j - 1] = Char(k, j)
         /\ string_store(k) + argv[k] \in Offsets
         /\ StackContents[string_store(k) + argv[k]] = Zero
  <1>1. PICK a \in Int, e \in Int, n \in Int, s \in Int, first \in Int, z \in Nat :
          /\ a = argv_store /\ e = init_esp /\ n = argv_store + WORD * Len(argv) /\ first = string_store(1)
          /\ a <= n /\ n < first /\ first <= s /\ s = string_store(k) /\ z = argv[k] /\ s + z < PGSIZE
          /\ e = a - 2 * WORD /\ e >= 0
    <2>1. PICK a \in Int, e \in Int, n \in Int, first \in Int :
            /\ a = argv_store /\ e = init_esp /\ n = argv_store + WORD * Len(argv) /\ first = string_store(1)
            /\ a <= n /\ n < first /\ e = a - 2 * WORD /\ e >= 0
      BY StackPlaces, StringPlaces DEF StackFits
    <2>2. PICK s \in Int, z \in Nat : s = string_store(k) /\ z = argv[k] /\ first <= s /\ s + z < PGSIZE
      BY <2>1, StringPlaces
    <2> QED  BY <2>1, <2>2
  <1>2. WORD \in Nat \ {0} /\ PGSIZE \in Nat \ {0} /\ Len(argv) \in Nat
    BY SpawnAssumption, SizeDef
  <1>3. ASSUME NEW l \in 1..Len(argv) PROVE \E o \in Int : o = argv_store + WORD * (l - 1) /\ o < n
    BY <1>1, StackPlaces
  <1>4. ASSUME NEW o \in Int, s <= o, o <= s + z
        PROVE  /\ o \in Offsets
               /\ ~ \E l \in 1..Len(argv) : o = argv_store + WORD * (l - 1)
               /\ o # argv_store + WORD * Len(argv) /\ o # argv_store - WORD /\ o # init_esp
    <2>1. o > n /\ o \in Offsets
      BY <1>1, <1>2, <1>4 DEF Offsets
    <2>2. PICK v \in Int : v = argv_store - WORD /\ v < o
      BY <1>1, <1>2, <2>1
    <2>3. e < o
      BY <1>1, <1>2, <2>1
    <2>4. ~ \E l \in 1..Len(argv) : o = argv_store + WORD * (l - 1)
      <3>1. ASSUME NEW l \in 1..Len(argv), o = argv_store + WORD * (l - 1) PROVE FALSE
        <4>1. PICK x \in Int : x = argv_store + WORD * (l - 1) /\ x < n
          BY <1>3
        <4> QED  BY <2>1, <3>1, <4>1
      <3> QED  BY <3>1
    <2>5. o # n /\ o # v /\ o # e
      BY <2>1, <2>2, <2>3
    <2> QED  BY <1>1, <2>1, <2>2, <2>4, <2>5
  <1>5. ASSUME NEW o \in Int, s <= o, o <= s + z, NEW l \in 1..Len(argv), InString(l, o)
        PROVE  l = k
    <2>1. PICK t \in Int, y \in Nat : t = string_store(l) /\ y = argv[l] /\ t <= o /\ o <= t + y - 1
      BY <1>5, StringPlaces DEF InString
    <2>2. l < k => t + y < s
      BY <1>1, <2>1, StringPlaces
    <2>3. k < l => s + z < t
      BY <1>1, <2>1, StringPlaces
    <2>4. ~(l < k) /\ ~(k < l)
      BY <1>5, <2>1, <2>2, <2>3
    <2> QED  BY <1>2, <2>4
  <1>6. ASSUME NEW j \in 1..argv[k]
        PROVE  string_store(k) + j - 1 \in Offsets /\ StackContents[string_store(k) + j - 1] = Char(k, j)
    <2>1. PICK o \in Int : o = string_store(k) + j - 1 /\ s <= o /\ o <= s + z - 1 /\ o <= s + z
      <3>1. PICK i0 \in Int : i0 = j /\ 1 <= i0 /\ i0 <= z
        BY <1>1
      <3>2. s + i0 - 1 \in Int /\ s <= s + i0 - 1 /\ s + i0 - 1 <= s + z - 1 /\ s + i0 - 1 <= s + z
        BY <3>1
      <3> QED  BY <1>1, <3>1, <3>2
    <2>2. InString(k, o) /\ \A l \in 1..Len(argv) : InString(l, o) => l = k
      <3>1. InString(k, o)
        BY <1>1, <2>1 DEF InString
      <3> QED  BY <1>5, <2>1, <3>1
    <2>3. k = CHOOSE l \in 1..Len(argv) : o \in string_store(l)..(string_store(l) + argv[l] - 1)
      BY <2>2 DEF InString
    <2>4. \E l \in 1..Len(argv) : o \in string_store(l)..(string_store(l) + argv[l] - 1)
      BY <2>2 DEF InString
    <2>5. /\ o \in Offsets
          /\ ~ \E l \in 1..Len(argv) : o = argv_store + WORD * (l - 1)
          /\ o # argv_store + WORD * Len(argv) /\ o # argv_store - WORD /\ o # init_esp
      BY <1>4, <2>1
    <2>6. StackContents[o] = Char(k, o - string_store(k) + 1)
      BY <2>3, <2>4, <2>5 DEF StackContents
    <2>7. o - string_store(k) + 1 = j
      BY <1>1, <2>1, SMTT(30)
    <2> QED  BY <2>1, <2>5, <2>6, <2>7
  <1>7. string_store(k) + argv[k] \in Offsets /\ StackContents[string_store(k) + argv[k]] = Zero
    <2>1. PICK o \in Int : o = string_store(k) + argv[k] /\ o = s + z /\ s <= o /\ o <= s + z
      BY <1>1, SMTT(30)
    <2>2. ~ \E l \in 1..Len(argv) : o \in string_store(l)..(string_store(l) + argv[l] - 1)
      <3>1. ~InString(k, o)
        BY <1>1, <2>1, SMTT(30) DEF InString
      <3> QED  BY <1>5, <2>1, <3>1 DEF InString
    <2>3. /\ o \in Offsets
          /\ ~ \E l \in 1..Len(argv) : o = argv_store + WORD * (l - 1)
          /\ o # argv_store + WORD * Len(argv) /\ o # argv_store - WORD /\ o # init_esp
      BY <1>4, <2>1
    <2>4. StackContents[o] = Zero
      BY <2>2, <2>3 DEF StackContents
    <2> QED  BY <2>1, <2>3, <2>4
  <1> QED  BY <1>6, <1>7

(* A child that runs finds its arguments (init_stack of lib/spawn.c), for  *)
(* every argument vector that fits in a page.                              *)
THEOREM ArgsArrive == Spec => []ArgsPassed
  <1>1. SInv => ArgsPassed
    <2> SUFFICES ASSUME SInv, child = "RUNNABLE" PROVE ArgsPassed
      BY DEF ArgsPassed
    <2>1. TypeOK /\ StackFits /\ tf = Ustack(init_esp) /\ StackPage \in writable
      BY DEF SInv, StackGood, ChildGood, Runs, StackDone
    <2>2. WORD \in Nat \ {0} /\ Len(argv) \in Nat
      BY SpawnAssumption, SizeDef, <2>1
    <2>3. /\ tf \div PGSIZE = StackPage /\ ChildWord(tf) = Len(argv)
      <3>1. init_esp \in Offsets /\ StackContents[init_esp] = WordAt(Len(argv))
        BY <2>1, WordsHere
      <3>2. ChildByte(tf) = WordAt(Len(argv)) /\ tf \div PGSIZE = StackPage
        BY <2>1, <3>1, StackByte
      <3> QED  BY <3>2 DEF ChildWord, WordAt
    <2>4. ChildWord(tf + WORD) = Ustack(argv_store)
      <3>1. argv_store \in Int /\ init_esp = argv_store - 2 * WORD /\ init_esp \in Int
        BY <2>1, StackPlaces
      <3>2. init_esp + WORD = argv_store - WORD
        BY <2>2, <3>1
      <3>3. tf + WORD = Ustack(argv_store - WORD)
        BY <2>1, <2>2, <3>1, <3>2, UstackPlus
      <3>4. argv_store - WORD \in Offsets /\ StackContents[argv_store - WORD] = WordAt(Ustack(argv_store))
        BY <2>1, WordsHere
      <3>5. ChildByte(tf + WORD) = WordAt(Ustack(argv_store))
        BY <3>3, <3>4, StackByte
      <3> QED  BY <3>5 DEF ChildWord, WordAt
    <2>5. PICK vector : vector = ChildWord(tf + WORD) /\ vector = Ustack(argv_store)
      BY <2>4
    <2>6. ASSUME NEW n \in Int PROVE vector + n = Ustack(argv_store + n)
      BY <2>1, <2>5, StackPlaces, UstackPlus
    <2>7. ASSUME NEW k \in 1..Len(argv)
          PROVE  LET str == ChildWord(vector + WORD * (k - 1)) IN
                 /\ \A j \in 1..argv[k] : ChildByte(str + j - 1) = Char(k, j)
                 /\ ChildByte(str + argv[k]) = Zero
      <3>1. WORD * (k - 1) \in Int
        BY <2>2
      <3>2. ChildByte(vector + WORD * (k - 1)) = WordAt(Ustack(string_store(k)))
        BY <2>1, <2>6, <3>1, PointerHere, StackByte
      <3>3. PICK str : str = ChildWord(vector + WORD * (k - 1)) /\ str = Ustack(string_store(k))
        BY <3>2 DEF ChildWord, WordAt
      <3>4. string_store(k) \in Int /\ argv[k] \in Nat
        BY <2>1, StringPlaces
      <3>5. ASSUME NEW j \in 1..argv[k] PROVE ChildByte(str + j - 1) = Char(k, j)
        <4>1. PICK n \in Int : n = j - 1
          BY <3>4
        <4>2. str + j - 1 = str + n /\ string_store(k) + j - 1 = string_store(k) + n
          <5>1. str \in Int
            BY <3>3, <3>4, SpawnAssumption DEF Ustack, StackPage
          <5> QED  BY <3>4, <4>1, <5>1
        <4>3. str + n = Ustack(string_store(k) + n)
          BY <3>3, <3>4, UstackPlus
        <4>4. string_store(k) + n \in Offsets /\ StackContents[string_store(k) + n] = Char(k, j)
          BY <2>1, <4>2, StringsHere
        <4> QED  BY <4>2, <4>3, <4>4, StackByte
      <3>6. ChildByte(str + argv[k]) = Zero
        <4>1. str + argv[k] = Ustack(string_store(k) + argv[k])
          <5>1. argv[k] \in Int
            BY <3>4
          <5> QED  BY <3>3, <3>4, <5>1, UstackPlus
        <4> QED  BY <2>1, <4>1, StringsHere, StackByte
      <3> QED  BY <3>3, <3>5, <3>6
    <2>8. ChildByte(vector + WORD * Len(argv)) = WordAt(0)
      <3>1. WORD * Len(argv) \in Int
        BY <2>2
      <3> QED  BY <2>1, <2>6, <3>1, WordsHere, StackByte
    <2> QED  BY <2>1, <2>3, <2>5, <2>7, <2>8 DEF ArgsPassed
  <1> QED  BY <1>1, Invariance, PTL
=============================================================================

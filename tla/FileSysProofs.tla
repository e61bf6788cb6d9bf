--------------------------- MODULE FileSysProofs ----------------------------
(***************************************************************************)
(* Proofs about the file system (module FileSys), for every disk, every    *)
(* directory and every number of direct and indirect pointers.             *)
(*                                                                         *)
(* A request is a composition of functions on a request in progress, and   *)
(* so is its proof.  The first half is about memory: each function takes   *)
(* a good store to a good store.  The second half is about the disk: after *)
(* each write the disk is good, and after the last one it agrees with the  *)
(* memory.                                                                 *)
(***************************************************************************)
EXTENDS FileSys, FiniteSetTheorems, WellFoundedInduction, TLAPS

-----------------------------------------------------------------------------
(* Numbers. *)

(* Induction: a set of numbers with 0 and with the successor of each of    *)
(* its elements has all of them.                                           *)
LEMMA NatSet ==
  ASSUME NEW T \in SUBSET Nat, 0 \in T, \A n \in Nat : n \in T => n + 1 \in T
  PROVE  T = Nat
  <1> SUFFICES ASSUME Nat \ T # {} PROVE FALSE
    OBVIOUS
  <1>1. PICK R : R = OpToRel(<, Nat) /\ IsWellFoundedOn(R, Nat)
    BY NatLessThanWellFounded
  <1>2. \A x, y \in Nat : x < y => <<x, y>> \in R
    BY <1>1 DEF OpToRel
  <1>3. PICK x \in Nat \ T : \A y \in Nat \ T : <<y, x>> \notin R
    BY <1>1, WFMin
  <1>4. x # 0 /\ x - 1 \in Nat /\ x - 1 < x
    BY <1>3
  <1>5. x - 1 \in T
    BY <1>2, <1>3, <1>4
  <1> QED  BY <1>3, <1>4, <1>5

(* A quotient and a remainder are the only ones. *)
LEMMA DivUnique ==
  ASSUME NEW N \in Nat \ {0}, NEW q \in Int, NEW r \in 0..(N - 1), NEW a, a = N * q + r
  PROVE  a \div N = q /\ a % N = r
  OBVIOUS

(* Every number has a quotient and a remainder. *)
LEMMA DivExists ==
  ASSUME NEW N \in Nat \ {0}, NEW a \in Int
  PROVE  \E q \in Int, r \in 0..(N - 1) : a = N * q + r
  <1> DEFINE T == {n \in Nat : \E q \in Int, r \in 0..(N - 1) : n = N * q + r}
  <1>1. 0 \in T
    <2>1. 0 \in Int /\ 0 \in 0..(N - 1) /\ 0 = N * 0 + 0
      OBVIOUS
    <2> QED  BY <2>1
  <1>2. ASSUME NEW n \in Nat, n \in T PROVE n + 1 \in T
    <2>1. PICK q \in Int, r \in 0..(N - 1) : n = N * q + r
      BY <1>2
    <2>2. CASE r + 1 \in 0..(N - 1)
      <3>1. n + 1 = N * q + (r + 1)
        BY <2>1
      <3> QED  BY <2>2, <3>1
    <2>3. CASE r = N - 1
      <3>1. n + 1 = N * (q + 1) + 0 /\ 0 \in 0..(N - 1) /\ q + 1 \in Int
        BY <2>1, <2>3
      <3> QED  BY <3>1
    <2> QED  BY <2>2, <2>3
  <1>3. T = Nat
    <2> HIDE DEF T
    <2>1. T \in SUBSET Nat
      BY DEF T
    <2> QED  BY <1>1, <1>2, <2>1, NatSet
  <1>4. CASE a \in Nat
    BY <1>3, <1>4
  <1>5. CASE a \notin Nat
    <2>0. -a \in Nat
      BY <1>5
    <2>1. -a \in T
      BY <1>3, <2>0
    <2>2. PICK q \in Int, r \in 0..(N - 1) : -a = N * q + r
      BY <2>1
    <2>3. CASE r = 0
      <3>1. a = N * (-q) + 0 /\ 0 \in 0..(N - 1) /\ -q \in Int
        BY <2>2, <2>3
      <3> QED  BY <3>1
    <2>4. CASE r # 0
      <3>1. N * (-q - 1) = -(N * q) - N
        OBVIOUS
      <3>2. a = N * (-q - 1) + (N - r) /\ N - r \in 0..(N - 1) /\ -q - 1 \in Int
        BY <2>2, <2>4, <3>1
      <3> QED  BY <3>2
    <2> QED  BY <2>3, <2>4
  <1> QED  BY <1>4, <1>5

(* What \div and % are. *)
LEMMA DivMod ==
  ASSUME NEW N \in Nat \ {0}, NEW a \in Int
  PROVE  /\ a \div N \in Int /\ a % N \in 0..(N - 1) /\ a % N \in Nat
         /\ a = N * (a \div N) + (a % N)
  <1>1. PICK q \in Int, r \in 0..(N - 1) : a = N * q + r
    BY DivExists
  <1>2. a \div N = q /\ a % N = r
    BY <1>1, DivUnique
  <1> QED  BY <1>1, <1>2

(* Products keep the order. *)
LEMMA ProductOrder ==
  ASSUME NEW N \in Nat \ {0}, NEW x \in Int, NEW y \in Int, x <= y
  PROVE  N * x <= N * y /\ N * x \in Int /\ N * y \in Int
  <1>1. PICK m \in Nat : y = x + m
    <2>1. y - x \in Nat /\ y = x + (y - x)
      OBVIOUS
    <2> QED  BY <2>1
  <1>2. N * m \in Nat
    OBVIOUS
  <1>3. N * y = N * x + N * m
    BY <1>1
  <1> QED  BY <1>2, <1>3

(* Which multiples are below a number, and which above it. *)
LEMMA DivOrder ==
  ASSUME NEW N \in Nat \ {0}, NEW a \in Int, NEW k \in Int
  PROVE  /\ N * k <= a => k <= a \div N
         /\ a < N * k => a \div N < k
  <1>1. PICK q \in Int, r \in 0..(N - 1) : a = N * q + r /\ a \div N = q
    BY DivMod
  <1>2. ASSUME N * k <= a, k > q PROVE FALSE
    <2>1. N * (q + 1) <= N * k
      BY <1>2, ProductOrder
    <2>2. N * (q + 1) = N * q + N
      OBVIOUS
    <2> QED  BY <1>1, <1>2, <2>1, <2>2
  <1>3. ASSUME a < N * k, k <= q PROVE FALSE
    <2>1. N * k <= N * q
      BY <1>3, ProductOrder
    <2> QED  BY <1>1, <1>3, <2>1
  <1> QED  BY <1>1, <1>2, <1>3


(* How many blocks a file has: none if its size is not positive, otherwise *)
(* as many as its bytes are in.                                            *)
LEMMA NBlocksOf ==
  ASSUME NEW a \in Int
  PROVE  /\ a <= 0 => NBlocks(a) = 0
         /\ a >= 0 => NBlocks(a) = (a + BLKSIZE - 1) \div BLKSIZE
  <1>1. BLKSIZE \in Nat \ {0} /\ BLKSIZE * 0 = 0
    BY FileSysAssumption
  <1>2. a <= 0 => NBlocks(a) = 0
    BY DEF NBlocks
  <1>3. ASSUME a = 0 PROVE (a + BLKSIZE - 1) \div BLKSIZE = 0
    <2>1. BLKSIZE - 1 \in 0..(BLKSIZE - 1) /\ a + BLKSIZE - 1 = BLKSIZE * 0 + (BLKSIZE - 1)
      BY <1>1, <1>3
    <2> QED  BY <1>1, <2>1, DivUnique
  <1>4. a > 0 => NBlocks(a) = (a + BLKSIZE - 1) \div BLKSIZE
    BY DEF NBlocks
  <1> QED  BY <1>2, <1>3, <1>4

LEMMA NBlocksFacts ==
  ASSUME NEW a \in Nat
  PROVE  /\ NBlocks(a) \in Nat
         /\ \A k \in Int : a <= BLKSIZE * k => NBlocks(a) <= k
         /\ \A k \in Int : NBlocks(a) <= k => a <= BLKSIZE * k
  <1>1. BLKSIZE \in Nat \ {0}
    BY FileSysAssumption
  <1>2. PICK x \in Nat : x = a + BLKSIZE - 1 /\ NBlocks(a) = x \div BLKSIZE
    <2>1. a + BLKSIZE - 1 \in Nat
      BY <1>1
    <2>2. NBlocks(a) = (a + BLKSIZE - 1) \div BLKSIZE
      BY NBlocksOf
    <2> QED  BY <2>1, <2>2
  <1>3. NBlocks(a) \in Int
    BY <1>1, <1>2, DivMod
  <1>4. ASSUME NEW k \in Int, a <= BLKSIZE * k PROVE NBlocks(a) <= k
    <2>1. BLKSIZE * (k + 1) = BLKSIZE * k + BLKSIZE /\ BLKSIZE * k \in Int
      BY <1>1
    <2>2. x < BLKSIZE * (k + 1) /\ k + 1 \in Int
      BY <1>1, <1>2, <1>4, <2>1
    <2>3. x \div BLKSIZE < k + 1
      BY <1>1, <2>2, DivOrder
    <2> QED  BY <1>2, <1>3, <2>3
  <1>5. ASSUME NEW k \in Int, NBlocks(a) <= k PROVE a <= BLKSIZE * k
    <2>0. PICK q \in Int, z \in 0..(BLKSIZE - 1) : q = x \div BLKSIZE /\ x = BLKSIZE * q + z
      BY <1>1, DivMod
    <2>1. x = BLKSIZE * q + z /\ q = NBlocks(a)
      BY <1>2, <2>0
    <2>2. BLKSIZE * q <= BLKSIZE * k /\ BLKSIZE * q \in Int /\ BLKSIZE * k \in Int
      BY <1>1, <1>5, <2>1, ProductOrder
    <2>3. a <= BLKSIZE * q
      BY <1>1, <1>2, <2>1, <2>2
    <2> QED  BY <2>2, <2>3
  <1>6. NBlocks(a) >= 0
    <2>1. BLKSIZE * 0 = 0 /\ 0 \in Int /\ BLKSIZE * 0 <= x
      BY <1>1, <1>2
    <2>2. 0 <= x \div BLKSIZE
      BY <1>1, <2>1, DivOrder
    <2> QED  BY <1>2, <2>2
  <1> QED  BY <1>3, <1>4, <1>5, <1>6

LEMMA NBlocksType ==
  ASSUME NEW a \in Int
  PROVE  NBlocks(a) \in Nat
  <1>1. CASE a \in Nat
    BY <1>1, NBlocksFacts
  <1>2. CASE a \notin Nat
    BY <1>2, NBlocksOf
  <1> QED  BY <1>1, <1>2

(* A larger file does not have fewer. *)
LEMMA NBlocksOrder ==
  ASSUME NEW a \in Int, NEW b \in Int, a <= b
  PROVE  NBlocks(a) <= NBlocks(b)
  <1>1. CASE a \in Nat
    <2>1. b \in Nat
      BY <1>1
    <2>2. PICK k \in Nat : k = NBlocks(b)
      BY <2>1, NBlocksFacts
    <2>3. b <= BLKSIZE * k /\ BLKSIZE * k \in Int
      BY <2>1, <2>2, NBlocksFacts, FileSysAssumption
    <2>4. a <= BLKSIZE * k
      BY <2>3
    <2> QED  BY <1>1, <2>2, <2>4, NBlocksFacts
  <1>2. CASE a \notin Nat
    <2>1. NBlocks(a) = 0 /\ NBlocks(b) \in Nat
      BY <1>2, NBlocksOf, NBlocksType
    <2> QED  BY <2>1
  <1> QED  BY <1>1, <1>2

(* What file_truncate_blocks computes is right for a size that is not      *)
(* negative.                                                               *)
LEMMA BlockCountIs ==
  ASSUME NEW a \in 0..MaxSize
  PROVE  BlockCount(a) = NBlocks(a)
  <1>1. /\ BLKSIZE \in Nat \ {0} /\ MaxSize \in Nat /\ WORD \in Nat /\ MaxSize + BLKSIZE < WORD
        /\ BLKSIZE * 0 = 0
    BY FileSysAssumption
  <1>2. PICK x \in Nat : x = a + BLKSIZE - 1 /\ x < WORD
    <2>1. a + BLKSIZE - 1 \in Nat /\ a + BLKSIZE - 1 < WORD
      BY <1>1
    <2> QED  BY <2>1
  <1>3. PICK q \in Int : q = x \div BLKSIZE
    BY <1>1, DivMod
  <1>4. 0 <= q
    BY <1>1, <1>2, <1>3, DivOrder
  <1>5. q < WORD
    <2>1. WORD * 1 <= WORD * BLKSIZE /\ WORD * BLKSIZE \in Int /\ WORD * 1 = WORD
      BY <1>1, <1>2, ProductOrder
    <2>2. x < BLKSIZE * WORD
      BY <1>1, <1>2, <2>1
    <2> QED  BY <1>1, <1>3, <2>2, DivOrder
  <1>6. q % WORD = q
    <2>1. q \in 0..(WORD - 1) /\ q = WORD * 0 + q /\ WORD \in Nat \ {0}
      BY <1>1, <1>4, <1>5
    <2> QED  BY <2>1, DivUnique
  <1>7. NBlocks(a) = q
    BY <1>2, <1>3, NBlocksOf
  <1>8. BlockCount(a) = q % WORD
    BY <1>2, <1>3 DEF BlockCount
  <1> QED  BY <1>6, <1>7, <1>8

(* An unsigned size is the size itself if that is not negative. *)
LEMMA SizeInWord ==
  ASSUME NEW a \in 0..MaxSize
  PROVE  a % WORD = a
  <1>1. a \in 0..(WORD - 1) /\ a = WORD * 0 + a /\ WORD \in Nat \ {0}
    BY FileSysAssumption
  <1> QED  BY <1>1, DivUnique

(* One block more, and none at all. *)
LEMMA NBlocksMore ==
  ASSUME NEW a \in Nat
  PROVE  /\ NBlocks(a + BLKSIZE) = NBlocks(a) + 1 /\ a + BLKSIZE \in Nat
         /\ NBlocks(0) = 0
  <1>1. BLKSIZE \in Nat \ {0} /\ a + BLKSIZE \in Nat
    BY FileSysAssumption
  <1>2. PICK k \in Nat, m \in Nat : k = NBlocks(a) /\ m = NBlocks(a + BLKSIZE)
    BY <1>1, NBlocksFacts
  <1>3. m <= k + 1
    <2>1. a <= BLKSIZE * k /\ BLKSIZE * k \in Int
      BY <1>1, <1>2, NBlocksFacts
    <2>2. BLKSIZE * (k + 1) = BLKSIZE * k + BLKSIZE
      BY <1>1
    <2>3. a + BLKSIZE <= BLKSIZE * (k + 1)
      BY <1>1, <2>1, <2>2
    <2> QED  BY <1>1, <1>2, <2>3, NBlocksFacts
  <1>4. k <= m - 1
    <2>1. a + BLKSIZE <= BLKSIZE * m /\ BLKSIZE * m \in Int
      BY <1>1, <1>2, NBlocksFacts
    <2>2. BLKSIZE * (m - 1) = BLKSIZE * m - BLKSIZE
      BY <1>1
    <2>3. a <= BLKSIZE * (m - 1) /\ m - 1 \in Int
      BY <1>1, <2>1, <2>2
    <2> QED  BY <1>2, <2>3, NBlocksFacts
  <1>5. NBlocks(0) = 0
    <2>1. 0 <= BLKSIZE * 0
      BY <1>1
    <2>2. NBlocks(0) <= 0 /\ NBlocks(0) \in Nat
      BY <2>1, NBlocksFacts
    <2> QED  BY <2>2
  <1> QED  BY <1>1, <1>2, <1>3, <1>4, <1>5

(* The block that a byte of a file is in. *)
LEMMA ByteInFile ==
  ASSUME NEW a \in Nat, NEW i \in Nat, i < a
  PROVE  i \div BLKSIZE \in Nat /\ i \div BLKSIZE < NBlocks(a)
  <1>1. PICK k \in Nat : k = NBlocks(a)
    BY NBlocksFacts
  <1>2. BLKSIZE \in Nat \ {0} /\ BLKSIZE * k \in Int /\ BLKSIZE * 0 = 0
    BY FileSysAssumption
  <1>3. i < BLKSIZE * k
    BY <1>1, <1>2, NBlocksFacts
  <1>4. i \div BLKSIZE < k
    BY <1>2, <1>3, DivOrder
  <1>5. i \div BLKSIZE \in Int /\ 0 <= i \div BLKSIZE
    BY <1>2, DivMod, DivOrder
  <1> QED  BY <1>1, <1>4, <1>5

(* The directory has no more blocks than there are pointers. *)
LEMMA NBlocksBounds ==
  /\ \A a \in Nat : a <= DIRBLOCKS * BLKSIZE =>
       NBlocks(a) <= DIRBLOCKS /\ NBlocks(a) \in 0..(NDIRECT + NINDIRECT) /\ a \in 0..MaxSize
  /\ MaxSize <= NDIRECT * BLKSIZE => \A a \in Sizes : NBlocks(a) <= NDIRECT
  <1>1. /\ BLKSIZE \in Nat \ {0} /\ NDIRECT \in Nat /\ NINDIRECT \in Nat /\ DIRBLOCKS \in Nat
        /\ MaxSize \in Nat /\ DIRBLOCKS * BLKSIZE <= MaxSize /\ DIRBLOCKS <= NDIRECT + NINDIRECT
        /\ BelowZero \in Nat
    BY FileSysAssumption
  <1>2. /\ DIRBLOCKS * BLKSIZE \in Nat /\ NDIRECT * BLKSIZE \in Nat
        /\ DIRBLOCKS * BLKSIZE = BLKSIZE * DIRBLOCKS
        /\ NDIRECT * BLKSIZE = BLKSIZE * NDIRECT
    BY <1>1
  <1>3. ASSUME NEW a \in Nat, a <= DIRBLOCKS * BLKSIZE
        PROVE  NBlocks(a) <= DIRBLOCKS /\ NBlocks(a) \in 0..(NDIRECT + NINDIRECT) /\ a \in 0..MaxSize
    <2>1. a <= BLKSIZE * DIRBLOCKS
      BY <1>2, <1>3
    <2>2. NBlocks(a) <= DIRBLOCKS /\ NBlocks(a) \in Nat
      BY <1>1, <2>1, NBlocksFacts
    <2> QED  BY <1>1, <1>2, <1>3, <2>2
  <1>4. ASSUME MaxSize <= NDIRECT * BLKSIZE, NEW a \in Sizes PROVE NBlocks(a) <= NDIRECT
    <2>1. CASE a \in Nat
      <3>1. a <= BLKSIZE * NDIRECT
        BY <1>1, <1>2, <1>4, <2>1 DEF Sizes
      <3> QED  BY <1>1, <2>1, <3>1, NBlocksFacts
    <2>2. CASE a \notin Nat
      <3>1. a \in Int /\ a <= 0
        BY <1>1, <2>2 DEF Sizes
      <3> QED  BY <1>1, <3>1, NBlocksOf
    <2> QED  BY <2>1, <2>2
  <1> QED  BY <1>3, <1>4

(* Where a struct File is in the directory. *)
LEMMA SlotFacts ==
  ASSUME NEW f \in Nat \ {0}
  PROVE  DirIndex(f) \in Nat /\ Slot(f) \in 0..(BLKFILES - 1) /\ f = BLKFILES * DirIndex(f) + Slot(f) + 1
  <1>1. BLKFILES \in Nat \ {0} /\ f - 1 \in Nat /\ BLKFILES * 0 = 0
    BY FileSysAssumption
  <1>2. PICK q \in Int, z \in 0..(BLKFILES - 1) :
          q = DirIndex(f) /\ z = Slot(f) /\ f - 1 = BLKFILES * q + z
    BY <1>1, DivMod DEF DirIndex, Slot
  <1>3. q >= 0
    BY <1>1, <1>2, DivOrder DEF DirIndex
  <1>4. f = BLKFILES * q + z + 1
    BY <1>1, <1>2
  <1> QED  BY <1>2, <1>3, <1>4

LEMMA SlotsDistinct ==
  ASSUME NEW f \in Nat \ {0}, NEW g \in Nat \ {0}, DirIndex(f) = DirIndex(g), Slot(f) = Slot(g)
  PROVE  f = g
  BY SlotFacts

(* The first place of a block of the directory. *)
LEMMA FirstPlace ==
  ASSUME NEW n \in Nat
  PROVE  /\ n * BLKFILES + 1 \in Nat \ {0}
         /\ DirIndex(n * BLKFILES + 1) = n
         /\ n < DIRBLOCKS => n * BLKFILES + 1 \in Files
  <1>1. BLKFILES \in Nat \ {0} /\ DIRBLOCKS \in Nat /\ n * BLKFILES = BLKFILES * n /\ BLKFILES * n \in Nat
        /\ DIRBLOCKS * BLKFILES = BLKFILES * DIRBLOCKS /\ BLKFILES * DIRBLOCKS \in Nat
    BY FileSysAssumption
  <1>2. (n * BLKFILES + 1) - 1 = BLKFILES * n + 0 /\ 0 \in 0..(BLKFILES - 1)
    BY <1>1
  <1>3. DirIndex(n * BLKFILES + 1) = n
    BY <1>1, <1>2, DivUnique DEF DirIndex
  <1>4. ASSUME n < DIRBLOCKS PROVE n * BLKFILES + 1 \in Files
    <2>1. BLKFILES * (n + 1) <= BLKFILES * DIRBLOCKS
      BY <1>1, <1>4, ProductOrder
    <2>2. BLKFILES * (n + 1) = BLKFILES * n + BLKFILES
      BY <1>1
    <2> QED  BY <1>1, <2>1, <2>2 DEF Files
  <1> QED  BY <1>1, <1>3, <1>4

(* The first of a set of numbers is one of them. *)
LEMMA FirstIsIn ==
  ASSUME NEW S \in SUBSET Nat, S # {}
  PROVE  First(S) \in S
  <1>1. PICK R : R = OpToRel(<, Nat) /\ IsWellFoundedOn(R, Nat)
    BY NatLessThanWellFounded
  <1>2. \A x, y \in Nat : x < y => <<x, y>> \in R
    BY <1>1 DEF OpToRel
  <1>3. PICK x \in S : \A y \in S : <<y, x>> \notin R
    BY <1>1, WFMin
  <1>4. ASSUME NEW y \in S PROVE x <= y
    <2>1. x \in Nat /\ y \in Nat /\ ~(y < x)
      BY <1>2, <1>3
    <2> QED  BY <2>1
  <1> QED  BY <1>4 DEF First
-----------------------------------------------------------------------------
(* What a good store is. *)

(* The files of a store, the directory among them, and the numbers of      *)
(* their pointers; -1 is the pointer to the indirect block.                *)
Owners(s) == {Root} \cup Places(s)

Idx  == 0..(NDIRECT + NINDIRECT - 1)
PIdx == (-1)..(NDIRECT + NINDIRECT - 1)

Num(s, o, n) == IF n = -1 THEN FileAt(s, o).indirect ELSE BlockOf(s, o, n)

(* No client asks for a negative size: then no file has one. *)
NoNegativeSizes == BelowZero = 0

NotFree(s)  == \A o \in Owners(s), n \in PIdx : Num(s, o, n) \notin s.free
Unshared(s) == \A o, q \in Owners(s), n, m \in PIdx :
                 Num(s, o, n) = Num(s, q, m) => Num(s, o, n) = 0 \/ (o = q /\ n = m)
Own(s)      == \A o \in Owners(s), n \in PIdx :
                 n # -1 /\ Num(s, o, n) # 0 => s.blk[Num(s, o, n)].data \subseteq {o}

(* No block is past the size of its file.  For the directory, whose size   *)
(* no client sets, this is always so.                                      *)
Regular(o) == o = Root \/ NoNegativeSizes
Short(s)   == \A o \in Owners(s), n \in PIdx :
                Regular(o) /\ n >= NBlocks(FileAt(s, o).size) => Num(s, o, n) = 0

Sized(s) == s \in Store /\ s.root.size \in Nat /\ s.root.size <= DIRBLOCKS * BLKSIZE

Good(s) == Sized(s) /\ NotFree(s) /\ Unshared(s) /\ Short(s) /\ Own(s)

(* No block is lost. *)
Exact(s) == NoNegativeSizes =>
  \A b \in Blocks \ s.free : \E o \in Owners(s), n \in PIdx : Num(s, o, n) = b

(* A request in progress. *)
Req == [s : Store, w : Seq(Write), failed : BOOLEAN]

-----------------------------------------------------------------------------
(* Types. *)

LEMMA ConstFacts ==
  /\ NDIRECT \in Nat /\ NINDIRECT \in Nat /\ NB \in Nat /\ BLKSIZE \in Nat \ {0}
  /\ BLKFILES \in Nat \ {0} /\ DIRBLOCKS \in Nat /\ NDIRECT + NINDIRECT \in Nat
  /\ Root \notin Files /\ Files \subseteq Nat \ {0} /\ Blocks \subseteq Nat \ {0}
  /\ 0 \notin Blocks /\ Idx \subseteq PIdx /\ PIdx = Idx \cup {-1} /\ -1 \notin Idx
  /\ MaxSize \in Nat /\ DIRBLOCKS * BLKSIZE \in Nat /\ DIRBLOCKS * BLKSIZE <= MaxSize
  /\ 0..MaxSize \subseteq Sizes /\ Sizes \subseteq Int /\ MaxBlocks = NDIRECT + NINDIRECT
  /\ NoNegativeSizes => Sizes = 0..MaxSize
  <1>1. /\ NDIRECT \in Nat /\ NINDIRECT \in Nat /\ NB \in Nat /\ BLKSIZE \in Nat \ {0}
        /\ BLKFILES \in Nat \ {0} /\ DIRBLOCKS \in Nat /\ NDIRECT + NINDIRECT \in Nat
        /\ MaxSize \in Nat /\ DIRBLOCKS * BLKSIZE <= MaxSize /\ BelowZero \in Nat
    BY FileSysAssumption
  <1>2. DIRBLOCKS * BLKSIZE \in Nat /\ DIRBLOCKS * BLKFILES \in Nat
    BY <1>1
  <1>3. Root \notin Files /\ Files \subseteq Nat \ {0} /\ Blocks \subseteq Nat \ {0} /\ 0 \notin Blocks
    BY <1>1, <1>2 DEF Root, Files, Blocks
  <1>4. Idx \subseteq PIdx /\ PIdx = Idx \cup {-1} /\ -1 \notin Idx
    BY <1>1 DEF Idx, PIdx
  <1>5. 0..MaxSize \subseteq Sizes /\ Sizes \subseteq Int /\ (NoNegativeSizes => Sizes = 0..MaxSize)
    BY <1>1 DEF Sizes, NoNegativeSizes
  <1>6. MaxBlocks = NDIRECT + NINDIRECT
    BY DEF MaxBlocks
  <1> QED  BY <1>1, <1>2, <1>3, <1>4, <1>5, <1>6

LEMMA NewFileType == NewFile \in File /\ Zeroed \in Block
  <1>1. NewFile \in File
    <2>1. 0 \in Sizes
      BY ConstFacts
    <2> QED  BY <2>1, ConstFacts DEF NewFile, File
  <1> QED  BY <1>1, ConstFacts DEF Zeroed, Block

LEMMA StoreType ==
  ASSUME NEW s \in Store
  PROVE  /\ s.root \in File /\ s.blk \in [Blocks -> Block] /\ s.free \subseteq Blocks
         /\ \A b \in Blocks : /\ s.blk[b] \in Block
                              /\ s.blk[b].ptr \in [0..(NINDIRECT - 1) -> 0..NB]
                              /\ s.blk[b].file \in [0..(BLKFILES - 1) -> File]
                              /\ s.blk[b].data \subseteq Files
  BY DEF Store, Block

LEMMA FileType ==
  ASSUME NEW fl \in File
  PROVE  /\ fl.name \in Names \cup {NoName} /\ fl.size \in Sizes /\ fl.size \in Int
         /\ fl.direct \in [0..(NDIRECT - 1) -> 0..NB] /\ fl.indirect \in 0..NB
         /\ NBlocks(fl.size) \in Nat
         /\ NoNegativeSizes => fl.size \in 0..MaxSize
  <1>1. fl.size \in Sizes /\ fl.size \in Int
    BY ConstFacts DEF File
  <1>2. NBlocks(fl.size) \in Nat
    BY <1>1, NBlocksType
  <1> QED  BY <1>1, <1>2, ConstFacts DEF File

LEMMA PtrType ==
  ASSUME NEW s \in Store, NEW fl \in File, NEW n \in Idx
  PROVE  PtrOf(s, fl, n) \in 0..NB
  <1>1. CASE n < NDIRECT
    <2>1. n \in 0..(NDIRECT - 1)
      BY <1>1, ConstFacts DEF Idx
    <2> QED  BY <1>1, <2>1, FileType DEF PtrOf
  <1>2. CASE n >= NDIRECT /\ fl.indirect # 0
    <2>1. n - NDIRECT \in 0..(NINDIRECT - 1) /\ ~(n < NDIRECT)
      BY <1>2, ConstFacts DEF Idx
    <2>2. fl.indirect \in Blocks
      BY <1>2, FileType, ConstFacts DEF Blocks
    <2> QED  BY <1>2, <2>1, <2>2, StoreType DEF PtrOf
  <1>3. CASE n >= NDIRECT /\ fl.indirect = 0
    BY <1>3, ConstFacts DEF PtrOf, Idx
  <1> QED  BY <1>1, <1>2, <1>3, ConstFacts DEF Idx

(* The directory has its pointers, and each place in it is in a block. *)
LEMMA PlaceFacts ==
  ASSUME NEW s, Sized(s), NEW f \in Places(s)
  PROVE  /\ f \in Files /\ f \in Nat \ {0} /\ f # Root
         /\ DirIndex(f) \in Idx /\ DirIndex(f) < NBlocks(s.root.size) /\ Slot(f) \in 0..(BLKFILES - 1)
         /\ DirBlock(s, f) \in Blocks /\ DirBlock(s, f) = Num(s, Root, DirIndex(f))
         /\ FileAt(s, f) = s.blk[DirBlock(s, f)].file[Slot(f)] /\ FileAt(s, f) \in File
  <1>1. s \in Store /\ s.root \in File
    BY StoreType DEF Sized
  <1>2. f \in Files /\ f \in Nat \ {0} /\ f # Root
    BY ConstFacts DEF Places
  <1>3. DirIndex(f) \in Nat /\ Slot(f) \in 0..(BLKFILES - 1)
    BY <1>2, SlotFacts
  <1>4. DirIndex(f) < NBlocks(s.root.size) /\ DirBlock(s, f) # 0
    BY DEF Places
  <1>5. NBlocks(s.root.size) \in 0..(NDIRECT + NINDIRECT)
    BY NBlocksBounds DEF Sized
  <1>6. DirIndex(f) \in Idx
    BY <1>3, <1>4, <1>5, ConstFacts DEF Idx
  <1>7. DirBlock(s, f) \in Blocks
    BY <1>1, <1>4, <1>6, PtrType, ConstFacts DEF DirBlock, Blocks
  <1>8. DirBlock(s, f) = Num(s, Root, DirIndex(f))
    BY <1>6, ConstFacts DEF DirBlock, Num, BlockOf, FileAt
  <1>9. FileAt(s, f) = s.blk[DirBlock(s, f)].file[Slot(f)]
    BY <1>2 DEF FileAt
  <1>10. FileAt(s, f) \in File
    <2>1. s.blk[DirBlock(s, f)].file \in [0..(BLKFILES - 1) -> File]
      BY <1>1, <1>7, StoreType
    <2> QED  BY <1>3, <1>9, <2>1
  <1> QED  BY <1>2, <1>3, <1>4, <1>6, <1>7, <1>8, <1>9, <1>10

LEMMA OwnerFacts ==
  ASSUME NEW s, Sized(s), NEW o \in Owners(s)
  PROVE  /\ FileAt(s, o) \in File
         /\ \A n \in Idx : Num(s, o, n) = PtrOf(s, FileAt(s, o), n) /\ BlockOf(s, o, n) = Num(s, o, n)
         /\ Num(s, o, -1) = FileAt(s, o).indirect
         /\ \A n \in PIdx : Num(s, o, n) \in 0..NB /\ (Num(s, o, n) # 0 <=> Num(s, o, n) \in Blocks)
  <1>1. FileAt(s, o) \in File
    <2>1. CASE o = Root
      BY <2>1, StoreType DEF FileAt, Sized
    <2>2. CASE o # Root
      BY <2>2, PlaceFacts DEF Owners
    <2> QED  BY <2>1, <2>2
  <1>2. \A n \in Idx : Num(s, o, n) = PtrOf(s, FileAt(s, o), n) /\ BlockOf(s, o, n) = Num(s, o, n)
    BY ConstFacts DEF Num, BlockOf
  <1>3. Num(s, o, -1) = FileAt(s, o).indirect
    BY DEF Num
  <1>4. \A n \in PIdx : Num(s, o, n) \in 0..NB
    BY <1>1, <1>2, <1>3, PtrType, FileType, ConstFacts DEF Sized
  <1>5. \A n \in PIdx : Num(s, o, n) # 0 <=> Num(s, o, n) \in Blocks
    BY <1>4, ConstFacts DEF Blocks
  <1> QED  BY <1>1, <1>2, <1>3, <1>4, <1>5
-----------------------------------------------------------------------------
(* The pointers of module FileSys are those of the owners. *)

PtrName(o, n) == IF n = -1 THEN <<o, "indirect", 0>>
                 ELSE IF n < NDIRECT THEN <<o, "direct", n>> ELSE <<o, "entry", n>>

LEMMA PointerNames ==
  ASSUME NEW s
  PROVE  /\ \A p \in Pointers(s) : \E o \in Owners(s), n \in PIdx : p = PtrName(o, n)
         /\ \A o \in Owners(s), n \in PIdx :
              /\ PtrName(o, n) \in Pointers(s) /\ At(s, PtrName(o, n)) = Num(s, o, n)
              /\ PtrName(o, n)[1] = o /\ (PtrName(o, n)[2] = "indirect" <=> n = -1)
              /\ n # -1 => PtrName(o, n)[3] = n
  <1> DEFINE ptrs(f) == {<<f, "direct", n>> : n \in 0..(NDIRECT - 1)}
                          \cup {<<f, "indirect", 0>>}
                          \cup {<<f, "entry", n>> : n \in NDIRECT..(NDIRECT + NINDIRECT - 1)}
  <1>0. Pointers(s) = UNION {ptrs(f) : f \in Owners(s)}
    BY DEF Pointers, Owners
  <1>1. ASSUME NEW p \in Pointers(s) PROVE \E o \in Owners(s), n \in PIdx : p = PtrName(o, n)
    <2>1. PICK o \in Owners(s) : p \in ptrs(o)
      BY <1>0
    <2>2. CASE \E n \in 0..(NDIRECT - 1) : p = <<o, "direct", n>>
      <3>1. PICK n \in 0..(NDIRECT - 1) : p = <<o, "direct", n>>
        BY <2>2
      <3>2. n \in PIdx /\ n # -1 /\ n < NDIRECT
        BY ConstFacts DEF PIdx
      <3> QED  BY <3>1, <3>2 DEF PtrName
    <2>3. CASE p = <<o, "indirect", 0>>
      <3>1. -1 \in PIdx
        BY ConstFacts
      <3> QED  BY <2>3, <3>1 DEF PtrName
    <2>4. CASE \E n \in NDIRECT..(NDIRECT + NINDIRECT - 1) : p = <<o, "entry", n>>
      <3>1. PICK n \in NDIRECT..(NDIRECT + NINDIRECT - 1) : p = <<o, "entry", n>>
        BY <2>4
      <3>2. n \in PIdx /\ n # -1 /\ ~(n < NDIRECT)
        BY ConstFacts DEF PIdx
      <3> QED  BY <3>1, <3>2 DEF PtrName
    <2> QED  BY <2>1, <2>2, <2>3, <2>4
  <1>2. ASSUME NEW o \in Owners(s), NEW n \in PIdx
        PROVE  /\ PtrName(o, n) \in Pointers(s) /\ At(s, PtrName(o, n)) = Num(s, o, n)
               /\ PtrName(o, n)[1] = o /\ (PtrName(o, n)[2] = "indirect" <=> n = -1)
               /\ n # -1 => PtrName(o, n)[3] = n
    <2>1. CASE n = -1
      <3>1. PtrName(o, n) = <<o, "indirect", 0>>
        BY <2>1 DEF PtrName
      <3>2. PtrName(o, n) \in ptrs(o)
        BY <3>1
      <3> HIDE DEF ptrs
      <3>3. PtrName(o, n) \in Pointers(s)
        BY <1>0, <3>2
      <3> QED  BY <2>1, <3>1, <3>3 DEF At, Num
    <2>2. CASE n # -1 /\ n < NDIRECT
      <3>1. PtrName(o, n) = <<o, "direct", n>> /\ n \in 0..(NDIRECT - 1)
        BY <2>2, ConstFacts DEF PtrName, PIdx
      <3>2. PtrName(o, n) \in ptrs(o)
        BY <3>1
      <3> HIDE DEF ptrs
      <3>3. PtrName(o, n) \in Pointers(s)
        BY <1>0, <3>2
      <3> QED  BY <2>2, <3>1, <3>3 DEF At, Num
    <2>3. CASE n # -1 /\ ~(n < NDIRECT)
      <3>1. PtrName(o, n) = <<o, "entry", n>> /\ n \in NDIRECT..(NDIRECT + NINDIRECT - 1)
        BY <2>3, ConstFacts DEF PtrName, PIdx
      <3>2. PtrName(o, n) \in ptrs(o)
        BY <3>1
      <3> HIDE DEF ptrs
      <3>3. PtrName(o, n) \in Pointers(s)
        BY <1>0, <3>2
      <3> QED  BY <2>3, <3>1, <3>3 DEF At, Num
    <2> QED  BY <2>1, <2>2, <2>3
  <1> QED  BY <1>1, <1>2

(* What a good store means for them. *)
LEMMA GoodMeans ==
  ASSUME NEW s, Good(s)
  PROVE  /\ NoSharing(s, Pointers(s))
         /\ NoNegativeSizes => \A p \in Pointers(s) \ Live(s) : At(s, p) = 0
         /\ \A p \in Pointers(s) : p[2] # "indirect" /\ At(s, p) # 0
                                     => s.blk[At(s, p)].data \subseteq {p[1]}
  <1>1. ASSUME NEW p \in Pointers(s), At(s, p) # 0 PROVE At(s, p) \notin s.free
    <2>1. PICK o \in Owners(s), n \in PIdx : p = PtrName(o, n)
      BY PointerNames
    <2>2. At(s, p) = Num(s, o, n)
      BY <2>1, PointerNames
    <2> QED  BY <2>2 DEF Good, NotFree
  <1>2. ASSUME NEW p \in Pointers(s), NEW q \in Pointers(s), At(s, p) # 0, At(s, q) = At(s, p)
        PROVE  q = p
    <2>1. PICK o \in Owners(s), n \in PIdx : p = PtrName(o, n)
      BY PointerNames
    <2>2. PICK x \in Owners(s), m \in PIdx : q = PtrName(x, m)
      BY PointerNames
    <2>3. At(s, p) = Num(s, o, n) /\ At(s, q) = Num(s, x, m)
      BY <2>1, <2>2, PointerNames
    <2>4. Num(s, o, n) = Num(s, x, m) /\ Num(s, o, n) # 0
      BY <1>2, <2>3
    <2>5. o = x /\ n = m
      BY <2>4 DEF Good, Unshared
    <2> QED  BY <2>1, <2>2, <2>5
  <1>3. ASSUME NoNegativeSizes, NEW p \in Pointers(s), p \notin Live(s) PROVE At(s, p) = 0
    <2>1. PICK o \in Owners(s), n \in PIdx : p = PtrName(o, n)
      BY PointerNames
    <2>2. At(s, p) = Num(s, o, n) /\ p[1] = o /\ (p[2] = "indirect" <=> n = -1)
      BY <2>1, PointerNames
    <2>6. ASSUME n # -1 PROVE p[3] = n
      <3>1. PtrName(o, n)[3] = n
        BY <2>6, PointerNames, Zenon
      <3> QED  BY <2>1, <3>1
    <2>3. n # -1 /\ ~(n < NBlocks(FileAt(s, o).size))
      BY <1>3, <2>2, <2>6 DEF Live
    <2>4. NBlocks(FileAt(s, o).size) \in Nat /\ n \in Int
      BY OwnerFacts, FileType, ConstFacts DEF Good, PIdx
    <2>5. n >= NBlocks(FileAt(s, o).size)
      BY <2>3, <2>4
    <2> QED  BY <1>3, <2>2, <2>5 DEF Good, Short, Regular
  <1>4. ASSUME NEW p \in Pointers(s), p[2] # "indirect", At(s, p) # 0
        PROVE  s.blk[At(s, p)].data \subseteq {p[1]}
    <2>1. PICK o \in Owners(s), n \in PIdx : p = PtrName(o, n)
      BY PointerNames
    <2>2. At(s, p) = Num(s, o, n) /\ p[1] = o /\ (p[2] = "indirect" <=> n = -1)
      BY <2>1, PointerNames
    <2> QED  BY <1>4, <2>2 DEF Good, Own
  <1> QED  BY <1>1, <1>2, <1>3, <1>4 DEF NoSharing

LEMMA ExactMeans ==
  ASSUME NEW s, Exact(s), NoNegativeSizes
  PROVE  \A b \in Blocks \ s.free : \E p \in Pointers(s) : At(s, p) = b
  <1> SUFFICES ASSUME NEW b \in Blocks \ s.free PROVE \E p \in Pointers(s) : At(s, p) = b
    OBVIOUS
  <1>1. PICK o \in Owners(s), n \in PIdx : Num(s, o, n) = b
    BY DEF Exact
  <1> QED  BY <1>1, PointerNames
-----------------------------------------------------------------------------
(* Changing a store. *)

(* Pointers are in the pointer part of blocks only. *)
SamePtrs(s, s1) == \A b \in Blocks : s1.blk[b].ptr = s.blk[b].ptr

LEMMA SamePtr ==
  ASSUME NEW s, NEW s1, SamePtrs(s, s1)
  PROVE  \A fl \in File : \A n : PtrOf(s1, fl, n) = PtrOf(s, fl, n)
  <1> SUFFICES ASSUME NEW fl \in File, NEW n PROVE PtrOf(s1, fl, n) = PtrOf(s, fl, n)
    OBVIOUS
  <1>1. fl.indirect # 0 => fl.indirect \in Blocks
    BY FileType, ConstFacts DEF Blocks
  <1> QED  BY <1>1 DEF PtrOf, SamePtrs

(* So the directory stays as it is with its struct File. *)
SameDir(s, s1) == Places(s1) = Places(s) /\ \A f : DirBlock(s1, f) = DirBlock(s, f)

LEMMA SameDirectory ==
  ASSUME NEW s \in Store, NEW s1, s1.root = s.root, SamePtrs(s, s1)
  PROVE  SameDir(s, s1)
  <1>1. s.root \in File
    BY StoreType
  <1>2. \A f : DirBlock(s1, f) = DirBlock(s, f)
    BY <1>1, SamePtr DEF DirBlock
  <1> QED  BY <1>2 DEF Places, SameDir

(* SetFile of a file in the directory changes nothing but that struct File. *)
FileChanged(s, s1, f, fl) ==
  /\ Sized(s1) /\ s1.root = s.root /\ s1.free = s.free
  /\ SamePtrs(s, s1) /\ SameDir(s, s1)
  /\ \A b \in Blocks : /\ s1.blk[b].data = s.blk[b].data
                       /\ b # DirBlock(s, f) => s1.blk[b] = s.blk[b]
  /\ s1.blk[DirBlock(s, f)].file = [s.blk[DirBlock(s, f)].file EXCEPT ![Slot(f)] = fl]

LEMMA SetFileParts ==
  ASSUME NEW r \in Req, Sized(r.s), NEW f \in Places(r.s), NEW fl \in File, NEW r1, r1 = SetFile(r, f, fl)
  PROVE  /\ r1 \in Req /\ r1.w = r.w /\ r1.failed = r.failed
         /\ FileChanged(r.s, r1.s, f, fl)
  <1>1. r.s \in Store /\ r.w \in Seq(Write) /\ r.failed \in BOOLEAN
    BY DEF Req
  <1>2. PICK D \in Blocks, k \in 0..(BLKFILES - 1) : D = DirBlock(r.s, f) /\ k = Slot(f) /\ f # Root
    BY PlaceFacts
  <1>3. PICK x : x = [r.s.blk[D] EXCEPT !.file = [r.s.blk[D].file EXCEPT ![k] = fl]]
    OBVIOUS
  <1>4. r.s.blk[D] \in Block /\ r.s.blk[D].file \in [0..(BLKFILES - 1) -> File] /\ r.s.blk \in [Blocks -> Block]
    BY <1>1, StoreType
  <1>5. /\ x \in Block /\ x.ptr = r.s.blk[D].ptr /\ x.data = r.s.blk[D].data
        /\ x.file = [r.s.blk[D].file EXCEPT ![k] = fl]
    BY <1>3, <1>4 DEF Block
  <1>6. r1 = [r EXCEPT !.s = [r.s EXCEPT !.blk = [r.s.blk EXCEPT ![D] = x]]]
    BY <1>2, <1>3 DEF SetFile
  <1>7. PICK s1 : s1 = [r.s EXCEPT !.blk = [r.s.blk EXCEPT ![D] = x]]
    OBVIOUS
  <1>8. s1 \in Store /\ s1.root = r.s.root /\ s1.free = r.s.free /\ s1.blk = [r.s.blk EXCEPT ![D] = x]
    BY <1>1, <1>4, <1>5, <1>7 DEF Store
  <1>9. r1 \in Req /\ r1.s = s1 /\ r1.w = r.w /\ r1.failed = r.failed
    BY <1>1, <1>6, <1>7, <1>8 DEF Req
  <1>10. \A b \in Blocks : /\ s1.blk[b].data = r.s.blk[b].data
                           /\ b # D => s1.blk[b] = r.s.blk[b]
    BY <1>4, <1>5, <1>8
  <1>11. s1.blk[D].file = [r.s.blk[D].file EXCEPT ![k] = fl]
    BY <1>4, <1>5, <1>8
  <1>12. SamePtrs(r.s, s1)
    BY <1>4, <1>5, <1>8 DEF SamePtrs
  <1>13. SameDir(r.s, s1)
    BY <1>1, <1>8, <1>12, SameDirectory
  <1>14. Sized(s1)
    BY <1>8 DEF Sized
  <1> QED  BY <1>2, <1>8, <1>9, <1>10, <1>11, <1>12, <1>13, <1>14 DEF FileChanged

(* Two files have their struct Files in different places. *)
LEMMA EntriesApart ==
  ASSUME NEW s, Sized(s), Unshared(s), NEW f \in Places(s), NEW g \in Places(s), f # g
  PROVE  DirBlock(s, f) # DirBlock(s, g) \/ Slot(f) # Slot(g)
  <1> SUFFICES ASSUME DirBlock(s, f) = DirBlock(s, g), Slot(f) = Slot(g) PROVE FALSE
    OBVIOUS
  <1>1. Num(s, Root, DirIndex(f)) = Num(s, Root, DirIndex(g)) /\ Num(s, Root, DirIndex(f)) # 0
        /\ DirIndex(f) \in PIdx /\ DirIndex(g) \in PIdx
    BY PlaceFacts, ConstFacts
  <1>2. DirIndex(f) = DirIndex(g)
    BY <1>1 DEF Unshared, Owners
  <1> QED  BY <1>2, SlotsDistinct, PlaceFacts

(* Directory blocks are apart from indirect blocks. *)
LEMMA DirBlocksApart ==
  ASSUME NEW s, Sized(s), Unshared(s), NEW f \in Places(s), NEW o \in Owners(s), NEW n \in PIdx,
         Num(s, o, n) = DirBlock(s, f)
  PROVE  o = Root /\ n = DirIndex(f)
  <1>1. Num(s, Root, DirIndex(f)) = Num(s, o, n) /\ Num(s, o, n) # 0 /\ DirIndex(f) \in PIdx /\ Root \in Owners(s)
    BY PlaceFacts, ConstFacts DEF Owners
  <1> QED  BY <1>1 DEF Unshared

LEMMA FileChangedEffect ==
  ASSUME NEW s, Sized(s), Unshared(s), NEW f \in Places(s), NEW fl \in File,
         NEW s1, FileChanged(s, s1, f, fl)
  PROVE  /\ FileAt(s1, f) = fl
         /\ \A o \in Owners(s) : o # f => FileAt(s1, o) = FileAt(s, o)
         /\ \A o \in Owners(s), n \in PIdx : o # f => Num(s1, o, n) = Num(s, o, n)
         /\ Num(s1, f, -1) = fl.indirect
         /\ \A n \in Idx : Num(s1, f, n) = PtrOf(s, fl, n)
         /\ Owners(s1) = Owners(s)
  <1>2. /\ s1.root = s.root
        /\ \A b \in Blocks : b # DirBlock(s, f) => s1.blk[b] = s.blk[b]
        /\ s1.blk[DirBlock(s, f)].file = [s.blk[DirBlock(s, f)].file EXCEPT ![Slot(f)] = fl]
        /\ Places(s1) = Places(s) /\ \A g : DirBlock(s1, g) = DirBlock(s, g)
    BY DEF FileChanged, SameDir
  <1>3. /\ DirBlock(s, f) \in Blocks /\ Slot(f) \in 0..(BLKFILES - 1) /\ f # Root
        /\ s.blk[DirBlock(s, f)].file \in [0..(BLKFILES - 1) -> File]
    BY PlaceFacts, StoreType DEF Sized
  <1>4. FileAt(s1, f) = fl
    BY <1>2, <1>3 DEF FileAt
  <1>5. ASSUME NEW o \in Owners(s), o # f PROVE FileAt(s1, o) = FileAt(s, o)
    <2>1. CASE o = Root
      BY <1>2, <2>1 DEF FileAt
    <2>2. CASE o # Root
      <3>1. o \in Places(s) /\ DirBlock(s, o) \in Blocks /\ Slot(o) \in 0..(BLKFILES - 1)
        BY <2>2, PlaceFacts DEF Owners
      <3>2. FileAt(s1, o) = s1.blk[DirBlock(s, o)].file[Slot(o)]
            /\ FileAt(s, o) = s.blk[DirBlock(s, o)].file[Slot(o)]
        BY <1>2, <2>2 DEF FileAt
      <3>3. CASE DirBlock(s, o) # DirBlock(s, f)
        BY <1>2, <3>1, <3>2, <3>3
      <3>4. CASE DirBlock(s, o) = DirBlock(s, f)
        <4>1. Slot(o) # Slot(f)
          BY <1>5, <3>1, <3>4, EntriesApart
        <4> QED  BY <1>2, <1>3, <3>1, <3>2, <3>4, <4>1
      <3> QED  BY <3>3, <3>4
    <2> QED  BY <2>1, <2>2
  <1>6. \A x \in File : \A n : PtrOf(s1, x, n) = PtrOf(s, x, n)
    BY SamePtr DEF FileChanged
  <1>7. Owners(s1) = Owners(s) /\ f \in Owners(s)
    BY <1>2 DEF Owners
  <1>8. ASSUME NEW o \in Owners(s), NEW n \in PIdx, o # f PROVE Num(s1, o, n) = Num(s, o, n)
    <2>1. FileAt(s1, o) = FileAt(s, o) /\ FileAt(s, o) \in File
      BY <1>5, <1>8, OwnerFacts
    <2> QED  BY <1>6, <2>1 DEF Num, BlockOf
  <1>9. Num(s1, f, -1) = fl.indirect /\ \A n \in Idx : Num(s1, f, n) = PtrOf(s, fl, n)
    BY <1>4, <1>6, ConstFacts DEF Num, BlockOf
  <1> QED  BY <1>4, <1>5, <1>7, <1>8, <1>9

-----------------------------------------------------------------------------
(* What an operation does to the pointers, and why the store stays good.   *)

LEMMA BareHasNone ==
  ASSUME NEW s, NEW o, NEW fl, FileAt(s, o) = fl, fl.indirect = 0,
         \A n \in 0..(NDIRECT - 1) : fl.direct[n] = 0
  PROVE  \A n \in PIdx : Num(s, o, n) = 0
  <1> SUFFICES ASSUME NEW n \in PIdx PROVE Num(s, o, n) = 0
    OBVIOUS
  <1>1. n < NDIRECT /\ n # -1 => n \in 0..(NDIRECT - 1)
    BY ConstFacts DEF PIdx
  <1> QED  BY <1>1 DEF Num, BlockOf, PtrOf

LEMMA NewFileHasNone ==
  ASSUME NEW s, NEW o, FileAt(s, o) = NewFile
  PROVE  \A n \in PIdx : Num(s, o, n) = 0
  <1>1. NewFile.indirect = 0 /\ \A n \in 0..(NDIRECT - 1) : NewFile.direct[n] = 0
    BY DEF NewFile
  <1> QED  BY <1>1, BareHasNone

(* Block b, which was free, is now at pointer n of f.  If it is a block of *)
(* the directory it brings new places.                                     *)
Attach(s, s1, f, n, b) ==
  /\ Sized(s1) /\ b \in s.free /\ s1.free = s.free \ {b}
  /\ Places(s) \subseteq Places(s1)
  /\ \A g \in Places(s1) \ Places(s) : FileAt(s1, g) = NewFile
  /\ \A o \in Owners(s) : /\ FileAt(s1, o).size = FileAt(s, o).size
                          /\ FileAt(s1, o).name = FileAt(s, o).name
  /\ \A o \in Owners(s), m \in PIdx : Num(s1, o, m) = IF o = f /\ m = n THEN b ELSE Num(s, o, m)
  /\ s1.blk[b].data = {} /\ \A c \in Blocks : c # b => s1.blk[c].data = s.blk[c].data

LEMMA AttachGood ==
  ASSUME NEW s, Good(s), NEW s1, NEW f \in Owners(s), NEW n \in PIdx, NEW b, Attach(s, s1, f, n, b),
         Regular(f) => n < NBlocks(FileAt(s, f).size), Num(s, f, n) = 0
  PROVE  Good(s1) /\ (Exact(s) => Exact(s1))
  <1>1. /\ Sized(s1) /\ b \in s.free /\ s1.free = s.free \ {b}
        /\ Owners(s) \subseteq Owners(s1)
        /\ \A g \in Owners(s1) \ Owners(s) : FileAt(s1, g) = NewFile
        /\ \A o \in Owners(s) : FileAt(s1, o).size = FileAt(s, o).size
        /\ \A o \in Owners(s), m \in PIdx : Num(s1, o, m) = IF o = f /\ m = n THEN b ELSE Num(s, o, m)
        /\ s1.blk[b].data = {} /\ \A c \in Blocks : c # b => s1.blk[c].data = s.blk[c].data
    BY DEF Attach, Owners
  <1>2. b \in Blocks /\ b # 0 /\ s.free \subseteq Blocks /\ 0 \notin s.free
    BY <1>1, StoreType, ConstFacts DEF Good, Sized
  <1>3. \A g \in Owners(s1), m \in PIdx : g \notin Owners(s) => Num(s1, g, m) = 0
    BY <1>1, NewFileHasNone
  <1>4. \A o \in Owners(s), m \in PIdx : Num(s, o, m) # b
    BY <1>1 DEF Good, NotFree
  <1>5. NotFree(s1)
    BY <1>1, <1>2, <1>3 DEF Good, NotFree
  <1>6. Unshared(s1)
    <2> SUFFICES ASSUME NEW o \in Owners(s1), NEW q \in Owners(s1), NEW k \in PIdx, NEW m \in PIdx,
                        Num(s1, o, k) = Num(s1, q, m), Num(s1, o, k) # 0
                 PROVE  o = q /\ k = m
      BY DEF Unshared
    <2>1. o \in Owners(s) /\ q \in Owners(s)
      BY <1>3
    <2>2. CASE o = f /\ k = n
      BY <1>1, <1>4, <2>1, <2>2
    <2>3. CASE ~(o = f /\ k = n)
      <3>1. Num(s1, o, k) = Num(s, o, k) /\ ~(q = f /\ m = n)
        BY <1>1, <1>4, <2>1, <2>3
      <3>2. Num(s1, q, m) = Num(s, q, m)
        BY <1>1, <2>1, <3>1
      <3>3. Num(s, o, k) = Num(s, q, m) /\ Num(s, o, k) # 0
        BY <3>1, <3>2
      <3> QED  BY <2>1, <3>3 DEF Good, Unshared
    <2> QED  BY <2>2, <2>3
  <1>7. Short(s1)
    <2> SUFFICES ASSUME NEW o \in Owners(s1), NEW m \in PIdx, Regular(o), m >= NBlocks(FileAt(s1, o).size),
                        o \in Owners(s)
                 PROVE  Num(s1, o, m) = 0
      BY <1>3 DEF Short
    <2>1. m >= NBlocks(FileAt(s, o).size) /\ Num(s, o, m) = 0
      BY <1>1 DEF Good, Short
    <2>2. NBlocks(FileAt(s, o).size) \in Nat /\ m \in Int /\ n \in Int
      BY OwnerFacts, FileType, ConstFacts DEF Good, PIdx
    <2>3. ~(o = f /\ m = n)
      BY <2>1, <2>2
    <2> QED  BY <1>1, <2>1, <2>3
  <1>8. Own(s1)
    <2> SUFFICES ASSUME NEW o \in Owners(s1), NEW m \in PIdx, m # -1, Num(s1, o, m) # 0, o \in Owners(s)
                 PROVE  s1.blk[Num(s1, o, m)].data \subseteq {o}
      BY <1>3 DEF Own
    <2>1. CASE o = f /\ m = n
      BY <1>1, <2>1
    <2>2. CASE ~(o = f /\ m = n)
      <3>1. Num(s1, o, m) = Num(s, o, m) /\ Num(s, o, m) \in Blocks /\ Num(s, o, m) # b
        BY <1>1, <1>4, <2>2, OwnerFacts DEF Good
      <3> QED  BY <1>1, <3>1 DEF Good, Own
    <2> QED  BY <2>1, <2>2
  <1>9. ASSUME Exact(s) PROVE Exact(s1)
    <2> SUFFICES ASSUME NoNegativeSizes, NEW c \in Blocks \ s1.free
                 PROVE  \E o \in Owners(s1), m \in PIdx : Num(s1, o, m) = c
      BY DEF Exact
    <2>1. CASE c = b
      BY <1>1, <2>1
    <2>2. CASE c # b
      <3>1. PICK o \in Owners(s), m \in PIdx : Num(s, o, m) = c
        BY <1>1, <1>9, <2>2 DEF Exact
      <3>2. ~(o = f /\ m = n)
        BY <3>1, ConstFacts
      <3> QED  BY <1>1, <3>1, <3>2
    <2> QED  BY <2>1, <2>2
  <1> QED  BY <1>1, <1>5, <1>6, <1>7, <1>8, <1>9 DEF Good

(* The pointers of f with numbers in G are cleared, the blocks of those    *)
(* with numbers in H freed.  The others are none, unless the file had a    *)
(* negative size.                                                          *)
Detach(s, s1, f, G, H) ==
  /\ Sized(s1) /\ s1.free = s.free \cup ({Num(s, f, m) : m \in H} \ {0})
  /\ H \subseteq G /\ (NoNegativeSizes => \A m \in G \ H : Num(s, f, m) = 0)
  /\ SameDir(s, s1)
  /\ \A o \in Owners(s) : FileAt(s1, o).size = FileAt(s, o).size
  /\ \A o \in Owners(s), m \in PIdx : Num(s1, o, m) = IF o = f /\ m \in G THEN 0 ELSE Num(s, o, m)
  /\ \A c \in Blocks : s1.blk[c].data = s.blk[c].data

LEMMA DetachGood ==
  ASSUME NEW s, Good(s), NEW s1, NEW f \in Owners(s), NEW G \in SUBSET PIdx, NEW H, Detach(s, s1, f, G, H)
  PROVE  Good(s1) /\ (Exact(s) => Exact(s1))
  <1>1. /\ Sized(s1) /\ s1.free = s.free \cup ({Num(s, f, m) : m \in H} \ {0})
        /\ H \subseteq G /\ (NoNegativeSizes => \A m \in G \ H : Num(s, f, m) = 0)
        /\ Owners(s1) = Owners(s)
        /\ \A o \in Owners(s) : FileAt(s1, o).size = FileAt(s, o).size
        /\ \A o \in Owners(s), m \in PIdx : Num(s1, o, m) = IF o = f /\ m \in G THEN 0 ELSE Num(s, o, m)
        /\ \A c \in Blocks : s1.blk[c].data = s.blk[c].data
    BY DEF Detach, Owners, SameDir
  <1>2. s1.free \subseteq Blocks /\ 0 \notin s1.free
    BY <1>1, StoreType, ConstFacts DEF Sized
  <1>3. ASSUME NEW o \in Owners(s), NEW m \in PIdx, Num(s1, o, m) # 0
        PROVE  Num(s1, o, m) = Num(s, o, m) /\ ~(o = f /\ m \in G) /\ Num(s1, o, m) \in Blocks
    BY <1>1, <1>3, OwnerFacts DEF Good
  <1>4. NotFree(s1)
    <2> SUFFICES ASSUME NEW o \in Owners(s), NEW m \in PIdx, Num(s1, o, m) \in s1.free PROVE FALSE
      BY <1>1 DEF NotFree
    <2>1. Num(s1, o, m) = Num(s, o, m) /\ ~(o = f /\ m \in G) /\ Num(s, o, m) # 0
      BY <1>2, <1>3
    <2>2. Num(s, o, m) \notin s.free
      BY DEF Good, NotFree
    <2>3. PICK k \in H : Num(s, f, k) = Num(s, o, m)
      BY <1>1, <2>1, <2>2
    <2> QED  BY <1>1, <2>1, <2>3 DEF Good, Unshared
  <1>5. Unshared(s1)
    <2> SUFFICES ASSUME NEW o \in Owners(s), NEW q \in Owners(s), NEW k \in PIdx, NEW m \in PIdx,
                        Num(s1, o, k) = Num(s1, q, m), Num(s1, o, k) # 0
                 PROVE  o = q /\ k = m
      BY <1>1 DEF Unshared
    <2> QED  BY <1>3 DEF Good, Unshared
  <1>6. Short(s1)
    BY <1>1 DEF Good, Short
  <1>7. Own(s1)
    BY <1>1, <1>3 DEF Good, Own
  <1>8. ASSUME Exact(s) PROVE Exact(s1)
    <2> SUFFICES ASSUME NoNegativeSizes, NEW c \in Blocks \ s1.free
                 PROVE  \E o \in Owners(s1), m \in PIdx : Num(s1, o, m) = c
      BY DEF Exact
    <2>1. PICK o \in Owners(s), m \in PIdx : Num(s, o, m) = c
      BY <1>1, <1>8 DEF Exact
    <2>2. ASSUME o = f, m \in G PROVE FALSE
      <3>1. c # 0 /\ Num(s, f, m) = c
        BY <2>1, <2>2, ConstFacts
      <3>2. m \in H
        BY <1>1, <2>2, <3>1
      <3> QED  BY <1>1, <3>1, <3>2
    <2> QED  BY <1>1, <2>1, <2>2
  <1> QED  BY <1>1, <1>4, <1>5, <1>6, <1>7, <1>8 DEF Good

(* Name or size of f change, the data of its blocks only by its own. *)
Relabel(s, s1, f) ==
  /\ Sized(s1) /\ s1.free = s.free
  /\ SameDir(s, s1)
  /\ \A o \in Owners(s) : o # f => FileAt(s1, o) = FileAt(s, o)
  /\ \A o \in Owners(s), m \in PIdx : Num(s1, o, m) = Num(s, o, m)
  /\ \A c \in Blocks : \/ s1.blk[c].data = s.blk[c].data
                       \/ /\ s1.blk[c].data = s.blk[c].data \cup {f}
                          /\ \E m \in PIdx : m # -1 /\ Num(s, f, m) = c

LEMMA RelabelGood ==
  ASSUME NEW s, Good(s), NEW s1, NEW f \in Owners(s), Relabel(s, s1, f),
         \A n \in PIdx : Regular(f) /\ n >= NBlocks(FileAt(s1, f).size) => Num(s, f, n) = 0
  PROVE  Good(s1) /\ (Exact(s) => Exact(s1))
  <1>1. /\ Sized(s1) /\ s1.free = s.free
        /\ Owners(s1) = Owners(s)
        /\ \A o \in Owners(s) : o # f => FileAt(s1, o) = FileAt(s, o)
        /\ \A o \in Owners(s), m \in PIdx : Num(s1, o, m) = Num(s, o, m)
    BY DEF Relabel, Owners, SameDir
  <1>2. NotFree(s1) /\ Unshared(s1)
    BY <1>1 DEF Good, NotFree, Unshared
  <1>3. Short(s1)
    BY <1>1 DEF Good, Short
  <1>4. Own(s1)
    <2> SUFFICES ASSUME NEW o \in Owners(s), NEW m \in PIdx, m # -1, Num(s, o, m) # 0
                 PROVE  s1.blk[Num(s, o, m)].data \subseteq {o}
      BY <1>1 DEF Own
    <2>1. s.blk[Num(s, o, m)].data \subseteq {o} /\ Num(s, o, m) \in Blocks
      BY OwnerFacts DEF Good, Own
    <2>2. CASE s1.blk[Num(s, o, m)].data = s.blk[Num(s, o, m)].data
      BY <2>1, <2>2
    <2>3. CASE /\ s1.blk[Num(s, o, m)].data = s.blk[Num(s, o, m)].data \cup {f}
               /\ \E k \in PIdx : k # -1 /\ Num(s, f, k) = Num(s, o, m)
      <3>1. o = f
        BY <2>3 DEF Good, Unshared
      <3> QED  BY <2>1, <2>3, <3>1
    <2> QED  BY <2>1, <2>2, <2>3 DEF Relabel
  <1>5. Exact(s) => Exact(s1)
    BY <1>1 DEF Exact
  <1> QED  BY <1>1, <1>2, <1>3, <1>4, <1>5 DEF Good
-----------------------------------------------------------------------------
(* Allocating a block. *)

Alloced(s, s1, b) ==
  /\ Sized(s1) /\ s1.root = s.root /\ s1.free = s.free \ {b} /\ s1.blk = [s.blk EXCEPT ![b] = Zeroed]

LEMMA WriteTypes ==
  /\ \A fl \in File : <<"super", fl>> \in Write
  /\ \A S \in SUBSET Blocks : <<"bitmap", S>> \in Write
  /\ \A b \in Blocks, x \in Block : <<"blk", b, x>> \in Write
  BY DEF Write

LEMMA FlushTypes ==
  ASSUME NEW r \in Req, NEW x \in Write, NEW r1, r1 = [r EXCEPT !.w = Append(@, x)]
  PROVE  r1 \in Req /\ r1.s = r.s /\ r1.failed = r.failed /\ r1.w = Append(r.w, x)
  <1>1. r.w \in Seq(Write)
    BY DEF Req
  <1>2. Append(r.w, x) \in Seq(Write)
    BY <1>1
  <1>3. PICK w : w = Append(r.w, x)
    OBVIOUS
  <1>4. r1 = [r EXCEPT !.w = w]
    BY <1>3
  <1>5. r1 \in Req /\ r1.s = r.s /\ r1.failed = r.failed /\ r1.w = w
    BY <1>2, <1>3, <1>4 DEF Req
  <1> QED  BY <1>3, <1>5

LEMMA AllocParts ==
  ASSUME NEW r \in Req, Sized(r.s), NEW b \in r.s.free, NEW r1, r1 = alloc_block(r, b)
  PROVE  /\ r1 \in Req /\ r1.failed = r.failed /\ Alloced(r.s, r1.s, b)
         /\ r1.w = Append(Append(r.w, <<"bitmap", r.s.free \ {b}>>), <<"blk", b, Zeroed>>)
  <1>1. r.s \in Store /\ r.s.free \subseteq Blocks /\ b \in Blocks /\ r.s.blk \in [Blocks -> Block]
    BY StoreType DEF Req
  <1>2. PICK sa : sa = [r.s EXCEPT !.free = r.s.free \ {b}]
    OBVIOUS
  <1>3. PICK sb : sb = [sa EXCEPT !.blk = [sa.blk EXCEPT ![b] = Zeroed]]
    OBVIOUS
  <1>4. sa \in Store /\ sa.free = r.s.free \ {b} /\ sa.blk = r.s.blk /\ sa.root = r.s.root
    BY <1>1, <1>2 DEF Store
  <1>5. sb \in Store /\ sb.free = r.s.free \ {b} /\ sb.blk = [r.s.blk EXCEPT ![b] = Zeroed] /\ sb.root = r.s.root
    BY <1>1, <1>3, <1>4, NewFileType DEF Store
  <1>6. PICK ra : ra = [r EXCEPT !.s = sa]
    OBVIOUS
  <1>7. ra \in Req /\ ra.s = sa /\ ra.w = r.w /\ ra.failed = r.failed
    BY <1>4, <1>6 DEF Req
  <1>8. PICK rb : rb = FlushBitmap(ra)
    OBVIOUS
  <1>9. <<"bitmap", sa.free>> \in Write
    BY <1>1, <1>4, WriteTypes
  <1>10. rb \in Req /\ rb.s = sa /\ rb.failed = r.failed /\ rb.w = Append(r.w, <<"bitmap", sa.free>>)
    <2>1. rb = [ra EXCEPT !.w = Append(@, <<"bitmap", sa.free>>)]
      BY <1>7, <1>8 DEF FlushBitmap
    <2>2. rb \in Req /\ rb.s = ra.s /\ rb.failed = ra.failed /\ rb.w = Append(ra.w, <<"bitmap", sa.free>>)
      BY <1>7, <1>9, <2>1, FlushTypes
    <2> QED  BY <1>7, <2>2
  <1>11. PICK rc : rc = [rb EXCEPT !.s = sb]
    OBVIOUS
  <1>12. rc \in Req /\ rc.s = sb /\ rc.failed = r.failed /\ rc.w = rb.w
    BY <1>5, <1>10, <1>11 DEF Req
  <1>13. r1 = FlushBlock(rc, b)
    <2>1. ra = [r EXCEPT !.s.free = @ \ {b}]
      BY <1>2, <1>6
    <2>2. rc = [rb EXCEPT !.s.blk[b] = Zeroed]
      BY <1>3, <1>10, <1>11
    <2> QED  BY <1>8, <2>1, <2>2 DEF alloc_block
  <1>14. sb.blk[b] = Zeroed /\ <<"blk", b, Zeroed>> \in Write
    BY <1>1, <1>5, WriteTypes, NewFileType
  <1>15. r1 = [rc EXCEPT !.w = Append(@, <<"blk", b, Zeroed>>)]
    BY <1>12, <1>13, <1>14 DEF FlushBlock
  <1>16. r1 \in Req /\ r1.s = rc.s /\ r1.failed = rc.failed /\ r1.w = Append(rc.w, <<"blk", b, Zeroed>>)
    BY <1>12, <1>14, <1>15, FlushTypes
  <1>17. Alloced(r.s, sb, b)
    BY <1>5 DEF Alloced, Sized
  <1>18. r1.s = sb /\ r1.failed = r.failed
    BY <1>12, <1>16
  <1>19. r1.w = Append(Append(r.w, <<"bitmap", r.s.free \ {b}>>), <<"blk", b, Zeroed>>)
    BY <1>4, <1>10, <1>12, <1>16
  <1> QED  BY <1>16, <1>17, <1>18, <1>19

(* A free block is none that a file or the directory uses. *)
SameFiles(s, s1, b) ==
  /\ SameDir(s, s1) /\ Owners(s1) = Owners(s) /\ Unshared(s1) /\ Sized(s1)
  /\ \A o \in Owners(s) : FileAt(s1, o) = FileAt(s, o)
  /\ \A o \in Owners(s), n \in PIdx : Num(s1, o, n) = Num(s, o, n)
  /\ b \in Blocks /\ s1.blk[b] = Zeroed /\ \A c \in Blocks : c # b => s1.blk[c] = s.blk[c]

LEMMA AllocedEffect ==
  ASSUME NEW s, Good(s), NEW b \in s.free, NEW s1, Alloced(s, s1, b)
  PROVE  SameFiles(s, s1, b)
  <1>1. /\ s1.root = s.root /\ s1.blk = [s.blk EXCEPT ![b] = Zeroed] /\ s \in Store
        /\ s.blk \in [Blocks -> Block] /\ b \in Blocks
    BY StoreType DEF Alloced, Good, Sized
  <1>2. s1.blk[b] = Zeroed /\ \A c \in Blocks : c # b => s1.blk[c] = s.blk[c]
    BY <1>1
  <1>3. \A o \in Owners(s), n \in PIdx : Num(s, o, n) # b
    BY DEF Good, NotFree
  <1>4. ASSUME NEW o \in Owners(s), NEW n PROVE PtrOf(s1, FileAt(s, o), n) = PtrOf(s, FileAt(s, o), n)
    <2>1. FileAt(s, o).indirect # b
      BY <1>3, OwnerFacts, ConstFacts DEF Good
    <2>2. FileAt(s, o).indirect # 0 => FileAt(s, o).indirect \in Blocks
      BY OwnerFacts, FileType, ConstFacts DEF Good, Blocks
    <2> QED  BY <1>2, <2>1, <2>2 DEF PtrOf
  <1>5. SameDir(s, s1)
    <2>1. Root \in Owners(s) /\ FileAt(s, Root) = s.root
      BY DEF Owners, FileAt
    <2>2. \A f : DirBlock(s1, f) = DirBlock(s, f)
      BY <1>1, <1>4, <2>1 DEF DirBlock
    <2> QED  BY <1>1, <2>2 DEF SameDir, Places
  <1>6. Owners(s1) = Owners(s)
    BY <1>5 DEF Owners, SameDir
  <1>7. ASSUME NEW o \in Owners(s) PROVE FileAt(s1, o) = FileAt(s, o)
    <2>1. CASE o = Root
      BY <1>1, <2>1 DEF FileAt
    <2>2. CASE o # Root
      <3>1. o \in Places(s) /\ DirBlock(s, o) \in Blocks /\ DirIndex(o) \in PIdx
            /\ DirBlock(s, o) = Num(s, Root, DirIndex(o))
        BY <2>2, PlaceFacts, ConstFacts DEF Owners, Good
      <3>2. DirBlock(s, o) # b /\ DirBlock(s1, o) = DirBlock(s, o)
        BY <1>3, <1>5, <3>1 DEF Owners, SameDir
      <3> QED  BY <1>2, <2>2, <3>1, <3>2 DEF FileAt
    <2> QED  BY <2>1, <2>2
  <1>8. ASSUME NEW o \in Owners(s), NEW n \in PIdx PROVE Num(s1, o, n) = Num(s, o, n)
    BY <1>4, <1>7 DEF Num, BlockOf
  <1>9. Unshared(s1)
    BY <1>6, <1>8 DEF Good, Unshared
  <1> QED  BY <1>1, <1>2, <1>5, <1>6, <1>7, <1>8, <1>9 DEF SameFiles, Alloced

(* A block that the directory is given brings the places in it. *)
Receives(s, s1, o, f, n, b) ==
  \A m \in PIdx : Num(s1, o, m) = IF o = f /\ m = n THEN b ELSE Num(s, o, m)

LEMMA PlacesGrow ==
  ASSUME NEW s, Sized(s), NEW s1, Sized(s1), s1.root.size = s.root.size, NEW f, NEW n, NEW b \in Blocks,
         Receives(s, s1, Root, f, n, b), Root = f => Num(s, Root, n) = 0
  PROVE  /\ Places(s) \subseteq Places(s1)
         /\ \A g \in Places(s) : DirBlock(s1, g) = DirBlock(s, g)
         /\ \A g \in Places(s1) \ Places(s) : Root = f /\ DirBlock(s1, g) = b
  <1>1. \A g \in Idx : PtrOf(s, s.root, g) = Num(s, Root, g) /\ PtrOf(s1, s1.root, g) = Num(s1, Root, g)
    BY ConstFacts DEF Num, BlockOf, FileAt
  <1>2. ASSUME NEW g \in Places(s) PROVE g \in Places(s1) /\ DirBlock(s1, g) = DirBlock(s, g)
    <2>1. /\ g \in Files /\ DirIndex(g) \in Idx /\ DirIndex(g) < NBlocks(s.root.size) /\ DirBlock(s, g) # 0
          /\ DirBlock(s, g) = Num(s, Root, DirIndex(g))
      BY PlaceFacts, ConstFacts
    <2>2. DirBlock(s1, g) = Num(s1, Root, DirIndex(g))
      BY <1>1, <2>1 DEF DirBlock
    <2>3. DirBlock(s1, g) = DirBlock(s, g)
      BY <2>1, <2>2, ConstFacts DEF Receives
    <2> QED  BY <2>1, <2>3 DEF Places
  <1>3. ASSUME NEW g \in Places(s1), g \notin Places(s) PROVE Root = f /\ DirBlock(s1, g) = b
    <2>1. /\ g \in Files /\ DirIndex(g) \in Idx /\ DirIndex(g) < NBlocks(s1.root.size) /\ DirBlock(s1, g) # 0
          /\ DirBlock(s1, g) = Num(s1, Root, DirIndex(g))
      BY PlaceFacts, ConstFacts
    <2>2. DirBlock(s, g) = Num(s, Root, DirIndex(g))
      BY <1>1, <2>1 DEF DirBlock
    <2>3. Num(s, Root, DirIndex(g)) = 0
      BY <1>3, <2>1, <2>2 DEF Places
    <2> QED  BY <2>1, <2>3, ConstFacts DEF Receives
  <1> QED  BY <1>2, <1>3
(* The new block goes into a struct File in the directory ... *)
LEMMA AttachFile ==
  ASSUME NEW s, Good(s), NEW b \in s.free, NEW sa, Alloced(s, sa, b), NEW f \in Places(s), NEW n \in PIdx,
         NEW fl \in File, fl.size = FileAt(s, f).size, fl.name = FileAt(s, f).name,
         fl.indirect = IF n = -1 THEN b ELSE FileAt(s, f).indirect,
         \A m \in Idx : PtrOf(sa, fl, m) = IF m = n THEN b ELSE Num(s, f, m),
         NEW s1, FileChanged(sa, s1, f, fl)
  PROVE  Attach(s, s1, f, n, b)
  <1>1. /\ SameDir(s, sa) /\ Owners(sa) = Owners(s) /\ Unshared(sa) /\ Sized(sa)
        /\ \A o \in Owners(s) : FileAt(sa, o) = FileAt(s, o)
        /\ \A o \in Owners(s), m \in PIdx : Num(sa, o, m) = Num(s, o, m)
        /\ b \in Blocks /\ sa.blk[b] = Zeroed /\ \A c \in Blocks : c # b => sa.blk[c] = s.blk[c]
    <2>1. SameFiles(s, sa, b)
      BY AllocedEffect
    <2> QED  BY <2>1 DEF SameFiles
  <1>2. f \in Places(sa) /\ f \in Owners(s)
    BY <1>1 DEF SameDir, Owners
  <1>3. /\ FileAt(s1, f) = fl
        /\ \A o \in Owners(sa) : o # f => FileAt(s1, o) = FileAt(sa, o)
        /\ \A o \in Owners(sa), m \in PIdx : o # f => Num(s1, o, m) = Num(sa, o, m)
        /\ Num(s1, f, -1) = fl.indirect
        /\ \A m \in Idx : Num(s1, f, m) = PtrOf(sa, fl, m)
    BY <1>1, <1>2, FileChangedEffect
  <1>4. Places(s1) = Places(s)
    BY <1>1 DEF FileChanged, SameDir
  <1>5. \A o \in Owners(s) : FileAt(s1, o).size = FileAt(s, o).size /\ FileAt(s1, o).name = FileAt(s, o).name
    BY <1>1, <1>3
  <1>6. ASSUME NEW o \in Owners(s), NEW m \in PIdx
        PROVE  Num(s1, o, m) = IF o = f /\ m = n THEN b ELSE Num(s, o, m)
    <2>1. CASE o # f
      BY <1>1, <1>3, <2>1
    <2>2. CASE o = f /\ m = -1
      <3>1. Num(s, f, -1) = FileAt(s, f).indirect
        BY DEF Num
      <3> QED  BY <1>3, <2>2, <3>1
    <2>3. CASE o = f /\ m \in Idx
      BY <1>3, <2>3
    <2> QED  BY <2>1, <2>2, <2>3, ConstFacts
  <1>7. s1.blk[b].data = {} /\ \A c \in Blocks : c # b => s1.blk[c].data = s.blk[c].data
    BY <1>1 DEF FileChanged, Zeroed
  <1>8. Sized(s1) /\ s1.free = s.free \ {b}
    BY DEF FileChanged, Alloced
  <1> QED  BY <1>4, <1>5, <1>6, <1>7, <1>8 DEF Attach

(* ... or into that of the directory ... *)
RootChanged(s, s1, fl) == s1 \in Store /\ s1.root = fl /\ s1.blk = s.blk /\ s1.free = s.free

LEMMA AttachRoot ==
  ASSUME NEW s, Good(s), NEW b \in s.free, NEW sa, Alloced(s, sa, b), NEW n \in PIdx, Num(s, Root, n) = 0,
         NEW fl \in File, fl.size = s.root.size, fl.name = s.root.name,
         fl.indirect = IF n = -1 THEN b ELSE s.root.indirect,
         \A m \in Idx : PtrOf(sa, fl, m) = IF m = n THEN b ELSE Num(s, Root, m),
         NEW s1, RootChanged(sa, s1, fl)
  PROVE  Attach(s, s1, Root, n, b)
  <1>0. s1 \in Store /\ s1.root = fl /\ s1.blk = sa.blk /\ s1.free = sa.free
    BY DEF RootChanged
  <1> USE <1>0
  <1>1. /\ SameDir(s, sa) /\ Owners(sa) = Owners(s) /\ Unshared(sa) /\ Sized(sa)
        /\ \A o \in Owners(s) : FileAt(sa, o) = FileAt(s, o)
        /\ \A o \in Owners(s), m \in PIdx : Num(sa, o, m) = Num(s, o, m)
        /\ b \in Blocks /\ sa.blk[b] = Zeroed /\ \A c \in Blocks : c # b => sa.blk[c] = s.blk[c]
    <2>1. SameFiles(s, sa, b)
      BY AllocedEffect
    <2> QED  BY <2>1 DEF SameFiles
  <1>2. Sized(s1) /\ Sized(s) /\ s1.root.size = s.root.size
    BY DEF Good, Sized
  <1>3. FileAt(s1, Root) = fl /\ FileAt(s, Root) = s.root /\ Root \in Owners(s)
    BY DEF FileAt, Owners
  <1>4. \A x, m : PtrOf(s1, x, m) = PtrOf(sa, x, m)
    BY DEF PtrOf
  <1>5. ASSUME NEW m \in PIdx PROVE Num(s1, Root, m) = IF m = n THEN b ELSE Num(s, Root, m)
    <2>1. CASE m = -1
      BY <1>3, <2>1 DEF Num
    <2>2. CASE m \in Idx
      <3>1. Num(s1, Root, m) = PtrOf(sa, fl, m)
        BY <1>3, <1>4, <2>2, ConstFacts DEF Num, BlockOf
      <3> QED  BY <2>2, <3>1
    <2> QED  BY <2>1, <2>2, ConstFacts
  <1>6. /\ Places(s) \subseteq Places(s1)
        /\ \A g \in Places(s) : DirBlock(s1, g) = DirBlock(s, g)
        /\ \A g \in Places(s1) \ Places(s) : DirBlock(s1, g) = b
    <2>1. Receives(s, s1, Root, Root, n, b)
      BY <1>5 DEF Receives
    <2> QED  BY <1>1, <1>2, <2>1, PlacesGrow
  <1>7. ASSUME NEW g \in Places(s) PROVE FileAt(s1, g) = FileAt(s, g)
    <2>1. g # Root /\ DirBlock(s1, g) = DirBlock(sa, g) /\ g \in Owners(s)
      BY <1>1, <1>2, <1>6, PlaceFacts DEF SameDir, Owners
    <2>2. FileAt(s1, g) = FileAt(sa, g)
      BY <2>1 DEF FileAt
    <2> QED  BY <1>1, <2>1, <2>2
  <1>8. ASSUME NEW g \in Places(s1), g \notin Places(s) PROVE FileAt(s1, g) = NewFile
    <2>1. g # Root /\ Slot(g) \in 0..(BLKFILES - 1) /\ DirBlock(s1, g) = b
      BY <1>2, <1>6, <1>8, PlaceFacts
    <2>2. Zeroed.file[Slot(g)] = NewFile
      BY <2>1 DEF Zeroed
    <2> QED  BY <1>1, <2>1, <2>2 DEF FileAt
  <1>9. ASSUME NEW o \in Owners(s), NEW m \in PIdx
        PROVE  Num(s1, o, m) = IF o = Root /\ m = n THEN b ELSE Num(s, o, m)
    <2>1. CASE o = Root
      BY <1>5, <2>1
    <2>2. CASE o # Root
      <3>1. o \in Places(s) /\ FileAt(s1, o) = FileAt(sa, o)
        BY <1>1, <1>7, <2>2 DEF Owners
      <3>2. Num(s1, o, m) = Num(sa, o, m)
        BY <1>4, <3>1 DEF Num, BlockOf
      <3> QED  BY <1>1, <2>2, <3>2
    <2> QED  BY <2>1, <2>2
  <1>10. \A o \in Owners(s) : FileAt(s1, o).size = FileAt(s, o).size /\ FileAt(s1, o).name = FileAt(s, o).name
    BY <1>3, <1>7 DEF Owners
  <1>11. s1.blk[b].data = {} /\ \A c \in Blocks : c # b => s1.blk[c].data = s.blk[c].data
    BY <1>1 DEF Zeroed
  <1>12. s1.free = s.free \ {b}
    BY DEF Alloced
  <1> QED  BY <1>2, <1>6, <1>8, <1>9, <1>10, <1>11, <1>12 DEF Attach

(* ... or into an indirect block. *)
EntryChanged(s, s1, i, k, b) ==
  /\ s1 \in Store /\ s1.root = s.root /\ s1.free = s.free
  /\ \A c \in Blocks : /\ s1.blk[c].file = s.blk[c].file /\ s1.blk[c].data = s.blk[c].data
                       /\ c # i => s1.blk[c].ptr = s.blk[c].ptr
  /\ s1.blk[i].ptr = [s.blk[i].ptr EXCEPT ![k] = b]

LEMMA AttachEntry ==
  ASSUME NEW s, Good(s), NEW b \in s.free, NEW sa, Alloced(s, sa, b), NEW f \in Owners(s), NEW n \in Idx,
         n >= NDIRECT, Num(s, f, n) = 0, NEW i, i = FileAt(s, f).indirect, i # 0,
         NEW s1, EntryChanged(sa, s1, i, n - NDIRECT, b)
  PROVE  Attach(s, s1, f, n, b)
  <1>0. /\ s1 \in Store /\ s1.root = sa.root /\ s1.free = sa.free
        /\ \A c \in Blocks : /\ s1.blk[c].file = sa.blk[c].file /\ s1.blk[c].data = sa.blk[c].data
                             /\ c # i => s1.blk[c].ptr = sa.blk[c].ptr
        /\ s1.blk[i].ptr = [sa.blk[i].ptr EXCEPT ![n - NDIRECT] = b]
    BY DEF EntryChanged
  <1> USE <1>0
  <1>1. /\ SameDir(s, sa) /\ Owners(sa) = Owners(s) /\ Unshared(sa) /\ Sized(sa)
        /\ \A o \in Owners(s) : FileAt(sa, o) = FileAt(s, o)
        /\ \A o \in Owners(s), m \in PIdx : Num(sa, o, m) = Num(s, o, m)
        /\ b \in Blocks /\ sa.blk[b] = Zeroed /\ \A c \in Blocks : c # b => sa.blk[c] = s.blk[c]
    <2>1. SameFiles(s, sa, b)
      BY AllocedEffect
    <2> QED  BY <2>1 DEF SameFiles
  <1>2. Sized(s1) /\ Sized(s) /\ s1.root = s.root
    BY DEF Good, Sized, Alloced
  <1>3. i \in Blocks /\ sa.blk[i].ptr \in [0..(NINDIRECT - 1) -> 0..NB] /\ n - NDIRECT \in 0..(NINDIRECT - 1)
        /\ NDIRECT \in Nat /\ n \in Int
    <2>1. i \in Blocks
      BY <1>2, OwnerFacts, FileType, ConstFacts DEF Blocks
    <2>2. n - NDIRECT \in 0..(NINDIRECT - 1) /\ NDIRECT \in Nat /\ n \in Int
      BY ConstFacts DEF Idx
    <2> QED  BY <1>1, <2>1, <2>2, StoreType DEF Sized
  <1>4. ASSUME NEW o \in Owners(s), NEW m \in Idx
        PROVE  PtrOf(s1, FileAt(s, o), m) = IF o = f /\ m = n THEN b ELSE Num(s, o, m)
    <2>1. Num(s, o, m) = PtrOf(sa, FileAt(s, o), m)
      BY <1>1, ConstFacts DEF Num, BlockOf
    <2>2. m \in Int
      BY ConstFacts DEF Idx
    <2>3. CASE m < NDIRECT
      BY <1>3, <2>1, <2>2, <2>3 DEF PtrOf
    <2>4. CASE m >= NDIRECT /\ FileAt(s, o).indirect = 0
      BY <1>3, <2>1, <2>2, <2>4 DEF PtrOf
    <2>5. CASE m >= NDIRECT /\ FileAt(s, o).indirect # 0 /\ FileAt(s, o).indirect # i
      <3>1. FileAt(s, o).indirect \in Blocks /\ o # f /\ ~(m < NDIRECT)
        BY <1>2, <1>3, <2>2, <2>5, OwnerFacts, FileType, ConstFacts DEF Blocks
      <3> QED  BY <2>1, <2>5, <3>1 DEF PtrOf
    <2>6. CASE m >= NDIRECT /\ FileAt(s, o).indirect = i
      <3>1. Num(s, o, -1) = i /\ Num(s, f, -1) = i /\ -1 \in PIdx
        BY <2>6, ConstFacts DEF Num
      <3>2. o = f
        BY <3>1 DEF Good, Unshared
      <3>3. m - NDIRECT \in 0..(NINDIRECT - 1) /\ ~(m < NDIRECT) /\ (m - NDIRECT = n - NDIRECT <=> m = n)
        <4>1. NDIRECT \in Nat /\ NINDIRECT \in Nat /\ n \in Int /\ m \in 0..(NDIRECT + NINDIRECT - 1)
          BY <1>3, ConstFacts DEF Idx
        <4> QED  BY <2>2, <2>6, <4>1
      <3>4. PtrOf(s1, FileAt(s, o), m) = s1.blk[i].ptr[m - NDIRECT]
            /\ PtrOf(sa, FileAt(s, o), m) = sa.blk[i].ptr[m - NDIRECT]
        BY <2>6, <3>3 DEF PtrOf
      <3>5. s1.blk[i].ptr[m - NDIRECT] = IF m = n THEN b ELSE sa.blk[i].ptr[m - NDIRECT]
        BY <1>3, <3>3
      <3> QED  BY <2>1, <3>2, <3>4, <3>5
    <2> QED  BY <1>3, <2>2, <2>3, <2>4, <2>5, <2>6
  <1>5. FileAt(s1, Root) = FileAt(s, Root) /\ Root \in Owners(s)
    BY <1>2 DEF FileAt, Owners
  <1>6. ASSUME NEW m \in PIdx PROVE Num(s1, Root, m) = IF Root = f /\ m = n THEN b ELSE Num(s, Root, m)
    <2>1. CASE m = -1
      BY <1>5, <2>1, ConstFacts DEF Num
    <2>2. CASE m \in Idx
      <3>1. Num(s1, Root, m) = PtrOf(s1, FileAt(s, Root), m)
        BY <1>5, <2>2, ConstFacts DEF Num, BlockOf
      <3> QED  BY <1>4, <1>5, <2>2, <3>1
    <2> QED  BY <2>1, <2>2, ConstFacts
  <1>7. /\ Places(s) \subseteq Places(s1)
        /\ \A g \in Places(s) : DirBlock(s1, g) = DirBlock(s, g)
        /\ \A g \in Places(s1) \ Places(s) : DirBlock(s1, g) = b
    <2>1. s1.root.size = s.root.size /\ (Root = f => Num(s, Root, n) = 0) /\ b \in Blocks
      BY <1>1, <1>2
    <2>2. Receives(s, s1, Root, f, n, b)
      BY <1>6 DEF Receives
    <2> QED  BY <1>2, <2>1, <2>2, PlacesGrow
  <1>8. ASSUME NEW g \in Places(s) PROVE FileAt(s1, g) = FileAt(s, g)
    <2>1. g # Root /\ DirBlock(s1, g) = DirBlock(sa, g) /\ DirBlock(sa, g) \in Blocks /\ g \in Owners(s)
      BY <1>1, <1>2, <1>7, PlaceFacts DEF SameDir, Owners
    <2>2. FileAt(s1, g) = FileAt(sa, g)
      BY <2>1 DEF FileAt
    <2> QED  BY <1>1, <2>1, <2>2
  <1>9. ASSUME NEW g \in Places(s1), g \notin Places(s) PROVE FileAt(s1, g) = NewFile
    <2>1. g # Root /\ Slot(g) \in 0..(BLKFILES - 1) /\ DirBlock(s1, g) = b
      BY <1>2, <1>7, <1>9, PlaceFacts
    <2>2. Zeroed.file[Slot(g)] = NewFile
      BY <2>1 DEF Zeroed
    <2> QED  BY <1>1, <2>1, <2>2 DEF FileAt
  <1>10. ASSUME NEW o \in Owners(s), NEW m \in PIdx
         PROVE  Num(s1, o, m) = IF o = f /\ m = n THEN b ELSE Num(s, o, m)
    <2>1. FileAt(s1, o) = FileAt(s, o)
      BY <1>5, <1>8 DEF Owners
    <2>2. CASE m = -1
      BY <2>1, <2>2, ConstFacts DEF Num
    <2>3. CASE m \in Idx
      BY <1>4, <2>1, <2>3, ConstFacts DEF Num, BlockOf
    <2> QED  BY <2>2, <2>3, ConstFacts
  <1>11. \A o \in Owners(s) : FileAt(s1, o).size = FileAt(s, o).size /\ FileAt(s1, o).name = FileAt(s, o).name
    BY <1>5, <1>8 DEF Owners
  <1>12. s1.blk[b].data = {} /\ \A c \in Blocks : c # b => s1.blk[c].data = s.blk[c].data
    BY <1>1 DEF Zeroed
  <1>13. s1.free = s.free \ {b}
    BY DEF Alloced
  <1> QED  BY <1>2, <1>7, <1>9, <1>10, <1>11, <1>12, <1>13 DEF Attach
-----------------------------------------------------------------------------
(* file_get_block. *)

LEMMA SetRootParts ==
  ASSUME NEW r \in Req, NEW fl \in File, NEW r1, r1 = SetFile(r, Root, fl)
  PROVE  r1 \in Req /\ r1.w = r.w /\ r1.failed = r.failed /\ RootChanged(r.s, r1.s, fl)
  <1>1. r.s \in Store
    BY DEF Req
  <1>2. PICK s1 : s1 = [r.s EXCEPT !.root = fl]
    OBVIOUS
  <1>3. s1 \in Store /\ s1.root = fl /\ s1.blk = r.s.blk /\ s1.free = r.s.free
    BY <1>1, <1>2 DEF Store
  <1>4. r1 = [r EXCEPT !.s = s1]
    BY <1>2 DEF SetFile
  <1>5. r1 \in Req /\ r1.w = r.w /\ r1.failed = r.failed /\ r1.s = s1
    BY <1>3, <1>4 DEF Req
  <1> QED  BY <1>3, <1>5 DEF RootChanged

SetEntry(r, i, k, b) == [r EXCEPT !.s.blk[i].ptr[k] = b]

LEMMA SetEntryParts ==
  ASSUME NEW r \in Req, NEW i \in Blocks, NEW k \in 0..(NINDIRECT - 1), NEW b \in 0..NB,
         NEW r1, r1 = SetEntry(r, i, k, b)
  PROVE  r1 \in Req /\ r1.w = r.w /\ r1.failed = r.failed /\ EntryChanged(r.s, r1.s, i, k, b)
  <1>1. r.s \in Store /\ r.s.blk \in [Blocks -> Block] /\ r.s.blk[i] \in Block
        /\ r.s.blk[i].ptr \in [0..(NINDIRECT - 1) -> 0..NB]
    BY StoreType DEF Req
  <1>2. PICK x : x = [r.s.blk[i] EXCEPT !.ptr = [r.s.blk[i].ptr EXCEPT ![k] = b]]
    OBVIOUS
  <1>3. /\ x \in Block /\ x.file = r.s.blk[i].file /\ x.data = r.s.blk[i].data
        /\ x.ptr = [r.s.blk[i].ptr EXCEPT ![k] = b]
    BY <1>1, <1>2 DEF Block
  <1>4. PICK s1 : s1 = [r.s EXCEPT !.blk = [r.s.blk EXCEPT ![i] = x]]
    OBVIOUS
  <1>5. s1 \in Store /\ s1.root = r.s.root /\ s1.free = r.s.free /\ s1.blk = [r.s.blk EXCEPT ![i] = x]
    BY <1>1, <1>3, <1>4 DEF Store
  <1>6. r1 = [r EXCEPT !.s = s1]
    BY <1>2, <1>4 DEF SetEntry
  <1>7. r1 \in Req /\ r1.w = r.w /\ r1.failed = r.failed /\ r1.s = s1
    BY <1>5, <1>6 DEF Req
  <1>8. \A c \in Blocks : /\ s1.blk[c].file = r.s.blk[c].file /\ s1.blk[c].data = r.s.blk[c].data
                          /\ c # i => s1.blk[c].ptr = r.s.blk[c].ptr
    BY <1>1, <1>3, <1>5
  <1>9. s1.blk[i].ptr = [r.s.blk[i].ptr EXCEPT ![k] = b]
    BY <1>1, <1>3, <1>5
  <1> QED  BY <1>5, <1>7, <1>8, <1>9 DEF EntryChanged

(* A step that puts a new block at pointer n of f, with its disk writes,   *)
(* and one that may find it there or fail.                                 *)
AllocStep(r, r1, f, n, b) ==
  /\ r1 \in Req /\ Attach(r.s, r1.s, f, n, b)
  /\ (Regular(f) => n < NBlocks(FileAt(r.s, f).size)) /\ Num(r.s, f, n) = 0
  /\ r1.failed = r.failed
  /\ r1.w = Append(Append(r.w, <<"bitmap", r.s.free \ {b}>>), <<"blk", b, Zeroed>>)

MayAlloc(r, r1, f, n) ==
  \/ r1 \in Req /\ r1.s = r.s /\ r1.w = r.w
  \/ \E b : AllocStep(r, r1, f, n, b)

LEMMA WalkStep ==
  ASSUME NEW r \in Req, Good(r.s), NEW f \in Owners(r.s), NEW n \in Idx, Regular(f) => n < NBlocks(FileAt(r.s, f).size),
         NEW r1, r1 = file_block_walk(r, f, n)
  PROVE  /\ MayAlloc(r, r1, f, -1)
         /\ ~r1.failed => ~r.failed /\ (n < NDIRECT \/ FileAt(r1.s, f).indirect # 0)
         /\ r.failed => r1.failed
  <1>1. PICK fl \in File : fl = FileAt(r.s, f)
    BY OwnerFacts DEF Good
  <1>2. n < MaxBlocks /\ ~(n >= MaxBlocks)
    BY ConstFacts DEF Idx
  <1>3. CASE n < NDIRECT \/ fl.indirect # 0
    <2>1. r1 = r
      BY <1>1, <1>2, <1>3 DEF file_block_walk
    <2> QED  BY <1>1, <1>3, <2>1 DEF MayAlloc
  <1>4. CASE ~(n < NDIRECT \/ fl.indirect # 0) /\ r.s.free = {}
    <2>1. r1 = [r EXCEPT !.failed = TRUE]
      BY <1>1, <1>2, <1>4 DEF file_block_walk
    <2>2. r1 \in Req /\ r1.s = r.s /\ r1.w = r.w /\ r1.failed = TRUE
      BY <2>1 DEF Req
    <2> QED  BY <2>2 DEF MayAlloc
  <1>5. CASE ~(n < NDIRECT \/ fl.indirect # 0) /\ r.s.free # {}
    <2>1. PICK b : b = First(r.s.free) /\ b \in r.s.free /\ b \in Blocks
      <3>1. r.s.free \subseteq Blocks /\ r.s.free \subseteq Nat
        BY StoreType, ConstFacts DEF Req
      <3> QED  BY <1>5, <3>1, FirstIsIn
    <2>2. PICK ra : ra = alloc_block(r, b)
      OBVIOUS
    <2>3. PICK fl1 : fl1 = [fl EXCEPT !.indirect = b]
      OBVIOUS
    <2>4. r1 = SetFile(ra, f, fl1)
      BY <1>1, <1>2, <1>5, <2>1, <2>2, <2>3 DEF file_block_walk
    <2>5. /\ ra \in Req /\ ra.failed = r.failed /\ Alloced(r.s, ra.s, b)
          /\ ra.w = Append(Append(r.w, <<"bitmap", r.s.free \ {b}>>), <<"blk", b, Zeroed>>)
      BY <2>1, <2>2, AllocParts DEF Good
    <2>6. SameFiles(r.s, ra.s, b)
      BY <2>1, <2>5, AllocedEffect
    <2>7. /\ fl1 \in File /\ fl1.indirect = b /\ fl1.direct = fl.direct /\ fl1.size = fl.size
          /\ fl1.name = fl.name /\ b \in 0..NB /\ b # 0
      <3>1. b \in 0..NB /\ b # 0
        BY <2>1, ConstFacts DEF Blocks
      <3> QED  BY <2>3, <3>1 DEF File
    <2>8. Num(r.s, f, -1) = 0 /\ -1 \in PIdx
      BY <1>1, <1>5, ConstFacts DEF Num
    <2>9. ASSUME NEW m \in Idx PROVE PtrOf(ra.s, fl1, m) = IF m = -1 THEN b ELSE Num(r.s, f, m)
      <3>1. m # -1 /\ Num(r.s, f, m) = PtrOf(r.s, fl, m) /\ m \in Int
        BY <1>1, ConstFacts DEF Num, BlockOf, Idx
      <3>2. CASE m < NDIRECT
        BY <2>7, <3>1, <3>2 DEF PtrOf
      <3>3. CASE ~(m < NDIRECT)
        <4>1. m - NDIRECT \in 0..(NINDIRECT - 1)
          BY <3>3, ConstFacts DEF Idx
        <4>2. ra.s.blk[b].ptr[m - NDIRECT] = 0
          BY <2>6, <4>1 DEF SameFiles, Zeroed
        <4> QED  BY <1>5, <2>7, <3>1, <3>3, <4>2 DEF PtrOf
      <3> QED  BY <3>2, <3>3
    <2>10. r1 \in Req /\ r1.w = ra.w /\ r1.failed = ra.failed /\ Attach(r.s, r1.s, f, -1, b)
      <3>1. CASE f = Root
        <4>0. r1 = SetFile(ra, Root, fl1)
          BY <2>4, <3>1
        <4>1. /\ r1 \in Req /\ r1.w = ra.w /\ r1.failed = ra.failed
              /\ RootChanged(ra.s, r1.s, fl1)
          BY <2>5, <2>7, <4>0, SetRootParts
        <4>2. fl = r.s.root
          BY <1>1, <3>1 DEF FileAt
        <4>3. \A m \in Idx : PtrOf(ra.s, fl1, m) = IF m = -1 THEN b ELSE Num(r.s, Root, m)
          BY <2>9, <3>1
        <4>4. Attach(r.s, r1.s, Root, -1, b)
          BY <2>1, <2>5, <2>7, <2>8, <3>1, <4>1, <4>2, <4>3, AttachRoot
        <4> QED  BY <3>1, <4>1, <4>4
      <3>2. CASE f # Root
        <4>1. f \in Places(r.s) /\ f \in Places(ra.s) /\ Sized(ra.s)
          BY <2>6, <3>2 DEF Owners, SameFiles, SameDir
        <4>2. r1 \in Req /\ r1.w = ra.w /\ r1.failed = ra.failed /\ FileChanged(ra.s, r1.s, f, fl1)
          BY <2>4, <2>5, <2>7, <4>1, SetFileParts
        <4>3. Attach(r.s, r1.s, f, -1, b)
          BY <1>1, <2>1, <2>5, <2>7, <2>8, <2>9, <4>1, <4>2, AttachFile
        <4> QED  BY <4>2, <4>3
      <3> QED  BY <3>1, <3>2
    <2>11. Regular(f) => -1 < NBlocks(FileAt(r.s, f).size)
      BY <1>1, FileType
    <2>12. AllocStep(r, r1, f, -1, b)
      BY <2>5, <2>8, <2>10, <2>11 DEF AllocStep
    <2>13. Num(r1.s, f, -1) = b
      BY <2>8, <2>10 DEF Attach
    <2>14. FileAt(r1.s, f).indirect = b
      BY <2>13 DEF Num
    <2> QED  BY <2>5, <2>7, <2>10, <2>12, <2>14 DEF MayAlloc
  <1> QED  BY <1>3, <1>4, <1>5

LEMMA FillStep ==
  ASSUME NEW r \in Req, Good(r.s), NEW f \in Owners(r.s), NEW n \in Idx, Regular(f) => n < NBlocks(FileAt(r.s, f).size),
         ~r.failed => n < NDIRECT \/ FileAt(r.s, f).indirect # 0,
         NEW r1, r1 = FillPlace(r, f, n)
  PROVE  /\ MayAlloc(r, r1, f, n)
         /\ ~r1.failed => ~r.failed /\ Num(r1.s, f, n) # 0
         /\ r.failed => r1.failed
  <1>1. PICK fl \in File : fl = FileAt(r.s, f)
    BY OwnerFacts DEF Good
  <1>2. BlockOf(r.s, f, n) = Num(r.s, f, n) /\ n \in PIdx
    BY ConstFacts DEF Num
  <1>3. CASE r.failed \/ Num(r.s, f, n) # 0
    <2>1. r1 = r
      BY <1>2, <1>3 DEF FillPlace
    <2> QED  BY <1>3, <2>1 DEF MayAlloc
  <1>4. CASE ~(r.failed \/ Num(r.s, f, n) # 0) /\ r.s.free = {}
    <2>1. r1 = [r EXCEPT !.failed = TRUE]
      BY <1>2, <1>4 DEF FillPlace
    <2>2. r1 \in Req /\ r1.s = r.s /\ r1.w = r.w /\ r1.failed = TRUE
      BY <2>1 DEF Req
    <2> QED  BY <2>2 DEF MayAlloc
  <1>5. CASE ~(r.failed \/ Num(r.s, f, n) # 0) /\ r.s.free # {}
    <2>1. PICK b : b = First(r.s.free) /\ b \in r.s.free /\ b \in Blocks
      <3>1. r.s.free \subseteq Blocks /\ r.s.free \subseteq Nat
        BY StoreType, ConstFacts DEF Req
      <3> QED  BY <1>5, <3>1, FirstIsIn
    <2>2. PICK ra : ra = alloc_block(r, b)
      OBVIOUS
    <2>3. r1 = SetBlock(ra, f, n, b)
      BY <1>2, <1>5, <2>1, <2>2 DEF FillPlace
    <2>4. /\ ra \in Req /\ ra.failed = r.failed /\ Alloced(r.s, ra.s, b)
          /\ ra.w = Append(Append(r.w, <<"bitmap", r.s.free \ {b}>>), <<"blk", b, Zeroed>>)
      BY <2>1, <2>2, AllocParts DEF Good
    <2>5. SameFiles(r.s, ra.s, b)
      BY <2>1, <2>4, AllocedEffect
    <2>6. b \in 0..NB /\ b # 0 /\ FileAt(ra.s, f) = fl /\ Num(r.s, f, n) = 0
      BY <1>1, <1>5, <2>1, <2>5, ConstFacts DEF Blocks, SameFiles
    <2>7. r1 \in Req /\ r1.w = ra.w /\ r1.failed = ra.failed /\ Attach(r.s, r1.s, f, n, b)
      <3>1. CASE n < NDIRECT
        <4>1. n \in 0..(NDIRECT - 1)
          BY <3>1, ConstFacts DEF Idx
        <4>2. PICK fl1 : fl1 = [fl EXCEPT !.direct[n] = b]
          OBVIOUS
        <4>3. r1 = SetFile(ra, f, fl1)
          BY <2>3, <2>6, <3>1, <4>2 DEF SetBlock
        <4>4. fl.direct \in [0..(NDIRECT - 1) -> 0..NB]
          BY FileType
        <4>5. /\ fl1 \in File /\ fl1.indirect = fl.indirect /\ fl1.size = fl.size /\ fl1.name = fl.name
              /\ fl1.direct = [fl.direct EXCEPT ![n] = b]
          BY <2>6, <4>1, <4>2, <4>4 DEF File
        <4>6. ASSUME NEW m \in Idx PROVE PtrOf(ra.s, fl1, m) = IF m = n THEN b ELSE Num(r.s, f, m)
          <5>1. Num(r.s, f, m) = PtrOf(ra.s, fl, m) /\ m \in Int
            BY <2>5, <2>6, ConstFacts DEF Num, BlockOf, Idx, SameFiles
          <5>2. CASE m < NDIRECT
            <6>1. m \in 0..(NDIRECT - 1)
              BY <5>2, ConstFacts DEF Idx
            <6> QED  BY <4>4, <4>5, <5>1, <5>2, <6>1 DEF PtrOf
          <5>3. CASE ~(m < NDIRECT)
            BY <3>1, <4>5, <5>1, <5>3 DEF PtrOf
          <5> QED  BY <5>2, <5>3
        <4>7. fl1.indirect = IF n = -1 THEN b ELSE fl.indirect
          BY <4>5, ConstFacts
        <4>8. CASE f = Root
          <5>0. r1 = SetFile(ra, Root, fl1)
            BY <4>3, <4>8
          <5>1. /\ r1 \in Req /\ r1.w = ra.w /\ r1.failed = ra.failed
                /\ RootChanged(ra.s, r1.s, fl1)
            BY <2>4, <4>5, <5>0, SetRootParts
          <5>2. fl = r.s.root /\ Num(r.s, Root, n) = 0
            BY <1>1, <2>6, <4>8 DEF FileAt
          <5>3. \A m \in Idx : PtrOf(ra.s, fl1, m) = IF m = n THEN b ELSE Num(r.s, Root, m)
            BY <4>6, <4>8
          <5>4. Attach(r.s, r1.s, Root, n, b)
            <6>1. /\ fl1.size = r.s.root.size /\ fl1.name = r.s.root.name
                  /\ fl1.indirect = IF n = -1 THEN b ELSE r.s.root.indirect
              BY <4>5, <4>7, <5>2
            <6> QED  BY <1>2, <2>1, <2>4, <4>5, <5>1, <5>2, <5>3, <6>1, AttachRoot
          <5> QED  BY <4>8, <5>1, <5>4
        <4>9. CASE f # Root
          <5>1. f \in Places(r.s) /\ f \in Places(ra.s) /\ Sized(ra.s)
            BY <2>5, <4>9 DEF Owners, SameFiles, SameDir
          <5>2. r1 \in Req /\ r1.w = ra.w /\ r1.failed = ra.failed /\ FileChanged(ra.s, r1.s, f, fl1)
            BY <2>4, <4>3, <4>5, <5>1, SetFileParts
          <5>3. Attach(r.s, r1.s, f, n, b)
            BY <1>1, <1>2, <2>1, <2>4, <4>5, <4>6, <4>7, <5>1, <5>2, AttachFile
          <5> QED  BY <5>2, <5>3
        <4> QED  BY <4>8, <4>9
      <3>2. CASE ~(n < NDIRECT)
        <4>1. n - NDIRECT \in 0..(NINDIRECT - 1) /\ n >= NDIRECT
          BY <3>2, ConstFacts DEF Idx
        <4>0. ~r.failed /\ fl.indirect # 0
          BY <1>1, <1>5, <3>2
        <4>2. PICK i \in Blocks : i = fl.indirect /\ i # 0
          <5>1. fl.indirect \in 0..NB
            BY FileType
          <5> QED  BY <4>0, <5>1, ConstFacts DEF Blocks
        <4>3. r1 = SetEntry(ra, i, n - NDIRECT, b)
          BY <2>3, <2>6, <3>2, <4>2 DEF SetBlock, SetEntry
        <4>4. /\ r1 \in Req /\ r1.w = ra.w /\ r1.failed = ra.failed
              /\ EntryChanged(ra.s, r1.s, i, n - NDIRECT, b)
          <5>1. PICK k \in 0..(NINDIRECT - 1) : k = n - NDIRECT
            BY <4>1
          <5>2. r1 = SetEntry(ra, i, k, b) /\ ra \in Req /\ b \in 0..NB
            BY <2>4, <2>6, <4>3, <5>1
          <5>3. r1 \in Req /\ r1.w = ra.w /\ r1.failed = ra.failed /\ EntryChanged(ra.s, r1.s, i, k, b)
            BY <5>2, SetEntryParts
          <5> QED  BY <5>1, <5>3
        <4>5. Attach(r.s, r1.s, f, n, b)
          BY <1>1, <2>1, <2>4, <2>6, <4>1, <4>2, <4>4, AttachEntry
        <4> QED  BY <4>4, <4>5
      <3> QED  BY <3>1, <3>2
    <2>8. AllocStep(r, r1, f, n, b)
      BY <2>4, <2>6, <2>7 DEF AllocStep
    <2>9. Num(r1.s, f, n) = b
      BY <1>2, <2>7 DEF Attach
    <2> QED  BY <1>5, <2>4, <2>6, <2>7, <2>8, <2>9 DEF MayAlloc
  <1> QED  BY <1>3, <1>4, <1>5
-----------------------------------------------------------------------------
(* Loops.  P[k] has the values that the loop may have after k turns.       *)

(* There is a run of the loop, g[<<x, k>>] being what turn k makes of x. *)
Closed(N, P, g) == \A k \in 1..N : \A x \in P[k - 1] : g[<<x, k>>] \in P[k]

IsRun(h, N, P, g, r) ==
  /\ h = [k \in 0..N |-> h[k]] /\ h[0] = r
  /\ \A k \in 1..N : h[k - 1] \in P[k - 1] /\ h[k] = g[<<h[k - 1], k>>]

LEMMA LoopExists ==
  ASSUME NEW N \in Nat, NEW P, NEW g, NEW r \in P[0], Closed(N, P, g)
  PROVE  \E h : IsRun(h, N, P, g, r)
  <1> DEFINE Run(h, n) == /\ h = [k \in 0..n |-> h[k]] /\ h[0] = r
                          /\ \A k \in 1..n : h[k] = g[<<h[k - 1], k>>]
                          /\ \A k \in 0..n : h[k] \in P[k]
             T == {n \in Nat : n <= N => \E h : Run(h, n)}
  <1>1. 0 \in T
    <2>1. PICK h : h = [k \in 0..0 |-> r]
      OBVIOUS
    <2>2. h = [k \in 0..0 |-> h[k]] /\ h[0] = r
      BY <2>1
    <2>3. Run(h, 0)
      BY <2>2
    <2> QED  BY <2>3
  <1>2. ASSUME NEW n \in Nat, n \in T PROVE n + 1 \in T
    <2> SUFFICES ASSUME n + 1 <= N PROVE \E h : Run(h, n + 1)
      BY <1>2
    <2>1. PICK h : Run(h, n)
      BY <1>2
    <2>2. PICK v : v = [k \in 0..(n + 1) |-> IF k = n + 1 THEN g[<<h[n], n + 1>>] ELSE h[k]]
      OBVIOUS
    <2>3. v = [k \in 0..(n + 1) |-> v[k]]
      BY <2>2
    <2>4. v[n + 1] = g[<<h[n], n + 1>>] /\ \A k \in 0..n : v[k] = h[k]
      BY <1>2, <2>2
    <2>5. n + 1 \in 1..N /\ (n + 1) - 1 = n /\ h[n] \in P[n]
      BY <1>2, <2>1
    <2>6. v[n + 1] \in P[n + 1]
      BY <2>4, <2>5 DEF Closed
    <2>7. ASSUME NEW k \in 1..(n + 1) PROVE v[k] = g[<<v[k - 1], k>>]
      <3>1. CASE k = n + 1
        BY <2>4, <2>5, <3>1
      <3>2. CASE k # n + 1
        <4>1. k \in 1..n /\ k \in 0..n /\ k - 1 \in 0..n
          BY <1>2, <3>2
        <4> QED  BY <2>1, <2>4, <4>1
      <3> QED  BY <3>1, <3>2
    <2>8. ASSUME NEW k \in 0..(n + 1) PROVE v[k] \in P[k]
      <3>1. CASE k = n + 1
        BY <2>6, <3>1
      <3>2. CASE k # n + 1
        <4>1. k \in 0..n
          BY <1>2, <3>2
        <4> QED  BY <2>1, <2>4, <4>1
      <3> QED  BY <3>1, <3>2
    <2>9. v[0] = r
      BY <1>2, <2>1, <2>4
    <2>10. Run(v, n + 1)
      BY <2>3, <2>7, <2>8, <2>9
    <2> QED  BY <2>10
  <1> HIDE DEF T
  <1>3. T = Nat
    <2>1. T \in SUBSET Nat
      BY DEF T
    <2> QED  BY <1>1, <1>2, <2>1, NatSet
  <1>4. PICK h : Run(h, N)
    BY <1>3 DEF T
  <1>5. \A k \in 1..N : h[k - 1] \in P[k - 1]
    BY <1>4
  <1> QED  BY <1>4, <1>5 DEF IsRun

(* What the loop has at its end. *)
LEMMA LoopKeeps ==
  ASSUME NEW N \in Nat, NEW P, NEW h, h[0] \in P[0],
         \A k \in 1..N : h[k - 1] \in P[k - 1] => h[k] \in P[k]
  PROVE  h[N] \in P[N]
  <1> DEFINE T == {n \in Nat : n <= N => h[n] \in P[n]}
  <1>1. 0 \in T
    OBVIOUS
  <1>2. ASSUME NEW n \in Nat, n \in T PROVE n + 1 \in T
    <2> SUFFICES ASSUME n + 1 <= N PROVE h[n + 1] \in P[n + 1]
      BY <1>2
    <2>1. n + 1 \in 1..N /\ (n + 1) - 1 = n /\ h[n] \in P[n]
      BY <1>2
    <2> QED  BY <2>1
  <1> HIDE DEF T
  <1>3. T = Nat
    <2>1. T \in SUBSET Nat
      BY DEF T
    <2> QED  BY <1>1, <1>2, <2>1, NatSet
  <1> QED  BY <1>3 DEF T

(* The three loops of the file system. *)
AccessTurn(x, f, ns, k, writes) ==
  IF x.failed THEN x
  ELSE Mark(file_get_block(x, f, First(ns) + k - 1), f, First(ns) + k - 1, writes)

LEMMA AccessLoop ==
  ASSUME NEW r, NEW f, NEW ns, NEW writes, Cardinality(ns) \in Nat, NEW P, r \in P[0],
         \A k \in 1..Cardinality(ns) : \A x \in P[k - 1] : AccessTurn(x, f, ns, k, writes) \in P[k]
  PROVE  Access(r, f, ns, writes) \in P[Cardinality(ns)]
  <1>1. PICK N \in Nat : N = Cardinality(ns)
    OBVIOUS
  <1> DEFINE U == UNION {P[k] : k \in 0..N}
             g == [y \in U \X (1..N) |-> AccessTurn(y[1], f, ns, y[2], writes)]
             Eq(h) == h = [k \in 0..N |->
                        IF k = 0 THEN r
                        ELSE IF h[k - 1].failed THEN h[k - 1]
                        ELSE Mark(file_get_block(h[k - 1], f, First(ns) + k - 1), f,
                                  First(ns) + k - 1, writes)]
  <1>2. ASSUME NEW k \in 1..N, NEW x \in P[k - 1]
        PROVE  g[<<x, k>>] = AccessTurn(x, f, ns, k, writes)
    <2>1. k - 1 \in 0..N
      OBVIOUS
    <2>2. <<x, k>> \in U \X (1..N)
      BY <2>1
    <2> HIDE DEF U
    <2> QED  BY <2>2
  <1>3. \E h : Eq(h)
    <2> HIDE DEF g
    <2>0. Closed(N, P, g)
      <3>1. ASSUME NEW k \in 1..N, NEW x \in P[k - 1] PROVE g[<<x, k>>] \in P[k]
        <4>1. g[<<x, k>>] = AccessTurn(x, f, ns, k, writes) /\ k \in 1..Cardinality(ns)
          BY <1>1, <1>2
        <4> QED  BY <4>1
      <3> QED  BY <3>1 DEF Closed
    <2>1. PICK h : IsRun(h, N, P, g, r)
      BY <2>0, LoopExists
    <2>2. ASSUME NEW k \in 1..N PROVE h[k] = AccessTurn(h[k - 1], f, ns, k, writes)
      BY <1>2, <2>1 DEF IsRun
    <2>3. ASSUME NEW k \in 0..N
          PROVE  h[k] = IF k = 0 THEN r
                        ELSE IF h[k - 1].failed THEN h[k - 1]
                        ELSE Mark(file_get_block(h[k - 1], f, First(ns) + k - 1), f,
                                  First(ns) + k - 1, writes)
      <3>1. k = 0 \/ k \in 1..N
        OBVIOUS
      <3> QED  BY <2>1, <2>2, <3>1 DEF AccessTurn, IsRun
    <2>4. h = [k \in 0..N |-> h[k]]
      BY <2>1 DEF IsRun
    <2>5. Eq(h)
      BY <2>3, <2>4
    <2> QED  BY <2>5
  <1>4. PICK h : h = CHOOSE v : Eq(v)
    OBVIOUS
  <1>5. Eq(h)
    BY <1>3, <1>4
  <1>6. Access(r, f, ns, writes) = h[N]
    BY <1>1, <1>4 DEF Access
  <1>7. h[0] = r /\ \A k \in 1..N : h[k] = AccessTurn(h[k - 1], f, ns, k, writes)
    BY <1>5 DEF AccessTurn
  <1> HIDE DEF Eq
  <1>8. \A k \in 1..N : h[k - 1] \in P[k - 1] => h[k] \in P[k]
    BY <1>1, <1>7
  <1>9. h[N] \in P[N]
    BY <1>7, <1>8, LoopKeeps
  <1> QED  BY <1>1, <1>6, <1>9

LEMMA DirLoop ==
  ASSUME NEW r, NEW name, NEW st, st = [r |-> r, found |-> {}], NBlocks(r.s.root.size) \in Nat, NEW P, st \in P[0],
         \A k \in 1..NBlocks(r.s.root.size) : \A x \in P[k - 1] : ScanBlock(x, k - 1, name) \in P[k]
  PROVE  DirScan(r, name) \in P[NBlocks(r.s.root.size)]
  <1>1. PICK N \in Nat : N = NBlocks(r.s.root.size)
    OBVIOUS
  <1> DEFINE U == UNION {P[k] : k \in 0..N}
             g == [y \in U \X (1..N) |-> ScanBlock(y[1], y[2] - 1, name)]
             Eq(h) == h = [k \in 0..N |-> IF k = 0 THEN st ELSE ScanBlock(h[k - 1], k - 1, name)]
  <1>2. ASSUME NEW k \in 1..N, NEW x \in P[k - 1]
        PROVE  g[<<x, k>>] = ScanBlock(x, k - 1, name)
    <2>1. k - 1 \in 0..N
      OBVIOUS
    <2>2. <<x, k>> \in U \X (1..N)
      BY <2>1
    <2> HIDE DEF U
    <2> QED  BY <2>2
  <1>3. \E h : Eq(h)
    <2> HIDE DEF g
    <2>0. Closed(N, P, g)
      <3>1. ASSUME NEW k \in 1..N, NEW x \in P[k - 1] PROVE g[<<x, k>>] \in P[k]
        <4>1. g[<<x, k>>] = ScanBlock(x, k - 1, name) /\ k \in 1..NBlocks(r.s.root.size)
          BY <1>1, <1>2
        <4> QED  BY <4>1
      <3> QED  BY <3>1 DEF Closed
    <2>1. PICK h : IsRun(h, N, P, g, st)
      BY <2>0, LoopExists
    <2>2. ASSUME NEW k \in 1..N PROVE h[k] = ScanBlock(h[k - 1], k - 1, name)
      BY <1>2, <2>1 DEF IsRun
    <2>3. ASSUME NEW k \in 0..N PROVE h[k] = IF k = 0 THEN st ELSE ScanBlock(h[k - 1], k - 1, name)
      <3>1. k = 0 \/ k \in 1..N
        OBVIOUS
      <3> QED  BY <2>1, <2>2, <3>1 DEF IsRun
    <2>4. h = [k \in 0..N |-> h[k]]
      BY <2>1 DEF IsRun
    <2>5. Eq(h)
      BY <2>3, <2>4
    <2> QED  BY <2>5
  <1>4. PICK h : h = CHOOSE v : Eq(v)
    OBVIOUS
  <1>5. Eq(h)
    BY <1>3, <1>4
  <1>6. DirScan(r, name) = h[N]
    BY <1>1, <1>4 DEF DirScan
  <1>7. h[0] = st /\ \A k \in 1..N : h[k] = ScanBlock(h[k - 1], k - 1, name)
    <2>1. \A k \in 0..N : h[k] = IF k = 0 THEN st ELSE ScanBlock(h[k - 1], k - 1, name)
      BY <1>5
    <2>2. 0 \in 0..N /\ \A k \in 1..N : k \in 0..N /\ k # 0
      OBVIOUS
    <2>3. h[0] = st
      BY <2>1, <2>2, Zenon
    <2>4. \A k \in 1..N : h[k] = ScanBlock(h[k - 1], k - 1, name)
      BY <2>1, <2>2, Zenon
    <2> QED  BY <2>3, <2>4
  <1> HIDE DEF Eq
  <1>8. \A k \in 1..N : h[k - 1] \in P[k - 1] => h[k] \in P[k]
    BY <1>1, <1>7
  <1>9. h[N] \in P[N]
    BY <1>7, <1>8, LoopKeeps
  <1> QED  BY <1>1, <1>6, <1>9

LEMMA FlushLoop ==
  ASSUME NEW r, NEW f, NBlocks(FileAt(r.s, f).size) \in Nat, NEW P, r \in P[0],
         \A k \in 1..NBlocks(FileAt(r.s, f).size) : \A x \in P[k - 1] : FlushPlace(x, f, k - 1) \in P[k]
  PROVE  FlushData(r, f) \in P[NBlocks(FileAt(r.s, f).size)]
  <1>1. PICK N \in Nat : N = NBlocks(FileAt(r.s, f).size)
    OBVIOUS
  <1> DEFINE U == UNION {P[k] : k \in 0..N}
             g == [y \in U \X (1..N) |-> FlushPlace(y[1], f, y[2] - 1)]
             Eq(h) == h = [k \in 0..N |-> IF k = 0 THEN r ELSE FlushPlace(h[k - 1], f, k - 1)]
  <1>2. ASSUME NEW k \in 1..N, NEW x \in P[k - 1]
        PROVE  g[<<x, k>>] = FlushPlace(x, f, k - 1)
    <2>1. k - 1 \in 0..N
      OBVIOUS
    <2>2. <<x, k>> \in U \X (1..N)
      BY <2>1
    <2> HIDE DEF U
    <2> QED  BY <2>2
  <1>3. \E h : Eq(h)
    <2> HIDE DEF g
    <2>0. Closed(N, P, g)
      <3>1. ASSUME NEW k \in 1..N, NEW x \in P[k - 1] PROVE g[<<x, k>>] \in P[k]
        <4>1. g[<<x, k>>] = FlushPlace(x, f, k - 1) /\ k \in 1..NBlocks(FileAt(r.s, f).size)
          BY <1>1, <1>2
        <4> QED  BY <4>1
      <3> QED  BY <3>1 DEF Closed
    <2>1. PICK h : IsRun(h, N, P, g, r)
      BY <2>0, LoopExists
    <2>2. ASSUME NEW k \in 1..N PROVE h[k] = FlushPlace(h[k - 1], f, k - 1)
      BY <1>2, <2>1 DEF IsRun
    <2>3. ASSUME NEW k \in 0..N PROVE h[k] = IF k = 0 THEN r ELSE FlushPlace(h[k - 1], f, k - 1)
      <3>1. k = 0 \/ k \in 1..N
        OBVIOUS
      <3> QED  BY <2>1, <2>2, <3>1 DEF IsRun
    <2>4. h = [k \in 0..N |-> h[k]]
      BY <2>1 DEF IsRun
    <2>5. Eq(h)
      BY <2>3, <2>4
    <2> QED  BY <2>5
  <1>4. PICK h : h = CHOOSE v : Eq(v)
    OBVIOUS
  <1>5. Eq(h)
    BY <1>3, <1>4
  <1>6. FlushData(r, f) = h[N]
    BY <1>1, <1>4 DEF FlushData
  <1>7. h[0] = r /\ \A k \in 1..N : h[k] = FlushPlace(h[k - 1], f, k - 1)
    <2>1. \A k \in 0..N : h[k] = IF k = 0 THEN r ELSE FlushPlace(h[k - 1], f, k - 1)
      BY <1>5
    <2> QED  BY <2>1
  <1> HIDE DEF Eq
  <1>8. \A k \in 1..N : h[k - 1] \in P[k - 1] => h[k] \in P[k]
    BY <1>1, <1>7
  <1>9. h[N] \in P[N]
    BY <1>7, <1>8, LoopKeeps
  <1> QED  BY <1>1, <1>6, <1>9
-----------------------------------------------------------------------------
(* Reading and writing. *)

(* What reading and writing leave as it is. *)
Kept(s, s1) ==
  /\ Good(s1) /\ (Exact(s) => Exact(s1)) /\ s1.root.size = s.root.size
  /\ Places(s) \subseteq Places(s1)
  /\ \A o \in Owners(s) : FileAt(s1, o).size = FileAt(s, o).size

LEMMA KeptSelf == ASSUME NEW s, Good(s) PROVE Kept(s, s)
  BY DEF Kept

LEMMA KeptTrans == ASSUME NEW s, NEW t, NEW u, Kept(s, t), Kept(t, u) PROVE Kept(s, u)
  <1>1. Owners(s) \subseteq Owners(t)
    BY DEF Kept, Owners
  <1>2. \A o \in Owners(s) : FileAt(u, o).size = FileAt(s, o).size
    BY <1>1 DEF Kept
  <1> QED  BY <1>2 DEF Kept

LEMMA MayAllocKept ==
  ASSUME NEW r \in Req, Good(r.s), NEW f \in Owners(r.s), NEW n \in PIdx, NEW r1, MayAlloc(r, r1, f, n)
  PROVE  r1 \in Req /\ Kept(r.s, r1.s)
  <1>1. CASE r1 \in Req /\ r1.s = r.s /\ r1.w = r.w
    BY <1>1, KeptSelf
  <1>2. CASE \E b : AllocStep(r, r1, f, n, b)
    <2>1. PICK b : AllocStep(r, r1, f, n, b)
      BY <1>2
    <2>2. /\ r1 \in Req /\ Attach(r.s, r1.s, f, n, b)
          /\ (Regular(f) => n < NBlocks(FileAt(r.s, f).size)) /\ Num(r.s, f, n) = 0
      BY <2>1 DEF AllocStep
    <2>3. Good(r1.s) /\ (Exact(r.s) => Exact(r1.s))
      BY <2>2, AttachGood
    <2>4. /\ Places(r.s) \subseteq Places(r1.s)
          /\ \A o \in Owners(r.s) : FileAt(r1.s, o).size = FileAt(r.s, o).size
      BY <2>2 DEF Attach
    <2>5. r1.s.root.size = r.s.root.size
      BY <2>4 DEF Owners, FileAt
    <2> QED  BY <2>2, <2>3, <2>4, <2>5 DEF Kept
  <1> QED  BY <1>1, <1>2 DEF MayAlloc

LEMMA GetBlock ==
  ASSUME NEW r \in Req, Good(r.s), NEW f \in Owners(r.s), NEW n \in Nat,
         Regular(f) => n < NBlocks(FileAt(r.s, f).size),
         NEW r1, r1 = file_get_block(r, f, n)
  PROVE  /\ r1 \in Req /\ Kept(r.s, r1.s)
         /\ ~r1.failed => ~r.failed /\ n \in Idx /\ Num(r1.s, f, n) # 0
  <1>1. PICK ra : ra = file_block_walk(r, f, n)
    OBVIOUS
  <1>2. r1 = FillPlace(ra, f, n)
    BY <1>1 DEF file_get_block
  <1>3. CASE n \in Idx
    <2>1. n \in PIdx /\ -1 \in PIdx
      BY <1>3, ConstFacts
    <2>2. /\ MayAlloc(r, ra, f, -1)
          /\ ~ra.failed => ~r.failed /\ (n < NDIRECT \/ FileAt(ra.s, f).indirect # 0)
      BY <1>1, <1>3, WalkStep
    <2>3. ra \in Req /\ Kept(r.s, ra.s)
      BY <2>1, <2>2, MayAllocKept
    <2>4. Good(ra.s) /\ f \in Owners(ra.s) /\ (Regular(f) => n < NBlocks(FileAt(ra.s, f).size))
      BY <2>3 DEF Kept, Owners
    <2>5. MayAlloc(ra, r1, f, n) /\ (~r1.failed => ~ra.failed /\ Num(r1.s, f, n) # 0)
      BY <1>2, <1>3, <2>2, <2>3, <2>4, FillStep
    <2>6. r1 \in Req /\ Kept(ra.s, r1.s)
      BY <2>1, <2>3, <2>4, <2>5, MayAllocKept
    <2>7. Kept(r.s, r1.s)
      BY <2>3, <2>6, KeptTrans
    <2> QED  BY <1>3, <2>2, <2>5, <2>6, <2>7
  <1>4. CASE n \notin Idx
    <2>1. ~(n < MaxBlocks) /\ n >= MaxBlocks
      BY <1>4, ConstFacts DEF Idx
    <2>2. ra = [r EXCEPT !.failed = TRUE]
      BY <1>1, <2>1 DEF file_block_walk
    <2>3. ra \in Req /\ ra.s = r.s /\ ra.failed
      BY <2>2 DEF Req
    <2>4. r1 = ra
      BY <1>2, <2>3 DEF FillPlace
    <2> QED  BY <2>3, <2>4, KeptSelf
  <1> QED  BY <1>3, <1>4

(* The data of a block is written. *)
Marked(s, s1, b, f) ==
  /\ s1 \in Store /\ s1.root = s.root /\ s1.free = s.free
  /\ \A c \in Blocks : c # b => s1.blk[c] = s.blk[c]
  /\ s1.blk[b].ptr = s.blk[b].ptr /\ s1.blk[b].file = s.blk[b].file
  /\ s1.blk[b].data = s.blk[b].data \cup {f}

SetData(r, b, f) == [r EXCEPT !.s.blk[b].data = @ \cup {f}]

LEMMA SetDataParts ==
  ASSUME NEW r \in Req, NEW b \in Blocks, NEW f \in Files, NEW r1, r1 = SetData(r, b, f)
  PROVE  r1 \in Req /\ r1.w = r.w /\ r1.failed = r.failed /\ Marked(r.s, r1.s, b, f)
  <1>1. r.s \in Store /\ r.s.blk \in [Blocks -> Block] /\ r.s.blk[b] \in Block /\ r.s.blk[b].data \subseteq Files
    BY StoreType DEF Req
  <1>2. PICK x : x = [r.s.blk[b] EXCEPT !.data = r.s.blk[b].data \cup {f}]
    OBVIOUS
  <1>3. /\ x \in Block /\ x.file = r.s.blk[b].file /\ x.ptr = r.s.blk[b].ptr
        /\ x.data = r.s.blk[b].data \cup {f}
    BY <1>1, <1>2 DEF Block
  <1>4. PICK s1 : s1 = [r.s EXCEPT !.blk = [r.s.blk EXCEPT ![b] = x]]
    OBVIOUS
  <1>5. s1 \in Store /\ s1.root = r.s.root /\ s1.free = r.s.free /\ s1.blk = [r.s.blk EXCEPT ![b] = x]
    BY <1>1, <1>3, <1>4 DEF Store
  <1>6. r1 = [r EXCEPT !.s = s1]
    BY <1>2, <1>4 DEF SetData
  <1>7. r1 \in Req /\ r1.w = r.w /\ r1.failed = r.failed /\ r1.s = s1
    BY <1>5, <1>6 DEF Req
  <1>8. s1.blk[b] = x /\ \A c \in Blocks : c # b => s1.blk[c] = r.s.blk[c]
    BY <1>1, <1>3, <1>5
  <1> QED  BY <1>3, <1>5, <1>7, <1>8 DEF Marked

(* It shows in no struct File. *)
LEMMA MarkedEffect ==
  ASSUME NEW s, Sized(s), NEW b \in Blocks, NEW f, NEW s1, Marked(s, s1, b, f)
  PROVE  /\ Sized(s1) /\ SamePtrs(s, s1) /\ SameDir(s, s1) /\ Owners(s1) = Owners(s)
         /\ \A o \in Owners(s) : FileAt(s1, o) = FileAt(s, o)
         /\ \A o \in Owners(s), n \in PIdx : Num(s1, o, n) = Num(s, o, n)
  <1>1. /\ s1 \in Store /\ s1.root = s.root /\ s \in Store
        /\ \A c \in Blocks : s1.blk[c].ptr = s.blk[c].ptr /\ s1.blk[c].file = s.blk[c].file
    BY DEF Marked, Sized
  <1>2. SamePtrs(s, s1)
    BY <1>1 DEF SamePtrs
  <1>3. SameDir(s, s1)
    BY <1>1, <1>2, SameDirectory
  <1>4. Sized(s1)
    BY <1>1 DEF Sized
  <1>5. Owners(s1) = Owners(s)
    BY <1>3 DEF SameDir, Owners
  <1>6. ASSUME NEW o \in Owners(s) PROVE FileAt(s1, o) = FileAt(s, o)
    <2>1. CASE o = Root
      BY <1>1, <2>1 DEF FileAt
    <2>2. CASE o # Root
      <3>1. o \in Places(s) /\ DirBlock(s, o) \in Blocks /\ DirBlock(s1, o) = DirBlock(s, o)
        BY <1>3, <2>2, PlaceFacts DEF Owners, SameDir
      <3> QED  BY <1>1, <2>2, <3>1 DEF FileAt
    <2> QED  BY <2>1, <2>2
  <1>7. ASSUME NEW o \in Owners(s), NEW n \in PIdx PROVE Num(s1, o, n) = Num(s, o, n)
    <2>1. FileAt(s1, o) = FileAt(s, o) /\ FileAt(s, o) \in File
      BY <1>6, OwnerFacts
    <2> QED  BY <1>2, <2>1, SamePtr DEF Num, BlockOf
  <1> QED  BY <1>2, <1>3, <1>4, <1>5, <1>6, <1>7

LEMMA MarkStep ==
  ASSUME NEW r \in Req, Good(r.s), NEW f \in Places(r.s), NEW n, NEW writes \in BOOLEAN,
         ~r.failed => n \in Idx /\ Num(r.s, f, n) # 0, NEW r1, r1 = Mark(r, f, n, writes)
  PROVE  /\ r1 \in Req /\ Kept(r.s, r1.s) /\ r1.w = r.w
         /\ r1 = r \/ (n \in Idx /\ Num(r.s, f, n) # 0 /\ Marked(r.s, r1.s, Num(r.s, f, n), f))
  <1>1. CASE r.failed \/ ~writes
    <2>1. r1 = r
      BY <1>1 DEF Mark
    <2> QED  BY <2>1, KeptSelf
  <1>2. CASE ~(r.failed \/ ~writes)
    <2>1. PICK b \in Blocks : n \in Idx /\ b = Num(r.s, f, n) /\ b = BlockOf(r.s, f, n) /\ b # 0
      BY <1>2, OwnerFacts, ConstFacts DEF Good, Owners
    <2>2. r1 = SetData(r, b, f) /\ f \in Files /\ f \in Owners(r.s) /\ Sized(r.s) /\ n \in PIdx /\ n # -1
      BY <1>2, <2>1, ConstFacts DEF Mark, SetData, Places, Owners, Good
    <2>3. r1 \in Req /\ r1.w = r.w /\ Marked(r.s, r1.s, b, f)
      BY <2>2, SetDataParts
    <2>4. /\ Sized(r1.s) /\ SameDir(r.s, r1.s) /\ Owners(r1.s) = Owners(r.s)
          /\ \A o \in Owners(r.s) : FileAt(r1.s, o) = FileAt(r.s, o)
          /\ \A o \in Owners(r.s), m \in PIdx : Num(r1.s, o, m) = Num(r.s, o, m)
      BY <2>2, <2>3, MarkedEffect
    <2>5. \A c \in Blocks : \/ r1.s.blk[c].data = r.s.blk[c].data
                            \/ /\ r1.s.blk[c].data = r.s.blk[c].data \cup {f}
                               /\ \E m \in PIdx : m # -1 /\ Num(r.s, f, m) = c
      BY <2>1, <2>2, <2>3 DEF Marked
    <2>6. Relabel(r.s, r1.s, f)
      BY <2>3, <2>4, <2>5 DEF Relabel, Marked
    <2>7. \A m \in PIdx : Regular(f) /\ m >= NBlocks(FileAt(r1.s, f).size) => Num(r.s, f, m) = 0
      BY <2>2, <2>4 DEF Good, Short
    <2>8. Good(r1.s) /\ (Exact(r.s) => Exact(r1.s))
      BY <2>2, <2>6, <2>7, RelabelGood
    <2>9. Kept(r.s, r1.s)
      BY <2>3, <2>4, <2>8 DEF Kept, Marked, SameDir
    <2> QED  BY <2>1, <2>3, <2>9
  <1> QED  BY <1>1, <1>2

(* The blocks that bytes within a size are in. *)
LEMMA TouchedFacts ==
  ASSUME NEW offset \in Nat, NEW count \in Nat, NEW size \in Nat, offset + count <= size,
         NEW ns, ns = Touched(offset, count)
  PROVE  /\ Cardinality(ns) \in Nat
         /\ \A k \in 1..Cardinality(ns) : First(ns) + k - 1 \in Nat /\ First(ns) + k - 1 < NBlocks(size)
  <1>1. CASE count = 0
    <2>1. Cardinality(ns) = 0
      BY <1>1, FS_EmptySet DEF Touched
    <2> QED  BY <2>1
  <1>2. CASE count # 0
    <2>1. offset + count - 1 \in Nat /\ offset + count - 1 < size /\ offset < size
      BY <1>2
    <2>2. PICK a \in Nat : a = offset \div BLKSIZE
      BY <2>1, ByteInFile
    <2>3. PICK b \in Nat : b = (offset + count - 1) \div BLKSIZE /\ b < NBlocks(size)
      BY <2>1, ByteInFile
    <2>4. ns = a..b
      BY <1>2, <2>2, <2>3 DEF Touched
    <2>5. Cardinality(ns) = IF a > b THEN 0 ELSE b - a + 1
      BY <2>4, FS_Interval
    <2>6. CASE a > b
      BY <2>5, <2>6
    <2>7. CASE a <= b
      <3>1. a \in ns /\ \A c \in ns : a <= c
        BY <2>4, <2>7
      <3>2. First(ns) \in ns /\ \A c \in ns : First(ns) <= c
        BY <3>1 DEF First
      <3>3. First(ns) \in Nat /\ First(ns) <= a /\ a <= First(ns)
        BY <2>4, <3>1, <3>2
      <3>4. First(ns) = a
        BY <3>3
      <3>5. NBlocks(size) \in Nat
        BY NBlocksFacts
      <3> QED  BY <2>3, <2>5, <2>7, <3>4, <3>5
    <2> QED  BY <2>6, <2>7
  <1> QED  BY <1>1, <1>2

LEMMA AccessKept ==
  ASSUME NEW r \in Req, Good(r.s), NEW f \in Places(r.s), NEW offset \in Nat, NEW count \in Nat,
         NoNegativeSizes => offset + count <= FileAt(r.s, f).size, NEW writes \in BOOLEAN,
         NEW r1, r1 = Access(r, f, Touched(offset, count), writes)
  PROVE  r1 \in Req /\ Kept(r.s, r1.s)
  <1>1. PICK ns : ns = Touched(offset, count)
    OBVIOUS
  <1>2. FileAt(r.s, f).size \in Int /\ f \in Owners(r.s) /\ (Regular(f) => NoNegativeSizes)
    BY PlaceFacts, FileType DEF Good, Owners, Regular
  <1>3. /\ Cardinality(ns) \in Nat
        /\ \A k \in 1..Cardinality(ns) :
             /\ First(ns) + k - 1 \in Nat
             /\ Regular(f) => First(ns) + k - 1 < NBlocks(FileAt(r.s, f).size)
    <2>1. PICK size \in Nat : size = offset + count
      OBVIOUS
    <2>2. /\ Cardinality(ns) \in Nat
          /\ \A k \in 1..Cardinality(ns) : First(ns) + k - 1 \in Nat /\ First(ns) + k - 1 < NBlocks(size)
      BY <1>1, <2>1, TouchedFacts
    <2>3. ASSUME Regular(f) PROVE NBlocks(size) <= NBlocks(FileAt(r.s, f).size)
      BY <1>2, <2>1, <2>3, NBlocksOrder
    <2>4. NBlocks(size) \in Nat /\ NBlocks(FileAt(r.s, f).size) \in Nat
      BY <1>2, <2>1, NBlocksType
    <2> QED  BY <2>2, <2>3, <2>4
  <1> DEFINE Q == {x \in Req : Kept(r.s, x.s)}
  <1>4. PICK P : P = [k \in 0..Cardinality(ns) |-> Q]
    OBVIOUS
  <1>5. r \in P[0]
    BY <1>3, <1>4, KeptSelf
  <1>6. ASSUME NEW k \in 1..Cardinality(ns), NEW x \in P[k - 1]
        PROVE  AccessTurn(x, f, ns, k, writes) \in P[k]
    <2>1. k - 1 \in 0..Cardinality(ns) /\ k \in 0..Cardinality(ns)
      BY <1>3
    <2>2. x \in Req /\ Kept(r.s, x.s) /\ P[k] = Q
      BY <1>4, <2>1
    <2>3. CASE x.failed
      BY <2>2, <2>3 DEF AccessTurn
    <2>4. CASE ~x.failed
      <3>1. PICK n \in Nat : n = First(ns) + k - 1 /\ (Regular(f) => n < NBlocks(FileAt(r.s, f).size))
        BY <1>3
      <3>2. Good(x.s) /\ f \in Places(x.s) /\ f \in Owners(x.s) /\ (Regular(f) => n < NBlocks(FileAt(x.s, f).size))
        BY <1>2, <2>2, <3>1 DEF Kept, Owners
      <3>3. PICK y : y = file_get_block(x, f, n)
        OBVIOUS
      <3>4. y \in Req /\ Kept(x.s, y.s) /\ (~y.failed => n \in Idx /\ Num(y.s, f, n) # 0)
        BY <2>2, <3>2, <3>3, GetBlock
      <3>5. Good(y.s) /\ f \in Places(y.s)
        BY <3>2, <3>4 DEF Kept
      <3>6. PICK z : z = Mark(y, f, n, writes)
        OBVIOUS
      <3>7. z \in Req /\ Kept(y.s, z.s)
        BY <3>4, <3>5, <3>6, MarkStep
      <3>8. AccessTurn(x, f, ns, k, writes) = z
        BY <2>4, <3>1, <3>3, <3>6 DEF AccessTurn
      <3>9. Kept(r.s, z.s)
        BY <2>2, <3>4, <3>7, KeptTrans
      <3> QED  BY <2>2, <3>7, <3>8, <3>9
    <2> QED  BY <2>3, <2>4
  <1>7. Access(r, f, ns, writes) \in P[Cardinality(ns)]
    BY <1>3, <1>5, <1>6, AccessLoop
  <1>8. r1 \in Q
    BY <1>1, <1>3, <1>4, <1>7
  <1> QED  BY <1>8

-----------------------------------------------------------------------------
(* Flushing, and a new size or name. *)

LEMMA FlushFileParts ==
  ASSUME NEW r \in Req, Sized(r.s), NEW f \in Owners(r.s), NEW r1, r1 = FlushFile(r, f)
  PROVE  /\ r1 \in Req /\ r1.s = r.s /\ r1.failed = r.failed
         /\ f = Root => r1.w = Append(r.w, <<"super", r.s.root>>)
         /\ f # Root => r1.w = Append(r.w, <<"blk", DirBlock(r.s, f), r.s.blk[DirBlock(r.s, f)]>>)
  <1>1. CASE f = Root
    <2>1. <<"super", r.s.root>> \in Write
      BY WriteTypes, StoreType DEF Sized
    <2>2. r1 = [r EXCEPT !.w = Append(@, <<"super", r.s.root>>)]
      BY <1>1 DEF FlushFile
    <2> QED  BY <1>1, <2>1, <2>2, FlushTypes
  <1>2. CASE f # Root
    <2>1. PICK D \in Blocks : D = DirBlock(r.s, f)
      BY <1>2, PlaceFacts DEF Owners
    <2>2. <<"blk", D, r.s.blk[D]>> \in Write
      BY WriteTypes, StoreType DEF Sized
    <2>3. r1 = [r EXCEPT !.w = Append(@, <<"blk", D, r.s.blk[D]>>)]
      BY <1>2, <2>1 DEF FlushFile, FlushBlock
    <2>4. r1 \in Req /\ r1.s = r.s /\ r1.failed = r.failed /\ r1.w = Append(r.w, <<"blk", D, r.s.blk[D]>>)
      BY <2>2, <2>3, FlushTypes
    <2> QED  BY <1>2, <2>1, <2>4
  <1> QED  BY <1>1, <1>2

LEMMA FlushBlockParts ==
  ASSUME NEW r \in Req, NEW b \in Blocks, NEW r1, r1 = FlushBlock(r, b)
  PROVE  r1 \in Req /\ r1.s = r.s /\ r1.failed = r.failed /\ r1.w = Append(r.w, <<"blk", b, r.s.blk[b]>>)
  <1>1. <<"blk", b, r.s.blk[b]>> \in Write
    BY WriteTypes, StoreType DEF Req
  <1>2. r1 = [r EXCEPT !.w = Append(@, <<"blk", b, r.s.blk[b]>>)]
    BY DEF FlushBlock
  <1> QED  BY <1>1, <1>2, FlushTypes

(* File f could have that size: it has no block past it. *)
EmptyFrom(s, f, size) == NoNegativeSizes => \A n \in PIdx : n >= NBlocks(size) => Num(s, f, n) = 0

LEMMA LabelStep ==
  ASSUME NEW r \in Req, Good(r.s), NEW f \in Places(r.s), NEW fl \in File,
         fl.direct = FileAt(r.s, f).direct, fl.indirect = FileAt(r.s, f).indirect,
         EmptyFrom(r.s, f, fl.size), NEW r1, r1 = SetFile(r, f, fl)
  PROVE  /\ r1 \in Req /\ r1.w = r.w /\ r1.failed = r.failed /\ FileChanged(r.s, r1.s, f, fl)
         /\ Relabel(r.s, r1.s, f) /\ FileAt(r1.s, f) = fl
         /\ Good(r1.s) /\ (Exact(r.s) => Exact(r1.s))
  <1>1. Sized(r.s) /\ Unshared(r.s) /\ f \in Owners(r.s)
    BY DEF Good, Owners
  <1>2. r1 \in Req /\ r1.w = r.w /\ r1.failed = r.failed /\ FileChanged(r.s, r1.s, f, fl)
    BY <1>1, SetFileParts
  <1>3. /\ FileAt(r1.s, f) = fl
        /\ \A o \in Owners(r.s) : o # f => FileAt(r1.s, o) = FileAt(r.s, o)
        /\ \A o \in Owners(r.s), n \in PIdx : o # f => Num(r1.s, o, n) = Num(r.s, o, n)
        /\ Num(r1.s, f, -1) = fl.indirect
        /\ \A n \in Idx : Num(r1.s, f, n) = PtrOf(r.s, fl, n)
    BY <1>1, <1>2, FileChangedEffect
  <1>4. \A n \in Idx : PtrOf(r.s, fl, n) = Num(r.s, f, n)
    <2>1. \A n \in Idx : PtrOf(r.s, fl, n) = PtrOf(r.s, FileAt(r.s, f), n)
      BY DEF PtrOf
    <2> QED  BY <1>1, <2>1, OwnerFacts
  <1>5. \A o \in Owners(r.s), n \in PIdx : Num(r1.s, o, n) = Num(r.s, o, n)
    <2>1. Num(r.s, f, -1) = fl.indirect
      BY DEF Num
    <2> QED  BY <1>3, <1>4, <2>1, ConstFacts
  <1>6. Relabel(r.s, r1.s, f)
    BY <1>2, <1>3, <1>5 DEF Relabel, FileChanged
  <1>7. \A n \in PIdx : Regular(f) /\ n >= NBlocks(FileAt(r1.s, f).size) => Num(r.s, f, n) = 0
    <2>1. Regular(f) => NoNegativeSizes
      BY <1>1, PlaceFacts DEF Regular
    <2> QED  BY <1>3, <2>1 DEF EmptyFrom
  <1>8. Good(r1.s) /\ (Exact(r.s) => Exact(r1.s))
    BY <1>1, <1>6, <1>7, RelabelGood
  <1> QED  BY <1>2, <1>3, <1>6, <1>8
-----------------------------------------------------------------------------
(* file_truncate_blocks. *)

(* Its first half: blocks F are freed, and entries of the indirect block i *)
(* (if any) cleared.                                                       *)
Cut(s, sa, i, gone, F) ==
  /\ sa \in Store /\ sa.root = s.root /\ sa.free = s.free \cup F
  /\ \A c \in Blocks : /\ sa.blk[c].file = s.blk[c].file /\ sa.blk[c].data = s.blk[c].data
                       /\ c # i => sa.blk[c].ptr = s.blk[c].ptr
  /\ i # 0 => \A k \in 0..(NINDIRECT - 1) :
                sa.blk[i].ptr[k] = IF k + NDIRECT \in gone THEN 0 ELSE s.blk[i].ptr[k]

SetCut(r, i, gone, F) ==
  [r EXCEPT !.s.free = @ \cup F, !.s.blk = ClearEntries(@, i, gone)]

LEMMA SetCutParts ==
  ASSUME NEW r \in Req, NEW i \in 0..NB, NEW gone, NEW F \in SUBSET Blocks, NEW r1, r1 = SetCut(r, i, gone, F)
  PROVE  r1 \in Req /\ r1.w = r.w /\ r1.failed = r.failed /\ Cut(r.s, r1.s, i, gone, F)
  <1>1. r.s \in Store /\ r.s.blk \in [Blocks -> Block] /\ r.s.free \subseteq Blocks
    BY StoreType DEF Req
  <1>2. PICK bl : bl = ClearEntries(r.s.blk, i, gone)
    OBVIOUS
  <1>3. /\ bl \in [Blocks -> Block]
        /\ \A c \in Blocks : /\ bl[c].file = r.s.blk[c].file /\ bl[c].data = r.s.blk[c].data
                             /\ c # i => bl[c].ptr = r.s.blk[c].ptr
        /\ i # 0 => \A k \in 0..(NINDIRECT - 1) :
                      bl[i].ptr[k] = IF k + NDIRECT \in gone THEN 0 ELSE r.s.blk[i].ptr[k]
    <2>1. CASE i = 0
      BY <1>1, <1>2, <2>1 DEF ClearEntries
    <2>2. CASE i # 0
      <3>1. i \in Blocks
        BY <2>2, ConstFacts DEF Blocks
      <3>2. PICK old : old = r.s.blk[i].ptr
        OBVIOUS
      <3>3. old \in [0..(NINDIRECT - 1) -> 0..NB] /\ r.s.blk[i] \in Block /\ 0 \in 0..NB
        BY <1>1, <3>1, <3>2, StoreType, ConstFacts
      <3>4. PICK new : new = [k \in DOMAIN old |-> IF k + NDIRECT \in gone THEN 0 ELSE old[k]]
        OBVIOUS
      <3>5. DOMAIN old = 0..(NINDIRECT - 1)
        BY <3>3
      <3>6. new \in [0..(NINDIRECT - 1) -> 0..NB]
        BY <3>3, <3>4, <3>5
      <3>7. \A k \in 0..(NINDIRECT - 1) : new[k] = IF k + NDIRECT \in gone THEN 0 ELSE old[k]
        BY <3>4, <3>5
      <3>8. PICK x : x = [r.s.blk[i] EXCEPT !.ptr = new]
        OBVIOUS
      <3>9. x \in Block /\ x.ptr = new /\ x.file = r.s.blk[i].file /\ x.data = r.s.blk[i].data
        BY <3>3, <3>6, <3>8 DEF Block
      <3>10. bl = [r.s.blk EXCEPT ![i] = x]
        BY <1>2, <2>2, <3>2, <3>4, <3>8 DEF ClearEntries
      <3>11. bl \in [Blocks -> Block] /\ bl[i] = x /\ \A c \in Blocks : c # i => bl[c] = r.s.blk[c]
        BY <1>1, <3>1, <3>9, <3>10
      <3>12. \A k \in 0..(NINDIRECT - 1) : bl[i].ptr[k] = IF k + NDIRECT \in gone THEN 0 ELSE r.s.blk[i].ptr[k]
        BY <3>2, <3>7, <3>9, <3>11
      <3> QED  BY <3>9, <3>11, <3>12
    <2> QED  BY <2>1, <2>2
  <1>4. PICK s1 : s1 = [r.s EXCEPT !.free = r.s.free \cup F, !.blk = bl]
    OBVIOUS
  <1>5. s1 \in Store /\ s1.root = r.s.root /\ s1.free = r.s.free \cup F /\ s1.blk = bl
    BY <1>1, <1>3, <1>4 DEF Store
  <1>6. r1 = [r EXCEPT !.s = s1]
    BY <1>1, <1>2, <1>4 DEF SetCut, Req, Store
  <1>7. r1 \in Req /\ r1.w = r.w /\ r1.failed = r.failed /\ r1.s = s1
    BY <1>5, <1>6 DEF Req
  <1>8. Cut(r.s, s1, i, gone, F)
    BY <1>3, <1>5 DEF Cut
  <1> QED  BY <1>7, <1>8

(* The indirect block is f's alone: no other file notices. *)
CutShows(s, sa, f, gone) ==
  /\ Sized(sa) /\ SameDir(s, sa) /\ Owners(sa) = Owners(s) /\ Unshared(sa)
  /\ \A o \in Owners(s) : FileAt(sa, o) = FileAt(s, o)
  /\ \A o \in Owners(s), n \in PIdx :
       Num(sa, o, n) = IF o = f /\ n >= NDIRECT /\ n \in gone THEN 0 ELSE Num(s, o, n)

LEMMA CutEffect ==
  ASSUME NEW s, Good(s), NEW f \in Places(s), NEW i, i = FileAt(s, f).indirect, NEW gone, NEW F,
         NEW sa, Cut(s, sa, i, gone, F)
  PROVE  CutShows(s, sa, f, gone)
  <1>1. /\ sa \in Store /\ sa.root = s.root /\ Sized(s) /\ f \in Owners(s) /\ Root \in Owners(s)
        /\ \A c \in Blocks : /\ sa.blk[c].file = s.blk[c].file
                             /\ c # i => sa.blk[c].ptr = s.blk[c].ptr
        /\ i # 0 => \A k \in 0..(NINDIRECT - 1) :
                      sa.blk[i].ptr[k] = IF k + NDIRECT \in gone THEN 0 ELSE s.blk[i].ptr[k]
    BY DEF Cut, Good, Owners
  <1>2. ASSUME NEW o \in Owners(s), o # f, NEW n PROVE PtrOf(sa, FileAt(s, o), n) = PtrOf(s, FileAt(s, o), n)
    <2>1. CASE FileAt(s, o).indirect = 0
      BY <2>1 DEF PtrOf
    <2>2. CASE FileAt(s, o).indirect # 0
      <3>1. FileAt(s, o).indirect \in Blocks
        BY <1>1, <2>2, OwnerFacts, FileType, ConstFacts DEF Blocks
      <3>2. Num(s, o, -1) = FileAt(s, o).indirect /\ Num(s, f, -1) = i /\ -1 \in PIdx
        BY ConstFacts DEF Num
      <3>3. FileAt(s, o).indirect # i
        BY <1>1, <1>2, <2>2, <3>2 DEF Good, Unshared
      <3> QED  BY <1>1, <3>1, <3>3 DEF PtrOf
    <2> QED  BY <2>1, <2>2
  <1>3. SameDir(s, sa)
    <2>1. Root # f /\ FileAt(s, Root) = s.root
      BY <1>1, PlaceFacts DEF FileAt
    <2>2. \A g : DirBlock(sa, g) = DirBlock(s, g)
      BY <1>1, <1>2, <2>1 DEF DirBlock
    <2> QED  BY <1>1, <2>2 DEF SameDir, Places
  <1>4. Sized(sa) /\ Owners(sa) = Owners(s)
    BY <1>1, <1>3 DEF Sized, Owners, SameDir
  <1>5. ASSUME NEW o \in Owners(s) PROVE FileAt(sa, o) = FileAt(s, o)
    <2>1. CASE o = Root
      BY <1>1, <2>1 DEF FileAt
    <2>2. CASE o # Root
      <3>1. o \in Places(s) /\ DirBlock(s, o) \in Blocks /\ DirBlock(sa, o) = DirBlock(s, o)
        BY <1>1, <1>3, <2>2, PlaceFacts DEF Owners, SameDir
      <3> QED  BY <1>1, <2>2, <3>1 DEF FileAt
    <2> QED  BY <2>1, <2>2
  <1>6. ASSUME NEW o \in Owners(s), NEW n \in PIdx
        PROVE  Num(sa, o, n) = IF o = f /\ n >= NDIRECT /\ n \in gone THEN 0 ELSE Num(s, o, n)
    <2>0. NDIRECT \in Nat /\ n \in Int /\ NINDIRECT \in Nat
      BY ConstFacts DEF PIdx
    <2>1. CASE o # f
      BY <1>2, <1>5, <2>1 DEF Num, BlockOf
    <2>2. CASE o = f /\ n < NDIRECT
      <3>1. Num(sa, o, n) = Num(s, o, n)
        BY <1>5, <2>2 DEF Num, BlockOf, PtrOf
      <3>2. ~(n >= NDIRECT)
        BY <2>0, <2>2
      <3> QED  BY <3>1, <3>2
    <2>3. CASE o = f /\ n >= NDIRECT /\ i = 0
      <3>1. n # -1 /\ ~(n < NDIRECT)
        BY <2>0, <2>3
      <3> QED  BY <1>5, <2>3, <3>1 DEF Num, BlockOf, PtrOf
    <2>4. CASE o = f /\ n >= NDIRECT /\ i # 0
      <3>1. n # -1 /\ ~(n < NDIRECT) /\ n - NDIRECT \in 0..(NINDIRECT - 1) /\ (n - NDIRECT) + NDIRECT = n
        BY <2>0, <2>4 DEF PIdx
      <3>2. Num(sa, f, n) = sa.blk[i].ptr[n - NDIRECT] /\ Num(s, f, n) = s.blk[i].ptr[n - NDIRECT]
        BY <1>1, <1>5, <2>4, <3>1 DEF Num, BlockOf, PtrOf
      <3> QED  BY <1>1, <2>4, <3>1, <3>2
    <2> QED  BY <2>0, <2>1, <2>2, <2>3, <2>4
  <1>7. Unshared(sa)
    <2> SUFFICES ASSUME NEW o \in Owners(s), NEW q \in Owners(s), NEW k \in PIdx, NEW m \in PIdx,
                        Num(sa, o, k) = Num(sa, q, m), Num(sa, o, k) # 0
                 PROVE  o = q /\ k = m
      BY <1>4 DEF Unshared
    <2>1. Num(sa, o, k) = Num(s, o, k) /\ Num(sa, q, m) = Num(s, q, m)
      BY <1>6
    <2>2. Num(s, o, k) = Num(s, q, m) /\ Num(s, o, k) # 0
      BY <2>1
    <2> QED  BY <2>2 DEF Good, Unshared
  <1> QED  BY <1>3, <1>4, <1>5, <1>6, <1>7 DEF CutShows

LEMMA ClearedFile ==
  ASSUME NEW fl \in File, NEW newsize, NEW fl1, fl1 = ClearPointers(fl, newsize)
  PROVE  /\ fl1 \in File /\ fl1.size = fl.size /\ fl1.name = fl.name
         /\ fl1.indirect = IF DropIndirect(fl, newsize) THEN 0 ELSE fl.indirect
         /\ \A n \in 0..(NDIRECT - 1) :
              fl1.direct[n] = IF n \in Gone(fl.size, newsize) THEN 0 ELSE fl.direct[n]
  <1>1. PICK old : old = fl.direct
    OBVIOUS
  <1>2. old \in [0..(NDIRECT - 1) -> 0..NB] /\ DOMAIN old = 0..(NDIRECT - 1) /\ 0 \in 0..NB
    BY <1>1, FileType, ConstFacts
  <1>3. PICK new : new = [n \in DOMAIN old |-> IF n \in Gone(fl.size, newsize) THEN 0 ELSE old[n]]
    OBVIOUS
  <1>4. new \in [0..(NDIRECT - 1) -> 0..NB]
    BY <1>2, <1>3
  <1>5. \A n \in 0..(NDIRECT - 1) : new[n] = IF n \in Gone(fl.size, newsize) THEN 0 ELSE old[n]
    BY <1>2, <1>3
  <1>6. PICK i : i = IF DropIndirect(fl, newsize) THEN 0 ELSE fl.indirect
    OBVIOUS
  <1>7. i \in 0..NB
    BY <1>2, <1>6, FileType
  <1>8. fl1 = [fl EXCEPT !.direct = new, !.indirect = i]
    BY <1>1, <1>3, <1>6 DEF ClearPointers, File
  <1> QED  BY <1>1, <1>4, <1>5, <1>6, <1>7, <1>8 DEF File

LEMMA TruncateStep ==
  ASSUME NEW r \in Req, Good(r.s), NEW f \in Places(r.s), NEW newsize \in Sizes,
         NEW r1, r1 = file_truncate_blocks(r, f, newsize)
  PROVE  /\ r1 \in Req /\ r1.w = r.w /\ r1.failed = r.failed
         /\ \E G \in SUBSET PIdx, H \in SUBSET PIdx : Detach(r.s, r1.s, f, G, H)
         /\ Good(r1.s) /\ (Exact(r.s) => Exact(r1.s)) /\ SameDir(r.s, r1.s)
         /\ FileAt(r1.s, f) = ClearPointers(FileAt(r.s, f), newsize)
         /\ \A o \in Owners(r.s) : o # f => FileAt(r1.s, o) = FileAt(r.s, o)
         /\ EmptyFrom(r1.s, f, newsize)
  <1>1. PICK s \in Store : s = r.s /\ Good(s)
    BY DEF Req
  <1>2. PICK fl \in File : fl = FileAt(s, f)
    BY <1>1, PlaceFacts DEF Good
  <1>3. PICK old \in Nat, new \in Nat : old = NBlocks(fl.size) /\ new = NBlocks(newsize)
    BY FileType, NBlocksType, ConstFacts
  <1>4. PICK gone : /\ gone \subseteq Idx /\ gone = Gone(fl.size, newsize)
                    /\ \A n \in Idx : n \in gone <=> BlockCount(newsize) <= n /\ n < BlockCount(fl.size)
    <2>1. Gone(fl.size, newsize) = {n \in Idx : BlockCount(newsize) <= n /\ n < BlockCount(fl.size)}
      <3>1. MaxBlocks - 1 = NDIRECT + NINDIRECT - 1
        BY ConstFacts
      <3> QED  BY <3>1 DEF Gone, Idx
    <2>2. PICK gone : gone = {n \in Idx : BlockCount(newsize) <= n /\ n < BlockCount(fl.size)}
      OBVIOUS
    <2>3. gone \subseteq Idx /\ \A n \in Idx : n \in gone <=> BlockCount(newsize) <= n /\ n < BlockCount(fl.size)
      BY <2>2
    <2>4. gone = Gone(fl.size, newsize)
      BY <2>1, <2>2
    <2> QED  BY <2>3, <2>4
  <1>5. PICK F : F = Freed(s, f, newsize)
    OBVIOUS
  <1>6. PICK drop \in BOOLEAN : drop = DropIndirect(fl, newsize)
    BY DEF DropIndirect
  <1>29. ASSUME NoNegativeSizes
         PROVE  /\ \A n \in Idx : n \in gone <=> new <= n /\ n < old
                /\ drop <=> new <= NDIRECT /\ fl.indirect # 0
    <2>1. BlockCount(fl.size) = old /\ BlockCount(newsize) = new
      BY <1>3, <1>29, FileType, BlockCountIs, ConstFacts
    <2>2. drop <=> new <= NDIRECT /\ fl.indirect # 0
      BY <1>6, <2>1 DEF DropIndirect
    <2> QED  BY <1>4, <2>1, <2>2
  <1>7. PICK H, G : /\ H = gone \cup (IF drop THEN {-1} ELSE {})
                    /\ G = H \cup (IF drop THEN {n \in Idx : n >= NDIRECT} ELSE {})
    OBVIOUS
  <1>8. /\ NDIRECT \in Nat /\ NINDIRECT \in Nat /\ G \subseteq PIdx /\ H \subseteq PIdx /\ H \subseteq G
        /\ \A n \in Idx : n \in G <=> n \in gone \/ (drop /\ n >= NDIRECT)
        /\ -1 \in G <=> drop
    BY <1>4, <1>7, ConstFacts
  <1>9. f \in Owners(s) /\ Sized(s) /\ \A n \in Idx : BlockOf(s, f, n) = Num(s, f, n)
    BY <1>1, OwnerFacts DEF Owners, Good
  <1>10. F = {Num(s, f, m) : m \in H} \ {0}
    <2>1. {BlockOf(s, f, n) : n \in gone} = {Num(s, f, m) : m \in gone}
      BY <1>4, <1>9
    <2>2. F = ({BlockOf(s, f, n) : n \in gone} \cup {IF drop THEN fl.indirect ELSE 0}) \ {0}
      BY <1>1, <1>2, <1>4, <1>5, <1>6 DEF Freed
    <2>3. fl.indirect = Num(s, f, -1)
      BY <1>2 DEF Num
    <2>4. F = ({Num(s, f, m) : m \in gone} \cup {IF drop THEN Num(s, f, -1) ELSE 0}) \ {0}
      BY <2>1, <2>2, <2>3
    <2>5. CASE drop
      BY <1>7, <2>4, <2>5
    <2>6. CASE ~drop
      BY <1>7, <2>4, <2>6
    <2> QED  BY <2>5, <2>6
  <1>11. F \subseteq Blocks
    BY <1>8, <1>9, <1>10, OwnerFacts
  <1>12. PICK ra : ra = SetCut(r, fl.indirect, gone, F)
    OBVIOUS
  <1>13. PICK fl1 : fl1 = ClearPointers(fl, newsize)
    OBVIOUS
  <1>14. /\ fl1 \in File /\ fl1.size = fl.size /\ fl1.name = fl.name
         /\ fl1.indirect = IF drop THEN 0 ELSE fl.indirect
         /\ \A n \in 0..(NDIRECT - 1) : fl1.direct[n] = IF n \in gone THEN 0 ELSE fl.direct[n]
    <2>1. /\ fl1 \in File /\ fl1.size = fl.size /\ fl1.name = fl.name
          /\ fl1.indirect = IF DropIndirect(fl, newsize) THEN 0 ELSE fl.indirect
          /\ \A n \in 0..(NDIRECT - 1) :
               fl1.direct[n] = IF n \in Gone(fl.size, newsize) THEN 0 ELSE fl.direct[n]
      BY <1>13, ClearedFile
    <2> QED  BY <1>4, <1>6, <2>1
  <1>15. r1 = SetFile(ra, f, fl1)
    BY <1>1, <1>2, <1>4, <1>5, <1>12, <1>13 DEF file_truncate_blocks, SetCut
  <1>16. ra \in Req /\ ra.w = r.w /\ ra.failed = r.failed /\ Cut(s, ra.s, fl.indirect, gone, F)
    BY <1>1, <1>11, <1>12, FileType, SetCutParts
  <1>17. /\ Sized(ra.s) /\ SameDir(s, ra.s) /\ Owners(ra.s) = Owners(s) /\ Unshared(ra.s)
         /\ \A o \in Owners(s) : FileAt(ra.s, o) = FileAt(s, o)
         /\ \A o \in Owners(s), n \in PIdx :
              Num(ra.s, o, n) = IF o = f /\ n >= NDIRECT /\ n \in gone THEN 0 ELSE Num(s, o, n)
    <2>1. PICK i : i = fl.indirect
      OBVIOUS
    <2>2. i = FileAt(s, f).indirect /\ Cut(s, ra.s, i, gone, F)
      BY <1>2, <1>16, <2>1
    <2>3. CutShows(s, ra.s, f, gone)
      BY <1>1, <2>2, CutEffect
    <2> QED  BY <2>3 DEF CutShows
  <1>18. f \in Places(ra.s)
    BY <1>1, <1>17 DEF SameDir
  <1>19. r1 \in Req /\ r1.w = r.w /\ r1.failed = r.failed /\ FileChanged(ra.s, r1.s, f, fl1)
    BY <1>14, <1>15, <1>16, <1>17, <1>18, SetFileParts
  <1>20. /\ FileAt(r1.s, f) = fl1
         /\ \A o \in Owners(s) : o # f => FileAt(r1.s, o) = FileAt(ra.s, o)
         /\ \A o \in Owners(s), n \in PIdx : o # f => Num(r1.s, o, n) = Num(ra.s, o, n)
         /\ Num(r1.s, f, -1) = fl1.indirect
         /\ \A n \in Idx : Num(r1.s, f, n) = PtrOf(ra.s, fl1, n)
    BY <1>14, <1>17, <1>18, <1>19, FileChangedEffect
  <1>21. ASSUME NEW n \in Idx PROVE Num(r1.s, f, n) = IF n \in G THEN 0 ELSE Num(s, f, n)
    <2>1. n \in Int /\ n \in PIdx /\ n >= 0 /\ Num(s, f, n) = PtrOf(s, fl, n) /\ Num(ra.s, f, n) = PtrOf(ra.s, fl, n)
      BY <1>2, <1>9, <1>17, ConstFacts DEF Idx, Num, BlockOf
    <2>2. CASE n < NDIRECT
      <3>1. n \in 0..(NDIRECT - 1)
        BY <1>8, <2>1, <2>2
      <3> QED  BY <1>8, <1>14, <1>20, <2>1, <2>2, <3>1 DEF PtrOf
    <2>3. CASE n >= NDIRECT /\ ~drop
      <3>1. ~(n < NDIRECT)
        BY <1>8, <2>1, <2>3
      <3>2. PtrOf(ra.s, fl1, n) = PtrOf(ra.s, fl, n)
        BY <1>14, <2>3, <3>1 DEF PtrOf
      <3> QED  BY <1>8, <1>9, <1>17, <1>20, <2>1, <2>3, <3>2
    <2>4. CASE n >= NDIRECT /\ drop
      <3>1. ~(n < NDIRECT) /\ fl1.indirect = 0
        BY <1>8, <1>14, <2>1, <2>4
      <3>2. Num(r1.s, f, n) = 0
        BY <1>20, <3>1 DEF PtrOf
      <3> QED  BY <1>8, <2>4, <3>2
    <2> QED  BY <1>8, <2>1, <2>2, <2>3, <2>4
  <1>22. ASSUME NEW o \in Owners(s), NEW n \in PIdx
         PROVE  Num(r1.s, o, n) = IF o = f /\ n \in G THEN 0 ELSE Num(s, o, n)
    <2>1. CASE o # f
      BY <1>17, <1>20, <2>1
    <2>2. CASE o = f /\ n = -1
      <3>1. Num(s, f, -1) = fl.indirect
        BY <1>2 DEF Num
      <3> QED  BY <1>8, <1>14, <1>20, <2>2, <3>1
    <2>3. CASE o = f /\ n \in Idx
      BY <1>21, <2>3
    <2> QED  BY <2>1, <2>2, <2>3, ConstFacts
  <1>23. SameDir(s, r1.s) /\ Sized(r1.s)
    BY <1>17, <1>19 DEF SameDir, FileChanged
  <1>24. Detach(s, r1.s, f, G, H)
    <2>1. r1.s.free = s.free \cup F
      BY <1>16, <1>19 DEF FileChanged, Cut
    <2>2. \A o \in Owners(s) : FileAt(r1.s, o).size = FileAt(s, o).size
      BY <1>2, <1>14, <1>17, <1>20
    <2>3. \A c \in Blocks : r1.s.blk[c].data = s.blk[c].data
      BY <1>16, <1>19 DEF FileChanged, Cut
    <2>4. ASSUME NoNegativeSizes, NEW m \in G \ H PROVE Num(s, f, m) = 0
      <3>1. m \in Idx /\ m \notin gone /\ drop /\ m >= NDIRECT /\ m \in Int
        BY <1>7, <2>4 DEF Idx
      <3>2. m >= old
        BY <1>3, <1>8, <1>29, <2>4, <3>1
      <3> QED  BY <1>1, <1>2, <1>3, <1>9, <2>4, <3>1, <3>2, ConstFacts DEF Good, Short, Regular
    <2> QED  BY <1>8, <1>10, <1>22, <1>23, <2>1, <2>2, <2>3, <2>4 DEF Detach
  <1>25. Good(r1.s) /\ (Exact(s) => Exact(r1.s))
    BY <1>1, <1>8, <1>9, <1>24, DetachGood
  <1>26. ASSUME NoNegativeSizes, NEW n \in PIdx, n >= NBlocks(newsize) PROVE Num(r1.s, f, n) = 0
    <2>1. n \in Idx /\ n \in Int
      BY <1>3, <1>26, ConstFacts DEF PIdx, Idx
    <2>2. n \in gone \/ n >= old
      BY <1>3, <1>26, <1>29, <2>1
    <2>3. n >= old => Num(s, f, n) = 0
      BY <1>1, <1>2, <1>3, <1>9, <1>26 DEF Good, Short, Regular
    <2> QED  BY <1>8, <1>21, <2>1, <2>2, <2>3
  <1>27. \A o \in Owners(s) : o # f => FileAt(r1.s, o) = FileAt(s, o)
    BY <1>17, <1>20
  <1>28. EmptyFrom(r1.s, f, newsize)
    BY <1>26 DEF EmptyFrom
  <1> QED  BY <1>1, <1>2, <1>8, <1>13, <1>19, <1>20, <1>23, <1>24, <1>25, <1>27, <1>28
-----------------------------------------------------------------------------
(* The operations on an open file, in memory. *)

Sound(s, s1) == Good(s1) /\ (Exact(s) => Exact(s1)) /\ Places(s) \subseteq Places(s1)

LEMMA KeptSound == ASSUME NEW s, NEW s1, Kept(s, s1) PROVE Sound(s, s1)
  BY DEF Kept, Sound

LEMMA SoundTrans == ASSUME NEW s, NEW t, NEW u, Sound(s, t), Sound(t, u) PROVE Sound(s, u)
  BY DEF Sound

(* A file that gets another size, as the blocks it has allow. *)
SizeWritten(r, r1, f, size) ==
  /\ FileChanged(r.s, r1.s, f, [FileAt(r.s, f) EXCEPT !.size = size])
  /\ r1.w = Append(r.w, <<"blk", DirBlock(r1.s, f), r1.s.blk[DirBlock(r1.s, f)]>>)

LEMMA ResizedStep ==
  ASSUME NEW r \in Req, Good(r.s), NEW f \in Places(r.s), NEW size \in Sizes,
         EmptyFrom(r.s, f, size), NEW r1, r1 = Resized(r, f, size)
  PROVE  /\ r1 \in Req /\ Sound(r.s, r1.s) /\ r1.failed = r.failed
         /\ Places(r1.s) = Places(r.s) /\ FileAt(r1.s, f).size = size
         /\ SizeWritten(r, r1, f, size)
  <1>1. PICK fl \in File : fl = FileAt(r.s, f)
    BY PlaceFacts DEF Good
  <1>2. PICK fl1 : fl1 = [fl EXCEPT !.size = size]
    OBVIOUS
  <1>3. fl1 \in File /\ fl1.size = size /\ fl1.direct = fl.direct /\ fl1.indirect = fl.indirect
    BY <1>2 DEF File
  <1>4. PICK ra : ra = SetFile(r, f, fl1)
    OBVIOUS
  <1>5. r1 = FlushFile(ra, f)
    BY <1>1, <1>2, <1>4 DEF Resized
  <1>6. /\ ra \in Req /\ ra.w = r.w /\ ra.failed = r.failed /\ FileChanged(r.s, ra.s, f, fl1)
        /\ FileAt(ra.s, f) = fl1 /\ Good(ra.s) /\ (Exact(r.s) => Exact(ra.s))
    <2>1. EmptyFrom(r.s, f, fl1.size)
      BY <1>3
    <2> QED  BY <1>1, <1>3, <1>4, <2>1, LabelStep
  <1>7. Places(ra.s) = Places(r.s) /\ f \in Owners(ra.s) /\ f # Root /\ Sized(ra.s)
    BY <1>6, PlaceFacts DEF FileChanged, SameDir, Owners, Good
  <1>8. /\ r1 \in Req /\ r1.s = ra.s /\ r1.failed = ra.failed
        /\ r1.w = Append(ra.w, <<"blk", DirBlock(ra.s, f), ra.s.blk[DirBlock(ra.s, f)]>>)
    BY <1>5, <1>6, <1>7, FlushFileParts
  <1>9. Sound(r.s, r1.s)
    BY <1>6, <1>7, <1>8 DEF Sound
  <1> QED  BY <1>1, <1>2, <1>3, <1>6, <1>7, <1>8, <1>9 DEF SizeWritten

(* What a file of some size need not have, it does not have after the     *)
(* truncation that the new size may call for.                              *)
LEMMA SetSizeStep ==
  ASSUME NEW r \in Req, Good(r.s), NEW f \in Places(r.s), NEW size \in Sizes,
         NEW r1, r1 = file_set_size(r, f, size)
  PROVE  /\ r1 \in Req /\ Sound(r.s, r1.s) /\ r1.failed = r.failed
         /\ Places(r1.s) = Places(r.s) /\ FileAt(r1.s, f).size = size
  <1>1. PICK fl \in File : fl = FileAt(r.s, f) /\ f \in Owners(r.s)
    BY PlaceFacts DEF Good, Owners
  <1>2. PICK ra : ra = IF fl.size > size THEN file_truncate_blocks(r, f, size) ELSE r
    OBVIOUS
  <1>3. r1 = Resized(ra, f, size)
    BY <1>1, <1>2 DEF file_set_size
  <1>4. size \in Int /\ fl.size \in Int
    BY FileType, ConstFacts
  <1>5. /\ ra \in Req /\ Sound(r.s, ra.s) /\ ra.failed = r.failed /\ Places(ra.s) = Places(r.s)
        /\ EmptyFrom(ra.s, f, size)
    <2>1. CASE fl.size > size
      <3>1. ra = file_truncate_blocks(r, f, size)
        BY <1>2, <2>1
      <3>2. /\ ra \in Req /\ ra.failed = r.failed /\ Good(ra.s) /\ (Exact(r.s) => Exact(ra.s))
            /\ SameDir(r.s, ra.s) /\ EmptyFrom(ra.s, f, size)
        BY <3>1, TruncateStep
      <3> QED  BY <3>2 DEF Sound, SameDir
    <2>2. CASE ~(fl.size > size)
      <3>1. NBlocks(fl.size) <= NBlocks(size) /\ NBlocks(fl.size) \in Nat /\ NBlocks(size) \in Nat
        BY <1>4, <2>2, NBlocksOrder, NBlocksType
      <3>2. ASSUME NoNegativeSizes, NEW n \in PIdx, n >= NBlocks(size) PROVE Num(r.s, f, n) = 0
        <4>1. n >= NBlocks(fl.size)
          BY <3>1, <3>2, ConstFacts DEF PIdx
        <4> QED  BY <1>1, <3>2, <4>1 DEF Good, Short, Regular
      <3> QED  BY <1>2, <2>2, <3>2 DEF Sound, EmptyFrom
    <2> QED  BY <2>1, <2>2
  <1>6. Good(ra.s) /\ f \in Places(ra.s)
    BY <1>5 DEF Sound
  <1>7. /\ r1 \in Req /\ Sound(ra.s, r1.s) /\ r1.failed = ra.failed
        /\ Places(r1.s) = Places(ra.s) /\ FileAt(r1.s, f).size = size
    BY <1>3, <1>5, <1>6, ResizedStep
  <1> QED  BY <1>5, <1>7, SoundTrans

LEMMA ReadStep ==
  ASSUME NEW r \in Req, Good(r.s), NEW f \in Places(r.s), NEW offset \in Nat, NEW count \in Nat,
         NEW r1, r1 = file_read(r, f, count, offset)
  PROVE  r1 \in Req /\ Kept(r.s, r1.s)
  <1>1. PICK size \in Int : size = FileAt(r.s, f).size
    BY PlaceFacts, FileType DEF Good
  <1>2. CASE offset >= size
    BY <1>1, <1>2, KeptSelf DEF file_read
  <1>3. CASE ~(offset >= size)
    <2>0. size \in Nat
      BY <1>3
    <2>1. PICK c \in Nat : c = IF count < size - offset THEN count ELSE size - offset
      BY <1>3, <2>0
    <2>2. offset + c <= size
      BY <1>3, <2>0, <2>1
    <2>3. r1 = Access(r, f, Touched(offset, c), FALSE)
      BY <1>1, <1>3, <2>1 DEF file_read
    <2> QED  BY <1>1, <2>2, <2>3, AccessKept
  <1> QED  BY <1>2, <1>3

(* The size is compared as an unsigned one. *)
LEMMA GrowsForWrite ==
  ASSUME NEW size \in Sizes, NEW n \in Nat, ~(n > size % WORD)
  PROVE  NoNegativeSizes => n <= size
  <1> SUFFICES ASSUME NoNegativeSizes PROVE n <= size
    OBVIOUS
  <1>1. size \in 0..MaxSize /\ size \in Int
    BY ConstFacts
  <1>2. size % WORD = size
    BY <1>1, SizeInWord
  <1> QED  BY <1>1, <1>2

LEMMA WriteStep ==
  ASSUME NEW r \in Req, Good(r.s), NEW f \in Places(r.s), NEW offset \in Nat, NEW count \in Nat,
         offset + count <= MaxSize, NEW r1, r1 = file_write(r, f, count, offset)
  PROVE  r1 \in Req /\ Sound(r.s, r1.s)
  <1>1. PICK size \in Sizes : size = FileAt(r.s, f).size
    BY PlaceFacts, FileType DEF Good
  <1>2. PICK ra : ra = IF offset + count > size % WORD THEN file_set_size(r, f, offset + count) ELSE r
    OBVIOUS
  <1>3. r1 = Access(ra, f, Touched(offset, count), TRUE)
    BY <1>1, <1>2 DEF file_write
  <1>4. /\ ra \in Req /\ Sound(r.s, ra.s)
        /\ NoNegativeSizes => offset + count <= FileAt(ra.s, f).size
    <2>1. CASE offset + count > size % WORD
      <3>1. PICK n \in Sizes : n = offset + count /\ n \in Int
        <4>1. offset + count \in 0..MaxSize
          BY ConstFacts
        <4> QED  BY <4>1, ConstFacts
      <3>2. ra = file_set_size(r, f, n)
        BY <1>2, <2>1, <3>1
      <3>3. ra \in Req /\ Sound(r.s, ra.s) /\ FileAt(ra.s, f).size = n
        BY <3>2, SetSizeStep
      <3> QED  BY <3>1, <3>3
    <2>2. CASE ~(offset + count > size % WORD)
      <3>1. PICK n \in Nat : n = offset + count
        OBVIOUS
      <3>2. NoNegativeSizes => n <= size
        BY <2>2, <3>1, GrowsForWrite
      <3> QED  BY <1>1, <1>2, <2>2, <3>1, <3>2 DEF Sound
    <2> QED  BY <2>1, <2>2
  <1>5. Good(ra.s) /\ f \in Places(ra.s)
    BY <1>4 DEF Sound
  <1>6. r1 \in Req /\ Kept(ra.s, r1.s)
    BY <1>3, <1>4, <1>5, AccessKept
  <1> QED  BY <1>4, <1>6, KeptSound, SoundTrans

(* Flushing a file writes to the disk only. *)
FlushedTo(r, r1, f, n) ==
  \/ r1 = r /\ (n \in Idx => Num(r.s, f, n) = 0)
  \/ /\ Num(r.s, f, n) \in Blocks
     /\ r1.w = Append(r.w, <<"blk", Num(r.s, f, n), r.s.blk[Num(r.s, f, n)]>>)

LEMMA FlushPlaceParts ==
  ASSUME NEW r \in Req, Sized(r.s), NEW f \in Owners(r.s), NEW n \in Nat, n < NBlocks(FileAt(r.s, f).size),
         NEW r1, r1 = FlushPlace(r, f, n)
  PROVE  /\ r1 \in Req /\ r1.s = r.s /\ r1.failed = r.failed
         /\ f = Root => n \in Idx
         /\ FlushedTo(r, r1, f, n)
  <1>1. f = Root => n \in Idx
    <2>1. FileAt(r.s, Root) = r.s.root /\ NBlocks(r.s.root.size) \in 0..(NDIRECT + NINDIRECT)
      BY NBlocksBounds DEF FileAt, Sized
    <2> QED  BY <2>1, ConstFacts DEF Idx
  <1>2. n \in Idx => /\ BlockOf(r.s, f, n) = Num(r.s, f, n) /\ ~(n >= MaxBlocks)
                     /\ Num(r.s, f, n) # 0 => Num(r.s, f, n) \in Blocks
    BY OwnerFacts, ConstFacts DEF Idx
  <1>3. CASE n \notin Idx \/ Num(r.s, f, n) = 0
    <2>1. n \notin Idx => n >= MaxBlocks
      BY ConstFacts DEF Idx
    <2>2. r1 = r
      BY <1>2, <1>3, <2>1 DEF FlushPlace
    <2> QED  BY <1>1, <1>3, <2>2 DEF FlushedTo
  <1>4. CASE n \in Idx /\ Num(r.s, f, n) # 0
    <2>1. PICK b \in Blocks : b = Num(r.s, f, n)
      BY <1>2, <1>4
    <2>2. r1 = FlushBlock(r, b)
      BY <1>2, <1>4, <2>1 DEF FlushPlace
    <2>3. r1 \in Req /\ r1.s = r.s /\ r1.failed = r.failed /\ r1.w = Append(r.w, <<"blk", b, r.s.blk[b]>>)
      BY <2>2, FlushBlockParts
    <2> QED  BY <1>1, <2>1, <2>3 DEF FlushedTo
  <1> QED  BY <1>3, <1>4

LEMMA FlushStep ==
  ASSUME NEW r \in Req, Sized(r.s), NEW f \in Owners(r.s), NEW r1, r1 = file_flush(r, f)
  PROVE  r1 \in Req /\ r1.s = r.s /\ r1.failed = r.failed
  <1>1. PICK N \in Nat : N = NBlocks(FileAt(r.s, f).size)
    BY OwnerFacts, FileType
  <1> DEFINE Q == {x \in Req : x.s = r.s /\ x.failed = r.failed}
  <1>2. PICK P : P = [k \in 0..N |-> Q]
    OBVIOUS
  <1>3. r \in P[0]
    BY <1>2
  <1>4. ASSUME NEW k \in 1..N, NEW x \in P[k - 1] PROVE FlushPlace(x, f, k - 1) \in P[k]
    <2>1. k - 1 \in 0..N /\ k \in 0..N /\ k - 1 \in Nat /\ k - 1 < N
      OBVIOUS
    <2>2. x \in Req /\ x.s = r.s /\ x.failed = r.failed /\ P[k] = Q
      BY <1>2, <2>1
    <2>3. PICK n \in Nat : n = k - 1 /\ n < NBlocks(FileAt(x.s, f).size) /\ Sized(x.s) /\ f \in Owners(x.s)
      BY <1>1, <2>1, <2>2
    <2>4. PICK y : y = FlushPlace(x, f, n)
      OBVIOUS
    <2>5. y \in Req /\ y.s = x.s /\ y.failed = x.failed
      BY <2>2, <2>3, <2>4, FlushPlaceParts
    <2> QED  BY <2>2, <2>3, <2>4, <2>5
  <1>5. FlushData(r, f) \in P[N]
    BY <1>1, <1>3, <1>4, FlushLoop
  <1>6. PICK ra : ra = FlushData(r, f) /\ ra \in Req /\ ra.s = r.s /\ ra.failed = r.failed
    BY <1>2, <1>5
  <1>7. PICK rb : rb = FlushFile(ra, f)
    OBVIOUS
  <1>8. rb \in Req /\ rb.s = r.s /\ rb.failed = r.failed
    BY <1>6, <1>7, FlushFileParts
  <1>9. PICK b : b = FileAt(r.s, f).indirect
    OBVIOUS
  <1>10. b # 0 => b \in Blocks
    BY <1>9, OwnerFacts, FileType, ConstFacts DEF Blocks
  <1>11. r1 = IF b # 0 THEN FlushBlock(rb, b) ELSE rb
    BY <1>6, <1>7, <1>9 DEF file_flush
  <1>12. CASE b = 0
    BY <1>8, <1>11, <1>12
  <1>13. CASE b # 0
    BY <1>8, <1>10, <1>11, <1>13, FlushBlockParts
  <1> QED  BY <1>12, <1>13
-----------------------------------------------------------------------------
(* The operations on the directory, in memory. *)

LEMMA RemoveStep ==
  ASSUME NEW r \in Req, Good(r.s), NEW found \in SUBSET Places(r.s),
         NEW p, p.r = r, p.found = found, NEW r1, r1 = file_remove(p)
  PROVE  r1 \in Req /\ Sound(r.s, r1.s) /\ Places(r1.s) = Places(r.s)
  <1>1. CASE found = {}
    BY <1>1 DEF file_remove, Sound
  <1>2. CASE found # {}
    <2>1. PICK f : f = First(found) /\ f \in Places(r.s)
      <3>1. found \subseteq Nat
        BY ConstFacts DEF Places
      <3> QED  BY <1>2, <3>1, FirstIsIn
    <2>2. PICK ra : ra = file_truncate_blocks(r, f, 0) /\ 0 \in Sizes
      BY ConstFacts
    <2>3. /\ ra \in Req /\ Good(ra.s) /\ (Exact(r.s) => Exact(ra.s)) /\ SameDir(r.s, ra.s)
          /\ EmptyFrom(ra.s, f, 0)
      BY <2>1, <2>2, TruncateStep
    <2>4. f \in Places(ra.s) /\ Places(ra.s) = Places(r.s)
      BY <2>1, <2>3 DEF SameDir
    <2>5. PICK fl \in File : fl = FileAt(ra.s, f)
      BY <2>3, <2>4, PlaceFacts DEF Good
    <2>6. PICK fl1 : fl1 = [fl EXCEPT !.name = NoName, !.size = 0]
      OBVIOUS
    <2>7. fl1 \in File /\ fl1.size = 0 /\ fl1.direct = fl.direct /\ fl1.indirect = fl.indirect
      BY <2>2, <2>6 DEF File
    <2>8. PICK rb : rb = Emptied(ra, f) /\ rb = SetFile(ra, f, fl1)
      BY <2>5, <2>6 DEF Emptied
    <2>9. /\ rb \in Req /\ FileChanged(ra.s, rb.s, f, fl1)
          /\ Good(rb.s) /\ (Exact(ra.s) => Exact(rb.s))
      <3>1. EmptyFrom(ra.s, f, fl1.size)
        BY <2>3, <2>7
      <3> QED  BY <2>3, <2>4, <2>5, <2>7, <2>8, <3>1, LabelStep
    <2>10. Places(rb.s) = Places(r.s) /\ f \in Owners(rb.s) /\ Sized(rb.s)
      BY <2>4, <2>9 DEF FileChanged, SameDir, Owners, Good
    <2>11. r1 = FlushFile(rb, f)
      BY <1>2, <2>1, <2>2, <2>8 DEF file_remove
    <2>12. r1 \in Req /\ r1.s = rb.s
      BY <2>9, <2>10, <2>11, FlushFileParts
    <2> QED  BY <2>3, <2>9, <2>10, <2>12 DEF Sound
  <1> QED  BY <1>1, <1>2

(* A request that looked for a name. *)
Found == [r : Req, found : SUBSET Files]

FoundIn(s, p) ==
  /\ p \in Found /\ Kept(s, p.r.s) /\ p.found \subseteq Places(p.r.s)
  /\ p.r.failed => p.found = {}

LEMMA InBlockStep ==
  ASSUME NEW r \in Req, NEW s, Kept(s, r.s), NEW n, NEW name, NEW p, p = InBlock(r, n, name)
  PROVE  FoundIn(s, p) /\ p.r = r /\ \A f \in p.found : FileAt(r.s, f).name = name
  <1>1. p.r = r /\ p.found = IF r.failed THEN {}
                             ELSE {f \in Places(r.s) : DirIndex(f) = n /\ FileAt(r.s, f).name = name}
    BY DEF InBlock
  <1>2. p.found \subseteq Places(r.s) /\ p.found \subseteq Files
    BY <1>1 DEF Places
  <1>3. p = [r |-> r, found |-> p.found]
    BY <1>1 DEF InBlock
  <1>4. p \in Found
    BY <1>2, <1>3 DEF Found
  <1> QED  BY <1>1, <1>2, <1>4 DEF FoundIn

LEMMA ScanStep ==
  ASSUME NEW r \in Req, Good(r.s), NEW name, NEW p, p = DirScan(r, name)
  PROVE  FoundIn(r.s, p)
  <1>1. Root \in Owners(r.s) /\ Root \in {Root} /\ FileAt(r.s, Root) = r.s.root
    BY DEF Owners, FileAt
  <1>2. PICK N \in Nat : N = NBlocks(r.s.root.size)
    BY <1>1, OwnerFacts, FileType DEF Good
  <1>3. PICK st : st = [r |-> r, found |-> {}]
    OBVIOUS
  <1> DEFINE Q == {x \in Found : FoundIn(r.s, x)}
  <1>4. PICK P : P = [k \in 0..N |-> Q]
    OBVIOUS
  <1>5. st \in P[0]
    <2>1. st \in Found /\ st.r = r /\ st.found = {}
      BY <1>3 DEF Found
    <2>2. FoundIn(r.s, st)
      BY <2>1, KeptSelf DEF FoundIn
    <2> QED  BY <1>4, <2>1, <2>2
  <1>6. ASSUME NEW k \in 1..N, NEW x \in P[k - 1] PROVE ScanBlock(x, k - 1, name) \in P[k]
    <2>1. k - 1 \in 0..N /\ k \in 0..N
      OBVIOUS
    <2>2. x \in Found /\ FoundIn(r.s, x) /\ P[k] = Q
      BY <1>4, <2>1
    <2>3. CASE x.r.failed \/ x.found # {}
      BY <2>2, <2>3 DEF ScanBlock
    <2>4. CASE ~(x.r.failed \/ x.found # {})
      <3>1. PICK n \in Nat : n = k - 1 /\ n < N
        BY <2>1
      <3>2. x.r \in Req /\ Kept(r.s, x.r.s)
        BY <2>2 DEF FoundIn, Found
      <3>3. Good(x.r.s) /\ Root \in Owners(x.r.s) /\ n < NBlocks(FileAt(x.r.s, Root).size)
        BY <1>1, <1>2, <3>1, <3>2 DEF Kept, Owners
      <3>4. PICK y : y = file_get_block(x.r, Root, n)
        OBVIOUS
      <3>5. y \in Req /\ Kept(x.r.s, y.s)
        BY <3>2, <3>3, <3>4, GetBlock
      <3>6. Kept(r.s, y.s)
        BY <3>2, <3>5, KeptTrans
      <3>7. PICK z : z = InBlock(y, n, name)
        OBVIOUS
      <3>8. FoundIn(r.s, z)
        BY <3>5, <3>6, <3>7, InBlockStep
      <3>9. ScanBlock(x, k - 1, name) = z
        BY <2>4, <3>1, <3>4, <3>7 DEF ScanBlock
      <3> QED  BY <2>2, <3>8, <3>9 DEF FoundIn
    <2> QED  BY <2>3, <2>4
  <1>7. DirScan(r, name) \in P[NBlocks(r.s.root.size)]
    BY <1>2, <1>3, <1>5, <1>6, DirLoop
  <1> QED  BY <1>2, <1>4, <1>7

(* The directory grows: the place for a block is empty, so there are no    *)
(* new places for files yet.                                               *)
Grown(s, s1) ==
  /\ s1 \in Store /\ s1.blk = s.blk /\ s1.free = s.free
  /\ s1.root = [s.root EXCEPT !.size = @ + BLKSIZE]

LEMMA GrownStep ==
  ASSUME NEW s, Good(s), NEW s1, Grown(s, s1), s.root.size + BLKSIZE <= DIRBLOCKS * BLKSIZE
  PROVE  /\ Good(s1) /\ (Exact(s) => Exact(s1)) /\ SameDir(s, s1)
         /\ NBlocks(s1.root.size) = NBlocks(s.root.size) + 1
         /\ \A g \in Places(s) : FileAt(s1, g) = FileAt(s, g)
         /\ \A o \in Owners(s), n \in PIdx : Num(s1, o, n) = Num(s, o, n)
         /\ Num(s, Root, NBlocks(s.root.size)) = 0
  <1>1. /\ s \in Store /\ s.root \in File /\ s.root.size \in Nat /\ BLKSIZE \in Nat \ {0}
        /\ Root \in Owners(s) /\ Sized(s) /\ FileAt(s, Root) = s.root
    <2>1. s \in Store /\ s.root \in File
      BY StoreType DEF Good, Sized
    <2> QED  BY <2>1, ConstFacts DEF Good, Sized, Owners, FileAt
  <1>2. PICK N \in Nat : N = NBlocks(s.root.size)
    BY <1>1, FileType
  <1>3. /\ s1.root.size = s.root.size + BLKSIZE /\ s1.root.direct = s.root.direct
        /\ s1.root.indirect = s.root.indirect /\ s1.root.name = s.root.name
        /\ s1.blk = s.blk /\ s1.free = s.free /\ s1 \in Store
    BY <1>1 DEF Grown, File
  <1>4. NBlocks(s1.root.size) = N + 1
    BY <1>1, <1>2, <1>3, NBlocksMore
  <1>5. Sized(s1)
    BY <1>1, <1>3 DEF Sized
  <1>6. N \in Idx /\ N \in PIdx
    <2>1. N + 1 \in 0..(NDIRECT + NINDIRECT)
      BY <1>4, <1>5, NBlocksBounds DEF Sized
    <2> QED  BY <1>2, <2>1, ConstFacts DEF Idx
  <1>7. Num(s, Root, N) = 0
    BY <1>1, <1>2, <1>6 DEF Good, Short, Regular
  <1>8. \A n : PtrOf(s1, s1.root, n) = PtrOf(s, s.root, n) /\ \A fl : PtrOf(s1, fl, n) = PtrOf(s, fl, n)
    BY <1>3 DEF PtrOf
  <1>9. \A f : DirBlock(s1, f) = DirBlock(s, f)
    BY <1>8 DEF DirBlock
  <1>10. Places(s1) = Places(s)
    <2>1. Places(s) \subseteq Places(s1)
      <3> SUFFICES ASSUME NEW f \in Places(s) PROVE f \in Places(s1)
        OBVIOUS
      <3>1. f \in Files /\ DirIndex(f) \in Idx /\ DirIndex(f) < N /\ DirBlock(s, f) # 0
        BY <1>1, <1>2, PlaceFacts, ConstFacts
      <3>2. DirIndex(f) < N + 1
        BY <1>2, <3>1 DEF Idx
      <3> QED  BY <1>4, <1>9, <3>1, <3>2 DEF Places
    <2>2. Places(s1) \subseteq Places(s)
      <3> SUFFICES ASSUME NEW f \in Places(s1) PROVE f \in Places(s)
        OBVIOUS
      <3>1. f \in Files /\ DirIndex(f) \in Idx /\ DirIndex(f) < N + 1 /\ DirBlock(s, f) # 0
        BY <1>4, <1>5, <1>9, PlaceFacts, ConstFacts
      <3>2. DirIndex(f) # N
        <4>1. DirBlock(s, f) = Num(s, Root, DirIndex(f))
          BY <1>1, <3>1, ConstFacts DEF DirBlock, Num, BlockOf
        <4> QED  BY <1>7, <3>1, <4>1
      <3>3. DirIndex(f) < N
        BY <1>2, <3>1, <3>2 DEF Idx
      <3> QED  BY <1>2, <3>1, <3>3 DEF Places
    <2> QED  BY <2>1, <2>2
  <1>11. SameDir(s, s1)
    BY <1>9, <1>10 DEF SameDir
  <1>12. ASSUME NEW g \in Places(s) PROVE FileAt(s1, g) = FileAt(s, g)
    BY <1>1, <1>3, <1>9, PlaceFacts DEF FileAt
  <1>13. ASSUME NEW o \in Owners(s), NEW n \in PIdx PROVE Num(s1, o, n) = Num(s, o, n)
    <2>1. CASE o = Root
      BY <1>3, <1>8, <2>1 DEF Num, BlockOf, FileAt
    <2>2. CASE o # Root
      <3>1. FileAt(s1, o) = FileAt(s, o)
        BY <1>12, <2>2 DEF Owners
      <3> QED  BY <1>8, <3>1 DEF Num, BlockOf
    <2> QED  BY <2>1, <2>2
  <1>14. Relabel(s, s1, Root)
    <2>1. \A o \in Owners(s) : o # Root => FileAt(s1, o) = FileAt(s, o)
      BY <1>12 DEF Owners
    <2> QED  BY <1>3, <1>5, <1>11, <1>13, <2>1 DEF Relabel
  <1>15. \A n \in PIdx : Regular(Root) /\ n >= NBlocks(FileAt(s1, Root).size) => Num(s, Root, n) = 0
    <2> SUFFICES ASSUME NEW n \in PIdx, n >= N + 1 PROVE Num(s, Root, n) = 0
      BY <1>4 DEF FileAt
    <2>1. n >= N
      BY <1>2, ConstFacts DEF PIdx
    <2> QED  BY <1>1, <1>2, <2>1 DEF Good, Short, Regular
  <1>16. Good(s1) /\ (Exact(s) => Exact(s1))
    BY <1>1, <1>14, <1>15, RelabelGood
  <1> QED  BY <1>2, <1>4, <1>7, <1>11, <1>12, <1>13, <1>16

(* The request after a place was found or made. *)
PlaceIn(s, p) ==
  /\ p \in Found /\ Sound(s, p.r.s) /\ p.found \subseteq Places(p.r.s)
  /\ ~p.r.failed => p.found # {}
  /\ p.r.failed => p.found = {}

LEMMA GrowStep ==
  ASSUME NEW s, NEW p, FoundIn(s, p), HasRoom(p), NEW q, q = Grow(p)
  PROVE  PlaceIn(s, q)
  <1>1. /\ p \in Found /\ p.r \in Req /\ Kept(s, p.r.s) /\ Good(p.r.s) /\ p.found \subseteq Places(p.r.s)
        /\ p.r.failed => p.found = {}
    BY DEF FoundIn, Found, Kept
  <1>2. CASE p.r.failed \/ p.found # {}
    BY <1>1, <1>2, KeptSound DEF Grow, PlaceIn
  <1>3. CASE ~(p.r.failed \/ p.found # {})
    <2>1. /\ p.r.s \in Store /\ p.r.s.root \in File /\ p.r.s.root.size \in Nat /\ BLKSIZE \in Nat \ {0}
          /\ p.r.s.root.size + BLKSIZE <= DIRBLOCKS * BLKSIZE
      <3>1. p.r.s \in Store /\ p.r.s.root \in File
        BY <1>1, StoreType DEF Req
      <3> QED  BY <1>1, <1>3, <3>1, ConstFacts DEF HasRoom, Good, Sized
    <2>2. PICK n \in Nat : n = NBlocks(p.r.s.root.size) /\ n < DIRBLOCKS
      <3>1. PICK m \in Nat : m = p.r.s.root.size + BLKSIZE /\ m <= DIRBLOCKS * BLKSIZE
        BY <2>1
      <3>2. NBlocks(m) <= DIRBLOCKS
        BY <3>1, NBlocksBounds
      <3>3. NBlocks(m) = NBlocks(p.r.s.root.size) + 1 /\ NBlocks(p.r.s.root.size) \in Nat
        BY <2>1, <3>1, NBlocksMore, NBlocksFacts
      <3> QED  BY <3>2, <3>3, ConstFacts
    <2>3. PICK root : root = [p.r.s.root EXCEPT !.size = p.r.s.root.size + BLKSIZE]
      OBVIOUS
    <2>4. root \in File
      <3>1. p.r.s.root.size + BLKSIZE \in Sizes
        BY <2>1, ConstFacts
      <3> QED  BY <2>1, <2>3, <3>1 DEF File
    <2>5. PICK rg : rg = [p.r EXCEPT !.s.root.size = @ + BLKSIZE]
      OBVIOUS
    <2>6. rg = SetFile(p.r, Root, root)
      BY <2>1, <2>3, <2>5 DEF SetFile
    <2>7. rg \in Req /\ rg.w = p.r.w /\ rg.failed = p.r.failed /\ RootChanged(p.r.s, rg.s, root)
      BY <1>1, <2>4, <2>6, SetRootParts
    <2>8. Grown(p.r.s, rg.s)
      BY <2>3, <2>7 DEF Grown, RootChanged
    <2>9. /\ Good(rg.s) /\ (Exact(p.r.s) => Exact(rg.s)) /\ SameDir(p.r.s, rg.s)
          /\ NBlocks(rg.s.root.size) = n + 1
      BY <1>1, <2>1, <2>2, <2>8, GrownStep
    <2>10. PICK y : y = file_get_block(rg, Root, n)
      OBVIOUS
    <2>11. Root \in Owners(rg.s) /\ FileAt(rg.s, Root) = rg.s.root /\ n < NBlocks(FileAt(rg.s, Root).size)
      BY <2>2, <2>9 DEF Owners, FileAt
    <2>12. y \in Req /\ Kept(rg.s, y.s) /\ (~y.failed => n \in Idx /\ Num(y.s, Root, n) # 0)
      BY <2>7, <2>9, <2>10, <2>11, GetBlock
    <2>13. Sound(s, y.s)
      <3>1. Sound(s, rg.s)
        BY <1>1, <2>9 DEF Kept, Sound, SameDir
      <3> QED  BY <2>12, <3>1, KeptSound, SoundTrans
    <2>14. q = NewPlace(y, n)
      BY <1>3, <2>2, <2>5, <2>10 DEF Grow
    <2>15. q.r = y /\ q.found = (IF y.failed THEN {} ELSE {n * BLKFILES + 1}) /\ q = [r |-> y, found |-> q.found]
      BY <2>14 DEF NewPlace
    <2>16. ASSUME ~y.failed PROVE n * BLKFILES + 1 \in Places(y.s)
      <3>1. PICK f : f = n * BLKFILES + 1 /\ f \in Files /\ DirIndex(f) = n
        BY <2>2, FirstPlace
      <3>2. NBlocks(y.s.root.size) = n + 1
        BY <2>9, <2>12 DEF Kept
      <3>3. DirBlock(y.s, f) = Num(y.s, Root, n)
        BY <2>12, <2>16, <3>1, ConstFacts DEF DirBlock, Num, BlockOf, FileAt
      <3> QED  BY <2>2, <2>12, <2>16, <3>1, <3>2, <3>3 DEF Places
    <2>17. q.found \subseteq Places(y.s) /\ q.found \subseteq Files
      BY <2>15, <2>16 DEF Places
    <2>18. q \in Found
      BY <2>12, <2>15, <2>17 DEF Found
    <2> QED  BY <2>13, <2>15, <2>17, <2>18 DEF PlaceIn
  <1> QED  BY <1>2, <1>3

LEMMA NameStep ==
  ASSUME NEW s, NEW p, PlaceIn(s, p), NEW name \in Names, NEW q, q = NameIt(p, name)
  PROVE  PlaceIn(s, q)
  <1>1. /\ p \in Found /\ p.r \in Req /\ Sound(s, p.r.s) /\ Good(p.r.s) /\ p.found \subseteq Places(p.r.s)
        /\ p.found \subseteq Files
    BY DEF PlaceIn, Found, Sound
  <1>2. CASE p.r.failed
    BY <1>2 DEF NameIt
  <1>3. CASE ~p.r.failed
    <2>1. PICK f : f = First(p.found) /\ f \in Places(p.r.s)
      <3>1. p.found \subseteq Nat /\ p.found # {}
        BY <1>1, <1>3, ConstFacts DEF PlaceIn
      <3> QED  BY <1>1, <3>1, FirstIsIn
    <2>2. PICK fl \in File : fl = FileAt(p.r.s, f) /\ f \in Owners(p.r.s)
      BY <1>1, <2>1, PlaceFacts DEF Good, Owners
    <2>3. PICK fl1 : fl1 = [fl EXCEPT !.name = name]
      OBVIOUS
    <2>4. fl1 \in File /\ fl1.size = fl.size /\ fl1.direct = fl.direct /\ fl1.indirect = fl.indirect
      BY <2>3 DEF File
    <2>5. PICK ra : ra = SetFile(p.r, f, fl1)
      OBVIOUS
    <2>6. EmptyFrom(p.r.s, f, fl1.size)
      BY <1>1, <2>2, <2>4 DEF Good, Short, Regular, EmptyFrom
    <2>7. /\ ra \in Req /\ ra.failed = p.r.failed /\ FileChanged(p.r.s, ra.s, f, fl1)
          /\ Good(ra.s) /\ (Exact(p.r.s) => Exact(ra.s))
      BY <1>1, <2>1, <2>2, <2>4, <2>5, <2>6, LabelStep
    <2>8. Places(ra.s) = Places(p.r.s) /\ Root \in Owners(ra.s) /\ Sized(ra.s)
      BY <2>7 DEF FileChanged, SameDir, Owners, Good
    <2>9. PICK y : y = file_flush(ra, Root)
      OBVIOUS
    <2>10. y \in Req /\ y.s = ra.s /\ y.failed = ra.failed
      BY <2>7, <2>8, <2>9, FlushStep
    <2>11. q = [p EXCEPT !.r = y]
      BY <1>3, <2>1, <2>2, <2>3, <2>5, <2>9 DEF NameIt, WithName
    <2>12. q \in Found /\ q.r = y /\ q.found = p.found
      BY <1>1, <2>10, <2>11 DEF Found
    <2>13. Sound(s, y.s)
      BY <1>1, <2>7, <2>8, <2>10 DEF Sound
    <2> QED  BY <1>1, <1>3, <2>7, <2>8, <2>10, <2>12, <2>13 DEF PlaceIn
  <1> QED  BY <1>2, <1>3

LEMMA CreateStep ==
  ASSUME NEW r \in Req, Good(r.s), NEW name \in Names, HasRoom(DirScan(r, NoName)),
         NEW q, q = file_create(r, name)
  PROVE  PlaceIn(r.s, q)
  <1>1. PICK p : p = DirScan(r, NoName)
    OBVIOUS
  <1>2. FoundIn(r.s, p)
    BY <1>1, ScanStep
  <1>3. PICK g : g = Grow(p)
    OBVIOUS
  <1>4. PlaceIn(r.s, g)
    BY <1>1, <1>2, <1>3, GrowStep
  <1>5. q = NameIt(g, name)
    BY <1>1, <1>3 DEF file_create, dir_alloc_file
  <1> QED  BY <1>4, <1>5, NameStep

-----------------------------------------------------------------------------
(* Requests, in memory. *)

LEMMA BeginParts ==
  ASSUME TypeOK
  PROVE  Begin \in Req /\ Begin.s = mem /\ Begin.w = <<>> /\ ~Begin.failed
  <1>1. <<>> \in Seq(Write)
    OBVIOUS
  <1>2. mem \in Store
    BY DEF TypeOK
  <1> QED  BY <1>1, <1>2 DEF Begin, Req

(* A request, made. *)
Served == Sound(mem, mem') /\ opened' \subseteq Places(mem') /\ mem' \in Store /\ todo' \in Seq(Write) /\ disk' = disk

LEMMA FinishStep ==
  ASSUME NEW r \in Req, Sound(mem, r.s), Finish(r)
  PROVE  Sound(mem, mem') /\ mem' \in Store /\ todo' \in Seq(Write) /\ disk' = disk /\ mem' = r.s
  BY DEF Finish, Req

LEMMA FinishServed ==
  ASSUME NEW r \in Req, Sound(mem, r.s), Finish(r), UNCHANGED opened, opened \subseteq Places(mem)
  PROVE  Served
  <1>1. Sound(mem, mem') /\ mem' \in Store /\ todo' \in Seq(Write) /\ disk' = disk
    BY FinishStep
  <1> QED  BY <1>1 DEF Served, Sound

(* FindOrCreate: what it finds is in the directory. *)
LEMMA FindStep ==
  ASSUME NEW r \in Req, Good(r.s), NEW name \in Names, NEW creat \in BOOLEAN, NEW excl \in BOOLEAN,
         NEW look, look = dir_lookup(r, name),
         creat /\ look.found = {} => HasRoom(DirScan(look.r, NoName)),
         NEW p, p = FindOrCreate(look, name, creat, excl)
  PROVE  p.r \in Req /\ Sound(r.s, p.r.s) /\ p.found \subseteq Places(p.r.s)
  <1>1. FoundIn(r.s, look)
    BY ScanStep DEF dir_lookup
  <1>2. look \in Found /\ look.r \in Req /\ Good(look.r.s) /\ Sound(r.s, look.r.s) /\ look.found \subseteq Places(look.r.s)
    BY <1>1 DEF FoundIn, Found, Kept, Sound
  <1>3. CASE creat /\ look.found = {} /\ ~look.r.failed
    <2>1. p = file_create(look.r, name)
      BY <1>3 DEF FindOrCreate
    <2>2. PlaceIn(look.r.s, p)
      BY <1>2, <1>3, <2>1, CreateStep
    <2>3. p.r \in Req /\ Sound(look.r.s, p.r.s) /\ p.found \subseteq Places(p.r.s)
      BY <2>2 DEF PlaceIn, Found
    <2> QED  BY <1>2, <2>3, SoundTrans
  <1>4. CASE ~(creat /\ look.found = {} /\ ~look.r.failed) /\ creat /\ excl
    <2>1. p = [look EXCEPT !.found = {}]
      BY <1>4 DEF FindOrCreate
    <2>2. p.r = look.r /\ p.found = {}
      BY <1>2, <2>1 DEF Found
    <2> QED  BY <1>2, <2>2
  <1>5. CASE ~(creat /\ look.found = {} /\ ~look.r.failed) /\ ~(creat /\ excl)
    BY <1>2, <1>5 DEF FindOrCreate
  <1> QED  BY <1>3, <1>4, <1>5

LEMMA OpenServed ==
  ASSUME TypeOK, Good(mem), opened \subseteq Places(mem),
         NEW name \in Names, NEW creat \in BOOLEAN, NEW excl \in BOOLEAN, NEW trunc \in BOOLEAN,
         serve_open(name, creat, excl, trunc)
  PROVE  Served
  <1>1. PICK r \in Req : r = Begin /\ r.s = mem
    BY BeginParts
  <1>2. PICK look : look = dir_lookup(r, name)
    OBVIOUS
  <1>3. PICK p : p = FindOrCreate(look, name, creat, excl)
    OBVIOUS
  <1>4. (creat /\ look.found = {} => HasRoom(DirScan(look.r, NoName))) /\ Opened(p, trunc)
    BY <1>1, <1>2, <1>3 DEF serve_open
  <1>5. p.r \in Req /\ Sound(mem, p.r.s) /\ p.found \subseteq Places(p.r.s)
    BY <1>1, <1>2, <1>3, <1>4, FindStep
  <1>6. CASE p.found = {}
    <2>1. Finish(p.r) /\ UNCHANGED opened
      BY <1>4, <1>6 DEF Opened
    <2> QED  BY <1>5, <2>1, FinishServed
  <1>7. CASE p.found # {}
    <2>1. PICK f : f = First(p.found) /\ f \in Places(p.r.s)
      <3>1. p.found \subseteq Nat
        BY <1>5, ConstFacts DEF Places
      <3> QED  BY <1>5, <1>7, <3>1, FirstIsIn
    <2>2. PICK r1 : r1 = IF trunc THEN file_set_size(p.r, f, 0) ELSE p.r
      OBVIOUS
    <2>3. Finish(r1) /\ opened' = opened \cup {f}
      BY <1>4, <1>7, <2>1, <2>2 DEF Opened
    <2>4. r1 \in Req /\ Sound(p.r.s, r1.s) /\ Places(r1.s) = Places(p.r.s)
      <3>1. Good(p.r.s) /\ 0 \in Sizes
        BY <1>5, ConstFacts DEF Sound
      <3>2. CASE trunc
        BY <1>5, <2>1, <2>2, <3>1, <3>2, SetSizeStep
      <3>3. CASE ~trunc
        BY <1>5, <2>2, <3>1, <3>3 DEF Sound
      <3> QED  BY <3>2, <3>3
    <2>5. Sound(mem, r1.s)
      BY <1>5, <2>4, SoundTrans
    <2>6. Sound(mem, mem') /\ mem' \in Store /\ todo' \in Seq(Write) /\ disk' = disk /\ mem' = r1.s
      BY <2>3, <2>4, <2>5, FinishStep
    <2> QED  BY <2>1, <2>3, <2>4, <2>6 DEF Served, Sound
  <1> QED  BY <1>6, <1>7

LEMMA SyncServed ==
  ASSUME TypeOK, Good(mem), opened \subseteq Places(mem), serve_sync
  PROVE  Served
  <1>1. PICK r \in Req : r = Begin /\ r.s = mem
    BY BeginParts
  <1>2. mem \in Store /\ Sized(mem) /\ Root \in Owners(mem) /\ NB \in Nat
    BY ConstFacts DEF TypeOK, Good, Owners
  <1>3. PICK ra : ra = FlushFile(r, Root) /\ ra \in Req /\ ra.s = mem
    BY <1>1, <1>2, FlushFileParts
  <1>4. PICK rb : rb = FlushBitmap(ra) /\ rb \in Req /\ rb.s = mem
    <2>1. <<"bitmap", ra.s.free>> \in Write
      BY <1>2, <1>3, StoreType, WriteTypes
    <2>2. FlushBitmap(ra) = [ra EXCEPT !.w = Append(@, <<"bitmap", ra.s.free>>)]
      BY DEF FlushBitmap
    <2> QED  BY <1>3, <2>1, <2>2, FlushTypes
  <1>5. PICK data : data = [b \in Blocks |-> <<"blk", b, mem.blk[b]>>]
    OBVIOUS
  <1>6. data \in Seq(Write)
    <2>1. \A b \in Blocks : <<"blk", b, mem.blk[b]>> \in Write
      BY <1>2, StoreType, WriteTypes
    <2> QED  BY <1>2, <1>5, <2>1 DEF Blocks
  <1>7. PICK w : w = rb.w \o data /\ w \in Seq(Write)
    <2>1. PICK v \in Seq(Write) : v = rb.w
      BY <1>4 DEF Req
    <2>2. v \o data \in Seq(Write)
      BY <1>6
    <2> QED  BY <2>1, <2>2
  <1>8. PICK r1 : r1 = [rb EXCEPT !.w = w]
    OBVIOUS
  <1>9. r1 \in Req /\ r1.s = mem
    BY <1>4, <1>7, <1>8 DEF Req
  <1>10. Finish(r1) /\ UNCHANGED opened
    BY <1>1, <1>3, <1>4, <1>5, <1>7, <1>8 DEF serve_sync
  <1> QED  BY <1>9, <1>10, FinishServed DEF Sound

LEMMA RequestServed ==
  ASSUME TypeOK, Good(mem), opened \subseteq Places(mem), Request
  PROVE  Served
  <1>1. PICK r \in Req : r = Begin /\ r.s = mem
    BY BeginParts
  <1>2. ASSUME NEW name \in Names, NEW creat \in BOOLEAN, NEW excl \in BOOLEAN, NEW trunc \in BOOLEAN,
               serve_open(name, creat, excl, trunc)
        PROVE  Served
    BY <1>2, OpenServed
  <1>3. ASSUME NEW name \in Names, serve_remove(name) PROVE Served
    <2>1. PICK p : p = dir_lookup(r, name)
      OBVIOUS
    <2>2. FoundIn(mem, p)
      BY <1>1, <2>1, ScanStep DEF dir_lookup
    <2>3. p.r \in Req /\ Good(p.r.s) /\ Sound(mem, p.r.s) /\ p.found \subseteq Places(p.r.s)
      BY <2>2 DEF FoundIn, Found, Kept, Sound
    <2>4. PICK r1 : r1 = file_remove(p)
      OBVIOUS
    <2>5. r1 \in Req /\ Sound(p.r.s, r1.s)
      BY <2>3, <2>4, RemoveStep
    <2>6. Finish(r1) /\ UNCHANGED opened
      BY <1>1, <1>3, <2>1, <2>4 DEF serve_remove
    <2>7. Sound(mem, r1.s)
      BY <2>3, <2>5, SoundTrans
    <2> QED  BY <2>5, <2>6, <2>7, FinishServed
  <1>4. ASSUME NEW f \in opened, NEW size \in Sizes, serve_set_size(f, size) PROVE Served
    <2>1. PICK r1 : r1 = file_set_size(r, f, size)
      OBVIOUS
    <2>2. r1 \in Req /\ Sound(mem, r1.s)
      BY <1>1, <2>1, SetSizeStep
    <2>3. Finish(r1) /\ UNCHANGED opened
      BY <1>1, <1>4, <2>1 DEF serve_set_size
    <2> QED  BY <2>2, <2>3, FinishServed
  <1>5. ASSUME NEW f \in opened, NEW offset \in 0..MaxSize, NEW count \in 0..BLKSIZE,
               serve_read(f, count, offset)
        PROVE  Served
    <2>1. PICK r1 : r1 = file_read(r, f, count, offset)
      OBVIOUS
    <2>2. r1 \in Req /\ Kept(mem, r1.s)
      BY <1>1, <2>1, ReadStep, ConstFacts
    <2>3. Finish(r1) /\ UNCHANGED opened
      BY <1>1, <1>5, <2>1 DEF serve_read
    <2> QED  BY <2>2, <2>3, KeptSound, FinishServed
  <1>6. ASSUME NEW f \in opened, NEW offset \in 0..MaxSize, NEW count \in 0..BLKSIZE,
               serve_write(f, count, offset)
        PROVE  Served
    <2>1. PICK r1 : r1 = file_write(r, f, count, offset)
      OBVIOUS
    <2>2. offset + count <= MaxSize /\ Finish(r1) /\ UNCHANGED opened
      BY <1>1, <1>6, <2>1 DEF serve_write
    <2>3. r1 \in Req /\ Sound(mem, r1.s)
      BY <1>1, <2>1, <2>2, WriteStep, ConstFacts
    <2> QED  BY <2>2, <2>3, FinishServed
  <1>7. ASSUME NEW f \in opened, serve_flush(f) PROVE Served
    <2>1. PICK r1 : r1 = file_flush(r, f)
      OBVIOUS
    <2>2. f \in Owners(mem) /\ Sized(mem)
      BY DEF Owners, Good
    <2>3. r1 \in Req /\ r1.s = mem
      BY <1>1, <2>1, <2>2, FlushStep
    <2>4. Finish(r1) /\ UNCHANGED opened
      BY <1>1, <1>7, <2>1 DEF serve_flush
    <2> QED  BY <2>3, <2>4, FinishServed DEF Sound
  <1>8. CASE serve_sync
    BY <1>8, SyncServed
  <1> QED  BY <1>2, <1>3, <1>4, <1>5, <1>6, <1>7, <1>8 DEF Request
-----------------------------------------------------------------------------
(* The invariant of the memory.                                            *)

MInv == TypeOK /\ Good(mem) /\ opened \subseteq Places(mem)

(* A new disk is good. *)
LEMMA NewIsGood ==
  ASSUME Init
  PROVE  /\ MInv /\ Exact(mem) /\ Owners(mem) = {Root} /\ FileAt(mem, Root) = NewFile /\ disk = mem
         /\ \A o \in Owners(mem), n \in PIdx : Num(mem, o, n) = 0
         /\ \A b \in Blocks : mem.blk[b] = Zeroed
  <1>1. PICK s : s = mem /\ s = [root |-> NewFile, blk |-> [b \in Blocks |-> Zeroed], free |-> Blocks]
    BY DEF Init
  <1>2. s \in Store /\ s.root = NewFile /\ s.free = Blocks /\ \A b \in Blocks : s.blk[b] = Zeroed
    BY <1>1, NewFileType DEF Store
  <1>3. NewFile.size = 0 /\ NBlocks(0) = 0
    BY NBlocksMore DEF NewFile
  <1>4. Places(s) = {}
    <2>1. ASSUME NEW f \in Files PROVE ~(DirIndex(f) < NBlocks(s.root.size))
      <3>1. DirIndex(f) \in Nat
        BY SlotFacts, ConstFacts
      <3> QED  BY <1>2, <1>3, <3>1
    <2> QED  BY <2>1 DEF Places
  <1>5. Owners(s) = {Root} /\ FileAt(s, Root) = NewFile
    BY <1>2, <1>4 DEF Owners, FileAt
  <1>6. \A o \in Owners(s), n \in PIdx : Num(s, o, n) = 0
    BY <1>5, NewFileHasNone
  <1>7. Sized(s)
    BY <1>2, <1>3, ConstFacts DEF Sized
  <1>8. NotFree(s)
    <2>1. 0 \notin s.free
      BY <1>2, ConstFacts
    <2> QED  BY <1>6, <2>1 DEF NotFree
  <1>9. Unshared(s) /\ Short(s) /\ Own(s)
    BY <1>6 DEF Unshared, Short, Own
  <1>10. Exact(s)
    BY <1>2 DEF Exact
  <1>11. <<>> \in Seq(Write)
    OBVIOUS
  <1>12. TypeOK
    BY <1>1, <1>2, <1>11 DEF TypeOK, Init
  <1>13. Good(s) /\ disk = mem /\ opened \subseteq Places(s)
    BY <1>7, <1>8, <1>9, <1>4 DEF Good, Init
  <1> QED  BY <1>1, <1>2, <1>5, <1>6, <1>10, <1>12, <1>13 DEF MInv

(* A write of the disk keeps the type. *)
LEMMA WrittenType ==
  ASSUME NEW d \in Store, NEW x \in Write
  PROVE  Written(d, x) \in Store
  <1>1. CASE x \in {"super"} \X File
    <2>1. x[1] = "super" /\ x[2] \in File
      BY <1>1
    <2>2. Written(d, x) = [d EXCEPT !.root = x[2]]
      BY <2>1 DEF Written
    <2> QED  BY <2>1, <2>2 DEF Store
  <1>2. CASE x \in {"bitmap"} \X SUBSET Blocks
    <2>1. x[1] = "bitmap" /\ x[2] \in SUBSET Blocks
      BY <1>2
    <2>2. PICK F : F = (d.free \ (1..BITS)) \cup (x[2] \cap 1..BITS)
      OBVIOUS
    <2>3. F \in SUBSET Blocks /\ Written(d, x) = [d EXCEPT !.free = F]
      BY <2>1, <2>2, StoreType DEF Written
    <2> QED  BY <2>3 DEF Store
  <1>3. CASE x \in {"blk"} \X Blocks \X Block
    <2>1. x[1] = "blk" /\ x[2] \in Blocks /\ x[3] \in Block
      BY <1>3
    <2>2. Written(d, x) = [d EXCEPT !.blk[x[2]] = x[3]]
      BY <2>1 DEF Written
    <2>3. [d.blk EXCEPT ![x[2]] = x[3]] \in [Blocks -> Block]
      BY <2>1, StoreType
    <2> QED  BY <2>2, <2>3 DEF Store
  <1> QED  BY <1>1, <1>2, <1>3 DEF Write

LEMMA WriteMade ==
  ASSUME MInv, ide_write
  PROVE  MInv' /\ mem' = mem /\ Head(todo) \in Write
  <1>1. todo \in Seq(Write) /\ todo # <<>> /\ disk \in Store
    BY DEF MInv, TypeOK, ide_write
  <1>2. Head(todo) \in Write /\ Tail(todo) \in Seq(Write)
    BY <1>1
  <1>3. Written(disk, Head(todo)) \in Store
    BY <1>1, <1>2, WrittenType
  <1> QED  BY <1>2, <1>3 DEF MInv, TypeOK, ide_write

LEMMA RequestMade ==
  ASSUME MInv, Request
  PROVE  MInv' /\ (Exact(mem) => Exact(mem')) /\ Places(mem) \subseteq Places(mem')
  <1>1. Served
    BY RequestServed DEF MInv
  <1>2. Good(mem') /\ opened' \subseteq Places(mem') /\ mem' \in Store /\ todo' \in Seq(Write) /\ disk' = disk
    BY <1>1 DEF Served, Sound
  <1>3. opened' \subseteq Files
    BY <1>2 DEF Places
  <1> QED  BY <1>1, <1>2, <1>3 DEF MInv, TypeOK, Served, Sound

(* Without a crash no block is lost. *)
MInvExact == MInv /\ Exact(mem)

LEMMA NoCrashKeeps ==
  ASSUME ~Crashes
  PROVE  Spec => []MInvExact
  <1>1. Init => MInvExact
    BY NewIsGood DEF MInvExact
  <1>2. ASSUME MInvExact, [Next]_vars PROVE MInvExact'
    <2>1. CASE todo = <<>> /\ Request
      BY <1>2, <2>1, RequestMade DEF MInvExact
    <2>2. CASE ide_write
      BY <1>2, <2>2, WriteMade DEF MInvExact
    <2>3. CASE Crash
      BY <2>3 DEF Crash
    <2>4. CASE UNCHANGED vars
      BY <1>2, <2>4 DEF MInvExact, MInv, TypeOK, vars
    <2> QED  BY <1>2, <2>1, <2>2, <2>3, <2>4 DEF Next
  <1> QED  BY <1>1, <1>2, PTL DEF Spec

(* What the invariant means for the properties of module FileSys. *)
LEMMA MInvMeans ==
  ASSUME MInv
  PROVE  TypeOK /\ BlocksApart /\ (NoNegativeSizes => NothingPastSize) /\ NoForeignData
  <1>1. Good(mem)
    BY DEF MInv
  <1>2. NoNegativeSizes => NothingPastSize
    BY <1>1, GoodMeans DEF NothingPastSize
  <1>3. Live(mem) \subseteq Pointers(mem)
    BY DEF Live
  <1>4. NoForeignData
    BY <1>1, <1>3, GoodMeans DEF NoForeignData
  <1> QED  BY <1>1, <1>2, <1>4, GoodMeans DEF MInv, BlocksApart

(* BlocksExact: as long as no client sets a negative size, no sequence of  *)
(* requests leaks a block of the disk, frees one twice or gives one to two *)
(* files (alloc_block, file_truncate_blocks, fs/fs.c).  A negative size    *)
(* makes file_truncate_blocks forget blocks, and after a crash blocks that *)
(* had no file yet may be lost.                                            *)
THEOREM EveryBlockAccounted ==
  ASSUME NoNegativeSizes, ~Crashes
  PROVE  Spec => []BlocksExact
  <1>1. ASSUME MInvExact PROVE BlocksExact
    BY <1>1, GoodMeans, ExactMeans DEF MInvExact, MInv, BlocksExact, BlocksApart
  <1> QED  BY <1>1, NoCrashKeeps, PTL
-----------------------------------------------------------------------------
(* What of a store is on the disk.                                         *)
(*                                                                         *)
(* The disk writes of a request are made one after the other, and the      *)
(* machine may stop between them.  The proof is for disks whose bitmap is  *)
(* in one block, and for files that need no indirect block: those are not  *)
(* safe (see the run fs_stale).                                            *)

Plain == NB <= BITS /\ MaxSize <= NDIRECT * BLKSIZE

DIdx == 0..(NDIRECT - 1)

Direct(s) == \A o \in Owners(s) : Num(s, o, -1) = 0

(* The struct File that disk d has where store s has that of o. *)
Entry(s, d, o) == IF o = Root THEN d.root ELSE d.blk[DirBlock(s, o)].file[Slot(o)]

Tidy(o, fl) ==
  fl.indirect = 0 /\ \A n \in DIdx : Regular(o) /\ n >= NBlocks(fl.size) => fl.direct[n] = 0

(* Disk d may lack blocks that the files of s have, but has no others,     *)
(* except the files in X, of which blocks were just freed.                 *)
Rest(s, d, X) ==
  /\ Sized(d) /\ d.free \subseteq s.free /\ X \subseteq Places(d)
  /\ \A o \in Owners(s) : Tidy(o, Entry(s, d, o))
  /\ \A o \in Owners(s) : o \notin X => \A n \in DIdx : Entry(s, d, o).direct[n] \in {0, Num(s, o, n)}
  /\ \A o \in Owners(s), n \in DIdx : Num(s, o, n) # 0 => d.blk[Num(s, o, n)].data \subseteq {o}
  /\ \A f \in Places(s) \ Places(d), n \in DIdx : Num(s, f, n) = 0

(* The disk has the names and the sizes, except those of Y ... *)
Named(s, d, Y) ==
  \A f \in Places(s) : f \notin Y => /\ FileAt(s, f).name = Entry(s, d, f).name
                                     /\ FileAt(s, f).size = Entry(s, d, f).size

(* ... and the places of all files, except of Z. *)
Known(s, d, Z) ==
  \A f \in Places(s) : f \notin Z =>
     f \in Places(d) \/ (FileAt(s, f).name = NoName /\ FileAt(s, f).size = 0)

(* The first m writes of w take a disk to another over good ones. *)
GoodDisk(d) == Good(d) /\ Direct(d)

History(h, d0, w, m, d) ==
  /\ h[0] = d0 /\ h[m] = d
  /\ \A k \in 1..m : h[k] = Written(h[k - 1], w[k])
  /\ \A k \in 0..m : GoodDisk(h[k])

Reaches(d0, w, m, d) == \E h : History(h, d0, w, m, d)

Fits(d0, r, d, X, Y, Z) ==
  /\ r \in Req /\ Good(r.s) /\ Direct(r.s)
  /\ Reaches(d0, r.w, Len(r.w), d)
  /\ Rest(r.s, d, X) /\ Named(r.s, d, Y) /\ Known(r.s, d, Z)

(* With the disk writes of request r made, the files in D will be there.   *)
On(d0, r, X, Y, Z, D) == \E d : Fits(d0, r, d, X, Y, Z) /\ D \subseteq Places(d)

-----------------------------------------------------------------------------
(* Writes. *)

LEMMA NoWrite == ASSUME NEW d0, GoodDisk(d0), NEW w PROVE Reaches(d0, w, 0, d0)
  <1>1. PICK h : h = [k \in 0..0 |-> d0]
    OBVIOUS
  <1>2. h[0] = d0
    BY <1>1
  <1>3. History(h, d0, w, 0, d0)
    BY <1>2 DEF History
  <1> QED  BY <1>3 DEF Reaches

LEMMA NextWrite ==
  ASSUME NEW d0, NEW w, NEW m \in Nat, NEW d, Reaches(d0, w, m, d), NEW d1, d1 = Written(d, w[m + 1]), GoodDisk(d1)
  PROVE  Reaches(d0, w, m + 1, d1)
  <1>1. PICK h : History(h, d0, w, m, d)
    BY DEF Reaches
  <1>2. PICK v : v = [k \in 0..(m + 1) |-> IF k = m + 1 THEN d1 ELSE h[k]]
    OBVIOUS
  <1>3. v[m + 1] = d1 /\ \A k \in 0..m : v[k] = h[k]
    BY <1>2
  <1>4. ASSUME NEW k \in 1..(m + 1) PROVE v[k] = Written(v[k - 1], w[k])
    <2>1. CASE k = m + 1
      <3>1. v[k - 1] = h[m] /\ h[m] = d
        BY <1>1, <1>3, <2>1 DEF History
      <3> QED  BY <1>3, <2>1, <3>1
    <2>2. CASE k # m + 1
      <3>1. k \in 1..m /\ k \in 0..m /\ k - 1 \in 0..m
        BY <2>2
      <3> QED  BY <1>1, <1>3, <3>1 DEF History
    <2> QED  BY <2>1, <2>2
  <1>5. ASSUME NEW k \in 0..(m + 1) PROVE GoodDisk(v[k])
    <2>1. CASE k = m + 1
      BY <1>3, <2>1
    <2>2. CASE k # m + 1
      <3>1. k \in 0..m
        BY <2>2
      <3> QED  BY <1>1, <1>3, <3>1 DEF History
    <2> QED  BY <2>1, <2>2
  <1>6. v[0] = d0
    BY <1>1, <1>3 DEF History
  <1>7. History(v, d0, w, m + 1, d1)
    BY <1>3, <1>4, <1>5, <1>6 DEF History
  <1> QED  BY <1>7 DEF Reaches

LEMMA SameWrites ==
  ASSUME NEW d0, NEW w, NEW m \in Nat, NEW d, Reaches(d0, w, m, d), NEW v, \A k \in 1..m : v[k] = w[k]
  PROVE  Reaches(d0, v, m, d)
  <1>1. PICK h : History(h, d0, w, m, d)
    BY DEF Reaches
  <1>2. History(h, d0, v, m, d)
    BY <1>1 DEF History
  <1> QED  BY <1>2 DEF Reaches

LEMMA Extend ==
  ASSUME NEW d0, NEW w \in Seq(Write), NEW d, Reaches(d0, w, Len(w), d), NEW x \in Write,
         NEW d1, d1 = Written(d, x), GoodDisk(d1)
  PROVE  Reaches(d0, Append(w, x), Len(Append(w, x)), d1)
  <1>a. Append(w, x) \in Seq(Write)
    OBVIOUS
  <1>1. PICK v \in Seq(Write) : v = Append(w, x)
    BY <1>a
  <1>2. PICK m \in Nat : m = Len(w) /\ Len(v) = m + 1
    BY <1>1
  <1>3. v[m + 1] = x /\ \A k \in 1..m : v[k] = w[k]
    BY <1>1, <1>2
  <1>4. Reaches(d0, v, m, d)
    BY <1>2, <1>3, SameWrites
  <1>5. Reaches(d0, v, m + 1, d1)
    BY <1>3, <1>4, NextWrite
  <1> QED  BY <1>1, <1>2, <1>5

LEMMA FirstWrite ==
  ASSUME NEW d0, NEW w \in Seq(Write), w # <<>>, NEW d, Reaches(d0, w, Len(w), d)
  PROVE  Reaches(Written(d0, Head(w)), Tail(w), Len(Tail(w)), d)
  <1>1. PICK h : History(h, d0, w, Len(w), d)
    BY DEF Reaches
  <1>a. Tail(w) \in Seq(Write)
    OBVIOUS
  <1>2. PICK v \in Seq(Write) : v = Tail(w)
    BY <1>a
  <1>3. PICK m \in Nat : m = Len(v) /\ Len(w) = m + 1
    BY <1>2
  <1>4. Head(w) = w[1] /\ \A k \in 1..m : v[k] = w[k + 1]
    BY <1>2, <1>3
  <1>5. PICK g : g = [k \in 0..m |-> h[k + 1]]
    OBVIOUS
  <1>6. \A k \in 0..m : g[k] = h[k + 1]
    BY <1>5
  <1>7. g[0] = Written(d0, Head(w)) /\ g[m] = d
    <2>1. 1 \in 1..(m + 1) /\ 0 \in 0..m /\ m \in 0..m
      OBVIOUS
    <2>2. h[1] = Written(h[1 - 1], w[1]) /\ h[0] = d0 /\ h[m + 1] = d
      BY <1>1, <1>3, <2>1 DEF History
    <2> QED  BY <1>4, <1>6, <2>1, <2>2
  <1>8. ASSUME NEW k \in 1..m PROVE g[k] = Written(g[k - 1], v[k])
    <2>1. k + 1 \in 1..(m + 1) /\ k \in 0..m /\ k - 1 \in 0..m /\ (k + 1) - 1 = k /\ (k - 1) + 1 = k
      OBVIOUS
    <2>2. h[k + 1] = Written(h[k], w[k + 1])
      BY <1>1, <1>3, <2>1 DEF History
    <2> QED  BY <1>4, <1>6, <2>1, <2>2
  <1>9. ASSUME NEW k \in 0..m PROVE GoodDisk(g[k])
    <2>1. k + 1 \in 0..(m + 1)
      OBVIOUS
    <2> QED  BY <1>1, <1>3, <1>6, <2>1 DEF History
  <1>10. History(g, Written(d0, Head(w)), v, m, d)
    BY <1>7, <1>8, <1>9 DEF History
  <1> QED  BY <1>2, <1>3, <1>10 DEF Reaches

LEMMA GoodAtOnce ==
  ASSUME NEW d0, NEW w, NEW m \in Nat, NEW d, Reaches(d0, w, m, d)
  PROVE  GoodDisk(d0) /\ GoodDisk(d) /\ (m = 0 => d = d0)
  <1>1. PICK h : History(h, d0, w, m, d)
    BY DEF Reaches
  <1>2. 0 \in 0..m /\ m \in 0..m
    OBVIOUS
  <1> QED  BY <1>1, <1>2 DEF History

-----------------------------------------------------------------------------
(* What the disk shows. *)

Shows(s, d) ==
  /\ Places(d) \subseteq Places(s) /\ Owners(d) \subseteq Owners(s)
  /\ \A f \in Places(d) : DirBlock(d, f) = DirBlock(s, f)
  /\ \A o \in Owners(d) : /\ FileAt(d, o) = Entry(s, d, o) /\ Num(d, o, -1) = 0
                          /\ \A n \in DIdx : Num(d, o, n) = Entry(s, d, o).direct[n]
                          /\ \A n \in Idx \ DIdx : Num(d, o, n) = 0

LEMMA DirectPtr ==
  ASSUME NEW s, NEW fl, fl.indirect = 0, NEW n \in Nat
  PROVE  PtrOf(s, fl, n) = IF n \in DIdx THEN fl.direct[n] ELSE 0
  BY ConstFacts DEF PtrOf, DIdx

LEMMA DiskShows ==
  ASSUME NEW s, Good(s), NEW d, NEW X, Rest(s, d, X)
  PROVE  Shows(s, d)
  <1>1. Sized(s) /\ Sized(d) /\ Root \notin X /\ Root \in Owners(s)
    BY ConstFacts DEF Good, Rest, Owners, Places
  <1>2. Tidy(Root, d.root) /\ \A n \in DIdx : d.root.direct[n] \in {0, Num(s, Root, n)}
    BY <1>1 DEF Rest, Entry
  <1>3. ASSUME NEW f \in Places(d) PROVE f \in Places(s) /\ DirBlock(d, f) = DirBlock(s, f)
    <2>1. PICK n \in Idx : n = DirIndex(f) /\ DirBlock(d, f) = Num(d, Root, n) /\ DirBlock(d, f) \in Blocks /\ f \in Files
      BY <1>1, PlaceFacts
    <2>2. DirBlock(d, f) = PtrOf(d, d.root, n) /\ n \in Nat /\ n \in PIdx /\ DirBlock(d, f) # 0
      BY <2>1, ConstFacts DEF DirBlock, Idx
    <2>3. n \in DIdx /\ DirBlock(d, f) = d.root.direct[n]
      BY <1>2, <2>2, DirectPtr DEF Tidy
    <2>4. DirBlock(d, f) = Num(s, Root, n)
      BY <1>2, <2>2, <2>3
    <2>5. Num(s, Root, n) = PtrOf(s, s.root, n)
      BY <1>1, OwnerFacts DEF FileAt
    <2>6. DirBlock(s, f) = DirBlock(d, f)
      BY <2>1, <2>4, <2>5 DEF DirBlock
    <2>7. n < NBlocks(s.root.size)
      <3>1. FileAt(s, Root) = s.root /\ NBlocks(s.root.size) \in Nat
        BY <1>1, FileType, StoreType DEF FileAt, Sized
      <3>2. ~(n >= NBlocks(s.root.size))
        BY <1>1, <2>2, <2>4, <3>1 DEF Good, Short, Regular
      <3> QED  BY <2>2, <3>1, <3>2
    <2> QED  BY <2>1, <2>2, <2>6, <2>7 DEF Places
  <1>4. Places(d) \subseteq Places(s) /\ Owners(d) \subseteq Owners(s)
    BY <1>3 DEF Owners
  <1>5. ASSUME NEW o \in Owners(d) PROVE FileAt(d, o) = Entry(s, d, o)
    <2>1. CASE o = Root
      BY <2>1 DEF FileAt, Entry
    <2>2. CASE o # Root
      <3>1. o \in Places(d)
        BY <2>2 DEF Owners
      <3> QED  BY <1>3, <2>2, <3>1 DEF FileAt, Entry
    <2> QED  BY <2>1, <2>2
  <1>6. ASSUME NEW o \in Owners(d)
        PROVE  /\ Num(d, o, -1) = 0
               /\ \A n \in DIdx : Num(d, o, n) = Entry(s, d, o).direct[n]
               /\ \A n \in Idx \ DIdx : Num(d, o, n) = 0
    <2>1. PICK fl : fl = FileAt(d, o) /\ fl = Entry(s, d, o)
      BY <1>5
    <2>2. fl.indirect = 0
      BY <1>4, <2>1 DEF Rest, Tidy
    <2>3. \A n \in Idx : Num(d, o, n) = PtrOf(d, fl, n)
      BY <1>1, <2>1, OwnerFacts
    <2>4. Idx \subseteq Nat /\ DIdx \subseteq Idx
      BY ConstFacts DEF Idx, DIdx
    <2>5. \A n \in Idx : Num(d, o, n) = IF n \in DIdx THEN fl.direct[n] ELSE 0
      BY <2>2, <2>3, <2>4, DirectPtr
    <2> QED  BY <2>1, <2>2, <2>4, <2>5 DEF Num
  <1> QED  BY <1>3, <1>4, <1>5, <1>6 DEF Shows

(* Such a disk is good as soon as it lacks no new pointers. *)
LEMMA DiskGood ==
  ASSUME NEW s, Good(s), NEW d, Rest(s, d, {})
  PROVE  GoodDisk(d)
  <1>1. Shows(s, d) /\ Sized(d) /\ Sized(s) /\ d.free \subseteq s.free
    BY DiskShows DEF Rest, Good
  <1>2. ASSUME NEW o \in Owners(d), NEW n \in PIdx, Num(d, o, n) # 0
        PROVE  Num(d, o, n) = Num(s, o, n) /\ n \in DIdx /\ o \in Owners(s)
    <2>1. n \in DIdx /\ o \in Owners(s) /\ Num(d, o, n) = Entry(s, d, o).direct[n]
      BY <1>1, <1>2, ConstFacts DEF Shows
    <2> QED  BY <1>2, <2>1 DEF Rest
  <1>3. NotFree(d)
    <2>1. 0 \notin d.free
      BY <1>1, ConstFacts, StoreType DEF Sized
    <2>2. ASSUME NEW o \in Owners(d), NEW n \in PIdx, Num(d, o, n) # 0 PROVE Num(d, o, n) \notin d.free
      BY <1>1, <1>2, <2>2 DEF Good, NotFree
    <2> QED  BY <2>1, <2>2 DEF NotFree
  <1>4. Unshared(d)
    <2>1. ASSUME NEW o \in Owners(d), NEW q \in Owners(d), NEW n \in PIdx, NEW m \in PIdx,
                 Num(d, o, n) = Num(d, q, m), Num(d, o, n) # 0
          PROVE  o = q /\ n = m
      BY <1>2, <2>1 DEF Good, Unshared
    <2> QED  BY <2>1 DEF Unshared
  <1>5. Short(d)
    <2>1. ASSUME NEW o \in Owners(d), NEW n \in PIdx, Regular(o), n >= NBlocks(FileAt(d, o).size),
                 Num(d, o, n) # 0
          PROVE  FALSE
      <3>1. n \in DIdx /\ o \in Owners(s) /\ Num(d, o, n) = Entry(s, d, o).direct[n] /\ FileAt(d, o) = Entry(s, d, o)
        BY <1>1, <1>2, <2>1 DEF Shows
      <3> QED  BY <2>1, <3>1 DEF Rest, Tidy
    <2> QED  BY <2>1 DEF Short
  <1>6. Own(d)
    <2>1. ASSUME NEW o \in Owners(d), NEW n \in PIdx, Num(d, o, n) # 0
          PROVE  d.blk[Num(d, o, n)].data \subseteq {o}
      BY <1>2, <2>1 DEF Rest
    <2> QED  BY <2>1 DEF Own
  <1>7. Direct(d)
    BY <1>1 DEF Shows, Direct
  <1> QED  BY <1>1, <1>3, <1>4, <1>5, <1>6, <1>7 DEF GoodDisk, Good

(* A good store fits itself. *)
LEMMA FitsItself ==
  ASSUME NEW s, GoodDisk(s)
  PROVE  Rest(s, s, {}) /\ Named(s, s, {}) /\ Known(s, s, {})
  <1>1. \A o : Entry(s, s, o) = FileAt(s, o)
    BY DEF Entry, FileAt
  <1>2. Sized(s) /\ Good(s) /\ Direct(s)
    BY DEF GoodDisk, Good
  <1>3. ASSUME NEW o \in Owners(s)
        PROVE  /\ FileAt(s, o).indirect = 0
               /\ \A n \in DIdx : FileAt(s, o).direct[n] = Num(s, o, n)
    <2>1. FileAt(s, o).indirect = 0
      BY <1>2, OwnerFacts DEF Direct
    <2>2. Idx \subseteq Nat /\ DIdx \subseteq Idx
      BY ConstFacts DEF Idx, DIdx
    <2> QED  BY <1>2, <2>1, <2>2, OwnerFacts, DirectPtr
  <1>4. ASSUME NEW o \in Owners(s) PROVE Tidy(o, FileAt(s, o))
    <2>1. DIdx \subseteq PIdx
      BY ConstFacts DEF PIdx, DIdx
    <2> QED  BY <1>2, <1>3, <2>1 DEF Tidy, Good, Short
  <1>5. \A o \in Owners(s), n \in DIdx : Num(s, o, n) # 0 => s.blk[Num(s, o, n)].data \subseteq {o}
    BY <1>2, ConstFacts DEF Good, Own, DIdx, PIdx
  <1>6. Rest(s, s, {})
    BY <1>1, <1>2, <1>3, <1>4, <1>5 DEF Rest
  <1>7. Named(s, s, {})
    BY <1>1 DEF Named
  <1> QED  BY <1>6, <1>7 DEF Known

-----------------------------------------------------------------------------
(* The memory changes, and the disk does not. *)

Moved(s, s1, X) ==
  /\ SameDir(s, s1) /\ s.free \subseteq s1.free
  /\ \A o \in Owners(s), n \in PIdx : Num(s1, o, n) = Num(s, o, n) \/ (o \in X /\ Num(s1, o, n) = 0)

SameNames(s, s1, Y) ==
  \A f \in Places(s) : f \notin Y => FileAt(s1, f).name = FileAt(s, f).name /\ FileAt(s1, f).size = FileAt(s, f).size

LEMMA RestMoved ==
  ASSUME NEW s, NEW s1, NEW d, NEW X, NEW X1, Rest(s, d, X), Moved(s, s1, X1), X \subseteq X1, X1 \subseteq Places(d)
  PROVE  Rest(s1, d, X1) /\ (Direct(s) => Direct(s1)) /\ Owners(s1) = Owners(s)
  <1>1. Owners(s1) = Owners(s) /\ Places(s1) = Places(s)
    BY DEF Moved, SameDir, Owners
  <1>2. \A o : Entry(s1, d, o) = Entry(s, d, o)
    BY DEF Moved, SameDir, Entry
  <1>3. \A o \in Owners(s), n \in DIdx : Num(s1, o, n) = Num(s, o, n) \/ (o \in X1 /\ Num(s1, o, n) = 0)
    BY ConstFacts DEF Moved, DIdx, PIdx
  <1>4. Direct(s) => Direct(s1)
    <2>1. -1 \in PIdx
      BY ConstFacts
    <2> QED  BY <1>1, <2>1 DEF Direct, Moved
  <1>5. Sized(d) /\ d.free \subseteq s1.free
    BY DEF Rest, Moved
  <1>6. \A o \in Owners(s1) : Tidy(o, Entry(s1, d, o))
    BY <1>1, <1>2 DEF Rest
  <1>7. \A o \in Owners(s1) : o \notin X1 => \A n \in DIdx : Entry(s1, d, o).direct[n] \in {0, Num(s1, o, n)}
    BY <1>1, <1>2, <1>3 DEF Rest
  <1>8. \A o \in Owners(s1), n \in DIdx : Num(s1, o, n) # 0 => d.blk[Num(s1, o, n)].data \subseteq {o}
    BY <1>1, <1>3 DEF Rest
  <1>9. \A f \in Places(s1) \ Places(d), n \in DIdx : Num(s1, f, n) = 0
    BY <1>1, <1>3 DEF Rest, Owners
  <1> QED  BY <1>1, <1>4, <1>5, <1>6, <1>7, <1>8, <1>9 DEF Rest

LEMMA NamedMoved ==
  ASSUME NEW s, NEW s1, NEW d, NEW Y, NEW Y1, Named(s, d, Y), SameDir(s, s1), SameNames(s, s1, Y1), Y \subseteq Y1
  PROVE  Named(s1, d, Y1)
  <1>1. \A f : Entry(s1, d, f) = Entry(s, d, f)
    BY DEF SameDir, Entry
  <1> QED  BY <1>1 DEF Named, SameNames, SameDir

LEMMA KnownMoved ==
  ASSUME NEW s, NEW s1, NEW d, NEW Z, NEW Z1, Known(s, d, Z), SameDir(s, s1), SameNames(s, s1, Z1 \cup Places(d)), Z \subseteq Z1
  PROVE  Known(s1, d, Z1)
  BY DEF Known, SameNames, SameDir

LEMMA FitsMoved ==
  ASSUME NEW d0, NEW r, NEW d, NEW X, NEW Y, NEW Z, Fits(d0, r, d, X, Y, Z),
         NEW r1 \in Req, Good(r1.s), r1.w = r.w, NEW X1, Moved(r.s, r1.s, X1), X \subseteq X1, X1 \subseteq Places(d),
         NEW Y1, SameNames(r.s, r1.s, Y1), Y \subseteq Y1,
         NEW Z1, SameNames(r.s, r1.s, Z1 \cup Places(d)), Z \subseteq Z1
  PROVE  Fits(d0, r1, d, X1, Y1, Z1)
  <1>1. SameDir(r.s, r1.s)
    BY DEF Moved
  <1>2. Rest(r1.s, d, X1) /\ Direct(r1.s)
    BY RestMoved DEF Fits
  <1>3. Named(r1.s, d, Y1)
    BY <1>1, NamedMoved DEF Fits
  <1>4. Known(r1.s, d, Z1)
    BY <1>1, KnownMoved DEF Fits
  <1> QED  BY <1>2, <1>3, <1>4 DEF Fits

-----------------------------------------------------------------------------
(* A block is written as it is in memory. *)

LEMMA BlockWritten ==
  ASSUME NEW d \in Store, NEW b \in Blocks, NEW x \in Block, NEW d1, d1 = Written(d, <<"blk", b, x>>)
  PROVE  /\ d1 \in Store /\ d1.root = d.root /\ d1.free = d.free /\ d1.blk[b] = x
         /\ \A c \in Blocks : c # b => d1.blk[c] = d.blk[c]
  <1>1. PICK k : k = [d.blk EXCEPT ![b] = x]
    OBVIOUS
  <1>2. k \in [Blocks -> Block] /\ k[b] = x /\ \A c \in Blocks : c # b => k[c] = d.blk[c]
    BY <1>1, StoreType
  <1>3. d1 = [d EXCEPT !.blk = k]
    BY <1>1 DEF Written
  <1>4. d1 \in Store /\ d1.root = d.root /\ d1.free = d.free /\ d1.blk = k
    BY <1>2, <1>3 DEF Store
  <1> QED  BY <1>2, <1>4

(* The disk after that. *)
Rewrites(d, d1, b, x) ==
  /\ d1 \in Store /\ d1.root = d.root /\ d1.free = d.free /\ d1.blk[b] = x
  /\ \A c \in Blocks : c # b => d1.blk[c] = d.blk[c]

LEMMA RewritesDir ==
  ASSUME NEW d, Sized(d), d.root.indirect = 0, NEW b, NEW x, NEW d1, Rewrites(d, d1, b, x)
  PROVE  Sized(d1) /\ Places(d1) = Places(d)
  <1>1. Sized(d1)
    BY DEF Sized, Rewrites
  <1>2. \A f \in Files : DirIndex(f) \in Nat
    BY SlotFacts, ConstFacts
  <1>3. \A f \in Files : DirBlock(d1, f) = DirBlock(d, f)
    BY <1>2, DirectPtr DEF DirBlock, Rewrites
  <1> QED  BY <1>1, <1>3 DEF Places, Rewrites

(* Files whose struct File is in another block. *)
Others(s, X, b) == {f \in X : DirBlock(s, f) # b}

LEMMA RestRewritten ==
  ASSUME NEW s, GoodDisk(s), NEW d, NEW X, Rest(s, d, X), NEW b \in Blocks,
         NEW d1, Rewrites(d, d1, b, s.blk[b])
  PROVE  Rest(s, d1, Others(s, X, b)) /\ Places(d1) = Places(d)
  <1>1. Sized(s) /\ Sized(d) /\ Good(s) /\ Direct(s) /\ Root \in Owners(s) /\ X \subseteq Places(d)
    BY DEF GoodDisk, Good, Rest, Owners
  <1>2. d.root.indirect = 0
    BY <1>1 DEF Rest, Tidy, Entry
  <1>3. Sized(d1) /\ Places(d1) = Places(d)
    BY <1>1, <1>2, RewritesDir
  <1>4. ASSUME NEW o \in Owners(s)
        PROVE  \/ Entry(s, d1, o) = Entry(s, d, o) /\ ~(o # Root /\ DirBlock(s, o) = b)
               \/ Entry(s, d1, o) = FileAt(s, o)
    <2>1. CASE o = Root
      BY <2>1 DEF Entry, Rewrites
    <2>2. CASE o # Root
      <3>1. o \in Places(s) /\ DirBlock(s, o) \in Blocks
        BY <1>1, <2>2, PlaceFacts DEF Owners
      <3>2. CASE DirBlock(s, o) = b
        BY <2>2, <3>2 DEF Entry, FileAt, Rewrites
      <3>3. CASE DirBlock(s, o) # b
        BY <2>2, <3>1, <3>3 DEF Entry, Rewrites
      <3> QED  BY <3>2, <3>3
    <2> QED  BY <2>1, <2>2
  <1>5. \A o : Entry(s, s, o) = FileAt(s, o)
    BY DEF Entry, FileAt
  <1>6. Rest(s, s, {})
    BY FitsItself
  <1>7. \A o \in Owners(s) : Tidy(o, Entry(s, d1, o))
    BY <1>4, <1>5, <1>6 DEF Rest
  <1>8. ASSUME NEW o \in Owners(s), o \notin Others(s, X, b), NEW n \in DIdx
        PROVE  Entry(s, d1, o).direct[n] \in {0, Num(s, o, n)}
    <2>1. CASE Entry(s, d1, o) = FileAt(s, o)
      <3>1. Entry(s, s, o).direct[n] \in {0, Num(s, o, n)}
        BY <1>6 DEF Rest
      <3> QED  BY <1>5, <2>1, <3>1
    <2>2. CASE Entry(s, d1, o) = Entry(s, d, o) /\ ~(o # Root /\ DirBlock(s, o) = b)
      <3>1. o \notin X
        BY <1>1, <1>8, <2>2, ConstFacts DEF Others, Places
      <3> QED  BY <2>2, <3>1 DEF Rest
    <2> QED  BY <1>4, <2>1, <2>2
  <1>9. ASSUME NEW o \in Owners(s), NEW n \in DIdx, Num(s, o, n) # 0
        PROVE  d1.blk[Num(s, o, n)].data \subseteq {o}
    <2>1. CASE Num(s, o, n) = b
      BY <1>6, <1>9, <2>1 DEF Rest, Rewrites
    <2>2. CASE Num(s, o, n) # b
      <3>1. n \in PIdx
        BY ConstFacts DEF DIdx, PIdx
      <3>2. Num(s, o, n) \in Blocks
        BY <1>1, <1>9, <3>1, OwnerFacts
      <3> QED  BY <1>9, <2>2, <3>2 DEF Rest, Rewrites
    <2> QED  BY <2>1, <2>2
  <1>10. d1.free \subseteq s.free /\ Others(s, X, b) \subseteq Places(d1)
    BY <1>1, <1>3 DEF Rest, Rewrites, Others
  <1>11. \A f \in Places(s) \ Places(d1), n \in DIdx : Num(s, f, n) = 0
    BY <1>3 DEF Rest
  <1> QED  BY <1>3, <1>7, <1>8, <1>9, <1>10, <1>11 DEF Rest

LEMMA NamedRewritten ==
  ASSUME NEW s, Sized(s), NEW d, NEW Y, Named(s, d, Y), NEW b \in Blocks, NEW d1, Rewrites(d, d1, b, s.blk[b])
  PROVE  Named(s, d1, Others(s, Y, b))
  <1>1. ASSUME NEW f \in Places(s), f \notin Others(s, Y, b)
        PROVE  FileAt(s, f).name = Entry(s, d1, f).name /\ FileAt(s, f).size = Entry(s, d1, f).size
    <2>1. DirBlock(s, f) \in Blocks /\ f # Root
      BY PlaceFacts
    <2>2. CASE DirBlock(s, f) = b
      BY <2>1, <2>2 DEF Entry, FileAt, Rewrites
    <2>3. CASE DirBlock(s, f) # b
      <3>1. f \notin Y
        BY <1>1, <2>3 DEF Others
      <3>2. Entry(s, d1, f) = Entry(s, d, f)
        BY <2>1, <2>3 DEF Entry, Rewrites
      <3> QED  BY <3>1, <3>2 DEF Named
    <2> QED  BY <2>2, <2>3
  <1> QED  BY <1>1 DEF Named

LEMMA FitsBlockWritten ==
  ASSUME NEW d0, NEW r, NEW d, NEW X, NEW Y, NEW Z, Fits(d0, r, d, X, Y, Z), NEW b \in Blocks,
         NEW r1 \in Req, r1.s = r.s, r1.w = Append(r.w, <<"blk", b, r.s.blk[b]>>), Others(r.s, X, b) = {},
         NEW d1, d1 = Written(d, <<"blk", b, r.s.blk[b]>>)
  PROVE  Fits(d0, r1, d1, {}, Others(r.s, Y, b), Z) /\ Places(d1) = Places(d)
  <1>1. PICK s : s = r.s /\ s \in Store /\ GoodDisk(s) /\ Sized(s) /\ s.blk[b] \in Block
    BY StoreType DEF Fits, Good, Sized, GoodDisk
  <1>2. d \in Store /\ Rest(s, d, X) /\ Named(s, d, Y) /\ Known(s, d, Z) /\ r.w \in Seq(Write)
    BY <1>1 DEF Fits, Rest, Sized, Req
  <1>3. Rewrites(d, d1, b, s.blk[b])
    BY <1>1, <1>2, BlockWritten DEF Rewrites
  <1>a. Rest(s, d1, Others(s, X, b)) /\ Places(d1) = Places(d)
    BY <1>1, <1>2, <1>3, RestRewritten
  <1>b. Others(s, X, b) = {}
    BY <1>1
  <1>4. Rest(s, d1, {}) /\ Places(d1) = Places(d)
    BY <1>a, <1>b
  <1>5. Named(s, d1, Others(s, Y, b)) /\ Known(s, d1, Z)
    BY <1>1, <1>2, <1>3, <1>4, NamedRewritten DEF Known
  <1>6. GoodDisk(d1)
    BY <1>1, <1>4, DiskGood DEF GoodDisk
  <1>7. PICK x \in Write : x = <<"blk", b, r.s.blk[b]>>
    BY <1>1, WriteTypes
  <1>8. Reaches(d0, r1.w, Len(r1.w), d1)
    BY <1>2, <1>6, <1>7, Extend DEF Fits
  <1> QED  BY <1>1, <1>4, <1>5, <1>8 DEF Fits

-----------------------------------------------------------------------------
(* The super block is written. *)

LEMMA RootWritten ==
  ASSUME NEW d \in Store, NEW x \in File, NEW d1, d1 = Written(d, <<"super", x>>)
  PROVE  d1 \in Store /\ d1.root = x /\ d1.free = d.free /\ d1.blk = d.blk
  <1>1. d1 = [d EXCEPT !.root = x]
    BY DEF Written
  <1> QED  BY <1>1 DEF Store

LEMMA RestRootWritten ==
  ASSUME NEW s, GoodDisk(s), NEW d, Rest(s, d, {}),
         NEW d1 \in Store, d1.root = s.root, d1.free = d.free, d1.blk = d.blk
  PROVE  Rest(s, d1, {}) /\ Places(d1) = Places(s)
  <1>1. Sized(s) /\ Sized(d) /\ Good(s) /\ Direct(s) /\ Root \in Owners(s)
    BY DEF GoodDisk, Good, Rest, Owners
  <1>2. Rest(s, s, {})
    BY FitsItself
  <1>3. s.root.indirect = 0
    BY <1>1, <1>2 DEF Rest, Tidy, Entry
  <1>4. \A f \in Files : DirIndex(f) \in Nat
    BY SlotFacts, ConstFacts
  <1>5. \A f \in Files : DirBlock(d1, f) = DirBlock(s, f)
    BY <1>3, <1>4, DirectPtr DEF DirBlock
  <1>6. Sized(d1) /\ Places(d1) = Places(s)
    BY <1>1, <1>5 DEF Places, Sized
  <1>7. \A o \in Owners(s) : Entry(s, d1, o) = IF o = Root THEN Entry(s, s, o) ELSE Entry(s, d, o)
    BY DEF Entry
  <1>8. \A o \in Owners(s) : Tidy(o, Entry(s, d1, o))
    BY <1>2, <1>7 DEF Rest
  <1>9. \A o \in Owners(s), n \in DIdx : Entry(s, d1, o).direct[n] \in {0, Num(s, o, n)}
    BY <1>2, <1>7 DEF Rest
  <1>10. \A o \in Owners(s), n \in DIdx : Num(s, o, n) # 0 => d1.blk[Num(s, o, n)].data \subseteq {o}
    BY DEF Rest
  <1>11. d1.free \subseteq s.free /\ \A f \in Places(s) \ Places(d1), n \in DIdx : Num(s, f, n) = 0
    BY <1>6 DEF Rest
  <1> QED  BY <1>6, <1>8, <1>9, <1>10, <1>11 DEF Rest

LEMMA FitsRootWritten ==
  ASSUME NEW d0, NEW r, NEW d, NEW Y, NEW Z, Fits(d0, r, d, {}, Y, Z),
         NEW r1 \in Req, r1.s = r.s, r1.w = Append(r.w, <<"super", r.s.root>>),
         NEW d1, d1 = Written(d, <<"super", r.s.root>>)
  PROVE  Fits(d0, r1, d1, {}, Y, {}) /\ Places(d1) = Places(r.s)
  <1>1. PICK s : s = r.s /\ s \in Store /\ GoodDisk(s) /\ Sized(s) /\ s.root \in File
    BY StoreType DEF Fits, Good, Sized, GoodDisk
  <1>2. d \in Store /\ Rest(s, d, {}) /\ Named(s, d, Y) /\ r.w \in Seq(Write)
    BY <1>1 DEF Fits, Rest, Sized, Req
  <1>3. d1 \in Store /\ d1.root = s.root /\ d1.free = d.free /\ d1.blk = d.blk
    BY <1>1, <1>2, RootWritten
  <1>4. Rest(s, d1, {}) /\ Places(d1) = Places(s)
    BY <1>1, <1>2, <1>3, RestRootWritten
  <1>5. \A f \in Places(s) : Entry(s, d1, f) = Entry(s, d, f)
    <2>1. \A f \in Places(s) : f # Root
      BY <1>1, PlaceFacts
    <2> QED  BY <1>3, <2>1 DEF Entry
  <1>6. Named(s, d1, Y) /\ Known(s, d1, {})
    BY <1>2, <1>4, <1>5 DEF Known, Named
  <1>7. GoodDisk(d1)
    BY <1>1, <1>4, DiskGood DEF GoodDisk
  <1>8. PICK x \in Write : x = <<"super", r.s.root>>
    BY <1>1, WriteTypes
  <1>9. Reaches(d0, r1.w, Len(r1.w), d1)
    BY <1>2, <1>7, <1>8, Extend DEF Fits
  <1> QED  BY <1>1, <1>4, <1>6, <1>9 DEF Fits

-----------------------------------------------------------------------------
(* The bitmap is written: it is in one block. *)

LEMMA BitmapWritten ==
  ASSUME Plain, NEW d \in Store, NEW F \in SUBSET Blocks, NEW d1, d1 = Written(d, <<"bitmap", F>>)
  PROVE  d1 \in Store /\ d1.free = F /\ d1.root = d.root /\ d1.blk = d.blk
  <1>1. Blocks \subseteq 1..BITS
    BY FileSysAssumption DEF Plain, Blocks
  <1>2. (d.free \ (1..BITS)) \cup (F \cap 1..BITS) = F
    BY <1>1, StoreType
  <1>3. d1 = [d EXCEPT !.free = F]
    BY <1>2 DEF Written
  <1> QED  BY <1>3 DEF Store

(* A bitmap with fewer free blocks, on the disk. *)
LEMMA RestFewer ==
  ASSUME NEW s, GoodDisk(s), NEW d, Rest(s, d, {}),
         NEW d1 \in Store, d1.free \subseteq s.free, d1.root = d.root, d1.blk = d.blk
  PROVE  Rest(s, d1, {}) /\ Places(d1) = Places(d)
  <1>1. Sized(d) /\ Root \in Owners(s)
    BY DEF Rest, Owners
  <1>2. d.root.indirect = 0
    BY <1>1 DEF Rest, Tidy, Entry
  <1>3. \A f \in Files : DirIndex(f) \in Nat
    BY SlotFacts, ConstFacts
  <1>4. \A f \in Files : DirBlock(d1, f) = DirBlock(d, f)
    BY <1>2, <1>3, DirectPtr DEF DirBlock
  <1>5. Sized(d1) /\ Places(d1) = Places(d)
    BY <1>1, <1>4 DEF Places, Sized
  <1>6. \A o : Entry(s, d1, o) = Entry(s, d, o)
    BY DEF Entry
  <1> QED  BY <1>5, <1>6 DEF Rest

LEMMA FitsBitmapWritten ==
  ASSUME Plain, NEW d0, NEW r, NEW d, NEW Y, NEW Z, Fits(d0, r, d, {}, Y, Z), NEW F \in SUBSET r.s.free,
         NEW r1 \in Req, r1.s = r.s, r1.w = Append(r.w, <<"bitmap", F>>),
         NEW d1, d1 = Written(d, <<"bitmap", F>>)
  PROVE  Fits(d0, r1, d1, {}, Y, Z) /\ Places(d1) = Places(d) /\ d1.free = F /\ d1.blk = d.blk
  <1>1. PICK s : s = r.s /\ s \in Store /\ GoodDisk(s) /\ Sized(s) /\ s.free \subseteq Blocks
    BY StoreType DEF Fits, Good, Sized, GoodDisk
  <1>2. d \in Store /\ Rest(s, d, {}) /\ Named(s, d, Y) /\ Known(s, d, Z) /\ r.w \in Seq(Write)
    BY <1>1 DEF Fits, Rest, Sized, Req
  <1>3. d1 \in Store /\ d1.free = F /\ d1.root = d.root /\ d1.blk = d.blk
    BY <1>1, <1>2, BitmapWritten
  <1>4. Rest(s, d1, {}) /\ Places(d1) = Places(d)
    BY <1>1, <1>2, <1>3, RestFewer
  <1>5. \A f : Entry(s, d1, f) = Entry(s, d, f)
    BY <1>3 DEF Entry
  <1>6. Named(s, d1, Y) /\ Known(s, d1, Z)
    BY <1>2, <1>4, <1>5 DEF Known, Named
  <1>7. GoodDisk(d1)
    BY <1>1, <1>4, DiskGood DEF GoodDisk
  <1>8. PICK x \in Write : x = <<"bitmap", F>>
    BY <1>1, WriteTypes
  <1>9. Reaches(d0, r1.w, Len(r1.w), d1)
    BY <1>2, <1>7, <1>8, Extend DEF Fits
  <1> QED  BY <1>1, <1>3, <1>4, <1>6, <1>9 DEF Fits

-----------------------------------------------------------------------------
(* A block is allocated. *)

LEMMA RestZeroed ==
  ASSUME NEW s, GoodDisk(s), NEW d, Rest(s, d, {}), NEW b \in s.free, NEW d1, Rewrites(d, d1, b, Zeroed)
  PROVE  /\ Rest(s, d1, {}) /\ Places(d1) = Places(d)
         /\ \A o \in Owners(s) : Entry(s, d1, o) = Entry(s, d, o)
  <1>1. Sized(s) /\ Sized(d) /\ Good(s) /\ Root \in Owners(s) /\ s.free \subseteq Blocks
    BY StoreType DEF GoodDisk, Good, Rest, Owners, Sized
  <1>2. d.root.indirect = 0
    BY <1>1 DEF Rest, Tidy, Entry
  <1>3. Sized(d1) /\ Places(d1) = Places(d)
    BY <1>1, <1>2, RewritesDir
  <1>4. \A o \in Owners(s), n \in PIdx : Num(s, o, n) # b
    BY <1>1 DEF Good, NotFree
  <1>5. ASSUME NEW o \in Owners(s) PROVE Entry(s, d1, o) = Entry(s, d, o)
    <2>1. CASE o = Root
      BY <2>1 DEF Entry, Rewrites
    <2>2. CASE o # Root
      <3>1. o \in Places(s)
        BY <2>2 DEF Owners
      <3>2. DirBlock(s, o) \in Blocks /\ DirBlock(s, o) = Num(s, Root, DirIndex(o)) /\ DirIndex(o) \in PIdx
        BY <1>1, <3>1, PlaceFacts, ConstFacts
      <3>3. DirBlock(s, o) # b
        BY <1>1, <1>4, <3>2
      <3> QED  BY <2>2, <3>2, <3>3 DEF Entry, Rewrites
    <2> QED  BY <2>1, <2>2
  <1>6. ASSUME NEW o \in Owners(s), NEW n \in DIdx, Num(s, o, n) # 0
        PROVE  d1.blk[Num(s, o, n)].data \subseteq {o}
    <2>1. n \in PIdx
      BY ConstFacts DEF DIdx, PIdx
    <2>2. Num(s, o, n) \in Blocks /\ Num(s, o, n) # b
      BY <1>1, <1>4, <1>6, <2>1, OwnerFacts
    <2> QED  BY <1>6, <2>2 DEF Rest, Rewrites
  <1>7. d1.free \subseteq s.free
    BY DEF Rest, Rewrites
  <1>8. \A o \in Owners(s) : Tidy(o, Entry(s, d1, o))
    BY <1>5 DEF Rest
  <1>9. \A o \in Owners(s), n \in DIdx : Entry(s, d1, o).direct[n] \in {0, Num(s, o, n)}
    BY <1>5 DEF Rest
  <1>10. \A f \in Places(s) \ Places(d1), n \in DIdx : Num(s, f, n) = 0
    BY <1>3 DEF Rest
  <1> QED  BY <1>3, <1>5, <1>6, <1>7, <1>8, <1>9, <1>10 DEF Rest

(* The disk and the memory after block b was put in place. *)
AttachShows(s, s1, d, b) ==
  /\ Owners(s) \subseteq Owners(s1)
  /\ \A o \in Owners(s) : Entry(s1, d, o) = Entry(s, d, o)
  /\ \A g \in Owners(s1) \ Owners(s) : /\ g \in Places(s1) \ Places(s)
                                       /\ Entry(s1, d, g) = NewFile /\ FileAt(s1, g) = NewFile
                                       /\ \A n \in PIdx : Num(s1, g, n) = 0

LEMMA AttachedDir ==
  ASSUME NEW s, Good(s), NEW s1, NEW f \in Owners(s), NEW n \in PIdx, NEW b \in Blocks,
         Attach(s, s1, f, n, b), Num(s, f, n) = 0, NEW d, d.blk[b] = Zeroed
  PROVE  AttachShows(s, s1, d, b)
  <1>1. Sized(s) /\ Sized(s1) /\ Root \in Owners(s)
    BY DEF Good, Attach, Owners
  <1>2. Receives(s, s1, Root, f, n, b)
    BY <1>1 DEF Receives, Attach
  <1>3. s1.root.size = s.root.size
    BY <1>1 DEF Attach, FileAt
  <1>4. /\ \A g \in Places(s) : DirBlock(s1, g) = DirBlock(s, g)
        /\ \A g \in Places(s1) \ Places(s) : DirBlock(s1, g) = b
    BY <1>1, <1>2, <1>3, PlacesGrow
  <1>5. ASSUME NEW o \in Owners(s) PROVE Entry(s1, d, o) = Entry(s, d, o)
    <2>1. o = Root \/ o \in Places(s)
      BY DEF Owners
    <2> QED  BY <1>4, <2>1 DEF Entry
  <1>6. ASSUME NEW g \in Places(s1) \ Places(s)
        PROVE  Entry(s1, d, g) = NewFile /\ FileAt(s1, g) = NewFile /\ \A m \in PIdx : Num(s1, g, m) = 0
    <2>1. g # Root /\ Slot(g) \in 0..(BLKFILES - 1) /\ DirBlock(s1, g) = b
      BY <1>1, <1>4, PlaceFacts
    <2>2. Entry(s1, d, g) = Zeroed.file[Slot(g)]
      BY <2>1 DEF Entry
    <2>3. Zeroed.file[Slot(g)] = NewFile
      BY <2>1 DEF Zeroed
    <2>4. FileAt(s1, g) = NewFile
      BY DEF Attach
    <2> QED  BY <2>2, <2>3, <2>4, NewFileHasNone
  <1>7. Owners(s) \subseteq Owners(s1) /\ Owners(s1) \ Owners(s) \subseteq Places(s1) \ Places(s)
    BY DEF Owners, Attach
  <1> QED  BY <1>5, <1>6, <1>7 DEF AttachShows

LEMMA RestAttached ==
  ASSUME NEW s, GoodDisk(s), NEW s1, NEW f \in Owners(s), NEW n \in DIdx, NEW b \in Blocks,
         Attach(s, s1, f, n, b), Num(s, f, n) = 0,
         NEW d, Rest(s, d, {}), d.blk[b] = Zeroed, b \notin d.free, f = Root \/ f \in Places(d)
  PROVE  Rest(s1, d, {}) /\ Direct(s1)
  <1>1. Good(s) /\ Direct(s) /\ n \in PIdx /\ DIdx \subseteq PIdx /\ n # -1 /\ -1 \in PIdx
    BY ConstFacts DEF GoodDisk, DIdx, PIdx
  <1>2. AttachShows(s, s1, d, b)
    BY <1>1, AttachedDir
  <1>3. \A o \in Owners(s), m \in PIdx : Num(s1, o, m) = IF o = f /\ m = n THEN b ELSE Num(s, o, m)
    BY DEF Attach
  <1>4. Direct(s1)
    <2>1. ASSUME NEW o \in Owners(s1) PROVE Num(s1, o, -1) = 0
      <3>1. CASE o \in Owners(s)
        BY <1>1, <1>3, <3>1 DEF Direct
      <3>2. CASE o \notin Owners(s)
        BY <1>1, <1>2, <3>2 DEF AttachShows
      <3> QED  BY <3>1, <3>2
    <2> QED  BY <2>1 DEF Direct
  <1>5. \A m \in DIdx : NewFile.direct[m] = 0
    BY DEF NewFile, DIdx
  <1>6. NewFile.indirect = 0
    BY DEF NewFile
  <1>7. ASSUME NEW o \in Owners(s1) PROVE Tidy(o, Entry(s1, d, o))
    <2>1. CASE o \in Owners(s)
      BY <1>2, <2>1 DEF AttachShows, Rest
    <2>2. CASE o \notin Owners(s)
      BY <1>2, <1>5, <1>6, <2>2 DEF AttachShows, Tidy
    <2> QED  BY <2>1, <2>2
  <1>8. ASSUME NEW o \in Owners(s1), NEW m \in DIdx PROVE Entry(s1, d, o).direct[m] \in {0, Num(s1, o, m)}
    <2>1. CASE o \in Owners(s)
      <3>1. Entry(s1, d, o).direct[m] \in {0, Num(s, o, m)}
        BY <1>2, <2>1 DEF AttachShows, Rest
      <3> QED  BY <1>1, <1>3, <2>1, <3>1
    <2>2. CASE o \notin Owners(s)
      BY <1>2, <1>5, <2>2 DEF AttachShows
    <2> QED  BY <2>1, <2>2
  <1>9. ASSUME NEW o \in Owners(s1), NEW m \in DIdx, Num(s1, o, m) # 0
        PROVE  d.blk[Num(s1, o, m)].data \subseteq {o}
    <2>1. o \in Owners(s)
      BY <1>1, <1>2, <1>9 DEF AttachShows
    <2>2. CASE o = f /\ m = n
      <3>1. Num(s1, o, m) = b
        BY <1>1, <1>3, <2>1, <2>2
      <3>2. Zeroed.data = {}
        BY DEF Zeroed
      <3> QED  BY <3>1, <3>2
    <2>3. CASE ~(o = f /\ m = n)
      BY <1>1, <1>3, <1>9, <2>1, <2>3 DEF Rest
    <2> QED  BY <2>2, <2>3
  <1>10. ASSUME NEW g \in Places(s1) \ Places(d), NEW m \in DIdx PROVE Num(s1, g, m) = 0
    <2>1. CASE g \in Owners(s)
      <3>1. g \in Places(s) /\ g # f
        <4>1. g # Root
          BY ConstFacts DEF Places
        <4> QED  BY <2>1, <4>1 DEF Owners
      <3>2. Num(s, g, m) = 0
        BY <3>1 DEF Rest
      <3> QED  BY <1>1, <1>3, <2>1, <3>1, <3>2
    <2>2. CASE g \notin Owners(s)
      BY <1>1, <1>2, <2>2 DEF AttachShows, Owners
    <2> QED  BY <2>1, <2>2
  <1>11. Sized(d) /\ d.free \subseteq s1.free
    BY DEF Rest, Attach
  <1> QED  BY <1>4, <1>7, <1>8, <1>9, <1>10, <1>11 DEF Rest

LEMMA NamesAttached ==
  ASSUME NEW s, Good(s), NEW s1, NEW f \in Owners(s), NEW n \in PIdx, NEW b \in Blocks,
         Attach(s, s1, f, n, b), Num(s, f, n) = 0, NEW d, d.blk[b] = Zeroed,
         NEW Y, Named(s, d, Y), NEW Z, Known(s, d, Z)
  PROVE  Named(s1, d, Y) /\ Known(s1, d, Z)
  <1>1. AttachShows(s, s1, d, b)
    BY AttachedDir
  <1>2. \A g \in Places(s1) : g \in Places(s) \/ g \in Owners(s1) \ Owners(s)
    <2>1. Root \notin Places(s1)
      BY ConstFacts DEF Places
    <2> QED  BY <2>1 DEF Owners
  <1>3. Places(s) \subseteq Owners(s)
    BY DEF Owners
  <1>4. \A o \in Owners(s) : FileAt(s1, o).size = FileAt(s, o).size /\ FileAt(s1, o).name = FileAt(s, o).name
    BY DEF Attach
  <1>5. NewFile.name = NoName /\ NewFile.size = 0
    BY DEF NewFile
  <1>6. Named(s1, d, Y)
    <2>1. ASSUME NEW g \in Places(s1), g \notin Y
          PROVE  FileAt(s1, g).name = Entry(s1, d, g).name /\ FileAt(s1, g).size = Entry(s1, d, g).size
      <3>1. CASE g \in Places(s)
        BY <1>1, <1>3, <1>4, <2>1, <3>1 DEF Named, AttachShows
      <3>2. CASE g \in Owners(s1) \ Owners(s)
        BY <1>1, <3>2 DEF AttachShows
      <3> QED  BY <1>2, <3>1, <3>2
    <2> QED  BY <2>1 DEF Named
  <1>7. Known(s1, d, Z)
    <2>1. ASSUME NEW g \in Places(s1), g \notin Z
          PROVE  g \in Places(d) \/ (FileAt(s1, g).name = NoName /\ FileAt(s1, g).size = 0)
      <3>1. CASE g \in Places(s)
        BY <1>3, <1>4, <2>1, <3>1 DEF Known
      <3>2. CASE g \in Owners(s1) \ Owners(s)
        BY <1>1, <1>5, <3>2 DEF AttachShows
      <3> QED  BY <1>2, <3>1, <3>2
    <2> QED  BY <2>1 DEF Known
  <1> QED  BY <1>6, <1>7

LEMMA FitsAlloced ==
  ASSUME Plain, NEW d0, NEW r, NEW d, NEW Y, NEW Z, Fits(d0, r, d, {}, Y, Z),
         NEW r1, NEW f \in Owners(r.s), NEW n \in DIdx, NEW b, AllocStep(r, r1, f, n, b), Good(r1.s),
         f = Root \/ f \in Places(d)
  PROVE  \E e : Fits(d0, r1, e, {}, Y, Z) /\ Places(e) = Places(d)
  <1>1. PICK s : s = r.s /\ s \in Store /\ GoodDisk(s) /\ Sized(s) /\ s.free \subseteq Blocks
    BY StoreType DEF Fits, Good, Sized, GoodDisk
  <1>2. r \in Req /\ r1 \in Req /\ r.w \in Seq(Write) /\ r.failed \in BOOLEAN /\ Good(s) /\ n \in PIdx
    <2>1. r \in Req /\ r1 \in Req /\ Good(s)
      BY <1>1 DEF Fits, AllocStep
    <2>2. r.w \in Seq(Write) /\ r.failed \in BOOLEAN
      BY <2>1 DEF Req
    <2>3. n \in PIdx
      BY ConstFacts DEF DIdx, PIdx
    <2> QED  BY <2>1, <2>2, <2>3
  <1>3. Attach(s, r1.s, f, n, b) /\ Num(s, f, n) = 0 /\ b \in s.free
    BY <1>1 DEF AllocStep, Attach
  <1>4. PICK x \in Write, y \in Write : x = <<"bitmap", s.free \ {b}>> /\ y = <<"blk", b, Zeroed>>
    BY <1>1, <1>3, WriteTypes, NewFileType
  <1>5. PICK w \in Seq(Write) : w = Append(r.w, x)
    <2>1. Append(r.w, x) \in Seq(Write)
      BY <1>2
    <2> QED  BY <2>1
  <1>6. r1.w = Append(w, y)
    BY <1>1, <1>4, <1>5 DEF AllocStep
  <1>7. PICK ra : ra = [s |-> s, w |-> w, failed |-> r.failed]
    OBVIOUS
  <1>8. ra \in Req /\ ra.s = s /\ ra.w = w
    BY <1>1, <1>2, <1>7 DEF Req
  <1>9. PICK d1 : d1 = Written(d, x)
    OBVIOUS
  <1>10. s.free \ {b} \in SUBSET r.s.free
    BY <1>1
  <1>11. Fits(d0, ra, d1, {}, Y, Z) /\ Places(d1) = Places(d) /\ d1.free = s.free \ {b}
    <2>1. PICK F \in SUBSET r.s.free : F = s.free \ {b}
      BY <1>10
    <2>2. ra.s = r.s /\ ra.w = Append(r.w, <<"bitmap", F>>) /\ d1 = Written(d, <<"bitmap", F>>)
      BY <1>1, <1>4, <1>5, <1>8, <1>9, <2>1
    <2>3. ra \in Req
      BY <1>8
    <2>4. Fits(d0, ra, d1, {}, Y, Z) /\ Places(d1) = Places(d) /\ d1.free = F
      BY ONLY <2>2, <2>3, FitsBitmapWritten, Plain, Fits(d0, r, d, {}, Y, Z), F \in SUBSET r.s.free
    <2> QED  BY <2>1, <2>4
  <1>12. PICK d2 : d2 = Written(d1, y)
    OBVIOUS
  <1>13. Rest(s, d1, {}) /\ Named(s, d1, Y) /\ Known(s, d1, Z) /\ d1 \in Store /\ Reaches(d0, w, Len(w), d1)
    BY <1>8, <1>11 DEF Fits, Rest, Sized
  <1>14. Rewrites(d1, d2, b, Zeroed)
    BY <1>1, <1>3, <1>4, <1>12, <1>13, BlockWritten, NewFileType DEF Rewrites
  <1>15. /\ Rest(s, d2, {}) /\ Places(d2) = Places(d1)
         /\ \A o \in Owners(s) : Entry(s, d2, o) = Entry(s, d1, o)
    BY <1>1, <1>3, <1>13, <1>14, RestZeroed
  <1>16. Named(s, d2, Y) /\ Known(s, d2, Z)
    <2>1. Places(s) \subseteq Owners(s)
      BY DEF Owners
    <2> QED  BY <1>13, <1>15, <2>1 DEF Named, Known
  <1>17. GoodDisk(d2)
    BY <1>2, <1>15, DiskGood
  <1>18. Reaches(d0, r1.w, Len(r1.w), d2)
    BY <1>6, <1>12, <1>13, <1>17, Extend
  <1>19. b \in Blocks /\ d2.blk[b] = Zeroed /\ b \notin d2.free
    BY <1>1, <1>3, <1>11, <1>14 DEF Rewrites
  <1>20. f \in Owners(s) /\ (f = Root \/ f \in Places(d2))
    BY <1>1, <1>11, <1>15
  <1>21. Rest(r1.s, d2, {}) /\ Direct(r1.s)
    BY <1>1, <1>3, <1>15, <1>19, <1>20, RestAttached
  <1>22. Named(r1.s, d2, Y) /\ Known(r1.s, d2, Z)
    BY <1>2, <1>3, <1>16, <1>19, <1>20, NamesAttached
  <1>23. Fits(d0, r1, d2, {}, Y, Z) /\ Places(d2) = Places(d)
    BY <1>2, <1>11, <1>15, <1>18, <1>21, <1>22 DEF Fits
  <1> QED  BY <1>23

-----------------------------------------------------------------------------
(* The operations on an open file, with their disk writes.                 *)

AtRest(d0, r, D) == On(d0, r, {}, {}, {}, D)

LEMMA OnParts ==
  ASSUME NEW d0, NEW r, NEW X, NEW Y, NEW Z, NEW D, On(d0, r, X, Y, Z, D)
  PROVE  r \in Req /\ Good(r.s) /\ Direct(r.s) /\ Sized(r.s) /\ GoodDisk(r.s)
  BY DEF On, Fits, Good, GoodDisk

LEMMA OnSame ==
  ASSUME NEW d0, NEW r, NEW X, NEW Y, NEW Z, NEW D, On(d0, r, X, Y, Z, D), NEW r1 \in Req, r1.s = r.s, r1.w = r.w
  PROVE  On(d0, r1, X, Y, Z, D)
  BY DEF On, Fits

LEMMA FewBlocks ==
  ASSUME Plain, NEW size \in Sizes, NEW n \in Nat, n < NBlocks(size)
  PROVE  n < NDIRECT
  <1>1. NBlocks(size) <= NDIRECT /\ NBlocks(size) \in Nat /\ NDIRECT \in Nat
    BY NBlocksBounds, NBlocksType, ConstFacts DEF Plain
  <1> QED  BY <1>1

LEMMA GetBlockOn ==
  ASSUME Plain, NEW d0, NEW r, NEW D, AtRest(d0, r, D), NEW f \in Owners(r.s), f \in D \/ f = Root,
         NEW n \in Nat, n < NDIRECT, Regular(f) => n < NBlocks(FileAt(r.s, f).size),
         NEW r1, r1 = file_get_block(r, f, n)
  PROVE  AtRest(d0, r1, D)
  <1>1. r \in Req /\ Good(r.s) /\ Sized(r.s)
    BY OnParts DEF AtRest
  <1>2. n \in DIdx /\ n \in Idx /\ n < NDIRECT
    BY ConstFacts DEF DIdx, Idx
  <1>3. file_block_walk(r, f, n) = r
    BY <1>2, ConstFacts DEF file_block_walk
  <1>4. r1 = FillPlace(r, f, n)
    BY <1>3 DEF file_get_block
  <1>5. MayAlloc(r, r1, f, n)
    BY <1>1, <1>2, <1>4, FillStep
  <1>6. Good(r1.s)
    BY <1>1, GetBlock DEF Kept
  <1>7. CASE r1 \in Req /\ r1.s = r.s /\ r1.w = r.w
    BY <1>7, OnSame DEF AtRest
  <1>8. ASSUME NEW b, AllocStep(r, r1, f, n, b) PROVE AtRest(d0, r1, D)
    <2>1. PICK d : Fits(d0, r, d, {}, {}, {}) /\ D \subseteq Places(d)
      BY DEF AtRest, On
    <2>2. f = Root \/ f \in Places(d)
      BY <2>1
    <2>3. PICK e : Fits(d0, r1, e, {}, {}, {}) /\ Places(e) = Places(d)
      BY <1>2, <1>6, <1>8, <2>1, <2>2, FitsAlloced
    <2> QED  BY <2>1, <2>3 DEF AtRest, On
  <1> QED  BY <1>5, <1>7, <1>8 DEF MayAlloc

(* A step in memory, of which the disk shows nothing yet. *)
LEMMA MovedOn ==
  ASSUME NEW d0, NEW r, NEW D, AtRest(d0, r, D), NEW r1 \in Req, Good(r1.s), r1.w = r.w,
         NEW X, X \subseteq D, Moved(r.s, r1.s, X), NEW Y, SameNames(r.s, r1.s, Y), NEW Z, SameNames(r.s, r1.s, Z \cup D)
  PROVE  On(d0, r1, X, Y, Z, D)
  <1>1. PICK d : Fits(d0, r, d, {}, {}, {}) /\ D \subseteq Places(d)
    BY DEF AtRest, On
  <1>2. SameNames(r.s, r1.s, Z \cup Places(d))
    BY <1>1 DEF SameNames
  <1>3. X \subseteq Places(d)
    BY <1>1
  <1>a. PICK E : E = {}
    OBVIOUS
  <1>b. Fits(d0, r, d, E, E, E) /\ E \subseteq X /\ E \subseteq Y /\ E \subseteq Z
    BY <1>1, <1>a
  <1>4. Fits(d0, r1, d, X, Y, Z)
    BY <1>2, <1>3, <1>b, FitsMoved
  <1> QED  BY <1>1, <1>4 DEF On

LEMMA MarkOn ==
  ASSUME NEW d0, NEW r, NEW D, AtRest(d0, r, D), NEW f \in Places(r.s), NEW n, NEW writes \in BOOLEAN,
         ~r.failed => n \in Idx /\ Num(r.s, f, n) # 0, NEW r1, r1 = Mark(r, f, n, writes)
  PROVE  AtRest(d0, r1, D)
  <1>1. r \in Req /\ Good(r.s) /\ Sized(r.s)
    BY OnParts DEF AtRest
  <1>2. r1 \in Req /\ Kept(r.s, r1.s) /\ r1.w = r.w
        /\ (r1 = r \/ (n \in Idx /\ Num(r.s, f, n) # 0 /\ Marked(r.s, r1.s, Num(r.s, f, n), f)))
    BY <1>1, MarkStep
  <1>3. CASE r1 = r
    BY <1>3
  <1>4. CASE n \in Idx /\ Num(r.s, f, n) # 0 /\ Marked(r.s, r1.s, Num(r.s, f, n), f)
    <2>1. PICK b \in Blocks : b = Num(r.s, f, n)
      BY <1>1, <1>4, OwnerFacts, ConstFacts DEF Owners
    <2>2. /\ SameDir(r.s, r1.s)
          /\ \A o \in Owners(r.s) : FileAt(r1.s, o) = FileAt(r.s, o)
          /\ \A o \in Owners(r.s), m \in PIdx : Num(r1.s, o, m) = Num(r.s, o, m)
      BY <1>1, <1>4, <2>1, MarkedEffect
    <2>3. Moved(r.s, r1.s, {})
      BY <1>4, <2>2 DEF Moved, Marked
    <2>4. SameNames(r.s, r1.s, {}) /\ SameNames(r.s, r1.s, {} \cup D)
      BY <2>2 DEF SameNames, Owners
    <2>5. Good(r1.s)
      BY <1>2 DEF Kept
    <2> QED  BY <1>2, <2>3, <2>4, <2>5, MovedOn DEF AtRest
  <1> QED  BY <1>2, <1>3, <1>4

LEMMA AccessOn ==
  ASSUME Plain, NEW d0, NEW r, NEW D, AtRest(d0, r, D), NEW f \in Places(r.s), f \in D,
         NEW offset \in Nat, NEW count \in Nat, offset + count <= MaxSize,
         NoNegativeSizes => offset + count <= FileAt(r.s, f).size, NEW writes \in BOOLEAN,
         NEW r1, r1 = Access(r, f, Touched(offset, count), writes)
  PROVE  AtRest(d0, r1, D)
  <1>0. r \in Req /\ Good(r.s) /\ Sized(r.s)
    BY OnParts DEF AtRest
  <1>1. PICK ns : ns = Touched(offset, count)
    OBVIOUS
  <1>2. FileAt(r.s, f).size \in Int /\ f \in Owners(r.s) /\ (Regular(f) => NoNegativeSizes)
    BY <1>0, PlaceFacts, FileType DEF Owners, Regular
  <1>3. /\ Cardinality(ns) \in Nat
        /\ \A k \in 1..Cardinality(ns) :
             /\ First(ns) + k - 1 \in Nat /\ First(ns) + k - 1 < NDIRECT
             /\ Regular(f) => First(ns) + k - 1 < NBlocks(FileAt(r.s, f).size)
    <2>1. PICK size \in Nat : size = offset + count /\ size \in Sizes
      <3>1. offset + count \in 0..MaxSize
        BY ConstFacts
      <3> QED  BY <3>1, ConstFacts
    <2>2. /\ Cardinality(ns) \in Nat
          /\ \A k \in 1..Cardinality(ns) : First(ns) + k - 1 \in Nat /\ First(ns) + k - 1 < NBlocks(size)
      BY <1>1, <2>1, TouchedFacts
    <2>3. ASSUME Regular(f) PROVE NBlocks(size) <= NBlocks(FileAt(r.s, f).size)
      BY <1>2, <2>1, <2>3, NBlocksOrder
    <2>4. NBlocks(size) \in Nat /\ NBlocks(FileAt(r.s, f).size) \in Nat
      BY <1>2, <2>1, NBlocksType
    <2>5. \A k \in 1..Cardinality(ns) : First(ns) + k - 1 < NDIRECT
      BY <2>1, <2>2, FewBlocks
    <2> QED  BY <2>2, <2>3, <2>4, <2>5
  <1> DEFINE Q == {x \in Req : Kept(r.s, x.s) /\ AtRest(d0, x, D)}
  <1>4. PICK P : P = [k \in 0..Cardinality(ns) |-> Q]
    OBVIOUS
  <1>5. r \in P[0]
    BY <1>0, <1>3, <1>4, KeptSelf
  <1>6. ASSUME NEW k \in 1..Cardinality(ns), NEW x \in P[k - 1]
        PROVE  AccessTurn(x, f, ns, k, writes) \in P[k]
    <2>1. k - 1 \in 0..Cardinality(ns) /\ k \in 0..Cardinality(ns)
      BY <1>3
    <2>2. x \in Req /\ Kept(r.s, x.s) /\ AtRest(d0, x, D) /\ P[k] = Q
      BY <1>4, <2>1
    <2>3. CASE x.failed
      BY <2>2, <2>3 DEF AccessTurn
    <2>4. CASE ~x.failed
      <3>1. PICK n \in Nat : n = First(ns) + k - 1 /\ n < NDIRECT /\ (Regular(f) => n < NBlocks(FileAt(r.s, f).size))
        BY <1>3
      <3>2. Good(x.s) /\ f \in Places(x.s) /\ f \in Owners(x.s) /\ (Regular(f) => n < NBlocks(FileAt(x.s, f).size))
        BY <1>2, <2>2, <3>1 DEF Kept, Owners
      <3>3. PICK y : y = file_get_block(x, f, n)
        OBVIOUS
      <3>4. y \in Req /\ Kept(x.s, y.s) /\ (~y.failed => n \in Idx /\ Num(y.s, f, n) # 0)
        BY <2>2, <3>2, <3>3, GetBlock
      <3>5. Good(y.s) /\ f \in Places(y.s)
        BY <3>2, <3>4 DEF Kept
      <3>6. AtRest(d0, y, D)
        BY <2>2, <3>1, <3>2, <3>3, GetBlockOn
      <3>7. PICK z : z = Mark(y, f, n, writes)
        OBVIOUS
      <3>8. z \in Req /\ Kept(y.s, z.s)
        BY <3>4, <3>5, <3>7, MarkStep
      <3>9. AtRest(d0, z, D)
        BY <3>4, <3>5, <3>6, <3>7, MarkOn
      <3>10. AccessTurn(x, f, ns, k, writes) = z
        BY <2>4, <3>1, <3>3, <3>7 DEF AccessTurn
      <3>11. Kept(r.s, z.s)
        BY <2>2, <3>4, <3>8, KeptTrans
      <3> QED  BY <2>2, <3>8, <3>9, <3>10, <3>11
    <2> QED  BY <2>3, <2>4
  <1>7. Access(r, f, ns, writes) \in P[Cardinality(ns)]
    BY <1>3, <1>5, <1>6, AccessLoop
  <1>8. r1 \in Q
    BY <1>1, <1>3, <1>4, <1>7
  <1> QED  BY <1>8

(* One more block is written. *)
WritesBlock(r, r1, b) == r1 \in Req /\ r1.s = r.s /\ r1.w = Append(r.w, <<"blk", b, r.s.blk[b]>>)

LEMMA BlockWrittenOn ==
  ASSUME NEW d0, NEW r, NEW X, NEW Y, NEW Z, NEW D, On(d0, r, X, Y, Z, D),
         NEW b \in Blocks, NEW r1, WritesBlock(r, r1, b), Others(r.s, X, b) = {}
  PROVE  On(d0, r1, {}, Others(r.s, Y, b), Z, D)
  <1>1. PICK d : Fits(d0, r, d, X, Y, Z) /\ D \subseteq Places(d)
    BY DEF On
  <1>2. r1 \in Req /\ r1.s = r.s /\ r1.w = Append(r.w, <<"blk", b, r.s.blk[b]>>)
    BY DEF WritesBlock
  <1>3. PICK d1 : d1 = Written(d, <<"blk", b, r.s.blk[b]>>)
    OBVIOUS
  <1>4. Fits(d0, r1, d1, {}, Others(r.s, Y, b), Z) /\ Places(d1) = Places(d)
    BY <1>1, <1>2, <1>3, FitsBlockWritten
  <1> QED  BY <1>1, <1>4 DEF On

(* A struct File is rewritten, of which blocks may just have been freed,   *)
(* and flushed.                                                            *)
LEMMA RewrittenOn ==
  ASSUME NEW d0, NEW r, NEW f, NEW D, NEW X, X \subseteq {f}, On(d0, r, X, {}, {}, D), f \in D, f \in Places(r.s),
         NEW ra \in Req, Good(ra.s), ra.w = r.w, Relabel(r.s, ra.s, f), NEW r1, r1 = FlushFile(ra, f)
  PROVE  AtRest(d0, r1, D)
  <1>1. PICK d : Fits(d0, r, d, X, {}, {}) /\ D \subseteq Places(d)
    BY DEF On
  <1>2. Moved(r.s, ra.s, {f})
    BY DEF Moved, Relabel
  <1>3. SameNames(r.s, ra.s, {f}) /\ SameNames(r.s, ra.s, {} \cup Places(d))
    <2>1. f \in Places(d)
      BY <1>1
    <2> QED  BY <2>1 DEF SameNames, Relabel, Owners
  <1>4. {f} \subseteq Places(d) /\ {} \subseteq {f} /\ {} \subseteq {}
    BY <1>1
  <1>5. Fits(d0, ra, d, {f}, {f}, {})
    BY <1>1, <1>2, <1>3, <1>4, FitsMoved
  <1>6. Sized(ra.s) /\ f \in Places(ra.s) /\ f \in Owners(ra.s) /\ f # Root
    <2>1. f \in Places(ra.s) /\ Sized(ra.s)
      BY DEF Relabel, SameDir, Good
    <2> QED  BY <2>1, PlaceFacts DEF Owners
  <1>7. PICK b \in Blocks : b = DirBlock(ra.s, f)
    BY <1>6, PlaceFacts
  <1>8. WritesBlock(ra, r1, b)
    BY <1>6, <1>7, FlushFileParts DEF WritesBlock
  <1>9. PICK F, E : F = {f} /\ E = {}
    OBVIOUS
  <1>10. Others(ra.s, F, b) = {}
    BY <1>7, <1>9 DEF Others
  <1>11. On(d0, ra, F, F, E, D)
    BY <1>1, <1>5, <1>9 DEF On
  <1>12. On(d0, r1, {}, Others(ra.s, F, b), E, D)
    BY <1>8, <1>10, <1>11, BlockWrittenOn
  <1> QED  BY <1>9, <1>10, <1>12 DEF AtRest

LEMMA TruncateOn ==
  ASSUME NEW d0, NEW r, NEW D, AtRest(d0, r, D), NEW f \in D, f \in Places(r.s), NEW newsize \in Sizes,
         NEW r1, r1 = file_truncate_blocks(r, f, newsize)
  PROVE  On(d0, r1, {f}, {}, {}, D)
  <1>1. r \in Req /\ Good(r.s) /\ Sized(r.s)
    BY OnParts DEF AtRest
  <1>2. /\ r1 \in Req /\ r1.w = r.w /\ Good(r1.s) /\ SameDir(r.s, r1.s)
        /\ FileAt(r1.s, f) = ClearPointers(FileAt(r.s, f), newsize)
        /\ \A o \in Owners(r.s) : o # f => FileAt(r1.s, o) = FileAt(r.s, o)
    BY <1>1, TruncateStep
  <1>3. PICK G \in SUBSET PIdx, H \in SUBSET PIdx : Detach(r.s, r1.s, f, G, H)
    BY <1>1, TruncateStep
  <1>4. PICK F, E : F = {f} /\ E = {}
    OBVIOUS
  <1>5. Moved(r.s, r1.s, F) /\ F \subseteq D
    BY <1>3, <1>4 DEF Moved, Detach
  <1>6. FileAt(r1.s, f).size = FileAt(r.s, f).size /\ FileAt(r1.s, f).name = FileAt(r.s, f).name
    BY <1>1, <1>2, PlaceFacts, ClearedFile
  <1>7. SameNames(r.s, r1.s, E) /\ SameNames(r.s, r1.s, E \cup D)
    BY <1>2, <1>6 DEF SameNames, Owners
  <1>8. On(d0, r1, F, E, E, D)
    BY <1>2, <1>5, <1>7, MovedOn
  <1> QED  BY <1>4, <1>8

LEMMA SetSizeOn ==
  ASSUME NEW d0, NEW r, NEW D, AtRest(d0, r, D), NEW f \in D, f \in Places(r.s), NEW size \in Sizes,
         NEW r1, r1 = file_set_size(r, f, size)
  PROVE  AtRest(d0, r1, D)
  <1>0. r \in Req /\ Good(r.s) /\ Sized(r.s)
    BY OnParts DEF AtRest
  <1>1. PICK fl \in File : fl = FileAt(r.s, f) /\ f \in Owners(r.s)
    BY <1>0, PlaceFacts DEF Owners
  <1>2. PICK ra : ra = IF fl.size > size THEN file_truncate_blocks(r, f, size) ELSE r
    OBVIOUS
  <1>3. r1 = Resized(ra, f, size)
    BY <1>1, <1>2 DEF file_set_size
  <1>4. size \in Int /\ fl.size \in Int
    BY FileType, ConstFacts
  <1>5. PICK X : X \subseteq {f} /\ On(d0, ra, X, {}, {}, D)
    <2>1. CASE fl.size > size
      <3>1. ra = file_truncate_blocks(r, f, size)
        BY <1>2, <2>1
      <3>2. On(d0, ra, {f}, {}, {}, D)
        BY <1>4, <3>1, TruncateOn
      <3> QED  BY <3>2
    <2>2. CASE ~(fl.size > size)
      <3>1. {} \subseteq {f} /\ On(d0, ra, {}, {}, {}, D)
        BY <1>2, <2>2 DEF AtRest
      <3> QED  BY <3>1
    <2> QED  BY <2>1, <2>2
  <1>6. Places(ra.s) = Places(r.s) /\ EmptyFrom(ra.s, f, size)
    <2>1. CASE fl.size > size
      <3>1. ra = file_truncate_blocks(r, f, size)
        BY <1>2, <2>1
      <3>2. SameDir(r.s, ra.s) /\ EmptyFrom(ra.s, f, size)
        BY <1>0, <1>4, <3>1, TruncateStep
      <3> QED  BY <3>2 DEF SameDir
    <2>2. CASE ~(fl.size > size)
      <3>1. NBlocks(fl.size) <= NBlocks(size) /\ NBlocks(fl.size) \in Nat /\ NBlocks(size) \in Nat
        BY <1>4, <2>2, NBlocksOrder, NBlocksType
      <3>2. ASSUME NoNegativeSizes, NEW n \in PIdx, n >= NBlocks(size) PROVE Num(r.s, f, n) = 0
        <4>1. n >= NBlocks(fl.size)
          BY <3>1, <3>2, ConstFacts DEF PIdx
        <4> QED  BY <1>0, <1>1, <3>2, <4>1 DEF Good, Short, Regular
      <3> QED  BY <1>2, <2>2, <3>2 DEF EmptyFrom
    <2> QED  BY <2>1, <2>2
  <1>7. ra \in Req /\ Good(ra.s) /\ Sized(ra.s) /\ f \in Places(ra.s)
    BY <1>5, <1>6, OnParts
  <1>8. PICK fa \in File : fa = FileAt(ra.s, f)
    BY <1>7, PlaceFacts
  <1>9. PICK fl1 : fl1 = [fa EXCEPT !.size = size]
    OBVIOUS
  <1>10. fl1 \in File /\ fl1.size = size /\ fl1.direct = fa.direct /\ fl1.indirect = fa.indirect
    BY <1>9 DEF File
  <1>11. PICK rb : rb = SetFile(ra, f, fl1)
    OBVIOUS
  <1>12. EmptyFrom(ra.s, f, fl1.size)
    BY <1>6, <1>10
  <1>13. rb \in Req /\ rb.w = ra.w /\ Relabel(ra.s, rb.s, f) /\ Good(rb.s)
    BY <1>7, <1>8, <1>10, <1>11, <1>12, LabelStep
  <1>14. r1 = FlushFile(rb, f)
    BY <1>3, <1>8, <1>9, <1>11 DEF Resized
  <1> QED  BY <1>5, <1>7, <1>13, <1>14, RewrittenOn

LEMMA ReadOn ==
  ASSUME Plain, NEW d0, NEW r, NEW D, AtRest(d0, r, D), NEW f \in D, f \in Places(r.s),
         NEW offset \in Nat, NEW count \in Nat, NEW r1, r1 = file_read(r, f, count, offset)
  PROVE  AtRest(d0, r1, D)
  <1>0. Sized(r.s)
    BY OnParts DEF AtRest
  <1>1. PICK size \in Int : size = FileAt(r.s, f).size /\ size <= MaxSize /\ MaxSize \in Nat
    <2>1. FileAt(r.s, f).size \in Sizes /\ FileAt(r.s, f).size \in Int
      BY <1>0, PlaceFacts, FileType
    <2> QED  BY <2>1, ConstFacts DEF Sizes
  <1>2. CASE offset >= size
    BY <1>1, <1>2 DEF file_read
  <1>3. CASE ~(offset >= size)
    <2>0. size \in Nat
      BY <1>3
    <2>1. PICK c \in Nat : c = IF count < size - offset THEN count ELSE size - offset
      BY <1>3, <2>0
    <2>2. offset + c <= size /\ offset + c <= MaxSize
      BY <1>1, <1>3, <2>0, <2>1
    <2>3. r1 = Access(r, f, Touched(offset, c), FALSE)
      BY <1>1, <1>3, <2>1 DEF file_read
    <2> QED  BY <1>1, <2>2, <2>3, AccessOn
  <1> QED  BY <1>2, <1>3

LEMMA WriteOn ==
  ASSUME Plain, NEW d0, NEW r, NEW D, AtRest(d0, r, D), NEW f \in D, f \in Places(r.s),
         NEW offset \in Nat, NEW count \in Nat, offset + count <= MaxSize, NEW r1, r1 = file_write(r, f, count, offset)
  PROVE  AtRest(d0, r1, D)
  <1>0. r \in Req /\ Good(r.s) /\ Sized(r.s)
    BY OnParts DEF AtRest
  <1>1. PICK size \in Sizes : size = FileAt(r.s, f).size
    BY <1>0, PlaceFacts, FileType
  <1>2. PICK ra : ra = IF offset + count > size % WORD THEN file_set_size(r, f, offset + count) ELSE r
    OBVIOUS
  <1>3. r1 = Access(ra, f, Touched(offset, count), TRUE)
    BY <1>1, <1>2 DEF file_write
  <1>4. AtRest(d0, ra, D) /\ f \in Places(ra.s) /\ (NoNegativeSizes => offset + count <= FileAt(ra.s, f).size)
    <2>1. CASE offset + count > size % WORD
      <3>1. PICK n \in Sizes : n = offset + count /\ n \in Int
        <4>1. offset + count \in 0..MaxSize
          BY ConstFacts
        <4> QED  BY <4>1, ConstFacts
      <3>2. ra = file_set_size(r, f, n)
        BY <1>2, <2>1, <3>1
      <3>3. Places(ra.s) = Places(r.s) /\ FileAt(ra.s, f).size = n
        BY <1>0, <3>2, SetSizeStep
      <3>4. AtRest(d0, ra, D)
        BY <3>2, SetSizeOn
      <3> QED  BY <3>1, <3>3, <3>4
    <2>2. CASE ~(offset + count > size % WORD)
      <3>1. PICK n \in Nat : n = offset + count
        OBVIOUS
      <3>2. NoNegativeSizes => n <= size
        BY <2>2, <3>1, GrowsForWrite
      <3> QED  BY <1>1, <1>2, <2>2, <3>1, <3>2
    <2> QED  BY <2>1, <2>2
  <1> QED  BY <1>3, <1>4, AccessOn

-----------------------------------------------------------------------------
(* Flushing. *)

LEMMA OnMore ==
  ASSUME NEW d0, NEW r, NEW X, NEW Y, NEW Z, NEW D, On(d0, r, X, Y, Z, D), NEW Y1, Y \subseteq Y1
  PROVE  On(d0, r, X, Y1, Z, D)
  <1>1. PICK d : Fits(d0, r, d, X, Y, Z) /\ D \subseteq Places(d)
    BY DEF On
  <1>2. Fits(d0, r, d, X, Y1, Z)
    BY <1>1 DEF Fits, Named
  <1> QED  BY <1>1, <1>2 DEF On

(* Flushing k blocks of the directory writes the struct Files in them. *)
Late(f, Y, k) == {g \in Y : f = Root => DirIndex(g) >= k}

LEMMA FlushPlaceOn ==
  ASSUME NEW d0, NEW r, NEW f \in Owners(r.s), NEW Y, Y \subseteq Places(r.s), NEW Z, NEW D, NEW n \in Nat, NEW m, m = n + 1,
         n < NBlocks(FileAt(r.s, f).size), On(d0, r, {}, Late(f, Y, n), Z, D), NEW r1, r1 = FlushPlace(r, f, n)
  PROVE  On(d0, r1, {}, Late(f, Y, m), Z, D)
  <1>1. r \in Req /\ Good(r.s) /\ Sized(r.s)
    BY OnParts
  <1>2. r1 \in Req /\ r1.s = r.s /\ FlushedTo(r, r1, f, n) /\ (f = Root => n \in Idx)
    BY <1>1, FlushPlaceParts
  <1>3. ASSUME NEW g \in Late(f, Y, n), g \notin Late(f, Y, m)
        PROVE  f = Root /\ DirBlock(r.s, g) = Num(r.s, f, n) /\ DirBlock(r.s, g) \in Blocks
    <2>1. f = Root /\ g \in Places(r.s) /\ DirIndex(g) >= n /\ ~(DirIndex(g) >= m)
      BY <1>3 DEF Late
    <2>2. /\ DirIndex(g) \in Nat /\ DirBlock(r.s, g) \in Blocks
          /\ DirBlock(r.s, g) = Num(r.s, Root, DirIndex(g))
      BY <1>1, <2>1, PlaceFacts, SlotFacts
    <2>3. DirIndex(g) = n
      BY <2>1, <2>2
    <2> QED  BY <2>1, <2>2, <2>3
  <1>4. CASE r1 = r /\ (n \in Idx => Num(r.s, f, n) = 0)
    <2>1. Late(f, Y, n) \subseteq Late(f, Y, m)
      BY <1>2, <1>3, <1>4, ConstFacts
    <2> QED  BY <1>4, <2>1, OnMore
  <1>5. CASE Num(r.s, f, n) \in Blocks /\ r1.w = Append(r.w, <<"blk", Num(r.s, f, n), r.s.blk[Num(r.s, f, n)]>>)
    <2>1. PICK b \in Blocks : b = Num(r.s, f, n)
      BY <1>5
    <2>2. WritesBlock(r, r1, b)
      BY <1>2, <1>5, <2>1 DEF WritesBlock
    <2>3. PICK E, L : E = {} /\ L = Late(f, Y, n)
      OBVIOUS
    <2>4. Others(r.s, E, b) = {}
      BY <2>3 DEF Others
    <2>5. On(d0, r, E, L, Z, D)
      BY <2>3
    <2>6. On(d0, r1, {}, Others(r.s, L, b), Z, D)
      BY <2>2, <2>4, <2>5, BlockWrittenOn
    <2>7. Others(r.s, L, b) \subseteq Late(f, Y, m)
      BY <1>3, <2>1, <2>3 DEF Others
    <2> QED  BY <2>6, <2>7, OnMore
  <1> QED  BY <1>2, <1>4, <1>5 DEF FlushedTo

LEMMA FlushDataOn ==
  ASSUME NEW d0, NEW r, NEW f \in Owners(r.s), NEW Y, Y \subseteq Places(r.s), NEW Z, NEW D,
         On(d0, r, {}, Y, Z, D), NEW r1, r1 = FlushData(r, f), NEW N, N = NBlocks(FileAt(r.s, f).size)
  PROVE  r1 \in Req /\ r1.s = r.s /\ On(d0, r1, {}, Late(f, Y, N), Z, D)
  <1>0. r \in Req /\ Good(r.s) /\ Sized(r.s)
    BY OnParts
  <1>1. N \in Nat
    BY <1>0, OwnerFacts, FileType
  <1>2. PICK P : P = [k \in 0..N |-> {x \in Req : x.s = r.s /\ On(d0, x, {}, Late(f, Y, k), Z, D)}]
    OBVIOUS
  <1>3. \A k \in 0..N : \A x : x \in P[k] <=> x \in Req /\ x.s = r.s /\ On(d0, x, {}, Late(f, Y, k), Z, D)
    BY <1>2
  <1>4. r \in P[0]
    <2>1. \A g \in Y : DirIndex(g) \in Nat
      BY <1>0, PlaceFacts, SlotFacts
    <2>2. Late(f, Y, 0) = Y
      BY <2>1 DEF Late
    <2>3. On(d0, r, {}, Late(f, Y, 0), Z, D)
      BY <2>2
    <2>4. 0 \in 0..N
      BY <1>1
    <2> QED  BY <1>0, <1>3, <2>3, <2>4
  <1>5. ASSUME NEW k \in 1..N, NEW x \in P[k - 1] PROVE FlushPlace(x, f, k - 1) \in P[k]
    <2>1. k - 1 \in 0..N /\ k \in 0..N /\ k - 1 \in Nat /\ k - 1 < N
      BY <1>1
    <2>2. PICK n \in Nat : n = k - 1 /\ k = n + 1 /\ n < N
      BY <2>1
    <2>3. x \in Req /\ x.s = r.s /\ On(d0, x, {}, Late(f, Y, n), Z, D)
      BY <1>3, <2>1, <2>2
    <2>4. n < NBlocks(FileAt(x.s, f).size) /\ f \in Owners(x.s) /\ Y \subseteq Places(x.s) /\ Sized(x.s)
      BY <1>0, <2>2, <2>3
    <2>5. PICK y : y = FlushPlace(x, f, n)
      OBVIOUS
    <2>6. y \in Req /\ y.s = x.s
      BY <2>3, <2>4, <2>5, FlushPlaceParts
    <2>7. On(d0, y, {}, Late(f, Y, k), Z, D)
      BY <2>2, <2>3, <2>4, <2>5, FlushPlaceOn
    <2> QED  BY <1>3, <2>1, <2>2, <2>3, <2>5, <2>6, <2>7
  <1>6. FlushData(r, f) \in P[N]
    BY <1>1, <1>4, <1>5, FlushLoop
  <1>7. N \in 0..N
    BY <1>1
  <1> QED  BY <1>3, <1>6, <1>7

LEMMA OnWithin ==
  ASSUME NEW d0, NEW r, NEW X, NEW Y, NEW Z, NEW D, On(d0, r, X, Y, Z, D)
  PROVE  D \subseteq Places(r.s)
  <1>1. PICK d : Fits(d0, r, d, X, Y, Z) /\ D \subseteq Places(d)
    BY DEF On
  <1>2. Shows(r.s, d)
    BY <1>1, DiskShows DEF Fits
  <1> QED  BY <1>1, <1>2 DEF Shows

LEMMA OnLess ==
  ASSUME NEW d0, NEW r, NEW X, NEW Y, NEW Z, NEW D, On(d0, r, X, Y, Z, D), NEW D1, D1 \subseteq D
  PROVE  On(d0, r, X, Y, Z, D1)
  BY DEF On

WritesRoot(r, r1) == r1 \in Req /\ r1.s = r.s /\ r1.w = Append(r.w, <<"super", r.s.root>>)

LEMMA RootWrittenOn ==
  ASSUME NEW d0, NEW r, NEW Y, NEW Z, NEW D, On(d0, r, {}, Y, Z, D), NEW r1, WritesRoot(r, r1)
  PROVE  On(d0, r1, {}, Y, {}, Places(r.s))
  <1>1. PICK d : Fits(d0, r, d, {}, Y, Z)
    BY DEF On
  <1>2. r1 \in Req /\ r1.s = r.s /\ r1.w = Append(r.w, <<"super", r.s.root>>)
    BY DEF WritesRoot
  <1>3. PICK d1 : d1 = Written(d, <<"super", r.s.root>>)
    OBVIOUS
  <1>4. Fits(d0, r1, d1, {}, Y, {}) /\ Places(d1) = Places(r.s)
    BY <1>1, <1>2, <1>3, FitsRootWritten
  <1> QED  BY <1>4 DEF On

(* No file has an indirect block. *)
LEMMA NoIndirect ==
  ASSUME NEW s, Sized(s), Direct(s), NEW f \in Owners(s)
  PROVE  FileAt(s, f).indirect = 0
  BY OwnerFacts DEF Direct

LEMMA FlushOn ==
  ASSUME NEW d0, NEW r, NEW D, AtRest(d0, r, D), NEW f \in Places(r.s), NEW r1, r1 = file_flush(r, f)
  PROVE  AtRest(d0, r1, D)
  <1>1. r \in Req /\ Sized(r.s) /\ Direct(r.s) /\ f \in Owners(r.s)
    BY OnParts DEF AtRest, Owners
  <1>2. PICK E, N : E = {} /\ N = NBlocks(FileAt(r.s, f).size)
    OBVIOUS
  <1>3. On(d0, r, {}, E, E, D) /\ E \subseteq Places(r.s)
    BY <1>2 DEF AtRest
  <1>4. PICK ra : ra = FlushData(r, f)
    OBVIOUS
  <1>5. ra \in Req /\ ra.s = r.s /\ On(d0, ra, {}, Late(f, E, N), E, D)
    BY <1>1, <1>2, <1>3, <1>4, FlushDataOn
  <1>6. Late(f, E, N) = E
    BY <1>2 DEF Late
  <1>7. PICK rb : rb = FlushFile(ra, f)
    OBVIOUS
  <1>8. PICK b \in Blocks : b = DirBlock(ra.s, f) /\ f # Root
    BY <1>1, <1>5, PlaceFacts
  <1>9. WritesBlock(ra, rb, b)
    BY <1>1, <1>5, <1>7, <1>8, FlushFileParts DEF WritesBlock
  <1>10. Others(ra.s, E, b) = E
    BY <1>2 DEF Others
  <1>11. On(d0, ra, E, E, E, D)
    BY <1>2, <1>5, <1>6
  <1>12. On(d0, rb, {}, Others(ra.s, E, b), E, D)
    BY <1>2, <1>9, <1>10, <1>11, BlockWrittenOn
  <1>13. FileAt(r.s, f).indirect = 0
    BY <1>1, NoIndirect
  <1>14. r1 = rb
    BY <1>4, <1>7, <1>13 DEF file_flush
  <1> QED  BY <1>2, <1>10, <1>12, <1>14 DEF AtRest

LEMMA FlushRootOn ==
  ASSUME NEW d0, NEW r, NEW Y, Y \subseteq Places(r.s), NEW Z, NEW D, On(d0, r, {}, Y, Z, D),
         NEW r1, r1 = file_flush(r, Root)
  PROVE  AtRest(d0, r1, Places(r.s))
  <1>1. r \in Req /\ Sized(r.s) /\ Direct(r.s) /\ Root \in Owners(r.s)
    BY OnParts DEF Owners
  <1>2. PICK N : N = NBlocks(FileAt(r.s, Root).size)
    OBVIOUS
  <1>3. PICK ra : ra = FlushData(r, Root)
    OBVIOUS
  <1>4. ra \in Req /\ ra.s = r.s /\ On(d0, ra, {}, Late(Root, Y, N), Z, D)
    BY <1>1, <1>2, <1>3, FlushDataOn
  <1>5. Late(Root, Y, N) = {}
    <2>1. ASSUME NEW g \in Y PROVE ~(DirIndex(g) >= N)
      <3>1. g \in Places(r.s) /\ FileAt(r.s, Root) = r.s.root
        BY DEF FileAt
      <3>2. DirIndex(g) < N /\ DirIndex(g) \in Nat
        BY <1>1, <1>2, <3>1, PlaceFacts, SlotFacts
      <3>3. N \in Nat
        BY <1>1, <1>2, OwnerFacts, FileType
      <3> QED  BY <3>2, <3>3
    <2> QED  BY <2>1 DEF Late
  <1>6. PICK rb : rb = FlushFile(ra, Root)
    OBVIOUS
  <1>7. WritesRoot(ra, rb)
    BY <1>1, <1>4, <1>6, FlushFileParts DEF WritesRoot
  <1>8. PICK L : L = Late(Root, Y, N)
    OBVIOUS
  <1>9. On(d0, ra, {}, L, Z, D)
    BY <1>4, <1>8
  <1>10. On(d0, rb, {}, L, {}, Places(ra.s))
    BY <1>7, <1>9, RootWrittenOn
  <1>11. FileAt(r.s, Root).indirect = 0
    BY <1>1, NoIndirect
  <1>12. r1 = rb
    BY <1>3, <1>6, <1>11 DEF file_flush
  <1> QED  BY <1>4, <1>5, <1>8, <1>10, <1>12 DEF AtRest

-----------------------------------------------------------------------------
(* The operations on the directory, with their disk writes. *)

AllNamed(s, F) == F \subseteq Places(s) /\ \A f \in F : FileAt(s, f).name # NoName

(* A file with a name is on the disk. *)
LEMMA NamedOn ==
  ASSUME NEW d0, NEW r, NEW D, AtRest(d0, r, D), NEW F, AllNamed(r.s, F)
  PROVE  AtRest(d0, r, D \cup F)
  <1>1. PICK d : Fits(d0, r, d, {}, {}, {}) /\ D \subseteq Places(d)
    BY DEF AtRest, On
  <1>2. Known(r.s, d, {})
    BY <1>1 DEF Fits
  <1>3. F \subseteq Places(d)
    BY <1>2 DEF Known, AllNamed
  <1>4. D \cup F \subseteq Places(d)
    BY <1>1, <1>3
  <1> QED  BY <1>1, <1>4 DEF AtRest, On

LEMMA RemoveOn ==
  ASSUME NEW d0, NEW r, NEW D, AtRest(d0, r, D), NEW found \in SUBSET Places(r.s), found \subseteq D,
         NEW p, p.r = r, p.found = found, NEW r1, r1 = file_remove(p)
  PROVE  AtRest(d0, r1, D)
  <1>0. r \in Req /\ Good(r.s) /\ Sized(r.s)
    BY OnParts DEF AtRest
  <1>1. CASE found = {}
    BY <1>1 DEF file_remove
  <1>2. CASE found # {}
    <2>1. PICK f : f = First(found) /\ f \in Places(r.s) /\ f \in D
      <3>1. found \subseteq Nat
        BY ConstFacts DEF Places
      <3> QED  BY <1>2, <3>1, FirstIsIn
    <2>2. PICK ra : ra = file_truncate_blocks(r, f, 0) /\ 0 \in Sizes
      BY ConstFacts
    <2>3. ra \in Req /\ Good(ra.s) /\ Sized(ra.s) /\ SameDir(r.s, ra.s) /\ EmptyFrom(ra.s, f, 0)
      BY <1>0, <2>1, <2>2, TruncateStep DEF Good
    <2>4. f \in Places(ra.s)
      BY <2>1, <2>3 DEF SameDir
    <2>5. PICK fl \in File : fl = FileAt(ra.s, f)
      BY <2>3, <2>4, PlaceFacts
    <2>6. PICK fl1 : fl1 = [fl EXCEPT !.name = NoName, !.size = 0]
      OBVIOUS
    <2>7. fl1 \in File /\ fl1.size = 0 /\ fl1.direct = fl.direct /\ fl1.indirect = fl.indirect
      BY <2>2, <2>6 DEF File
    <2>8. PICK rb : rb = Emptied(ra, f) /\ rb = SetFile(ra, f, fl1)
      BY <2>5, <2>6 DEF Emptied
    <2>9. rb \in Req /\ rb.w = ra.w /\ Relabel(ra.s, rb.s, f) /\ Good(rb.s)
      <3>1. EmptyFrom(ra.s, f, fl1.size)
        BY <2>3, <2>7
      <3> QED  BY <2>3, <2>4, <2>5, <2>7, <2>8, <3>1, LabelStep
    <2>10. r1 = FlushFile(rb, f)
      BY <1>2, <2>1, <2>2, <2>8 DEF file_remove
    <2>11. On(d0, ra, {f}, {}, {}, D)
      BY <2>1, <2>2, TruncateOn
    <2>12. {f} \subseteq {f}
      OBVIOUS
    <2> QED  BY <2>1, <2>4, <2>9, <2>10, <2>11, <2>12, RewrittenOn
  <1> QED  BY <1>1, <1>2

HasName(p, name) == \A f \in p.found : FileAt(p.r.s, f).name = name

LEMMA ScanOn ==
  ASSUME Plain, NEW d0, NEW r, NEW D, AtRest(d0, r, D), NEW name, NEW p, p = DirScan(r, name)
  PROVE  AtRest(d0, p.r, D) /\ HasName(p, name)
  <1>0. r \in Req /\ Good(r.s) /\ Sized(r.s)
    BY OnParts DEF AtRest
  <1>1. Root \in Owners(r.s) /\ FileAt(r.s, Root) = r.s.root
    BY DEF Owners, FileAt
  <1>2. PICK N \in Nat : N = NBlocks(r.s.root.size)
    BY <1>0, <1>1, OwnerFacts, FileType
  <1>3. PICK st : st = [r |-> r, found |-> {}]
    OBVIOUS
  <1> DEFINE Q == {x \in Found : FoundIn(r.s, x) /\ AtRest(d0, x.r, D) /\ HasName(x, name)}
  <1>4. PICK P : P = [k \in 0..N |-> Q]
    OBVIOUS
  <1>5. st \in P[0]
    <2>1. st \in Found /\ st.r = r /\ st.found = {}
      BY <1>0, <1>3 DEF Found
    <2>2. FoundIn(r.s, st)
      BY <1>0, <2>1, KeptSelf DEF FoundIn
    <2>3. AtRest(d0, st.r, D) /\ HasName(st, name)
      BY <2>1 DEF HasName
    <2> QED  BY <1>4, <2>1, <2>2, <2>3
  <1>6. ASSUME NEW k \in 1..N, NEW x \in P[k - 1] PROVE ScanBlock(x, k - 1, name) \in P[k]
    <2>1. k - 1 \in 0..N /\ k \in 0..N
      OBVIOUS
    <2>2. x \in Found /\ FoundIn(r.s, x) /\ AtRest(d0, x.r, D) /\ HasName(x, name) /\ P[k] = Q
      BY <1>4, <2>1
    <2>3. CASE x.r.failed \/ x.found # {}
      BY <2>2, <2>3 DEF ScanBlock
    <2>4. CASE ~(x.r.failed \/ x.found # {})
      <3>1. PICK n \in Nat : n = k - 1 /\ n < N
        BY <2>1
      <3>2. x.r \in Req /\ Kept(r.s, x.r.s)
        BY <2>2 DEF FoundIn, Found
      <3>3. Good(x.r.s) /\ Root \in Owners(x.r.s) /\ n < NBlocks(FileAt(x.r.s, Root).size) /\ n < NDIRECT
        <4>1. r.s.root.size \in Sizes
          BY <1>0, <1>1, OwnerFacts, FileType
        <4>2. n < NDIRECT
          BY <1>2, <3>1, <4>1, FewBlocks
        <4> QED  BY <1>1, <1>2, <3>1, <3>2, <4>2 DEF Kept, Owners
      <3>4. PICK y : y = file_get_block(x.r, Root, n)
        OBVIOUS
      <3>5. y \in Req /\ Kept(x.r.s, y.s)
        BY <3>2, <3>3, <3>4, GetBlock
      <3>6. AtRest(d0, y, D)
        BY <2>2, <3>3, <3>4, GetBlockOn
      <3>7. Kept(r.s, y.s)
        BY <3>2, <3>5, KeptTrans
      <3>8. PICK z : z = InBlock(y, n, name)
        OBVIOUS
      <3>9. FoundIn(r.s, z) /\ z.r = y /\ \A f \in z.found : FileAt(y.s, f).name = name
        BY <3>5, <3>7, <3>8, InBlockStep
      <3>10. ScanBlock(x, k - 1, name) = z
        BY <2>4, <3>1, <3>4, <3>8 DEF ScanBlock
      <3>11. z \in Found /\ HasName(z, name)
        BY <3>9 DEF FoundIn, HasName
      <3> QED  BY <2>2, <3>6, <3>9, <3>10, <3>11
    <2> QED  BY <2>3, <2>4
  <1>7. DirScan(r, name) \in P[NBlocks(r.s.root.size)]
    BY <1>2, <1>3, <1>5, <1>6, DirLoop
  <1> QED  BY <1>2, <1>4, <1>7

LEMMA GrowOn ==
  ASSUME Plain, NEW d0, NEW s, NEW p, FoundIn(s, p), HasRoom(p), NEW D, AtRest(d0, p.r, D), NEW q, q = Grow(p)
  PROVE  AtRest(d0, q.r, D)
  <1>1. p.r \in Req /\ Good(p.r.s) /\ p.r.s \in Store /\ p.r.s.root \in File /\ p.r.s.root.size \in Nat
    BY OnParts, StoreType DEF AtRest, Sized
  <1>2. CASE p.r.failed \/ p.found # {}
    BY <1>2 DEF Grow
  <1>3. CASE ~(p.r.failed \/ p.found # {})
    <2>1. /\ p.r.s.root.size \in Nat /\ BLKSIZE \in Nat \ {0}
          /\ p.r.s.root.size + BLKSIZE <= DIRBLOCKS * BLKSIZE
      BY <1>1, <1>3, ConstFacts DEF HasRoom
    <2>2. PICK n \in Nat : n = NBlocks(p.r.s.root.size)
      BY <2>1, NBlocksFacts
    <2>3. PICK root : root = [p.r.s.root EXCEPT !.size = p.r.s.root.size + BLKSIZE]
      OBVIOUS
    <2>4. root \in File
      <3>1. p.r.s.root.size + BLKSIZE \in Sizes
        BY <2>1, ConstFacts
      <3> QED  BY <1>1, <2>3, <3>1 DEF File
    <2>5. PICK rg : rg = [p.r EXCEPT !.s.root.size = @ + BLKSIZE]
      OBVIOUS
    <2>6. rg = SetFile(p.r, Root, root)
      BY <1>1, <2>3, <2>5 DEF SetFile
    <2>7. rg \in Req /\ rg.w = p.r.w /\ RootChanged(p.r.s, rg.s, root)
      BY <1>1, <2>4, <2>6, SetRootParts
    <2>8. Grown(p.r.s, rg.s)
      BY <2>3, <2>7 DEF Grown, RootChanged
    <2>9. /\ Good(rg.s) /\ SameDir(p.r.s, rg.s) /\ NBlocks(rg.s.root.size) = n + 1
          /\ \A g \in Places(p.r.s) : FileAt(rg.s, g) = FileAt(p.r.s, g)
          /\ \A o \in Owners(p.r.s), m \in PIdx : Num(rg.s, o, m) = Num(p.r.s, o, m)
      BY <1>1, <2>1, <2>2, <2>8, GrownStep
    <2>10. PICK E : E = {}
      OBVIOUS
    <2>11. Moved(p.r.s, rg.s, E) /\ E \subseteq D
      BY <2>7, <2>9, <2>10 DEF Moved, RootChanged
    <2>12. SameNames(p.r.s, rg.s, E) /\ SameNames(p.r.s, rg.s, E \cup D)
      BY <2>9 DEF SameNames
    <2>13. On(d0, rg, E, E, E, D)
      BY <2>7, <2>9, <2>11, <2>12, MovedOn
    <2>14. AtRest(d0, rg, D)
      BY <2>10, <2>13 DEF AtRest
    <2>15. PICK y : y = file_get_block(rg, Root, n)
      OBVIOUS
    <2>16. Root \in Owners(rg.s) /\ FileAt(rg.s, Root) = rg.s.root /\ n < NBlocks(FileAt(rg.s, Root).size) /\ n < NDIRECT
      <3>1. rg.s.root.size \in Sizes
        BY <2>9, FileType, StoreType DEF Good, Sized
      <3>2. n < NBlocks(rg.s.root.size)
        BY <2>2, <2>9
      <3> QED  BY <3>1, <3>2, FewBlocks DEF Owners, FileAt
    <2>17. AtRest(d0, y, D)
      BY <2>14, <2>15, <2>16, GetBlockOn
    <2>18. q = NewPlace(y, n)
      BY <1>3, <2>2, <2>5, <2>15 DEF Grow
    <2>19. q.r = y
      BY <2>18 DEF NewPlace
    <2> QED  BY <2>17, <2>19
  <1> QED  BY <1>2, <1>3

LEMMA NameOn ==
  ASSUME NEW d0, NEW s, NEW p, PlaceIn(s, p), NEW D, AtRest(d0, p.r, D), NEW name \in Names, NEW q, q = NameIt(p, name)
  PROVE  AtRest(d0, q.r, D \cup q.found)
  <1>1. p \in Found /\ p.r \in Req /\ Good(p.r.s) /\ Sized(p.r.s) /\ p.found \subseteq Places(p.r.s)
    BY OnParts DEF PlaceIn, AtRest
  <1>2. CASE p.r.failed
    <2>1. q = p /\ q.found = {}
      BY <1>2 DEF NameIt, PlaceIn
    <2>2. D \cup q.found = D
      BY <2>1
    <2> QED  BY <2>1, <2>2
  <1>3. CASE ~p.r.failed
    <2>1. PICK f : f = First(p.found) /\ f \in Places(p.r.s)
      <3>1. p.found \subseteq Nat /\ p.found # {}
        BY <1>1, <1>3, ConstFacts DEF PlaceIn, Places
      <3> QED  BY <1>1, <3>1, FirstIsIn
    <2>2. PICK fl \in File : fl = FileAt(p.r.s, f) /\ f \in Owners(p.r.s)
      BY <1>1, <2>1, PlaceFacts DEF Owners
    <2>3. PICK fl1 : fl1 = [fl EXCEPT !.name = name]
      OBVIOUS
    <2>4. fl1 \in File /\ fl1.size = fl.size /\ fl1.direct = fl.direct /\ fl1.indirect = fl.indirect
      BY <2>3 DEF File
    <2>5. PICK ra : ra = SetFile(p.r, f, fl1)
      OBVIOUS
    <2>6. EmptyFrom(p.r.s, f, fl1.size)
      BY <1>1, <2>2, <2>4 DEF Good, Short, Regular, EmptyFrom
    <2>7. ra \in Req /\ ra.w = p.r.w /\ Relabel(p.r.s, ra.s, f) /\ Good(ra.s)
      BY <1>1, <2>1, <2>2, <2>4, <2>5, <2>6, LabelStep
    <2>8. PICK F, E : F = {f} /\ E = {}
      OBVIOUS
    <2>9. Moved(p.r.s, ra.s, E) /\ E \subseteq D
      BY <2>7, <2>8 DEF Moved, Relabel
    <2>10. SameNames(p.r.s, ra.s, F) /\ SameNames(p.r.s, ra.s, F \cup D)
      BY <2>7, <2>8 DEF SameNames, Relabel, Owners
    <2>11. On(d0, ra, E, F, F, D)
      BY <2>7, <2>9, <2>10, MovedOn
    <2>12. F \subseteq Places(ra.s) /\ Places(ra.s) = Places(p.r.s)
      BY <2>1, <2>7, <2>8 DEF Relabel, SameDir
    <2>13. PICK y : y = file_flush(ra, Root)
      OBVIOUS
    <2>14. On(d0, ra, {}, F, F, D)
      BY <2>8, <2>11
    <2>15. AtRest(d0, y, Places(ra.s))
      BY <2>12, <2>13, <2>14, FlushRootOn
    <2>16. q = [p EXCEPT !.r = y]
      BY <1>3, <2>1, <2>2, <2>3, <2>5, <2>13 DEF NameIt, WithName
    <2>17. q.r = y /\ q.found = p.found
      BY <1>1, <2>16 DEF Found
    <2>18. D \subseteq Places(ra.s)
      BY <2>14, OnWithin
    <2>19. D \cup q.found \subseteq Places(ra.s)
      BY <1>1, <2>12, <2>17, <2>18
    <2> QED  BY <2>15, <2>17, <2>19, OnLess DEF AtRest
  <1> QED  BY <1>2, <1>3

LEMMA CreateOn ==
  ASSUME Plain, NEW d0, NEW r, NEW D, AtRest(d0, r, D), NEW name \in Names, HasRoom(DirScan(r, NoName)),
         NEW q, q = file_create(r, name)
  PROVE  AtRest(d0, q.r, D \cup q.found)
  <1>0. r \in Req /\ Good(r.s)
    BY OnParts DEF AtRest
  <1>1. PICK p : p = DirScan(r, NoName)
    OBVIOUS
  <1>2. FoundIn(r.s, p)
    BY <1>0, <1>1, ScanStep
  <1>3. AtRest(d0, p.r, D)
    BY <1>1, ScanOn
  <1>4. PICK g : g = Grow(p)
    OBVIOUS
  <1>5. PlaceIn(r.s, g)
    BY <1>1, <1>2, <1>4, GrowStep
  <1>6. AtRest(d0, g.r, D)
    BY <1>1, <1>2, <1>3, <1>4, GrowOn
  <1>7. q = NameIt(g, name)
    BY <1>1, <1>4 DEF file_create, dir_alloc_file
  <1> QED  BY <1>5, <1>6, <1>7, NameOn

LEMMA LookupOn ==
  ASSUME Plain, NEW d0, NEW r, NEW D, AtRest(d0, r, D), NEW name \in Names, NEW p, p = dir_lookup(r, name)
  PROVE  FoundIn(r.s, p) /\ AtRest(d0, p.r, D \cup p.found)
  <1>0. r \in Req /\ Good(r.s)
    BY OnParts DEF AtRest
  <1>1. p = DirScan(r, name)
    BY DEF dir_lookup
  <1>2. FoundIn(r.s, p) /\ AtRest(d0, p.r, D) /\ HasName(p, name)
    BY <1>0, <1>1, ScanStep, ScanOn
  <1>3. name # NoName
    BY FileSysAssumption
  <1>4. AllNamed(p.r.s, p.found)
    BY <1>2, <1>3 DEF AllNamed, HasName, FoundIn
  <1> QED  BY <1>2, <1>4, NamedOn

LEMMA FindOn ==
  ASSUME Plain, NEW d0, NEW r, NEW D, AtRest(d0, r, D),
         NEW name \in Names, NEW creat \in BOOLEAN, NEW excl \in BOOLEAN,
         NEW look, look = dir_lookup(r, name),
         creat /\ look.found = {} => HasRoom(DirScan(look.r, NoName)),
         NEW p, p = FindOrCreate(look, name, creat, excl)
  PROVE  AtRest(d0, p.r, D \cup p.found)
  <1>1. FoundIn(r.s, look) /\ AtRest(d0, look.r, D \cup look.found)
    BY LookupOn
  <1>2. look \in Found
    BY <1>1 DEF FoundIn
  <1>3. AtRest(d0, look.r, D)
    <2>1. D \subseteq D \cup look.found
      OBVIOUS
    <2> QED  BY <1>1, <2>1, OnLess DEF AtRest
  <1>4. CASE creat /\ look.found = {} /\ ~look.r.failed
    <2>1. p = file_create(look.r, name)
      BY <1>4 DEF FindOrCreate
    <2> QED  BY <1>3, <1>4, <2>1, CreateOn
  <1>5. CASE ~(creat /\ look.found = {} /\ ~look.r.failed) /\ creat /\ excl
    <2>1. p = [look EXCEPT !.found = {}]
      BY <1>5 DEF FindOrCreate
    <2>2. p.r = look.r /\ p.found = {}
      BY <1>2, <2>1 DEF Found
    <2>3. D \cup p.found = D
      BY <2>2
    <2> QED  BY <1>3, <2>2, <2>3
  <1>6. CASE ~(creat /\ look.found = {} /\ ~look.r.failed) /\ ~(creat /\ excl)
    BY <1>1, <1>6 DEF FindOrCreate
  <1> QED  BY <1>4, <1>5, <1>6

-----------------------------------------------------------------------------
(* fs_sync: every block, in the order of the disk.                         *)

(* Disk d fits store s in every respect. *)
Settled(s, d, D) == Rest(s, d, {}) /\ Named(s, d, {}) /\ Known(s, d, {}) /\ D \subseteq Places(d)

LEMMA SettledWritten ==
  ASSUME NEW s, GoodDisk(s), NEW d, NEW D, Settled(s, d, D), NEW b \in Blocks,
         NEW d1, d1 = Written(d, <<"blk", b, s.blk[b]>>)
  PROVE  Settled(s, d1, D)
  <1>1. s \in Store /\ d \in Store /\ Sized(s) /\ s.blk[b] \in Block
    BY StoreType DEF GoodDisk, Good, Sized, Settled, Rest
  <1>2. Rewrites(d, d1, b, s.blk[b])
    BY <1>1, BlockWritten DEF Rewrites
  <1>3. PICK E : E = {} /\ Others(s, E, b) = E
    <2>1. Others(s, {}, b) = {}
      BY DEF Others
    <2> QED  BY <2>1
  <1>4. Rest(s, d, E) /\ Named(s, d, E) /\ Known(s, d, E)
    BY <1>3 DEF Settled
  <1>5. Rest(s, d1, Others(s, E, b)) /\ Places(d1) = Places(d)
    BY <1>2, <1>4, RestRewritten
  <1>6. Named(s, d1, Others(s, E, b))
    BY <1>1, <1>2, <1>4, NamedRewritten
  <1>7. Known(s, d1, E)
    BY <1>4, <1>5 DEF Known
  <1> QED  BY <1>3, <1>5, <1>6, <1>7 DEF Settled

LEMMA AllWritten ==
  ASSUME NEW d0, NEW s, GoodDisk(s), NEW D, NEW v \in Seq(Write),
         NEW e, Reaches(d0, v, Len(v), e), Settled(s, e, D),
         NEW data \in Seq(Write), data = [b \in Blocks |-> <<"blk", b, s.blk[b]>>], NEW w, w = v \o data
  PROVE  \E d : Reaches(d0, w, Len(w), d) /\ Settled(s, d, D)
  <1>1. NB \in Nat /\ Blocks = 1..NB
    BY ConstFacts DEF Blocks
  <1>2. PICK m \in Nat : m = Len(v)
    OBVIOUS
  <1>3. Len(data) = NB /\ \A b \in Blocks : data[b] = <<"blk", b, s.blk[b]>>
    BY <1>1
  <1>4. /\ Len(w) = m + NB /\ \A k \in 1..m : w[k] = v[k]
        /\ \A b \in 1..NB : w[m + b] = data[b]
    BY <1>1, <1>2, <1>3
  <1> DEFINE T == {k \in Nat : k <= NB => \E d : Reaches(d0, w, m + k, d) /\ Settled(s, d, D)}
  <1>5. 0 \in T
    <2>1. Reaches(d0, v, m, e)
      BY <1>2
    <2>2. Reaches(d0, w, m, e)
      BY <1>4, <2>1, SameWrites
    <2>3. m + 0 = m
      OBVIOUS
    <2>4. Reaches(d0, w, m + 0, e)
      BY <2>2, <2>3
    <2> QED  BY <2>4
  <1>6. ASSUME NEW k \in Nat, k \in T PROVE k + 1 \in T
    <2>1. ASSUME k + 1 <= NB PROVE \E d : Reaches(d0, w, m + (k + 1), d) /\ Settled(s, d, D)
      <3>1. k <= NB /\ k + 1 \in Blocks /\ k + 1 \in 1..NB
        BY <1>1, <2>1
      <3>2. PICK d : Reaches(d0, w, m + k, d) /\ Settled(s, d, D)
        BY <1>6, <3>1
      <3>3. PICK b \in Blocks : b = k + 1 /\ b \in 1..NB
        BY <3>1
      <3>4. PICK d1 : d1 = Written(d, <<"blk", b, s.blk[b]>>)
        OBVIOUS
      <3>5. Settled(s, d1, D)
        BY <3>2, <3>4, SettledWritten
      <3>6. GoodDisk(d1)
        BY <3>5, DiskGood DEF Settled, GoodDisk
      <3>7. PICK j \in Nat : j = m + k /\ j + 1 = m + (k + 1) /\ j + 1 = m + b
        BY <3>3
      <3>8. w[m + b] = <<"blk", b, s.blk[b]>>
        BY <1>3, <1>4, <3>3
      <3>9. w[j + 1] = <<"blk", b, s.blk[b]>>
        BY <3>7, <3>8
      <3>10. d1 = Written(d, w[j + 1]) /\ Reaches(d0, w, j, d)
        BY <3>2, <3>4, <3>7, <3>9
      <3>11. Reaches(d0, w, j + 1, d1)
        BY <3>6, <3>10, NextWrite
      <3>12. Reaches(d0, w, m + (k + 1), d1)
        BY <3>7, <3>11
      <3> QED  BY <3>5, <3>12
    <2>2. k + 1 \in Nat
      OBVIOUS
    <2> QED  BY <2>1, <2>2
  <1>7. T = Nat
    <2> HIDE DEF T
    <2>1. T \in SUBSET Nat
      BY DEF T
    <2> QED  BY <1>5, <1>6, <2>1, NatSet
  <1>8. NB \in T
    BY <1>1, <1>7
  <1>9. NB <= NB
    BY <1>1
  <1>10. \E d : Reaches(d0, w, m + NB, d) /\ Settled(s, d, D)
    BY <1>8, <1>9
  <1> QED  BY <1>4, <1>10

LEMMA SyncOn ==
  ASSUME Plain, TypeOK, Good(mem), NEW D, AtRest(disk, Begin, D), serve_sync
  PROVE  \E r1 : AtRest(disk, r1, D) /\ Finish(r1)
  <1>1. PICK r \in Req : r = Begin /\ r.s = mem
    BY BeginParts
  <1>2. mem \in Store /\ Sized(mem) /\ Root \in Owners(mem) /\ NB \in Nat /\ mem.free \subseteq Blocks
    BY ConstFacts, StoreType DEF TypeOK, Good, Owners
  <1>3. PICK ra : ra = FlushFile(r, Root)
    OBVIOUS
  <1>4. WritesRoot(r, ra)
    BY <1>1, <1>2, <1>3, FlushFileParts DEF WritesRoot
  <1>5. PICK E : E = {}
    OBVIOUS
  <1>6. On(disk, r, {}, E, E, D)
    BY <1>1, <1>5 DEF AtRest
  <1>7. On(disk, ra, {}, E, {}, Places(mem))
    BY <1>1, <1>4, <1>6, RootWrittenOn
  <1>8. D \subseteq Places(mem)
    BY <1>1, OnWithin DEF AtRest
  <1>9. PICK rb : rb = FlushBitmap(ra)
    OBVIOUS
  <1>10. ra \in Req /\ ra.s = mem
    BY <1>1, <1>4 DEF WritesRoot
  <1>11. rb \in Req /\ rb.s = ra.s /\ rb.failed = ra.failed /\ rb.w = Append(ra.w, <<"bitmap", ra.s.free>>)
    <2>1. PICK x \in Write : x = <<"bitmap", ra.s.free>>
      BY <1>2, <1>10, WriteTypes
    <2>2. rb = [ra EXCEPT !.w = Append(@, x)]
      BY <1>9, <2>1 DEF FlushBitmap
    <2> QED  BY <1>10, <2>1, <2>2, FlushTypes
  <1>12. PICK d : Fits(disk, ra, d, E, E, E) /\ D \subseteq Places(d)
    BY <1>5, <1>7, <1>8 DEF On
  <1>13. PICK d1 : Fits(disk, rb, d1, {}, E, E) /\ Places(d1) = Places(d)
    <2>1. PICK F \in SUBSET ra.s.free : F = ra.s.free
      OBVIOUS
    <2>2. rb.s = ra.s /\ rb.w = Append(ra.w, <<"bitmap", F>>)
      BY <1>11, <2>1
    <2>3. Fits(disk, ra, d, {}, E, E)
      BY <1>5, <1>12
    <2>4. PICK e : e = Written(d, <<"bitmap", F>>)
      OBVIOUS
    <2>5. Fits(disk, rb, e, {}, E, E) /\ Places(e) = Places(d)
      BY <1>11, <2>2, <2>3, <2>4, FitsBitmapWritten
    <2> QED  BY <2>5
  <1>14. Settled(mem, d1, D) /\ GoodDisk(mem) /\ Direct(mem) /\ Reaches(disk, rb.w, Len(rb.w), d1)
    BY <1>5, <1>10, <1>11, <1>12, <1>13 DEF Fits, Settled, GoodDisk
  <1>15. PICK data : data = [b \in Blocks |-> <<"blk", b, mem.blk[b]>>]
    OBVIOUS
  <1>16. data \in Seq(Write)
    <2>1. \A b \in Blocks : <<"blk", b, mem.blk[b]>> \in Write
      BY <1>2, StoreType, WriteTypes
    <2> QED  BY <1>2, <1>15, <2>1 DEF Blocks
  <1>17. PICK v \in Seq(Write) : v = rb.w
    BY <1>11 DEF Req
  <1>18. PICK w \in Seq(Write) : w = v \o data
    <2>1. v \o data \in Seq(Write)
      BY <1>16
    <2> QED  BY <2>1
  <1>19. PICK d2 : Reaches(disk, w, Len(w), d2) /\ Settled(mem, d2, D)
    <2>1. Reaches(disk, v, Len(v), d1)
      BY <1>14, <1>17
    <2> QED  BY <1>14, <1>15, <1>16, <1>18, <2>1, AllWritten
  <1>20. PICK r1 : r1 = [rb EXCEPT !.w = w]
    OBVIOUS
  <1>21. r1 \in Req /\ r1.s = mem /\ r1.w = w
    BY <1>10, <1>11, <1>18, <1>20 DEF Req
  <1>22. AtRest(disk, r1, D)
    BY <1>14, <1>19, <1>21 DEF AtRest, On, Fits, Settled
  <1>23. Finish(r1)
    BY <1>1, <1>3, <1>9, <1>15, <1>17, <1>18, <1>20 DEF serve_sync
  <1> QED  BY <1>22, <1>23

-----------------------------------------------------------------------------
(* The invariant of memory and disk.                                       *)

Current == [s |-> mem, w |-> todo, failed |-> FALSE]

DInv == MInv /\ AtRest(disk, Current, opened)

LEMMA CurrentParts ==
  ASSUME TypeOK
  PROVE  Current \in Req /\ Current.s = mem /\ Current.w = todo
  BY DEF TypeOK, Current, Req

(* A request leaves behind what it did. *)
LEMMA FinishOn ==
  ASSUME NEW r1, AtRest(disk, r1, opened'), Finish(r1), MInv'
  PROVE  AtRest(disk', Current', opened')
  <1>1. mem' = r1.s /\ todo' = r1.w /\ disk' = disk
    BY DEF Finish
  <1>2. Current' = [s |-> r1.s, w |-> r1.w, failed |-> FALSE]
    BY <1>1 DEF Current
  <1>3. PICK c : c = [s |-> r1.s, w |-> r1.w, failed |-> FALSE]
    OBVIOUS
  <1>4. r1 \in Req
    BY OnParts DEF AtRest
  <1>5. c \in Req /\ c.s = r1.s /\ c.w = r1.w
    BY <1>3, <1>4 DEF Req
  <1>6. AtRest(disk, c, opened')
    BY <1>5, OnSame DEF AtRest
  <1> QED  BY <1>1, <1>2, <1>3, <1>6

LEMMA OpenOn ==
  ASSUME Plain, MInv, AtRest(disk, Begin, opened),
         NEW name \in Names, NEW creat \in BOOLEAN, NEW excl \in BOOLEAN, NEW trunc \in BOOLEAN,
         serve_open(name, creat, excl, trunc)
  PROVE  \E r1 : AtRest(disk, r1, opened') /\ Finish(r1)
  <1>1. PICK r \in Req : r = Begin /\ r.s = mem
    BY BeginParts DEF MInv
  <1>2. PICK look : look = dir_lookup(r, name)
    OBVIOUS
  <1>3. PICK p : p = FindOrCreate(look, name, creat, excl)
    OBVIOUS
  <1>4. (creat /\ look.found = {} => HasRoom(DirScan(look.r, NoName))) /\ Opened(p, trunc)
    BY <1>1, <1>2, <1>3 DEF serve_open
  <1>5. p.r \in Req /\ p.found \subseteq Places(p.r.s)
    BY <1>1, <1>2, <1>3, <1>4, FindStep DEF MInv
  <1>6. AtRest(disk, p.r, opened \cup p.found)
    BY <1>1, <1>2, <1>3, <1>4, FindOn
  <1>7. CASE p.found = {}
    <2>1. Finish(p.r) /\ opened' = opened
      BY <1>4, <1>7 DEF Opened
    <2>2. opened \cup p.found = opened'
      BY <1>7, <2>1
    <2> QED  BY <1>6, <2>1, <2>2
  <1>8. CASE p.found # {}
    <2>1. PICK f : f = First(p.found) /\ f \in Places(p.r.s) /\ f \in p.found
      <3>1. p.found \subseteq Nat
        BY <1>5, ConstFacts DEF Places
      <3> QED  BY <1>5, <1>8, <3>1, FirstIsIn
    <2>2. PICK r1 : r1 = IF trunc THEN file_set_size(p.r, f, 0) ELSE p.r
      OBVIOUS
    <2>3. Finish(r1) /\ opened' = opened \cup {f}
      BY <1>4, <1>8, <2>1, <2>2 DEF Opened
    <2>4. AtRest(disk, r1, opened \cup p.found)
      <3>1. CASE trunc
        <4>1. PICK D : D = opened \cup p.found /\ f \in D
          BY <2>1
        <4>2. r1 = file_set_size(p.r, f, 0) /\ 0 \in Sizes /\ AtRest(disk, p.r, D)
          BY <1>6, <2>2, <3>1, <4>1, ConstFacts
        <4> QED  BY <2>1, <4>1, <4>2, SetSizeOn
      <3>2. CASE ~trunc
        BY <1>6, <2>2, <3>2
      <3> QED  BY <3>1, <3>2
    <2>5. opened' \subseteq opened \cup p.found
      BY <2>1, <2>3
    <2>6. AtRest(disk, r1, opened')
      BY <2>4, <2>5, OnLess DEF AtRest
    <2> QED  BY <2>3, <2>6
  <1> QED  BY <1>7, <1>8

LEMMA RequestOn ==
  ASSUME Plain, MInv, AtRest(disk, Begin, opened), Request
  PROVE  \E r1 : AtRest(disk, r1, opened') /\ Finish(r1)
  <1>1. PICK r \in Req : r = Begin /\ r.s = mem /\ Good(mem) /\ opened \subseteq Places(r.s) /\ AtRest(disk, r, opened)
    BY BeginParts DEF MInv
  <1>2. ASSUME NEW name \in Names, NEW creat \in BOOLEAN, NEW excl \in BOOLEAN, NEW trunc \in BOOLEAN,
               serve_open(name, creat, excl, trunc)
        PROVE  \E r1 : AtRest(disk, r1, opened') /\ Finish(r1)
    BY <1>2, OpenOn
  <1>3. ASSUME NEW name \in Names, serve_remove(name)
        PROVE  \E r1 : AtRest(disk, r1, opened') /\ Finish(r1)
    <2>1. PICK p : p = dir_lookup(r, name)
      OBVIOUS
    <2>2. FoundIn(r.s, p) /\ AtRest(disk, p.r, opened \cup p.found)
      BY <1>1, <2>1, LookupOn
    <2>3. PICK rp, found, D : rp = p.r /\ found = p.found /\ D = opened \cup p.found
      OBVIOUS
    <2>4. found \in SUBSET Places(rp.s) /\ found \subseteq D /\ AtRest(disk, rp, D)
      BY <2>2, <2>3 DEF FoundIn
    <2>5. PICK r1 : r1 = file_remove(p)
      OBVIOUS
    <2>6. AtRest(disk, r1, D)
      BY <2>3, <2>4, <2>5, RemoveOn
    <2>7. Finish(r1) /\ opened' = opened
      BY <1>1, <1>3, <2>1, <2>5 DEF serve_remove
    <2>8. opened' \subseteq D
      BY <2>3, <2>7
    <2>9. AtRest(disk, r1, opened')
      BY <2>6, <2>8, OnLess DEF AtRest
    <2> QED  BY <2>7, <2>9
  <1>4. ASSUME NEW f \in opened, NEW size \in Sizes, serve_set_size(f, size)
        PROVE  \E r1 : AtRest(disk, r1, opened') /\ Finish(r1)
    <2>1. PICK r1 : r1 = file_set_size(r, f, size)
      OBVIOUS
    <2>2. AtRest(disk, r1, opened)
      BY <1>1, <2>1, SetSizeOn
    <2>3. Finish(r1) /\ opened' = opened
      BY <1>1, <1>4, <2>1 DEF serve_set_size
    <2> QED  BY <2>2, <2>3
  <1>5. ASSUME NEW f \in opened, NEW offset \in 0..MaxSize, NEW count \in 0..BLKSIZE,
               serve_read(f, count, offset)
        PROVE  \E r1 : AtRest(disk, r1, opened') /\ Finish(r1)
    <2>1. PICK r1 : r1 = file_read(r, f, count, offset)
      OBVIOUS
    <2>2. AtRest(disk, r1, opened)
      BY <1>1, <2>1, ReadOn, ConstFacts
    <2>3. Finish(r1) /\ opened' = opened
      BY <1>1, <1>5, <2>1 DEF serve_read
    <2> QED  BY <2>2, <2>3
  <1>6. ASSUME NEW f \in opened, NEW offset \in 0..MaxSize, NEW count \in 0..BLKSIZE,
               serve_write(f, count, offset)
        PROVE  \E r1 : AtRest(disk, r1, opened') /\ Finish(r1)
    <2>1. PICK r1 : r1 = file_write(r, f, count, offset)
      OBVIOUS
    <2>2. offset + count <= MaxSize /\ Finish(r1) /\ opened' = opened
      BY <1>1, <1>6, <2>1 DEF serve_write
    <2>3. AtRest(disk, r1, opened)
      BY <1>1, <2>1, <2>2, WriteOn, ConstFacts
    <2> QED  BY <2>2, <2>3
  <1>7. ASSUME NEW f \in opened, serve_flush(f)
        PROVE  \E r1 : AtRest(disk, r1, opened') /\ Finish(r1)
    <2>1. PICK r1 : r1 = file_flush(r, f)
      OBVIOUS
    <2>2. AtRest(disk, r1, opened)
      BY <1>1, <2>1, FlushOn
    <2>3. Finish(r1) /\ opened' = opened
      BY <1>1, <1>7, <2>1 DEF serve_flush
    <2> QED  BY <2>2, <2>3
  <1>8. CASE serve_sync
    <2>1. \E r1 : AtRest(disk, r1, opened) /\ Finish(r1)
      BY <1>8, SyncOn DEF MInv
    <2>2. opened' = opened
      BY <1>8 DEF serve_sync
    <2> QED  BY <2>1, <2>2
  <1> QED  BY <1>2, <1>3, <1>4, <1>5, <1>6, <1>7, <1>8 DEF Request

(* A server that just started: its memory is the disk. *)
LEMMA FreshOn ==
  ASSUME NEW s, GoodDisk(s), NEW r \in Req, r.s = s, r.w = <<>>
  PROVE  AtRest(s, r, {})
  <1>1. PICK E : E = {}
    OBVIOUS
  <1>2. Rest(s, s, {}) /\ Named(s, s, {}) /\ Known(s, s, {})
    BY FitsItself
  <1>3. Good(s) /\ Direct(s)
    BY DEF GoodDisk
  <1>4. Reaches(s, r.w, Len(r.w), s)
    <2>1. Len(r.w) = 0
      OBVIOUS
    <2>2. Reaches(s, r.w, 0, s)
      BY NoWrite
    <2> QED  BY <2>1, <2>2
  <1>5. Fits(s, r, s, E, E, E)
    BY <1>1, <1>2, <1>3, <1>4 DEF Fits
  <1> QED  BY <1>1, <1>5 DEF AtRest, On

LEMMA NewRests ==
  ASSUME Init
  PROVE  DInv
  <1>1. MInv /\ disk = mem /\ opened = {} /\ todo = <<>>
    BY NewIsGood DEF Init
  <1>2. Direct(mem)
    BY NewIsGood, ConstFacts DEF Direct
  <1>3. GoodDisk(mem)
    BY <1>1, <1>2 DEF GoodDisk, MInv
  <1>4. PICK r \in Req : r = Current /\ r.s = mem /\ r.w = <<>>
    BY <1>1, CurrentParts DEF MInv
  <1>5. AtRest(mem, r, {})
    BY <1>3, <1>4, FreshOn
  <1> QED  BY <1>1, <1>4, <1>5 DEF DInv

LEMMA RequestRests ==
  ASSUME Plain, DInv, todo = <<>>, Request
  PROVE  DInv'
  <1>1. MInv' /\ MInv /\ AtRest(disk, Current, opened)
    BY RequestMade DEF DInv
  <1>2. Begin = Current
    BY DEF Begin, Current
  <1>3. PICK r1 : AtRest(disk, r1, opened') /\ Finish(r1)
    BY <1>1, <1>2, RequestOn
  <1>4. AtRest(disk', Current', opened')
    BY <1>1, <1>3, FinishOn
  <1> QED  BY <1>1, <1>4 DEF DInv

LEMMA WriteRests ==
  ASSUME DInv, ide_write
  PROVE  DInv'
  <1>1. MInv /\ MInv' /\ mem' = mem /\ opened' = opened
    BY WriteMade DEF DInv, ide_write
  <1>2. PICK r \in Req : r = Current /\ r.s = mem /\ r.w = todo
    BY <1>1, CurrentParts DEF MInv
  <1>3. PICK r1 \in Req : r1 = Current' /\ r1.s = mem' /\ r1.w = todo'
    <2>1. Current' = [s |-> mem', w |-> todo', failed |-> FALSE]
      BY DEF Current
    <2>2. mem' \in Store /\ todo' \in Seq(Write)
      BY <1>1 DEF MInv, TypeOK
    <2>3. PICK c : c = [s |-> mem', w |-> todo', failed |-> FALSE]
      OBVIOUS
    <2>4. c \in Req /\ c.s = mem' /\ c.w = todo'
      BY <2>2, <2>3 DEF Req
    <2> QED  BY <2>1, <2>3, <2>4
  <1>4. PICK E : E = {}
    OBVIOUS
  <1>5. PICK d : Fits(disk, r, d, E, E, E) /\ opened \subseteq Places(d)
    BY <1>2, <1>4 DEF DInv, AtRest, On
  <1>6. Reaches(disk, todo, Len(todo), d)
    BY <1>2, <1>5 DEF Fits
  <1>7. todo \in Seq(Write) /\ todo # <<>> /\ disk' = Written(disk, Head(todo)) /\ todo' = Tail(todo)
    BY <1>1 DEF ide_write, MInv, TypeOK
  <1>8. Reaches(Written(disk, Head(todo)), Tail(todo), Len(Tail(todo)), d)
    BY <1>6, <1>7, FirstWrite
  <1>9. Reaches(disk', r1.w, Len(r1.w), d)
    BY <1>3, <1>7, <1>8
  <1>10. Fits(disk', r1, d, E, E, E)
    BY <1>1, <1>2, <1>3, <1>5, <1>9 DEF Fits
  <1>11. AtRest(disk', r1, opened')
    BY <1>1, <1>4, <1>5, <1>10 DEF AtRest, On
  <1> QED  BY <1>1, <1>3, <1>11 DEF DInv

(* Every disk on the way is good: one of them is the disk. *)
LEMMA DiskIsGood ==
  ASSUME DInv
  PROVE  GoodDisk(disk)
  <1>1. PICK E, d : E = {} /\ Fits(disk, Current, d, E, E, E)
    BY DEF DInv, AtRest, On
  <1>2. Reaches(disk, todo, Len(todo), d) /\ Len(todo) \in Nat
    BY <1>1, CurrentParts DEF Fits, DInv, MInv, TypeOK
  <1> QED  BY <1>2, GoodAtOnce

LEMMA CrashRests ==
  ASSUME DInv, Crash
  PROVE  DInv'
  <1>1. mem' = disk /\ disk' = disk /\ todo' = <<>> /\ opened' = {}
    BY DEF Crash
  <1>2. GoodDisk(disk) /\ disk \in Store
    BY DiskIsGood DEF DInv, MInv, TypeOK
  <1>3. <<>> \in Seq(Write)
    OBVIOUS
  <1>4. MInv'
    BY <1>1, <1>2, <1>3 DEF MInv, TypeOK, GoodDisk
  <1>5. PICK c : c = [s |-> disk, w |-> <<>>, failed |-> FALSE]
    OBVIOUS
  <1>6. c \in Req /\ c.s = disk /\ c.w = <<>>
    BY <1>2, <1>3, <1>5 DEF Req
  <1>7. AtRest(disk, c, {})
    BY <1>2, <1>6, FreshOn
  <1>8. Current' = c
    BY <1>1, <1>5 DEF Current
  <1> QED  BY <1>1, <1>4, <1>7, <1>8 DEF DInv

LEMMA PlainKeeps ==
  ASSUME Plain
  PROVE  Spec => []DInv
  <1>1. Init => DInv
    BY NewRests
  <1>2. ASSUME DInv, [Next]_vars PROVE DInv'
    <2>1. CASE todo = <<>> /\ Request
      BY <1>2, <2>1, RequestRests
    <2>2. CASE ide_write
      BY <1>2, <2>2, WriteRests
    <2>3. CASE Crash
      BY <1>2, <2>3, CrashRests
    <2>4. CASE UNCHANGED vars
      BY <1>2, <2>4 DEF DInv, MInv, TypeOK, Current, vars
    <2> QED  BY <1>2, <2>1, <2>2, <2>3, <2>4 DEF Next
  <1> QED  BY <1>1, <1>2, PTL DEF Spec

LEMMA NamesMatch ==
  ASSUME DInv, todo = <<>>
  PROVE  \A f \in Places(mem) \cup Places(disk) :
           IF f \in Places(mem) \cap Places(disk)
           THEN FileAt(mem, f).name = FileAt(disk, f).name /\ FileAt(mem, f).size = FileAt(disk, f).size
           ELSE f \in Places(mem) /\ FileAt(mem, f) = NewFile
  <1>1. PICK r \in Req : r = Current /\ r.s = mem /\ r.w = todo
    BY CurrentParts DEF DInv, MInv
  <1>2. PICK E, d : E = {} /\ Fits(disk, r, d, E, E, E)
    BY <1>1 DEF DInv, AtRest, On
  <1>3. d = disk
    <2>1. Len(r.w) = 0 /\ Reaches(disk, r.w, Len(r.w), d)
      BY <1>1, <1>2 DEF Fits
    <2>2. Reaches(disk, r.w, 0, d)
      BY <2>1
    <2> QED  BY <2>2, GoodAtOnce
  <1>4. Good(mem) /\ Direct(mem) /\ Sized(mem) /\ Rest(mem, disk, E) /\ Named(mem, disk, E) /\ Known(mem, disk, E)
    BY <1>1, <1>2, <1>3 DEF Fits, Good
  <1>5. Shows(mem, disk)
    BY <1>4, DiskShows
  <1>6. Places(disk) \subseteq Places(mem)
    BY <1>5 DEF Shows
  <1>7. ASSUME NEW f \in Places(mem), f \in Places(disk)
        PROVE  FileAt(mem, f).name = FileAt(disk, f).name /\ FileAt(mem, f).size = FileAt(disk, f).size
    <2>1. FileAt(disk, f) = Entry(mem, disk, f)
      BY <1>5, <1>7 DEF Shows, Owners
    <2> QED  BY <1>2, <1>4, <1>7, <2>1 DEF Named
  <1>8. ASSUME NEW f \in Places(mem), f \notin Places(disk)
        PROVE  FileAt(mem, f) = NewFile
    <2>1. PICK fl : fl = FileAt(mem, f)
      OBVIOUS
    <2>2. f \in Owners(mem) /\ fl \in File /\ fl.indirect = 0
      BY <1>4, <2>1, OwnerFacts DEF Owners, Direct
    <2>3. fl.name = NoName /\ fl.size = 0
      BY <1>2, <1>4, <1>8, <2>1 DEF Known
    <2>4. ASSUME NEW n \in DIdx PROVE fl.direct[n] = 0
      <3>1. n \in Idx /\ n \in Nat
        BY ConstFacts DEF Idx, DIdx
      <3>2. Num(mem, f, n) = PtrOf(mem, fl, n)
        BY <1>4, <2>1, <2>2, <3>1, OwnerFacts
      <3>3. Num(mem, f, n) = 0
        BY <1>4, <1>8 DEF Rest
      <3> QED  BY <2>2, <3>1, <3>2, <3>3, DirectPtr
    <2>5. fl.direct = [n \in 0..(NDIRECT - 1) |-> 0]
      BY <2>2, <2>4 DEF File, DIdx
    <2>6. fl = NewFile
      BY <2>2, <2>3, <2>5 DEF File, NewFile
    <2> QED  BY <2>1, <2>6
  <1> QED  BY <1>6, <1>7, <1>8

-----------------------------------------------------------------------------
(* The theorems, for a machine that does not stop or for plain files.      *)

LEMMA AlwaysMade ==
  ASSUME ~Crashes \/ Plain
  PROVE  Spec => []MInv
  <1>1. CASE ~Crashes
    <2>1. MInvExact => MInv
      BY DEF MInvExact
    <2> QED  BY <1>1, <2>1, NoCrashKeeps, PTL
  <1>2. CASE Plain
    <2>1. DInv => MInv
      BY DEF DInv
    <2> QED  BY <1>2, <2>1, PlainKeeps, PTL
  <1> QED  BY <1>1, <1>2

(* TypeOK: block numbers, sizes and names stay in their ranges, also of    *)
(* the file system that fs_init finds after a crash (fs/fs.c, fs/bc.c).    *)
THEOREM TypeCorrect ==
  ASSUME ~Crashes \/ Plain
  PROVE  Spec => []TypeOK
  <1>1. MInv => TypeOK
    BY DEF MInv
  <1> QED  BY <1>1, AlwaysMade, PTL

(* BlocksApart: whatever sizes clients set, negative ones among them, no   *)
(* block is ever free and a file's, or at two places of files              *)
(* (file_truncate_blocks, file_get_block, fs/fs.c).                        *)
THEOREM NoBlockTwice ==
  ASSUME ~Crashes \/ Plain
  PROVE  Spec => []BlocksApart
  <1>1. MInv => BlocksApart
    BY MInvMeans
  <1> QED  BY <1>1, AlwaysMade, PTL

(* NothingPastSize: as long as no client sets a negative size,             *)
(* file_truncate_blocks finds every block that a file ever got from        *)
(* file_get_block, the indirect block too, so that a file made shorter has *)
(* given back all it does not need.                                        *)
THEOREM TruncateFindsAll ==
  ASSUME NoNegativeSizes, ~Crashes \/ Plain
  PROVE  Spec => []NothingPastSize
  <1>1. MInv => NothingPastSize
    BY MInvMeans
  <1> QED  BY <1>1, AlwaysMade, PTL

(* NoForeignData: a block that alloc_block gives out shows nothing of the  *)
(* file it was freed by, since file_get_block clears it, and no file is    *)
(* written through the pointer of another; whatever sizes clients set.     *)
THEOREM FilesApart ==
  ASSUME ~Crashes \/ Plain
  PROVE  Spec => []NoForeignData
  <1>1. MInv => NoForeignData
    BY MInvMeans
  <1> QED  BY <1>1, AlwaysMade, PTL

(* DiskSafe: wherever between two ide_writes the machine stops, the disk   *)
(* has no block that is both free and a file's, or two files': alloc_block *)
(* flushes the bitmap before file_get_block's pointer can reach the disk,  *)
(* and a freed block is free on the disk only after the file that had it   *)
(* was flushed.                                                            *)
THEOREM CrashSafe ==
  ASSUME Plain
  PROVE  Spec => []DiskSafe
  <1>1. ASSUME DInv PROVE DiskSafe
    <2>1. Good(disk)
      BY <1>1, DiskIsGood DEF GoodDisk
    <2>2. NoSharing(disk, Pointers(disk)) /\ Live(disk) \subseteq Pointers(disk)
      BY <2>1, GoodMeans DEF Live
    <2> QED  BY <2>2 DEF NoSharing, DiskSafe
  <1> QED  BY <1>1, PlainKeeps, PTL

(* NamesDurable: once a request is answered, the disk has the files that   *)
(* file_create made, the sizes file_set_size gave, and no file that        *)
(* file_remove removed, in every place of the directory, also when several *)
(* requests and crashes came before.                                       *)
THEOREM AnsweredIsDurable ==
  ASSUME Plain
  PROVE  Spec => []NamesDurable
  <1>1. ASSUME DInv PROVE NamesDurable
    BY <1>1, NamesMatch DEF NamesDurable
  <1> QED  BY <1>1, PlainKeeps, PTL
=============================================================================

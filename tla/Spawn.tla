-------------------------------- MODULE Spawn --------------------------------
(***************************************************************************)
(* spawn of lib/spawn.c, with the mmap of lib/mmap.c that it reads files   *)
(* with: a parent builds the address space of a child page by page through *)
(* its own page UTEMP, and any system call on the way may fail.            *)
(*                                                                         *)
(* Memory is kept byte by byte, in pages of PGSIZE bytes.  A byte of the   *)
(* program file is its offset.  The child's addresses are                  *)
(* 0..NPages*PGSIZE-1; its stack is the last page.  Nobody changes the     *)
(* program file during a spawn, and the file is as long as its headers say.*)
(***************************************************************************)
EXTENDS Integers, Sequences

CONSTANTS PGSIZE, WORD,   \* 4096 and 4
          NPages,         \* pages of the child's address space
          Images,         \* program files: sequences of program headers
          Argvs,          \* argument vectors: the length of each string
          MmapMax,        \* 32: size of the tables of lib/mmap.c
          Earlier         \* entries that earlier calls of mmap have left there

Headers == [load : BOOLEAN, va : Nat, memsz : Nat, filesz : Nat, offset : Nat, write : BOOLEAN]

\* "The ELF linker does, however, guarantee": lib/spawn.c:78.  The pages are those
\* map_segment takes: of an empty segment that begins inside a page, that page.
PagesOf(ph) == (ph.va \div PGSIZE)..((ph.va + ph.memsz - 1) \div PGSIZE)
WellFormed(image) ==
  /\ image \in Seq(Headers)
  /\ \A h \in DOMAIN image :
       /\ image[h].filesz <= image[h].memsz
       /\ image[h].va % PGSIZE = image[h].offset % PGSIZE
       /\ image[h].va + image[h].memsz <= PGSIZE * (NPages - 1)
  /\ \A g, h \in DOMAIN image :
       g # h /\ image[g].load /\ image[h].load => PagesOf(image[g]) \cap PagesOf(image[h]) = {}

ASSUME SpawnAssumption ==
  /\ PGSIZE \in Nat \ {0} /\ WORD \in Nat \ {0} /\ PGSIZE % WORD = 0
  /\ NPages \in Nat \ {0} /\ MmapMax \in Nat /\ Earlier \subseteq 0..MmapMax
  /\ \A image \in Images : WellFormed(image)
  /\ \A argv \in Argvs : argv \in Seq(Nat)

(* Bytes, tagged with what they are.  A word has its value in its first    *)
(* byte.                                                                   *)
Zero       == <<"zero">>
FileByte(n) == <<"file", n>>
Char(k, j) == <<"char", k, j>>    \* character j of argument k
WordAt(n)  == <<"word", n>>

Offsets  == 0..(PGSIZE - 1)
ZeroPage == [o \in Offsets |-> Zero]
StackPage == NPages - 1
None     == 0

VARIABLES
  image, argv,   \* the program file and the arguments of this spawn
  pc,            \* where spawn is; "returned", "panicked" or "overrun" at its end
  result,        \* what it returned: "child" or where it failed
  h, i,          \* the program header and the offset in its segment
  fd,            \* the program file is open in the parent
  mmap_cnt,      \* entries in use in the tables of lib/mmap.c
  frames,        \* the contents of the physical pages allocated so far
  utemp,         \* the frame at UTEMP in the parent, or None
  child,         \* env_status of the child, "FREE" when there is none
  map,           \* the frames of the child's address space
  writable,      \* its writable pages
  tf             \* the child's trap frame: esp, or None before it is set

callVars  == <<image, argv>>
spaceVars == <<map, writable>>
vars == <<callVars, pc, result, h, i, fd, mmap_cnt, frames, utemp, child, spaceVars, tf>>

TypeOK ==
  /\ image \in Images /\ argv \in Argvs
  /\ pc \in {"open", "header", "exofork", "stack_alloc", "stack_map", "stack_unmap",
             "segment", "read", "map", "unmap", "returned", "panicked", "overrun"}
  /\ result \in {"none", "child", "open", "header", "exofork", "init_stack", "map_segment"}
  /\ h \in Nat /\ i \in Nat /\ mmap_cnt \in 0..MmapMax
  /\ fd \in BOOLEAN
  /\ utemp \in 0..Len(frames)
  /\ child \in {"FREE", "NOT_RUNNABLE", "RUNNABLE"}
  /\ map \in [0..(NPages - 1) -> 0..Len(frames)]
  /\ writable \subseteq 0..(NPages - 1)
  /\ tf \in Nat

Init ==
  /\ image \in Images /\ argv \in Argvs
  /\ pc = "open" /\ result = "none"
  /\ h = 1 /\ i = 0
  /\ fd = FALSE
  /\ mmap_cnt \in Earlier
  /\ frames = <<>> /\ utemp = None
  /\ child = "FREE"
  /\ map = [p \in 0..(NPages - 1) |-> None] /\ writable = {}
  /\ tf = None

Return(r) == pc' = "returned" /\ result' = r

\* mutant: the result of sys_page_alloc is not looked at
AllocUTEMP_Unchecked == UNCHANGED frames /\ utemp' = Len(frames) + 1

\* sys_page_alloc at UTEMP of the parent: a cleared page.
AllocUTEMP == frames' = Append(frames, ZeroPage) /\ utemp' = Len(frames')

-----------------------------------------------------------------------------
Open ==
  /\ pc = "open"
  /\ \/ Return("open") /\ UNCHANGED fd
     \/ pc' = "header" /\ fd' = TRUE /\ UNCHANGED result
  /\ UNCHANGED <<callVars, h, i, mmap_cnt, frames, utemp, child, spaceVars, tf>>

(***************************************************************************)
(* mmap of an address that is mapped reads the file there and adds an      *)
(* entry to its tables, without a look at their size: what an entry past   *)
(* their end overwrites is not followed.  It panics if read fails.         *)
(***************************************************************************)
mmap(next, read) ==
  \/ pc' = "panicked" /\ UNCHANGED <<frames, mmap_cnt>>
  \/ mmap_cnt < MmapMax /\ pc' = next /\ frames' = read /\ mmap_cnt' = mmap_cnt + 1
  \/ mmap_cnt = MmapMax /\ pc' = "overrun" /\ frames' = read /\ UNCHANGED mmap_cnt

\* The header goes to elf_buf, on the parent's stack.
ReadHeader ==
  /\ pc = "header"
  /\ \/ mmap("exofork", frames) /\ UNCHANGED <<result, fd>>
     \/ /\ mmap_cnt < MmapMax              \* not ELF_MAGIC
        /\ mmap_cnt' = mmap_cnt + 1
        /\ fd' = FALSE
        /\ Return("header")
        /\ UNCHANGED frames
  /\ UNCHANGED <<callVars, h, i, utemp, child, spaceVars, tf>>

Exofork ==
  /\ pc = "exofork"
  /\ \/ Return("exofork") /\ UNCHANGED child
     \/ pc' = "stack_alloc" /\ child' = "NOT_RUNNABLE" /\ UNCHANGED result
  /\ UNCHANGED <<callVars, h, i, fd, mmap_cnt, frames, utemp, spaceVars, tf>>

-----------------------------------------------------------------------------
(***************************************************************************)
(* init_stack.  From the top of the page down: the strings, the pointers   *)
(* to them with a null pointer, the pointer to those, argc.  Offsets in    *)
(* the page; Ustack(o) is where the child finds offset o.                  *)
(***************************************************************************)
Ustack(o) == PGSIZE * StackPage + o

\* The size of the first k strings, and where string k goes.
string_size[k \in 0..Len(argv)] == IF k = 0 THEN 0 ELSE string_size[k - 1] + argv[k] + 1
string_store(k) == PGSIZE - string_size[Len(argv)] + string_size[k - 1]

argv_store == WORD * (string_store(1) \div WORD) - WORD * (Len(argv) + 1)
init_esp   == argv_store - 2 * WORD

StackContents ==
  [o \in Offsets |->
     IF \E k \in 1..Len(argv) : o = argv_store + WORD * (k - 1)
     THEN WordAt(Ustack(string_store(((o - argv_store) \div WORD) + 1)))
     ELSE IF o = argv_store + WORD * Len(argv) THEN WordAt(0)
     ELSE IF o = argv_store - WORD THEN WordAt(Ustack(argv_store))
     ELSE IF o = init_esp THEN WordAt(Len(argv))
     ELSE IF \E k \in 1..Len(argv) : o \in string_store(k)..(string_store(k) + argv[k] - 1)
     THEN LET k == CHOOSE k \in 1..Len(argv) :
                     o \in string_store(k)..(string_store(k) + argv[k] - 1)
          IN Char(k, o - string_store(k) + 1)
     ELSE Zero]

\* mutant: only argv is known to fit
StackFits_ArgvOnly == argv_store >= 0

StackFits == init_esp >= 0

\* The check that everything fits in one page, and the page at UTEMP.
StackAlloc ==
  /\ pc = "stack_alloc"
  /\ \/ Return("init_stack") /\ UNCHANGED <<frames, utemp>>
     \/ StackFits /\ AllocUTEMP /\ pc' = "stack_map" /\ UNCHANGED result
  /\ UNCHANGED <<callVars, h, i, fd, mmap_cnt, child, spaceVars, tf>>

StackMap ==
  /\ pc = "stack_map"
  /\ frames' = [frames EXCEPT ![utemp] = StackContents]
  /\ \/ /\ map' = [map EXCEPT ![StackPage] = utemp]
        /\ writable' = writable \cup {StackPage}
        /\ pc' = "stack_unmap"
        /\ UNCHANGED <<utemp, result>>
     \/ /\ utemp' = None
        /\ Return("init_stack")
        /\ UNCHANGED spaceVars
  /\ UNCHANGED <<callVars, h, i, fd, mmap_cnt, child, tf>>

\* Unmapping one's own UTEMP cannot fail.
StackUnmap ==
  /\ pc = "stack_unmap"
  /\ utemp' = None
  /\ pc' = "segment"
  /\ UNCHANGED <<callVars, result, h, i, fd, mmap_cnt, frames, child, spaceVars, tf>>

-----------------------------------------------------------------------------
(***************************************************************************)
(* The loop over the program headers, and map_segment: one turn of its     *)
(* loop per page.  A segment that does not begin at a page is extended     *)
(* down to one.                                                            *)
(***************************************************************************)
\* mutant: filesz is not extended with the segment
Aligned_KeepsFilesz(ph) ==
  LET d == ph.va % PGSIZE IN
  [ph EXCEPT !.va = @ - d, !.memsz = @ + d, !.offset = @ - d]

Aligned(ph) ==
  LET d == ph.va % PGSIZE IN
  [ph EXCEPT !.va = @ - d, !.memsz = @ + d, !.filesz = @ + d, !.offset = @ - d]

Seg  == Aligned(image[h])
Page == (Seg.va + i) \div PGSIZE

InChild(frame) ==
  /\ map' = [map EXCEPT ![Page] = frame]
  /\ writable' = IF Seg.write THEN writable \cup {Page} ELSE writable \ {Page}

SkipHeader ==
  /\ pc = "segment" /\ h <= Len(image)
  /\ ~image[h].load \/ i >= Seg.memsz
  /\ h' = h + 1 /\ i' = 0
  /\ UNCHANGED <<callVars, pc, result, fd, mmap_cnt, frames, utemp, child, spaceVars, tf>>

\* error: of spawn
SegmentFails ==
  /\ child' = "FREE"
  /\ fd' = FALSE
  /\ Return("map_segment")

InSegment == pc = "segment" /\ h <= Len(image) /\ image[h].load /\ i < Seg.memsz

BlankPage ==
  /\ InSegment /\ i >= Seg.filesz
  /\ \/ /\ frames' = Append(frames, ZeroPage)
        /\ InChild(Len(frames'))
        /\ i' = i + PGSIZE
        /\ UNCHANGED <<pc, result, fd, child>>
     \/ SegmentFails /\ UNCHANGED <<frames, spaceVars, i>>
  /\ UNCHANGED <<callVars, h, mmap_cnt, utemp, tf>>

FilePage ==
  /\ InSegment /\ i < Seg.filesz
  /\ \/ AllocUTEMP /\ pc' = "read" /\ UNCHANGED <<result, fd, child>>
     \/ SegmentFails /\ UNCHANGED <<frames, utemp>>
  /\ UNCHANGED <<callVars, h, i, mmap_cnt, spaceVars, tf>>

ReadPage ==
  [frames EXCEPT ![utemp] =
     [o \in Offsets |-> IF o < Seg.filesz - i THEN FileByte(Seg.offset + i + o) ELSE @[o]]]

SegmentRead ==
  /\ pc = "read"
  /\ mmap("map", ReadPage)
  /\ UNCHANGED <<callVars, result, h, i, fd, utemp, child, spaceVars, tf>>

SegmentMap ==
  /\ pc = "map"
  /\ \/ pc' = "unmap" /\ InChild(utemp)
     \/ pc' = "panicked" /\ UNCHANGED spaceVars
  /\ UNCHANGED <<callVars, result, h, i, fd, mmap_cnt, frames, utemp, child, tf>>

\* mutant: the page stays at UTEMP
SegmentUnmap_Kept ==
  /\ pc = "unmap"
  /\ i' = i + PGSIZE
  /\ pc' = "segment"
  /\ UNCHANGED <<callVars, result, h, fd, mmap_cnt, frames, utemp, child, spaceVars, tf>>

SegmentUnmap ==
  /\ pc = "unmap"
  /\ utemp' = None
  /\ i' = i + PGSIZE
  /\ pc' = "segment"
  /\ UNCHANGED <<callVars, result, h, fd, mmap_cnt, frames, child, spaceVars, tf>>

\* close; sys_env_set_trapframe and sys_env_set_status of one's own child
Start ==
  /\ pc = "segment" /\ h > Len(image)
  /\ fd' = FALSE
  /\ tf' = Ustack(init_esp)
  /\ child' = "RUNNABLE"
  /\ Return("child")
  /\ UNCHANGED <<callVars, h, i, mmap_cnt, frames, utemp, spaceVars>>

Next ==
  \/ Open \/ ReadHeader \/ Exofork
  \/ StackAlloc \/ StackMap \/ StackUnmap
  \/ SkipHeader \/ BlankPage \/ FilePage \/ SegmentRead \/ SegmentMap \/ SegmentUnmap
  \/ Start

Spec == Init /\ [][Next]_vars

-----------------------------------------------------------------------------
(* The byte, and the word, the child reads at an address. *)
Mapped(a)    == map[a \div PGSIZE] # None
ChildByte(a) == frames[map[a \div PGSIZE]][a % PGSIZE]
ChildWord(a) == ChildByte(a)[2]

(* A child that runs has the whole image, byte by byte: of every segment   *)
(* the first p_filesz bytes from the file and zeros up to p_memsz, however *)
(* the segment lies on the pages, and it may write exactly the writable    *)
(* segments (lib/spawn.c:59).                                              *)
ImageExact ==
  child = "RUNNABLE" =>
    \A g \in DOMAIN image : image[g].load =>
      /\ \A j \in 0..(image[g].memsz - 1) :
           LET a == image[g].va + j IN
           /\ Mapped(a)
           /\ ChildByte(a) = IF j < image[g].filesz THEN FileByte(image[g].offset + j) ELSE Zero
      /\ \A p \in PagesOf(image[g]) : p \in writable <=> image[g].write

(* A child that runs finds its arguments: from its esp the count and the   *)
(* vector, in the vector pointers to the strings and a null pointer, and   *)
(* nothing of this overlaps or leaves the page (lib/spawn.c:189).          *)
ArgsPassed ==
  child = "RUNNABLE" =>
    LET vector == ChildWord(tf + WORD) IN
    /\ tf \div PGSIZE = StackPage /\ StackPage \in writable
    /\ ChildWord(tf) = Len(argv)
    /\ \A k \in 1..Len(argv) :
         LET str == ChildWord(vector + WORD * (k - 1)) IN
         /\ \A j \in 1..argv[k] : ChildByte(str + j - 1) = Char(k, j)
         /\ ChildByte(str + argv[k]) = Zero
    /\ ChildByte(vector + WORD * Len(argv)) = WordAt(0)

(* Pages are handed over, never shared: when spawn returns, with or        *)
(* without a child, the parent has no page of it left at UTEMP, no two     *)
(* addresses of the child are one page, and the child was never runnable   *)
(* before.  A spawn that fails over the file or the segments leaves        *)
(* neither a child nor an open file (lib/spawn.c:144).                     *)
HandedOver ==
  /\ pc = "returned" => utemp = None
  /\ child = "RUNNABLE" =>
       /\ pc = "returned"
       /\ \A p, q \in DOMAIN map : map[p] = map[q] /\ map[p] # None => p = q
  /\ pc = "returned" /\ result \in {"header", "map_segment"} => child = "FREE" /\ ~fd
=============================================================================

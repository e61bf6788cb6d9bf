------------------------------ MODULE FileSys -------------------------------
(***************************************************************************)
(* The file system of the file server: files, the block bitmap (fs/fs.c),  *)
(* the block cache and what of it is on the disk (fs/bc.c).                *)
(*                                                                         *)
(* The server handles one request at a time.  In the cache a request takes *)
(* effect at once; its calls of flush_block are the disk writes, one       *)
(* block each, that are still to be made, in order.  The machine may stop  *)
(* between any two of them; the server then starts again from the disk.    *)
(*                                                                         *)
(* The root directory is a file whose blocks hold the struct Files of all  *)
(* others; its own struct File is in the super block.  A file is known by  *)
(* its place in the directory: a directory never shrinks.  There are no    *)
(* other directories, nobody opens the root itself, and the cache never    *)
(* evicts a block.  Clients may set any size, also a negative one; the     *)
(* positions at which they read and write are not negative.                *)
(***************************************************************************)
EXTENDS Integers, Sequences, FiniteSets

CONSTANTS DIRBLOCKS,  \* bound: blocks of the root directory
          BLKFILES,   \* places for a struct File in a block
          Names,      \* file names
          NoName,     \* the name of a place that is not in use
          NB,         \* blocks for data, numbered from 1; 0 is the null block number
          BITS,       \* of those, how many have their bit in the first bitmap block
          BLKSIZE, NDIRECT, NINDIRECT,
          BelowZero,  \* bound: clients ask for no size below -BelowZero; sizes are signed
          MaxSize,    \* bound: no file grows beyond this
          WORD,       \* numbers of blocks are counted modulo this   (2^32)
          Crashes     \* TRUE: the machine may stop at any time

ASSUME FileSysAssumption ==
  /\ DIRBLOCKS \in Nat /\ BLKFILES \in Nat \ {0} /\ NoName \notin Names
  /\ NB \in Nat /\ BITS \in Nat /\ BLKSIZE \in Nat \ {0}
  /\ NDIRECT \in Nat /\ NINDIRECT \in Nat
  /\ DIRBLOCKS <= NDIRECT + NINDIRECT
  /\ BelowZero \in Nat
  /\ MaxSize \in Nat /\ DIRBLOCKS * BLKSIZE <= MaxSize
  /\ WORD \in Nat /\ NDIRECT + NINDIRECT < WORD
  /\ MaxSize + BLKSIZE < WORD /\ BelowZero + BLKSIZE < WORD
  /\ Crashes \in BOOLEAN

Blocks == 1..NB
Root   == 0
Files  == 1..(DIRBLOCKS * BLKFILES)

Sizes == (-BelowZero)..MaxSize

\* A struct File; the direct and the indirect pointers are numbered 0, 1, ...
File == [name : Names \cup {NoName}, size : Sizes,
         direct : [0..(NDIRECT - 1) -> 0..NB], indirect : 0..NB]

NewFile == [name |-> NoName, size |-> 0, indirect |-> 0,
            direct |-> [n \in 0..(NDIRECT - 1) |-> 0]]

(* A block: as an indirect block, its pointers; as a block of the          *)
(* directory, its struct Files; as data, whose data is in it.              *)
Block == [ptr : [0..(NINDIRECT - 1) -> 0..NB],
          file : [0..(BLKFILES - 1) -> File],
          data : SUBSET Files]

Zeroed == [ptr  |-> [i \in 0..(NINDIRECT - 1) |-> 0],
           file |-> [i \in 0..(BLKFILES - 1) |-> NewFile],
           data |-> {}]

Store == [root : File, blk : [Blocks -> Block], free : SUBSET Blocks]

\* One write of a block to the disk.
Write == ({"super"} \X File) \cup ({"bitmap"} \X SUBSET Blocks) \cup ({"blk"} \X Blocks \X Block)

VARIABLES mem,     \* the file system as the server sees it, through the cache
          opened,  \* the files opened since the server started: an open file may refer
                   \* to any of them, also after it was removed
          disk,    \* the file system as it is on the disk
          todo     \* disk writes the request in progress still has to make, in order

vars == <<mem, opened, disk, todo>>

TypeOK ==
  /\ mem \in Store /\ disk \in Store
  /\ opened \subseteq Files
  /\ todo \in Seq(Write)

-----------------------------------------------------------------------------
\* Blocks needed for a file of that size; the loops that go through a file compare with
\* this number as a signed one and make no turn for a size that is not positive.
NBlocks(size) == IF size > 0 THEN (size + BLKSIZE - 1) \div BLKSIZE ELSE 0

\* The same number as file_truncate_blocks has it: the quotient, which C rounds towards
\* zero, becomes an uint32_t.
BlockCount(size) ==
  LET bytes == size + BLKSIZE - 1 IN
  (IF bytes >= 0 THEN bytes \div BLKSIZE ELSE -((-bytes) \div BLKSIZE)) % WORD

\* A file has room for so many blocks, whatever its size.
MaxBlocks == NDIRECT + NINDIRECT

\* The block number in place n of the file with struct File fl (0: none).
PtrOf(s, fl, n) ==
  IF n < NDIRECT THEN fl.direct[n]
  ELSE IF fl.indirect = 0 THEN 0
  ELSE s.blk[fl.indirect].ptr[n - NDIRECT]

\* Where the struct File of f is: a block of the directory, and its index there.
DirIndex(f)    == (f - 1) \div BLKFILES
DirBlock(s, f) == PtrOf(s, s.root, DirIndex(f))
Slot(f)        == (f - 1) % BLKFILES

\* The places the directory has.
Places(s) == {f \in Files : DirIndex(f) < NBlocks(s.root.size) /\ DirBlock(s, f) # 0}

FileAt(s, f) == IF f = Root THEN s.root ELSE s.blk[DirBlock(s, f)].file[Slot(f)]

BlockOf(s, f, n) == PtrOf(s, FileAt(s, f), n)

(***************************************************************************)
(* The operators below work on a request in progress: the store, the disk  *)
(* writes so far (w), and whether the last step of it failed.              *)
(***************************************************************************)
Begin == [s |-> mem, w |-> <<>>, failed |-> FALSE]

SetFile(r, f, fl) ==
  IF f = Root THEN [r EXCEPT !.s.root = fl]
  ELSE [r EXCEPT !.s.blk[DirBlock(r.s, f)].file[Slot(f)] = fl]

\* flush_block.  Writing a block that is not dirty would change nothing.
FlushBitmap(r)   == [r EXCEPT !.w = Append(@, <<"bitmap", r.s.free>>)]
FlushBlock(r, b) == [r EXCEPT !.w = Append(@, <<"blk", b, r.s.blk[b]>>)]
FlushFile(r, f)  == IF f = Root THEN [r EXCEPT !.w = Append(@, <<"super", r.s.root>>)]
                    ELSE FlushBlock(r, DirBlock(r.s, f))

\* mutant: the block is not cleared
alloc_block_NotCleared(r, b) == FlushBlock(FlushBitmap([r EXCEPT !.s.free = @ \ {b}]), b)
\* mutant: the bitmap is flushed before it is changed
alloc_block_FlushFirst(r, b) ==
  FlushBlock([FlushBitmap(r) EXCEPT !.s.free = @ \ {b}, !.s.blk[b] = Zeroed], b)

\* alloc_block, which takes the first free block, and the memset its callers do.
alloc_block(r, b) ==
  FlushBlock([FlushBitmap([r EXCEPT !.s.free = @ \ {b}]) EXCEPT !.s.blk[b] = Zeroed], b)

First(S) == CHOOSE b \in S : \A c \in S : b <= c

SetBlock(r, f, n, b) ==
  LET fl == FileAt(r.s, f) IN
  IF n < NDIRECT THEN SetFile(r, f, [fl EXCEPT !.direct[n] = b])
  ELSE [r EXCEPT !.s.blk[fl.indirect].ptr[n - NDIRECT] = b]

\* file_block_walk with alloc set: the indirect block is there, or there is no room.
file_block_walk(r, f, n) ==
  IF n < MaxBlocks /\ (n < NDIRECT \/ FileAt(r.s, f).indirect # 0) THEN r
  ELSE IF n >= MaxBlocks \/ r.s.free = {} THEN [r EXCEPT !.failed = TRUE]
  ELSE LET b == First(r.s.free)
       IN SetFile(alloc_block(r, b), f, [FileAt(r.s, f) EXCEPT !.indirect = b])

\* The rest of file_get_block, once the place for the block number is there.
FillPlace(r, f, n) ==
  IF r.failed \/ BlockOf(r.s, f, n) # 0 THEN r
  ELSE IF r.s.free = {} THEN [r EXCEPT !.failed = TRUE]
  ELSE LET b == First(r.s.free) IN SetBlock(alloc_block(r, b), f, n, b)

file_get_block(r, f, n) == FillPlace(file_block_walk(r, f, n), f, n)

-----------------------------------------------------------------------------
\* The places of a file of size old that one of size new does not have.  file_free_block
\* refuses those that no file has.
Gone_Short(old, new) ==                                         \* mutant: off by one
  {n \in 0..(MaxBlocks - 1) : BlockCount(new) < n /\ n < BlockCount(old)}
Gone(old, new) ==
  {n \in 0..(MaxBlocks - 1) : BlockCount(new) <= n /\ n < BlockCount(old)}

\* The indirect block is not needed any more.
DropIndirect(fl, newsize) == BlockCount(newsize) <= NDIRECT /\ fl.indirect # 0

\* The blocks to be freed, a null pointer among them skipped.
Freed_WithNull(s, f, newsize) ==                                \* mutant: not skipped
  {BlockOf(s, f, n) : n \in Gone(FileAt(s, f).size, newsize)}
Freed_DataOnly(s, f, newsize) ==                                \* mutant: the indirect block leaks
  {BlockOf(s, f, n) : n \in Gone(FileAt(s, f).size, newsize)} \ {0}
Freed(s, f, newsize) ==
  ({BlockOf(s, f, n) : n \in Gone(FileAt(s, f).size, newsize)}
     \cup {IF DropIndirect(FileAt(s, f), newsize) THEN FileAt(s, f).indirect ELSE 0}) \ {0}

\* mutant: the pointers to the blocks freed are not cleared
ClearPointers_Kept(fl, newsize) ==
  [fl EXCEPT !.indirect = IF DropIndirect(fl, newsize) THEN 0 ELSE @]
\* The pointers in the struct File.
ClearPointers(fl, newsize) ==
  [fl EXCEPT !.direct = [n \in DOMAIN @ |-> IF n \in Gone(fl.size, newsize) THEN 0 ELSE @[n]],
             !.indirect = IF DropIndirect(fl, newsize) THEN 0 ELSE @]

\* Of the places gone, those whose pointers are in the indirect block b, if there is one.
ClearEntries(blk, b, gone) ==
  IF b = 0 THEN blk
  ELSE [blk EXCEPT ![b].ptr = [i \in DOMAIN @ |-> IF i + NDIRECT \in gone THEN 0 ELSE @[i]]]

(***************************************************************************)
(* file_truncate_blocks: the blocks past the new size are freed, and so is *)
(* the indirect block when it is not needed any more.  Nothing is flushed. *)
(***************************************************************************)
file_truncate_blocks(r, f, newsize) ==
  LET fl == FileAt(r.s, f)
      r1 == [r EXCEPT !.s.free = @ \cup Freed(r.s, f, newsize),
                      !.s.blk = ClearEntries(@, fl.indirect, Gone(fl.size, newsize))]
  IN SetFile(r1, f, ClearPointers(fl, newsize))

Resized(r, f, size) == FlushFile(SetFile(r, f, [FileAt(r.s, f) EXCEPT !.size = size]), f)

file_set_size(r, f, newsize) ==
  Resized(IF FileAt(r.s, f).size > newsize THEN file_truncate_blocks(r, f, newsize) ELSE r,
          f, newsize)

\* The blocks that the bytes from offset to offset + count - 1 are in.
Touched(offset, count) ==
  IF count = 0 THEN {} ELSE (offset \div BLKSIZE)..((offset + count - 1) \div BLKSIZE)

(***************************************************************************)
(* The loops of file_read and file_write: block after block, up to the     *)
(* last one or the first that cannot be had.  A read also allocates.       *)
(***************************************************************************)
Mark(r, f, n, writes) ==
  IF r.failed \/ ~writes THEN r
  ELSE [r EXCEPT !.s.blk[BlockOf(r.s, f, n)].data = @ \cup {f}]

Access(r, f, ns, writes) ==
  LET upto[k \in 0..Cardinality(ns)] ==
        IF k = 0 THEN r
        ELSE IF upto[k - 1].failed THEN upto[k - 1]
        ELSE Mark(file_get_block(upto[k - 1], f, First(ns) + k - 1), f, First(ns) + k - 1, writes)
  IN upto[Cardinality(ns)]

file_read(r, f, count, offset) ==
  LET size == FileAt(r.s, f).size IN
  IF offset >= size THEN r
  ELSE Access(r, f, Touched(offset, IF count < size - offset THEN count ELSE size - offset), FALSE)

\* The sum is unsigned, and so is the size it is compared with.
file_write(r, f, count, offset) ==
  Access(IF offset + count > FileAt(r.s, f).size % WORD THEN file_set_size(r, f, offset + count) ELSE r,
         f, Touched(offset, count), TRUE)

\* Data, then the struct File, then the indirect block.
FlushPlace(r, f, n) ==
  IF n >= MaxBlocks \/ BlockOf(r.s, f, n) = 0 THEN r ELSE FlushBlock(r, BlockOf(r.s, f, n))

FlushData(r, f) ==
  LET upto[k \in 0..NBlocks(FileAt(r.s, f).size)] ==
        IF k = 0 THEN r ELSE FlushPlace(upto[k - 1], f, k - 1)
  IN upto[NBlocks(FileAt(r.s, f).size)]

file_flush(r, f) ==
  LET r1 == FlushFile(FlushData(r, f), f)
      b  == FileAt(r.s, f).indirect
  IN IF b # 0 THEN FlushBlock(r1, b) ELSE r1

-----------------------------------------------------------------------------
(***************************************************************************)
(* The loops of dir_lookup and dir_alloc_file: block after block, up to    *)
(* the first place with that name.  A block that the directory lacks is    *)
(* allocated on the way.                                                   *)
(***************************************************************************)
InBlock(r, n, name) ==
  [r |-> r,
   found |-> IF r.failed THEN {}
             ELSE {f \in Places(r.s) : DirIndex(f) = n /\ FileAt(r.s, f).name = name}]

ScanBlock(p, n, name) ==
  IF p.r.failed \/ p.found # {} THEN p ELSE InBlock(file_get_block(p.r, Root, n), n, name)

DirScan(r, name) ==
  LET upto[k \in 0..NBlocks(r.s.root.size)] ==
        IF k = 0 THEN [r |-> r, found |-> {}] ELSE ScanBlock(upto[k - 1], k - 1, name)
  IN upto[NBlocks(r.s.root.size)]

dir_lookup(r, name) == DirScan(r, name)

\* The directory grows before there is a block for it.
NewPlace(r, n) == [r |-> r, found |-> IF r.failed THEN {} ELSE {n * BLKFILES + 1}]

Grow(p) ==
  LET n == NBlocks(p.r.s.root.size) IN
  IF p.r.failed \/ p.found # {} THEN p
  ELSE NewPlace(file_get_block([p.r EXCEPT !.s.root.size = @ + BLKSIZE], Root, n), n)

dir_alloc_file(r) == Grow(DirScan(r, NoName))

(***************************************************************************)
(* file_create, once the name was not found.  Of the new file it writes    *)
(* the name only; it flushes the directory.                                *)
(***************************************************************************)
WithName(r, f, name) == SetFile(r, f, [FileAt(r.s, f) EXCEPT !.name = name])

\* mutant: only the block of the new entry is flushed
NameIt_EntryOnly(p, name) ==
  IF p.r.failed THEN p
  ELSE LET f == First(p.found) IN [p EXCEPT !.r = FlushFile(WithName(@, f, name), f)]

NameIt(p, name) ==
  IF p.r.failed THEN p
  ELSE [p EXCEPT !.r = file_flush(WithName(@, First(p.found), name), Root)]

file_create(r, name) == NameIt(dir_alloc_file(r), name)

-----------------------------------------------------------------------------
(* A request ends: its reply is sent when its disk writes are made. *)
Finish(r) == mem' = r.s /\ todo' = r.w /\ UNCHANGED disk

(* serve_open: file_create, or file_open, then O_TRUNC. *)
FindOrCreate(look, name, creat, excl) ==
  IF creat /\ look.found = {} /\ ~look.r.failed THEN file_create(look.r, name)
  ELSE IF creat /\ excl THEN [look EXCEPT !.found = {}]
  ELSE look

Opened(p, trunc) ==
  IF p.found = {} THEN Finish(p.r) /\ UNCHANGED opened
  ELSE LET f == First(p.found) IN
       /\ Finish(IF trunc THEN file_set_size(p.r, f, 0) ELSE p.r)
       /\ opened' = opened \cup {f}

\* bound: the directory does not grow beyond DIRBLOCKS
HasRoom(p) == p.r.failed \/ p.found # {} \/ p.r.s.root.size + BLKSIZE <= DIRBLOCKS * BLKSIZE

serve_open(name, creat, excl, trunc) ==
  LET look == dir_lookup(Begin, name) IN
  /\ creat /\ look.found = {} => HasRoom(DirScan(look.r, NoName))
  /\ Opened(FindOrCreate(look, name, creat, excl), trunc)

\* file_remove of what was found
Emptied(r, f) == SetFile(r, f, [FileAt(r.s, f) EXCEPT !.name = NoName, !.size = 0])

file_remove(p) ==
  IF p.found = {} THEN p.r
  ELSE LET f == First(p.found)
       IN FlushFile(Emptied(file_truncate_blocks(p.r, f, 0), f), f)

serve_remove(name) == Finish(file_remove(dir_lookup(Begin, name))) /\ UNCHANGED opened

serve_set_size(f, size)      == Finish(file_set_size(Begin, f, size)) /\ UNCHANGED opened
serve_read(f, count, offset) == Finish(file_read(Begin, f, count, offset)) /\ UNCHANGED opened
serve_write(f, count, offset) ==
  /\ offset + count <= MaxSize
  /\ Finish(file_write(Begin, f, count, offset))
  /\ UNCHANGED opened
serve_flush(f) == Finish(file_flush(Begin, f)) /\ UNCHANGED opened

\* fs_sync: every block in the order of the disk.
serve_sync ==
  LET data == [b \in Blocks |-> <<"blk", b, mem.blk[b]>>]
  IN /\ Finish([FlushBitmap(FlushFile(Begin, Root)) EXCEPT !.w = @ \o data])
     /\ UNCHANGED opened

-----------------------------------------------------------------------------
(* ide_write of one block.  flush_block(bitmap) is the first bitmap block. *)
Written(d, w) ==
  CASE w[1] = "super"  -> [d EXCEPT !.root = w[2]]
    [] w[1] = "bitmap" -> [d EXCEPT !.free = (@ \ (1..BITS)) \cup (w[2] \cap 1..BITS)]
    [] w[1] = "blk"    -> [d EXCEPT !.blk[w[2]] = w[3]]

ide_write ==
  /\ todo # <<>>
  /\ disk' = Written(disk, Head(todo))
  /\ todo' = Tail(todo)
  /\ UNCHANGED <<mem, opened>>

(* The machine stops and starts again: fs_init finds what is on the disk. *)
Crash ==
  /\ Crashes
  /\ mem' = disk /\ todo' = <<>> /\ opened' = {}
  /\ UNCHANGED disk

(* A new disk has an empty directory without blocks. *)
Init ==
  /\ mem = [root |-> NewFile, blk |-> [b \in Blocks |-> Zeroed], free |-> Blocks]
  /\ disk = mem
  /\ opened = {}
  /\ todo = <<>>

Request ==
  \/ \E name \in Names :
       \/ \E creat, excl, trunc \in BOOLEAN : serve_open(name, creat, excl, trunc)
       \/ serve_remove(name)
  \/ \E f \in opened :
       \/ \E size \in Sizes : serve_set_size(f, size)
       \/ \E offset \in 0..MaxSize, count \in 0..BLKSIZE :
            serve_read(f, count, offset) \/ serve_write(f, count, offset)
       \/ serve_flush(f)
  \/ serve_sync

Next ==
  \/ todo = <<>> /\ Request
  \/ ide_write
  \/ Crash

Spec == Init /\ [][Next]_vars

-----------------------------------------------------------------------------
\* The places of store s in which a block number can be.
Pointers(s) ==
  LET ptrs(f) == {<<f, "direct", n>> : n \in 0..(NDIRECT - 1)}
                   \cup {<<f, "indirect", 0>>}
                   \cup {<<f, "entry", n>> : n \in NDIRECT..(NDIRECT + NINDIRECT - 1)}
  IN UNION {ptrs(f) : f \in {Root} \cup Places(s)}

At(s, p) == IF p[2] = "indirect" THEN FileAt(s, p[1]).indirect ELSE BlockOf(s, p[1], p[3])

\* Pointers that reading or writing the file within its size would follow.
Live(s) == {p \in Pointers(s) : p[2] = "indirect" \/ p[3] < NBlocks(FileAt(s, p[1]).size)}

NoSharing(s, P) ==
  \A p \in P : At(s, p) # 0 => /\ At(s, p) \notin s.free
                               /\ \A q \in P : At(s, q) = At(s, p) => q = p

(* No block is free and in use, or in use at two places: file_set_size     *)
(* frees only what it takes from the file, also when the size was negative *)
(* before or is so now, and file_get_block fills only places without one.  *)
BlocksApart == NoSharing(mem, Pointers(mem))

(* Every block is in use at one place of one file, or free: no sequence of *)
(* creating, extending, truncating and removing files leaks a block, frees *)
(* one twice or gives one to two files, not when the disk is full, when    *)
(* the directory cannot grow, or when a removed file is still written.     *)
(* Only if BelowZero = 0: after a negative size file_truncate_blocks does  *)
(* not look for the blocks of the file, and never finds them again.        *)
BlocksExact ==
  /\ BlocksApart
  /\ \A b \in Blocks \ mem.free : \E p \in Pointers(mem) : At(mem, p) = b

(* No file keeps a block past its size, where file_truncate_blocks would   *)
(* never look for it: it is to "remove any blocks currently used by file   *)
(* 'f', but not necessary for a file of size 'newsize'" (fs/fs.c:431).     *)
(* Only if BelowZero = 0: the number of blocks of a negative size wraps.   *)
NothingPastSize == \A p \in Pointers(mem) \ Live(mem) : At(mem, p) = 0

(* A file never shows data of another file, and the directory never takes  *)
(* data for struct Files: alloc_block's callers clear the block, also when *)
(* it was an indirect block or another file's data.  This holds also of    *)
(* files whose size was set below zero and back.                           *)
NoForeignData ==
  \A p \in Live(mem) : p[2] # "indirect" /\ At(mem, p) # 0
                         => mem.blk[At(mem, p)].data \subseteq {p[1]}

(* Whenever the machine stops, no file on the disk refers to a block that  *)
(* the bitmap on the disk has as free, or that another file refers to.     *)
DiskSafe == NoSharing(disk, Live(disk))

(* When a request is answered, the files that were created, and the sizes  *)
(* they were given, are on the disk, also when the directory grew for      *)
(* them, and the files that were removed are gone from it.                 *)
NamesDurable ==
  todo = <<>> => \A f \in Places(mem) \cup Places(disk) :
    IF f \in Places(mem) \cap Places(disk)
    THEN FileAt(mem, f).name = FileAt(disk, f).name /\ FileAt(mem, f).size = FileAt(disk, f).size
    ELSE f \in Places(mem) /\ FileAt(mem, f) = NewFile

(* "Check that the block we read was allocated" (fs/bc.c:57): the panic of *)
(* bc_pgfault, "reading free block", cannot happen for a block of a file.  *)
NeverReadsFree == \A p \in Live(mem) : At(mem, p) \notin mem.free
=============================================================================

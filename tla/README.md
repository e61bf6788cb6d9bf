# TLA+ models of JOS

JOS is a small exokernel-style operating system for one x86 processor: a kernel
(`src/kern`), a user library that runs in every environment (`src/lib`), a file
server that is an ordinary environment (`src/fs`) and demonstration programs
(`src/user`). This directory models the parts of it whose correctness depends on
order: on which environment runs when, on which call comes after which, on which
disk write was made before the machine stopped.

## Inventory of the system

| part | state it keeps | operations | talks to |
|---|---|---|---|
| environment table `kern/env.c` | `envs[]`, `env_free_list`, `curenv` | `env_alloc`, `env_free`, `env_destroy`, `envid2env`, `env_run` | system calls, scheduler, page allocator |
| scheduler `kern/sched.c` | none of its own; reads status, priority and `env_ipc_sended` of all environments | `sched_yield` | clock interrupt, every call that blocks or ends its caller |
| traps `kern/trap.c` | the trap frame of `curenv` | `trap`, `trap_dispatch`, `page_fault_handler` | processor, system calls, user upcalls |
| IPC `kern/syscall.c` | `env_ipc_*` of each environment, `waiting_srcenv_ids`, `waiting_dstenv_ids`, `waiting_env_num` | `sys_ipc_try_send`, `sys_ipc_recv` | scheduler, page mapping |
| memory `kern/pmap.c`, `kern/syscall.c` | `page_free_list`, `pp_ref`, page directories and tables | `page_alloc`, `page_free`, `pgdir_walk`, `page_insert`, `page_remove`; `sys_page_alloc`, `sys_page_map`, `sys_page_unmap` | environments, fork, file server |
| console `kern/console.c` | `cons` (circular buffer), devices | `cons_intr`, `cons_getc` | serial port, keyboard |
| IPC library `lib/ipc.c` | none; reads its own `struct Env` | `ipc_send`, `ipc_recv` | kernel IPC |
| file system `fs/fs.c`, `fs/bc.c` | super block, bitmap, directory, blocks, in the cache and on the disk | `file_*`, `alloc_block`, `flush_block` | IDE disk, file server |
| file server `fs/serv.c` | `opentab` | `serve_*` | clients by IPC, pages of file descriptors |
| file client `lib/fd.c`, `lib/file.c` | descriptor pages | `open`, `read`, `write`, `close`, `dup` | file server |
| user page faults, fork `lib/fork.c`, `lib/pgfault.c` | page permissions `PTE_COW`, exception stack | `fork`, `sfork`, `pgfault` | memory calls |
| exception upcalls `kern/trap.c`, `lib/*entry.S`, `lib/divide.c` ... | frames on the exception stack, registered upcalls | `page_fault_handler` and three like it, `set_*_handler`, the entry points and their returns | processor, fork |
| spawn `lib/spawn.c`, mmap `lib/mmap.c` | the page at `UTEMP`, memory of the child, tables of mapped files | `spawn`, `init_stack`, `map_segment`, `mmap` | memory and environment calls, file server |
| checkpoint `lib/checkpoint.c` | a stopped copy | `env_save`, `sys_env_restore` | fork, environment calls |

What is hard in it:

* environments are preempted at every instruction and share the kernel's tables;
  the kernel itself is not preempted (interrupts are off in kernel mode, one
  processor), so a system call is atomic and a library routine is not;
* a blocked sender can only be woken through an entry made when it blocked; in
  between, either side may die and its id may be used again;
* a page has several owners and is freed by the last of them, in whatever order
  they let go of it, also when memory runs out in the middle of a call;
* the file server's cache and the disk differ, and the machine may stop between
  any two block writes;
* a fault may come while a fault is handled, also in the few instructions that
  return from one, on the one page that is the exception stack;
* a child is built by a dozen system calls of its parent, any of which may fail.

What makes each part correct is the list of properties below; where the code is
exposed to each of these is the list `hazards` of `PROJECT.json`.

## Modules

| module | models | state | actions |
|---|---|---|---|
| `SchedOps` | the loop of `sched_yield`, and the choice it is meant to make, as operators | none | none |
| `Sched` | the scheduler under the clock, and what other calls do to what it reads | status, priority, message count of all slots, running slot or none | `Tick`, `Block`, `Exit`, `Exofork`, `Destroy`, `Wake`, `Stop`, `Send`, `SetPriority` |
| `Kern` | environment table, scheduler, return path of `trap()`, environment and IPC system calls | one variable per field of `struct Env` that matters, `freeList`, `waiting`, `curenv`, `mode` | one per system call, `Fault`, `Yield` |
| `KernProofs` | theorems about `Kern`, about its waiting queue, and about `IpcLib` | | |
| `IpcLib` | `ipc_send`, `ipc_recv` as programs on top of `Kern` (it extends `Kern` and calls its actions), and with them `fsipc` and the loop of the file server | a program counter per environment, what each received | one per instruction that enters the kernel or loads from `struct Env` |
| `Pmap` | page allocator, reference counts, two-level tables, memory system calls, the page work of `env_alloc` and `env_free` | `mem` (table of places, writable entries, counts, free list), `stopped` | one per system call |
| `Console` | input buffer | devices, `buf`, `rpos`, `wpos` | device bytes, `cons_getc` |
| `InputQueue` | what the console promises: an unbounded queue | queue, last result | `Getc` |
| `FileSys` | files, the root directory, blocks, bitmap, cache and disk | `mem`, `disk`, `opened`, `todo` (block writes still to be made) | one per request, `ide_write`, `Crash` |
| `Fork` | `fork`, `duppage`, `pgfault`, `set_pgfault_handler`, the page fault upcall of the kernel and its return path | tables, permissions and contents of the pages of each environment, where each is in its program, in `fork` and in its fault handler | one per system call of these routines, `pgfault_copy`, `Store`, `Exit` |
| `PrivateMemory` | what fork promises: memory of one's own | contents of all pages, who handles a fault | `PWrite`, `PCopy`, `PFault`, `PResume`, `PExit` |
| `FsServ` | open file table and handlers of the file server, descriptors of its clients | `opentab`, descriptor pages, directory names, descriptors and pending request of each client, the reply in preparation | `open`, `close`, `dup`, `seek`, `Use` (read, write, stat, set_size), `remove`, `fork`, `env_destroy`, `serve`, `Reply` |
| `Upcall` | the exception stack of one environment: frames of the kernel, entry points in assembly, registration of handlers | the words of both stacks, registers, the frames that have not returned, handlers, whether a frame was put over the first one (`overrun`) | the four exceptions, `set_*_handler`, `upcall_call`, `handler_return`, `upcall_prepare`, `upcall_write`, `upcall_leave`, and the steps of arbitrary code (`Compute`, `Reserve`, `Release`, `Store`) |
| `NestedCalls` | what upcalls promise: a fault suspends, a return resumes | what runs, what is suspended | `Fault`, `Return`, `Own`, `Die` |
| `Spawn` | `spawn`, `init_stack`, `map_segment`, and `mmap` as they use it | where spawn is, bytes of the pages allocated, `UTEMP`, the child's address space and status | one per system call or loop turn |
| `SchedProofs`, `PmapProofs`, `FileSysProofs`, `FsServProofs`, `ForkProofs`, `UpcallProofs`, `SpawnProofs` | theorems about `Sched`, `Pmap`, `FileSys`, `FsServ`, `Fork`, `Upcall` and `Spawn` | | |
| `MC...` | the same for TLC: symmetry sets, views, and sets of inputs | | |

Definitions have the names of the functions they model; `PROJECT.json` gives the
lines. Definitions marked `mutant` are mistakes the code could contain; they are
not part of any specification and show that a property notices them.

### Correspondence worth knowing

* **Kern.** An environment id is a pair of generation and slot. `eax` is the saved
  register in which a call leaves its result; while a call has not returned it
  still holds the call's number, which is how the model knows who is blocked
  where. `sys_ipc_recv` blocks its caller *before* it checks the address and the
  head of the queue, so both error paths leave a blocked caller with
  `env_ipc_recving` set; `sys_ipc_recv` wakes the first queued sender with
  `-E_IPC_NOT_RECV`, and it is `ipc_send` that tries again. `trap()` resumes
  `curenv` only if it is still runnable (`Resume`). `sys_env_restore` checks no
  permission, may wake anybody that is stopped, and ends its caller. A call that
  allocates memory may fail at any time; what it does to memory is in `Pmap`.
  The system call arguments are arbitrary. `Polite` restricts programs (not the
  kernel): nobody uses `sys_env_set_status`, `sys_env_set_trapframe` or
  `sys_env_restore` on an environment that is inside an IPC call. The library
  keeps to that, and the run is about such programs; the first part of `KernProofs` is
  about both kinds, the second about polite ones, the third about those of `IpcLib`.
* **Sched.** `Kern` uses the declarative choice `IsChoice`; `Sched` runs the loop
  (a recursive function over the slots) and compares the two in every state.
  `env_destroy` of the running environment sets `curenv` to NULL before it calls
  `sched_yield`, so the scan after an `Exit`, as the first one after
  `i386_init`, starts at slot 1 (`ScanStart`). Who may call what on whom is left to
  `Kern`: here the running environment may do it to any other.
* **Pmap.** A *place* is a page directory pointer, a directory entry or a table
  entry; `mem.tab` maps each to its page. `pp_ref` wraps at `RefMod`. When
  `sys_page_map` or `sys_ipc_try_send` finds no page for a page table, it frees a
  page that is in use (`Share`); the kernel's free list is wrong from then on, and
  the model stops there (`stopped`).
* **IpcLib.** `service` chooses between senders that send a stream to a receiver
  and clients that call a server: the server answers a message with its value,
  as `serve()` answers each request to the environment it came from, and a
  client receives once after each send, as `fsipc` does. The messages carry no
  pages here; handlers and pages are in `FsServ`.
* **FileSys.** A request changes the cache at once and leaves the sequence of its
  `flush_block` calls in `todo`; `ide_write` makes one of them; `Crash` may come
  between any two and replaces the cache by the disk. Data is abstracted to the
  set of files whose bytes are in a block. The root directory is a file: its
  struct is in the super block, its blocks hold the structs of the others, and
  every lookup fills the holes it meets. A file is the place of its struct, which
  an open file keeps using after the file was removed (`opened`). There are no
  subdirectories (nothing makes one), a path is a name, and nobody opens `/`.
  `off_t` is signed, and `serve_set_size` passes any value of a client on: sizes
  go from `-BelowZero` to `MaxSize`. The loops that go through a file compare
  signed (`NBlocks`); `file_truncate_blocks` assigns the quotient, which C rounds towards
  zero, to an `uint32_t` (`BlockCount`, modulo `WORD`), and `file_write` compares
  the size it needs unsigned.
* **Upcall.** Memory is words, each tagged with what it is, so that a word taken
  for another would show. A frame of the kernel is four words in the space of a
  `Trapframe`, as in the code, which reserves that size for the smaller
  `UTrapframe`. The program and the handlers are arbitrary code that works on its
  own part of the stack: it lowers `esp` by up to `MaxLocals` words at once
  (`Reserve`, a `subl`), below the mapped page too, stores to what is mapped of
  it, and may fault at any instruction; so may the push before
  the call of a handler, and the write to the trap-time stack in its return.
  Assumed, because the code relies on it: an instruction that divides, traps or is
  illegal has two bytes (`InstrLen`); a program registers a first handler of a
  kind outside handlers; and what a function has on the stack is smaller than the
  unmapped page between the two stacks. When an upcall faults with its `esp` below
  the exception page, `page_fault_handler` puts the frame over the first one; the
  model takes this step, remembers it (`overrun`) and follows the environment no
  further. The abstract
  state, activations with their registers and stack contents, is read off the
  frames in memory.
* **Spawn.** Memory is bytes: a byte of the file is its offset, so a page that
  holds the wrong part of the file shows. The guarantees of the linker that
  the comment at `lib/spawn.c:78` names are the assumption on images. Every system
  call may fail where the code can meet it; a failure that panics ends the run.
  Nobody writes the program file meanwhile, and `read` is not short.
* **Fork.** Each system call of `fork` and of `pgfault` is one step, and so is the
  copying of a page; `LAB4_CHALLENGE6` is on (`inc/challenge.h`), so `duppage`
  maps the page in the child and again in the parent in one call. The parent
  goes on writing its stack between the calls. `pgfault` checks less than its
  comment says, so a store to a read-only page makes a writable copy of it. The
  return path of the upcall stores on the program's stack and may fault again;
  it does so on the exception stack, and then repeats the store. Whoever finds
  no memory panics and keeps its pages. Frames are counted in `Pmap`; here a
  frame is free when nobody maps it.
* **FsServ.** A file id is the pair of `o_fileid / MAXOPEN` and the index. A
  descriptor maps the page of an entry or, after `fork` and `seek`, a copy; each
  descriptor keeps, as history, the `struct File` it was opened on. One request is
  handled at a time; between the handler and the arrival of its reply clients
  run, fork and die. `Reply` to a client that is gone ends the server, since
  `ipc_send` panics.

## Runs

All runs finish within about two minutes with two workers.

| run | shows | bounds, and why they are enough |
|---|---|---|
| `kern_calls` | type, exact free list, `curenv` always runnable, no lost sender, idle only as last resort; `env_ipc_recving` means blocked, the queue holds only blocked or dead senders, IPC touches nobody else | three slots, two of which have programs (sender and receiver; the third idles) and one of those only by `sys_exofork`, three generations, so that a slot is used again while entries with its old ids are still in the queue, a message counter that wraps at once; one priority, since `sched_turns` is about those. Every pair of caller and target, reuse, self-sends and sends to 0 happen, and entries of dead senders pile up until the kernel's panic |
| `sched_turns` | the loop finds the declared choice; environments it does not tell apart take turns, unless running environments are destroyed for ever (`TurnsWhileNobodyEnds`) | four slots, two priorities, counts up to 2 with wrap-around, two environments that send; slots are freed and used again |
| `ipc_send` | messages arrive exactly once and in order for each sender, one of which may die at any instruction; a client gets the answer to its own latest request; a sender or client that is alone gets all of its messages or calls through in the end | one or two senders, four messages each: a first, one with a stale predecessor, and those after a retry; as a stream and as a service |
| `pmap_mem` | counts, free list and tables exact; tables private; no write access out of read access | two address spaces, two directory entries with two addresses each, six pages: fewer than both spaces can ask for, so every call runs out of memory at every point; `RefMod = 16` is above the 14 places. Pages are told apart in the view only by where they are used |
| `fork_cow` | a frame somebody writes is nobody else's; whoever has a page to copy can take the fault; the whole implements `PrivateMemory` | three environments (parent, child, and grandchild or sibling), one or two of which are there at the start, a text page and a stack, six frames: enough for two handlers at once and too few for everybody. Frames are told apart in the view only by who shares them |
| `fsserv_open` | an entry whose page a client maps is never given away; a request is carried out on the file its descriptor was opened on, or refused | two clients (a client that died may be forked again), two descriptors each, two entries, two files, two opens in all: enough for an entry to be reused under a stale descriptor |
| `console_ring` | the circular buffer implements `InputQueue` | four places, three characters waiting at most, several turns |
| `fs_mem` | as long as no client asks for a negative size, every block is in one place or free and nothing is past a file's size, in files and in the directory; no foreign data | one struct per directory block, so that the second file makes the directory grow; one direct and two indirect pointers, four blocks: the disk fills up in the middle of writes and of the growth; a size one block above what a file has room for; no negative sizes (`BelowZero = 0`). What holds of negative sizes and indirect blocks together, `TypeOK`, `BlocksApart` and `NoForeignData`, is proved. The disk is left out of the view, since without crashes nothing reads it |
| `fs_crash` | whatever sizes clients ask for, no block is free and in use or in use twice, and at every instant no file on the disk refers to a free or shared block; between requests the names and sizes of all files are on the disk | two files in a directory that grows, two direct pointers, three blocks, crashes between any two writes; sizes from -1, with blocks of one byte the smallest one whose number of blocks wraps, to one above the room |
| `fs_stale` | (violation) after a crash an indirect block refers to a free block | one file with indirect blocks, four blocks, crashes |
| `upcall_nested` | until the environment dies or an upcall faults below the exception page, frames never overlap anything live and the whole implements `NestedCalls` | a page of 23 words: room for three frames with their calls, and an end that is reached, and passed, at every offset a local word can give; two register values, a user stack of one word so that it is full and empty. `MaxLocals = 1`: one word is enough to leave the page from its last one |
| `spawn_build` | a child that runs has its image and its arguments byte by byte and shares no page; spawn hands over `UTEMP` and the file, or cleans up | pages of 12 bytes with words of 2; segments that begin at a page, inside it and at its last byte, end before, at and after one, with no, some and all bytes in the file; argument vectors that just fit and just do not; tables of 4 entries for `mmap`, so that they run full |

Deadlock is not checked where the system may stop: in `Kern` and `IpcLib` the
kernel stops in the monitor or by its panic, and programs end; in `Pmap` it stops
after a fault in the kernel; in `Fork` programs exit or panic; in `FsServ` the
clients may all be gone, or the server down; in `Upcall` the environment dies; in
`Spawn` the call returns.

### Fairness

`Sched` assumes weak fairness of the clock interrupt: `kern/kclock.c` programs it
once to be periodic, and interrupts are on whenever an environment runs.
`IpcLib` assumes the same, and strong fairness of each environment's next step
while it is scheduled: a time slice is many instructions long, so an environment
that is scheduled again and again does not lose every slice before its next
instruction. Nothing is assumed about priorities, about who sends, or that
anybody dies.

### Disagreements between code and comments

* `fs/bc.c:57` asserts that a block that is read is allocated: `file_set_size`
  does not flush the indirect block it changes (run `fs_stale`).

Three more are in the models, where a formula that states what the comment says is
false; each has a weaker one that the runs check. The counterexample is found by
checking the formula in place of the properties of the run named.

* `kern/sched.c:13-16` promises "simple round-robin scheduling", "starting after the
  previously running env": after `env_destroy(curenv)` the scan starts at slot 1
  (`kern/env.c:427`, `kern/sched.c:25`). Environment 1 makes a child in slot 2, which runs
  and ends, then 1 runs again; environment 3, of the same priority and message
  count, never does (`RoundRobin` with `MCSched_turns.cfg`).
* `fs/fs.c:431` says that `file_truncate_blocks` removes the blocks a file of the
  new size does not need: for a negative size the number of blocks to keep is
  close to 2^32 and nothing is freed (`NothingPastSize` with `MCFileSys_mem.cfg`
  and `BelowZero = 1`). If the size is then set to
  0, which is more, nothing is truncated either, and a `remove` takes a file of
  size 0 to have no block: the blocks stay in use for ever. (A `remove` straight
  after the negative size frees them, since the old number of blocks wraps as well.)
* `kern/trap.c:360` says that the environment is destroyed when "the exception stack
  overflows". It is, as long as `esp` is still inside the page when the next fault
  occurs: the frame then lies in the unmapped page below. But a compiled handler
  lowers `esp` by its whole frame at once; if that crosses the end of the page, the
  fault is taken for a first one, its frame goes to the top of the page, over that
  of the first upcall, and the check of the page passes (`FramesApart` with
  `MCUpcall_nested.cfg`).

Also met while modelling, and in the models as the code has them, without a run of
their own: `kern/pmap.c:534` says that `page_free` "should only be called when
pp->pp_ref reaches 0", but `sys_page_map` and `sys_ipc_try_send` call it when
`page_insert` fails, on a page that is still mapped (`kern/syscall.c:363`, `:482`;
reached in `pmap_mem`, which stops there); `inc/trap.h:79` says that
`utf_fault_va` is 0 unless the exception is a page fault, but all four handlers
store `cr2` (`kern/trap.c:410`); `file_create` reports `-E_NOT_FOUND` when the disk
is full (`fs/fs.c:343`), and `fs/fs.c:204` promises no error but that to
`dir_lookup`, which returns `-E_NO_DISK` after such a failure; a file created
where a removed one is still open may have that one's size and blocks
(`fs/fs.c:344`); `spawn` leaves the child and the open file behind when
`init_stack` fails (`lib/spawn.c:118`) and fills the tables of `mmap`, 32 entries
that nothing checks, with one entry per page (`lib/mmap.c:64`); `env_alloc` clears
only one of the four upcalls (`kern/env.c:209`, not in the models);
`lib/ipc.c:53` says that `ipc_send` "keeps trying until it succeeds", but it tries
twice, and with two senders panics over a second `-E_IPC_NOT_RECV` (reached in
`ipc_send`, which therefore claims `SendTerminates` for a lone sender only);
`lib/fork.c:24` says that `pgfault` panics unless the page is copy-on-write, but
line 31 asks for a missing page table *and* a missing mark; after `fork`, `seek`
changes a copy of the descriptor that the server never reads, so the next
request is not "at the current seek position" (`lib/file.c:128`); `sync` after
`fork` sends a request page that is still copy-on-write with `PTE_W`, which the
kernel refuses (`lib/file.c:192`, not in the models); a client that dies while
its request is handled takes the file server with it (`fs/serv.c:367`, `srv =
"down"` in `FsServ`);
entries of dead senders stay in the waiting queue until it overflows
(`kern/syscall.c:457`, reached in `kern_calls`); a sender queued for a receiver
that dies is never woken (`kern/env.c:422`); `page_remove` of an address without
a page in an existing table calls `page_decref(NULL)` (`kern/pmap.c:713`,
`stopped` in `Pmap`); the message count takes precedence over the circular order
of `sched_yield`, so the turns of `TurnsWhileNobodyEnds` are among equals only
(`kern/sched.c:38`); a full console buffer reads as empty
(`kern/console.c:418`, excluded by `Backlog`); `alloc_block` flushes the first
bitmap block only (`fs/fs.c:70`), which is all there is on images of at most
1024 blocks (`fs/fsformat.c:231`).

## Proofs

The runs check small instances; the theorems hold for every value of the
constants that satisfies the named assumption of the module. Each proof module
has one inductive invariant, which TLC has checked on the instance of the run
before it was proved, one lemma per action, and lemmas for the data the actions
work on. Every theorem listed states a property that a run checks.

| module | invariant | theorems (property) | beyond the assumption on constants |
|---|---|---|---|
| `KernProofs` | `IInv` | `TypeCorrect`, `FreeListCorrect` (`FreeListExact`), `RunsOnlyRunnable` (`CurenvRunnable`), `NoLostSender` (`BlockedSenderQueued`), `IdleIsLastResort` (`SchedNeverIdles`) | nothing; arbitrary programs |
| | `IInv /\ QInv` | `ReceiversBlocked` (`RecvingBlocked`), `QueueSound` (`WaitingSound`), `PreemptedUntouched` (`RegistersIsolated`) | `Polite`, `GenBound <= MaxGen` |
| | `IInv /\ QInv /\ LInv` | `DeliveredOnce` (`ExactlyOnce`), `AnswersAreOwn` (`AnswersOwnRequest`) | `ProgramsFit` |
| `SchedProofs` | `Counted` | `LoopChooses` (`LoopFindsChoice`) | nothing |
| `PmapProofs` | `MInv` | `TypeCorrect`, `NeverUpgraded` (`NoWriteUpgrade`) | nothing |
| | | `CountsExact` (`RefCountExact`), `FreeListCorrect` (`FreeExact`), `TablesAreTree` (`TablesPrivate`) | `[]NoOverflow` |
| `FileSysProofs` | `MInv`, `MInvExact` | `EveryBlockAccounted` (`BlocksExact`) | `NoNegativeSizes`, `~Crashes` |
| | `MInv` | `TruncateFindsAll` (`NothingPastSize`) | `NoNegativeSizes`, `~Crashes \/ Plain` |
| | `MInv` | `TypeCorrect`, `NoBlockTwice` (`BlocksApart`), `FilesApart` (`NoForeignData`) | `~Crashes \/ Plain` |
| | `DInv` | `CrashSafe` (`DiskSafe`), `AnsweredIsDurable` (`NamesDurable`) | `Plain` |
| `FsServProofs` | `FInv` | `TypeCorrect`, `EntriesHeld` (`EntryHeld`), `RequestsServedRight` (`ServesOwnFile`) | nothing |
| `ForkProofs` | `MInv` | `TypeCorrect`, `NobodyElseMaps` (`WritersAlone`), `FaultsTaken` (`CowHandled`), `ForkImplements` (`ImplementsPrivateMemory`) | nothing |
| `UpcallProofs` | `IInv` | `TypeCorrect`, `FramesStackWithinPage` (`FramesStacked`) | nothing |
| | | `UpcallsReturn` (`ReturnsToInterrupted`) | `InstrLen = 2` |
| `SpawnProofs` | `SInv` | `TypeCorrect`, `PagesHandedOver` (`HandedOver`), `ImageComplete` (`ImageExact`), `ArgsArrive` (`ArgsPassed`) | nothing |

**Kern.** `IInv` is the conjunction of the four invariants with `IdsNameSlots`
(the id of a live environment names its own slot and is not 0). The conjuncts
need each other: `CurenvRunnable` gives a handler a caller that exists, without
which `envid2env(0)` is not a slot; `FreeListExact` says that `env_alloc` takes a
slot nobody has; `IdsNameSlots` says that the entry `sys_ipc_recv` removes is that
of the very environment it wakes, so no other sender loses its entry; and the
type of `sended`, below 2^32 - 1, is why the loop of `sched_yield` sees a runnable
environment of priority 0. `SchedNeverIdles` follows from a lemma on the result of
`sched_yield` (`SwitchesBySched`: control changes hands only through it).

**The waiting queue.** `QInv` adds to the two invariants that nobody is in a send
and in a receive at once, and that an entry names a generation its slot has had
(`EntriesNotAhead`): an environment that is created in the slot of a dead sender
is younger than the entry and is not taken for it. That is where the two
hypotheses come from. Without `Polite` a program can wake another one out of its
send with `sys_env_set_status` and leave the entry behind; past the last
generation (2^19 - 1 in the code) ids are used again and an entry of a dead sender
may name a living environment. `RegistersIsolated` then follows action by action:
a call writes to an environment other than its caller only if that one is
blocked or is a child of the caller.

**IpcLib.** `KernProofs` extends `IpcLib`, so that the invariants of the kernel serve the
programs on top of it; what `IpcLib` supposes of its constants is therefore no
assumption of that module but the hypothesis `ProgramsFit` of the theorems about
`LibSpec`, which `MCIpcLib` has TLC evaluate. `LInv` counts, for each sender, the
messages that reached the receiver (`Delivered`) against those the sender was told
of (`count`): `Untold` says by how much they may differ, from where the program is
and from its saved `eax`. A send that is retried must not have been delivered, so the
difference is 0 as long as `eax` is not 0; that needs the waiting queue (`QInv`:
`sys_ipc_recv` writes `-E_IPC_NOT_RECV` only to an environment that is inside the send
it queued). `InCall` has the two facts on which the unlocked loads of `ipc_recv` rest:
an environment that runs has `env_ipc_recving` clear, so no message can overwrite the
one it is reading. For the server `Serves` adds the other direction: the client whose
request the server holds or is answering waits, its log has one message per call that
returned, and the value that goes back is the number of its request. The proof looks at
one slot at a time: a slot that an action leaves alone keeps its part (`Kept`), and
only the one or two that moved are considered. What a log has of one sender is a
recursive function, about which `ValuesAppend` and `ValuesType` are proved by the same
kind of induction as for the loop of the scheduler.

**The loop of the scheduler** is a recursive function of the number of turns.
What it computes is proved by induction over the turns. The induction is made
without a schema: the numbers that satisfy the claim are a set of naturals with
0 and every successor, and a set that lacks a natural lacks a smallest one
(`NatSet`). The claim is that after n turns the loop has the best of the first n
slots it looks at, in the order of priority, messages sent and turn. `Counted`
(counts stay below the initial `min_sended`) is needed for the loop to take any.

**Pmap.** `MInv` is the exactness of the counts and, until the fault that stops the
model, of the free list, together with the tree of tables. The three are not
inductive apart: freeing a page table is right because nobody else uses its
page, and that is so because pages come from an exact free list. An operation is
a composition of functions on memories, and so is its proof: each part takes a
good memory, up to a set of pages taken and not yet put in place, to a good one.
`pp_ref` has 16 bits and nothing in `kern/pmap.c` looks at its limit, so the counts
are exact only while no page has 2^16 uses: `[]NoOverflow` is a condition on the
behaviour, not on a constant, and `SmallSystem` discharges it where there are
fewer places than that, as in the run. Write permission needs no such condition.

**FileSys.** The proof has two halves. The first is about memory. `MInv` says of
every place in which a block number can be (`Num`, the indirect pointer being place
-1) that its block is not free (`NotFree`), in no second place (`Unshared`), within
the size of its file (`Short`) and without data of another file (`Own`); `Exact`
adds that a block in no place is free. `NothingPastSize` carries `Exact`: only
because nothing is past the size does `file_truncate_blocks`, which looks only
below it, free all there is. These two are false when clients set negative
sizes, and are claimed under `NoNegativeSizes` (`BelowZero = 0`) only; inside the
invariant they are implications with that premise. The rest does not depend on
them, so that `NoBlockTwice`, `FilesApart`, `CrashSafe` and `AnsweredIsDurable` are
about every size a client may ask for: blocks are forgotten, but never given out
while somebody has them. The root directory is the exception on which the proofs
rely: no client sets its size (`Regular`). A request is a composition of functions on a request in
progress, and its loops are recursive functions, so each function has a lemma
that it takes a good store to a good one and loses no place of the directory, and
each loop is an induction over its turns as in the scheduler. Without `Exact` all
this holds as well after a crash that lost blocks.

The second half is about the disk. A request leaves a sequence of writes, and
`Reaches` says that making them one after the other leads over good disks only.
`Fits` relates the memory of a request in progress to the disk as it will be when the
writes so far are made (`Rest`): it has no free block that memory has in use, no
pointer that memory lacks, except in the file just truncated, and it may lack
pointers that no flush has written yet. The names and sizes are those of memory
(`Named`), except of the file the next write is about, and a place that is not on the
disk is one whose file has no name and no size (`Known`): this is why `file_create`
must flush the whole directory and not the block of the new entry alone. `DInv`
says that between requests, and between any two writes of one, the disk at the end
of `todo` fits memory without exception. A write of the disk takes one element off
the sequence, a crash drops the sequence where the disk is good already, and so
every disk is safe (`CrashSafe`); with nothing left to write the disk at the end is
the disk (`AnsweredIsDurable`).

`Plain` is `NB <= BITS /\ MaxSize <= NDIRECT * BLKSIZE`: the bitmap is one block,
as on every image that `fsformat` makes, and files have at most ten blocks. The
second condition is needed: with indirect blocks, which `file_set_size` does not
flush, `DiskSafe` is false (`fs_stale`). And as crashes bring the disk into memory,
the theorems about memory need it too where there are crashes; without crashes they
hold with indirect blocks. `BlocksExact` is not claimed across crashes, since a
block that was taken from the bitmap when the machine stopped is lost.

**FsServ.** `FInv` describes what is known of a file id that was given out
(`Known`): its entry has not been opened less often since, and as long as it has
not been opened again it is that of the same file. Descriptors that are stale
copies, requests that are under way and the reply in preparation each carry such
an id; `ReplyPending` says that the entry of an `open` whose reply is still on its
way is held already, which is the instant at which nobody maps its page but the
server.

**Fork.** `MInv` strengthens `WritersAlone` to the pages of one environment
(`Alone`), with one exception: between its last two calls `pgfault` has the copy
mapped twice. The handler's position says what its temporary page holds, and a
child under construction has exactly the pages before the next one to
duplicate and belongs to one parent. With `MInv` each step is shown to be a step
of `PrivateMemory` or to change nothing it sees.

**Upcall.** `IInv` is the type and, until a frame is put over the first one, `UInv`;
after that nothing is followed, so that the theorems claim nothing. `UInv` gives
every level, the program and each upcall that has not returned, an order of its
own: its frame lies below the live words of what it interrupted and holds their `eip`, registers and `esp`; the level is suspended
there at code from which it can go on; an upcall at the last instructions of its
return has the return word in place. Frames are ordered by address, so what is
in the page below the last frame is part of no level, and a store of the code, a
call or a new frame disturbs none (`BelowTop`, `OwnStack`); where `esp` is, in the
page or below it, matters only when a fault comes; the two words that a return writes, the `esp` in its own
frame and the return word above the trap-time stack, are part of none either
(`EspCell`, `ReturnCell`): this is what the word left blank by the kernel is for.
A step of the running level leaves all that is suspended as it is (`TopStep`), a
fault appends exactly what ran (`FaultSuspends`), and a return takes exactly the
last one off (`LeaveReturns`); that is the refinement of `NestedCalls`. The entry
points other than `_pgfault_upcall` add 2 to `eip` (the source asks "How much has
the %eip to be increased?"), hence `InstrLen = 2`; `FramesStackWithinPage` does not
depend on it.

**Spawn.** `SInv` says which pages of which segments are in place at each turn of
the two loops, and what the page at `UTEMP` holds. Pages and bytes are related by
lemmas on `\div` and `%` that are proved here (`DivExists`, by the same kind of
induction). The proof of `ImageComplete` showed what the linker's guarantee has to
mean: segments must not share a page that `map_segment` *takes*, and of an empty
segment that begins inside a page it takes that page, since it adds the offset
to `memsz`; `PagesOf` and `WellFormed` say so.

Only model-checked, and why: `TurnsWhileNobodyEnds` and `SendTerminates` are liveness
properties under fairness, which the prover does not handle. The
refinement of `InputQueue` is about `cons_intr`, which selects the characters of a
whole burst with `SelectSeq`: a fact about every burst takes an induction over data. Files with indirect blocks on a machine
that crashes are in no theorem, because the code does not keep them safe.

## Not modelled

Boot loader and kernel start (sequential, hardware), monitor and debug
information, interrupt controller, IDE register protocol (a block write is
atomic), formatted output and strings, `fsformat` (its empty disk is an initial
state), user programs (`Kern` allows any). `sfork` gives up private memory, which
is what `Fork` is about; of `checkpoint`, `sys_env_restore` is in `Kern` and
`env_save` is left out; of `mmap`, the search for a free address and `munmap`.
Seek positions of open files, and faults on pages that are not mapped at all, are
left out of `FsServ` and `Fork`. In `FileSys` positions are not negative: `seek`
accepts a negative one (`lib/fd.c:258`), from which the server computes a block far
outside of the file. `fs_test`, which the server runs at every start (`fs/test.c:9`),
takes one block from the bitmap and never gives it back: left out, so that
"every block" is every block but those. The runs of `FileSys` have blocks of one
byte, so that the rounding of sizes to blocks, negative ones included, is in the
theorems but not in the runs. What an environment does after its frames were
overwritten is not in `Upcall`, nor is a function whose locals are larger than the
page under the exception stack.

`origin/` holds the course's unmodified handouts of labs 1 to 7, those of labs 6
and 7 with a vendored lwIP stack. None of it is built into this system (the
network lab is not done here), and it is nine tenths of the
repository's lines of code; of the system's own code, `kern`, `lib`, `fs` and `inc`, the models
cover the parts that keep state.

## Plan

1. (done) `SchedOps`, `Sched`, `Kern`, `IpcLib`; `KernProofs` with the invariants
   for arbitrary programs.
2. (done) `Pmap`, `Console` against `InputQueue`, `FileSys` with crashes.
3. (done) `FsServ`: open file table, file ids, descriptor pages counted by
   `pageref`, the client side.
4. (done) `Fork` against `PrivateMemory`.
5. (done) `Upcall` against `NestedCalls`; `Spawn` with `mmap`; directory growth,
   removed open files and durable names in `FileSys`; `fsipc` and the server loop
   over `IpcLib`.
6. `sfork` with shared frames; `env_save`; `munmap`; seek positions shared through
   descriptor pages.
7. (done) Theorems about `Kern`, `IpcLib`, `Sched`, `Pmap`, `FsServ`, `Fork`, `Upcall` and
   `Spawn`, with the refinements of `PrivateMemory` and `NestedCalls`.
8. (done) Theorems about `FileSys`: its type, `BlocksExact`, `NothingPastSize`,
   `NoForeignData`, then `DiskSafe` and `NamesDurable` across crashes.

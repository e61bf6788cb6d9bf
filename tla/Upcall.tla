------------------------------- MODULE Upcall -------------------------------
(***************************************************************************)
(* Exception upcalls of one environment: what the kernel pushes on the     *)
(* user exception stack (kern/trap.c), the assembly entry points that call *)
(* the C handler and return from it (lib/pfentry.S, deentry.S, gpfentry.S, *)
(* ioentry.S) and the registration of handlers (lib/pgfault.c, divide.c,   *)
(* gpfault.c, illop.c).                                                    *)
(*                                                                         *)
(* Memory is counted in words.  Addresses grow from the user stack         *)
(* UBase..UTop-1 over an unmapped gap to the exception stack, the page     *)
(* XBase..XTop-1.  A UTrapframe is four words here, from its lowest one:   *)
(* fault_va and err, the registers, eip, and esp with eflags; the kernel   *)
(* reserves the size of a Trapframe for it.  The program and its handlers  *)
(* are arbitrary code: they move esp by any number of words, below the     *)
(* mapped page too, and may fault anywhere; a clock interrupt is           *)
(* transparent to them.  An upcall whose esp is below the exception page   *)
(* when it faults gets its frame over the first one: what the environment  *)
(* does after that is not followed.                                        *)
(***************************************************************************)
EXTENDS Integers, Sequences

CONSTANTS UBase, UTop,   \* the user stack
          XBase, XTop,   \* UXSTACKTOP - PGSIZE, UXSTACKTOP
          TfWords,       \* sizeof(struct Trapframe)
          Values,        \* what the program computes in its registers
          VAs,           \* contents of cr2
          InstrLen,      \* length of an instruction that faults
          MaxOff,        \* bound: code is not followed past this offset
          MaxLocals      \* bound: words a function has on the stack, which is less than
                         \* the gap below the exception stack

UtfWords == 4
Kinds    == {"pgfault", "divide", "gpfault", "illop"}

ASSUME UpcallAssumption ==
  /\ UBase \in Nat /\ UTop \in Nat /\ XBase \in Nat /\ XTop \in Nat /\ TfWords \in Nat
  /\ UBase < UTop /\ UTop < XBase /\ XBase + TfWords < XTop
  /\ UtfWords <= TfWords
  /\ InstrLen \in Nat \ {0} /\ MaxOff \in Nat
  /\ MaxLocals \in Nat /\ UTop + MaxLocals + 2 <= XBase

XPage == XBase..(XTop - 1)
Addrs == (UBase..(UTop - 1)) \cup XPage

\* Where esp may point: also to where nothing is mapped.
Esps  == (UTop - MaxLocals)..XTop

(* A code address: a function and the offset in it.  "asm" is the entry    *)
(* point of an upcall: at 0 it calls the handler, at 1 it takes the frame  *)
(* apart, at 2 it writes to the trap-time stack, at 3 it leaves.           *)
Code(fn, off) == [fn |-> fn, off |-> off]
CodeAddrs == {Code("main", n) : n \in 0..(MaxOff + 2)} \cup {Code("C", n) : n \in 0..(MaxOff + 2)}
               \cup {Code("asm", n) : n \in 0..3}

(* Words of memory, tagged with what they are. *)
Val(v)  == <<"val", v>>
Va(v)   == <<"va", v>>
Eip(c)  == <<"eip", c>>
Esp(a)  == <<"esp", a>>
RetRegs(c, a) == <<"eax,ebx", c, a>>
ZeroWord == <<"zero">>

Stacked == {Val(v) : v \in Values}
RegVals == Stacked \cup {RetRegs(c, a - 1) : c \in CodeAddrs, a \in Esps}
Words   == RegVals \cup {Va(v) : v \in VAs} \cup {Eip(c) : c \in CodeAddrs}
             \cup {Esp(a) : a \in Esps \cup {UTop - MaxLocals - 1}} \cup {ZeroWord}

VARIABLES
  mem,      \* the two stacks
  cpu,      \* eip, esp and the other registers
  frames,   \* the upcalls that have not returned: utf, and the exception's kind
  handler,  \* the kinds with a handler: _pgfault_handler etc. are not 0
  upcall,   \* the kinds with an upcall: env_pgfault_upcall etc. are not NULL
  xmapped,  \* the exception stack is mapped
  dead,     \* the environment has been destroyed
  overrun   \* history: a frame was written over the first one

regVars == <<handler, upcall, xmapped>>
vars    == <<mem, cpu, frames, regVars, dead, overrun>>

TypeOK ==
  /\ mem \in [Addrs -> Words]
  /\ cpu \in [eip : CodeAddrs, esp : Esps, regs : RegVals]
  /\ frames \in Seq([utf : XPage, kind : Kinds])
  /\ handler \subseteq Kinds /\ upcall \subseteq Kinds
  /\ xmapped \in BOOLEAN /\ dead \in BOOLEAN /\ overrun \in BOOLEAN

Depth == Len(frames)
Top   == frames[Depth]

Init ==
  /\ mem = [a \in Addrs |-> ZeroWord]
  /\ cpu \in {[eip |-> Code("main", 0), esp |-> UTop, regs |-> r] : r \in Stacked}
  /\ frames = <<>>
  /\ handler = {} /\ upcall = {}
  /\ xmapped = FALSE
  /\ dead = FALSE /\ overrun = FALSE

-----------------------------------------------------------------------------
(* The kernel's side. *)

\* mutant: the frame is put directly below the trap-time esp
Frame_NoBlank(esp) ==
  IF XBase <= esp /\ esp <= XTop - 1 THEN esp - UtfWords ELSE XTop - UtfWords

\* mutant: the lowest word of the page does not count as the exception stack
Frame_OffByOne(esp) ==
  IF XBase < esp /\ esp <= XTop - 1 THEN esp - TfWords - 1 ELSE XTop - TfWords

\* Where the UTrapframe goes: below the esp of a handler, else at the top.
Frame(esp) ==
  IF XBase <= esp /\ esp <= XTop - 1 THEN esp - TfWords - 1 ELSE XTop - TfWords

\* mutant: only the pages that begin in the range are checked, ROUNDUP for ROUNDDOWN
user_mem_assert_RoundUp(utf) == xmapped /\ utf + UtfWords > XBase

user_mem_assert(utf) == xmapped /\ utf >= XBase

Destroyed == dead' = TRUE /\ UNCHANGED <<mem, cpu, frames, regVars, overrun>>

\* In an upcall, but not on the exception stack: the frame is put at its top again.
Overruns == frames # <<>> /\ cpu.esp \notin XPage

\* An exception of kind k at cpu.eip; va is the content of cr2.
Exception(k, va) ==
  LET utf == Frame(cpu.esp) IN
  \/ k \notin upcall /\ Destroyed
  \/ k \in upcall /\ ~user_mem_assert(utf) /\ Destroyed
  \/ /\ k \in upcall /\ user_mem_assert(utf)
     /\ mem' = [mem EXCEPT ![utf] = Va(va), ![utf + 1] = cpu.regs,
                           ![utf + 2] = Eip(cpu.eip), ![utf + 3] = Esp(cpu.esp)]
     /\ cpu' = [cpu EXCEPT !.eip = Code("asm", 0), !.esp = utf]
     /\ frames' = Append(frames, [utf |-> utf, kind |-> k])
     /\ overrun' = Overruns
     /\ UNCHANGED <<regVars, dead>>

page_fault_handler(va)               == Exception("pgfault", va)
divide_by_zero_handler(va)           == Exception("divide", va)
general_protection_fault_handler(va) == Exception("gpfault", va)
illegal_opcode_handler(va)           == Exception("illop", va)

-----------------------------------------------------------------------------
(* The program and the C handlers: arbitrary code on its own stack.        *)

Followed == ~dead /\ ~overrun

InUserCode == Followed /\ cpu.eip.fn \in {"main", "C"}

\* From here on the stack belongs to the caller of the running code.
StackEnd == IF frames = <<>> THEN UTop ELSE Top.utf - 2

Compute ==
  /\ InUserCode
  /\ \E r \in Stacked : cpu' = [cpu EXCEPT !.regs = r]
  /\ UNCHANGED <<mem, frames, regVars, dead, overrun>>

\* subl $n, %esp: memory is not touched.
Reserve(n) ==
  /\ InUserCode
  /\ cpu.esp - n >= StackEnd - MaxLocals
  /\ cpu' = [cpu EXCEPT !.esp = @ - n]
  /\ UNCHANGED <<mem, frames, regVars, dead, overrun>>

\* addl $n, %esp
Release(n) ==
  /\ InUserCode
  /\ cpu.esp + n <= StackEnd
  /\ cpu' = [cpu EXCEPT !.esp = @ + n]
  /\ UNCHANGED <<mem, frames, regVars, dead, overrun>>

\* A store to a word of the code's own, one that is mapped.
Store ==
  /\ InUserCode
  /\ \E a \in Addrs : /\ cpu.esp <= a /\ a < StackEnd
                      /\ mem' = [mem EXCEPT ![a] = cpu.regs]
  /\ UNCHANGED <<cpu, frames, regVars, dead, overrun>>

Fault(va) ==
  /\ InUserCode
  /\ cpu.eip.off <= MaxOff
  /\ \/ page_fault_handler(va)
     \/ divide_by_zero_handler(va)
     \/ general_protection_fault_handler(va)
     \/ illegal_opcode_handler(va)

(***************************************************************************)
(* set_pgfault_handler and the three like it.  The first call for a kind   *)
(* maps a new page as exception stack, whether or not there is one, and    *)
(* panics if it cannot.  The first call for a kind is not made by a        *)
(* handler: it would replace the stack the handler runs on.                *)
(***************************************************************************)
set_handler(k) ==
  /\ InUserCode
  /\ frames = <<>> \/ k \in handler
  /\ \/ k \notin handler /\ Destroyed
     \/ /\ k \notin handler
        /\ mem' = [a \in Addrs |-> IF a \in XPage THEN ZeroWord ELSE mem[a]]
        /\ xmapped' = TRUE
        /\ upcall' = upcall \cup {k}
        /\ handler' = handler \cup {k}
        /\ UNCHANGED <<cpu, frames, dead, overrun>>
     \/ k \in handler /\ UNCHANGED vars

set_pgfault_handler == set_handler("pgfault")
set_divide_handler  == set_handler("divide")
set_gpfault_handler == set_handler("gpfault")
set_illop_handler   == set_handler("illop")

-----------------------------------------------------------------------------
(* The entry points in assembly. *)

At(n) == Followed /\ cpu.eip = Code("asm", n)

\* pushl %esp; call *%eax
upcall_call ==
  /\ At(0)
  /\ cpu.esp - 2 >= XBase
  /\ mem' = [mem EXCEPT ![cpu.esp - 1] = Esp(cpu.esp),
                        ![cpu.esp - 2] = Eip(Code("asm", 1))]
  /\ cpu' = [cpu EXCEPT !.esp = @ - 2, !.eip = Code("C", 0)]
  /\ UNCHANGED <<frames, regVars, dead, overrun>>

\* The handler's ret; addl $4, %esp
handler_return ==
  /\ Followed /\ cpu.eip.fn = "C"
  /\ cpu.esp = StackEnd
  /\ cpu' = [cpu EXCEPT !.eip = mem[cpu.esp][2], !.esp = @ + 2]
  /\ UNCHANGED <<mem, frames, regVars, dead, overrun>>

\* The entry points other than _pgfault_upcall skip two bytes.
Skip(k, c) == IF k = "pgfault" THEN c ELSE [c EXCEPT !.off = @ + 2]

\* The eip to return to in eax, its place on the trap-time stack in ebx,
\* which becomes the esp in the frame.
upcall_prepare ==
  /\ At(1)
  /\ LET eax == Skip(Top.kind, mem[cpu.esp + 2][2])
         ebx == mem[cpu.esp + 3][2] - 1
     IN /\ mem' = [mem EXCEPT ![cpu.esp + 3] = Esp(ebx)]
        /\ cpu' = [cpu EXCEPT !.regs = RetRegs(eax, ebx), !.eip = Code("asm", 2)]
  /\ UNCHANGED <<frames, regVars, dead, overrun>>

\* movl %eax, (%ebx)
upcall_write ==
  /\ At(2)
  /\ cpu.regs[3] \in Addrs
  /\ mem' = [mem EXCEPT ![cpu.regs[3]] = Eip(cpu.regs[2])]
  /\ cpu' = [cpu EXCEPT !.eip = Code("asm", 3)]
  /\ UNCHANGED <<frames, regVars, dead, overrun>>

\* The push of upcall_call and the write to the trap-time stack may fault.
upcall_fault(va) ==
  /\ At(0) \/ At(2)
  /\ page_fault_handler(va)

\* popal; popfl; pop %esp; ret
upcall_leave ==
  /\ At(3)
  /\ LET esp == mem[cpu.esp + 3][2] IN
     cpu' = [eip |-> mem[esp][2], esp |-> esp + 1, regs |-> mem[cpu.esp + 1]]
  /\ frames' = SubSeq(frames, 1, Depth - 1)
  /\ UNCHANGED <<mem, regVars, dead, overrun>>

Next ==
  \/ Compute \/ Store
  \/ \E n \in 1..MaxLocals : Reserve(n) \/ Release(n)
  \/ \E va \in VAs : Fault(va) \/ upcall_fault(va)
  \/ set_pgfault_handler \/ set_divide_handler \/ set_gpfault_handler \/ set_illop_handler
  \/ upcall_call \/ handler_return
  \/ upcall_prepare \/ upcall_write \/ upcall_leave

Spec == Init /\ [][Next]_vars

-----------------------------------------------------------------------------
(***************************************************************************)
(* The abstract state, read off the frames in memory.  CodeAt(i) is where  *)
(* the i-th upcall is: 0 is the program.                                   *)
(***************************************************************************)
CodeAt(i) == IF i = Depth THEN cpu.eip ELSE mem[frames[i + 1].utf + 2][2]

\* The esp that the i-th upcall interrupted: the frame holds one word less
\* once the return is prepared.
TrapEsp(i) ==
  mem[frames[i].utf + 3][2] + IF CodeAt(i).fn = "asm" /\ CodeAt(i).off >= 2 THEN 1 ELSE 0

\* The stack of what runs in the i-th upcall, from esp up to its frame.
WordAt(a) == IF a \in Addrs THEN mem[a] ELSE <<"unmapped">>
StackOf(i, esp) ==
  LET end == IF i = 0 THEN UTop ELSE frames[i].utf IN
  [j \in 1..(end - esp) |-> WordAt(esp + j - 1)]

Suspended ==
  [i \in 1..Depth |->
     LET utf == frames[i].utf IN
     [kind |-> frames[i].kind, va |-> mem[utf],
      act  |-> [eip |-> mem[utf + 2][2], regs |-> mem[utf + 1],
                words |-> StackOf(i - 1, TrapEsp(i))]]]

Running == [eip |-> cpu.eip, regs |-> cpu.regs, words |-> StackOf(Depth, cpu.esp)]

(* However faults nest, in a handler, at the call of a handler or in the   *)
(* middle of the return from one, each upcall returns to what it           *)
(* interrupted, with its registers and every word of its stack as they     *)
(* were (kern/trap.c:348, "pushing another page fault stack frame"): until *)
(* the environment is destroyed, or an upcall faults below the page.       *)
Abstract == INSTANCE NestedCalls
  WITH run <- Running, suspended <- Suspended, dead <- dead \/ overrun
ReturnsToInterrupted == Abstract!Spec

(* Unless an upcall faults with its esp below the exception page, the      *)
(* frames lie one below the other in it, each below the live words of what *)
(* it interrupted, with the return word above it, and the running code is  *)
(* below them all, however far down it has its esp.                        *)
FramesStacked ==
  Followed =>
    /\ \A i \in 1..Depth :
         LET trapEsp == TrapEsp(i) IN
         /\ frames[i].utf >= XBase
         /\ IF i = 1 THEN trapEsp <= UTop
            ELSE /\ trapEsp <= frames[i - 1].utf
                 /\ frames[i].utf + UtfWords <= trapEsp - 1
    /\ Depth > 0 => cpu.esp <= Top.utf

(* No frame is put over another: "if ... the exception stack overflows,    *)
(* then destroy the environment that caused the fault" (kern/trap.c:360).  *)
(* The code does not have this property: kern/trap.c:374 asks where esp is *)
(* when the fault comes, and a frame of a function may be lowered past the *)
(* whole rest of the page before that.                                     *)
FramesApart ==
  \A i \in 1..Depth, j \in 1..Depth : i < j => frames[j].utf + UtfWords <= frames[i].utf
=============================================================================

---------------------------- MODULE UpcallProofs ----------------------------
(***************************************************************************)
(* Proofs about exception upcalls: for every size of the stacks, until an  *)
(* upcall faults with its esp below the exception page, frames never       *)
(* overlap what is live and every upcall returns to what it interrupted.   *)
(***************************************************************************)
EXTENDS Upcall, TLAPS

-----------------------------------------------------------------------------
(***************************************************************************)
(* The inductive invariant.  Level 0 is the program, level i > 0 the i-th  *)
(* upcall; each is suspended in the frame of the next or runs.             *)
(***************************************************************************)
Utf(i)    == frames[i].utf
EspAt(i)  == IF i = Depth THEN cpu.esp ELSE TrapEsp(i + 1)
RegsAt(i) == IF i = Depth THEN cpu.regs ELSE mem[Utf(i + 1) + 1]

\* Where the i-th upcall is to return to.
Ret(i)      == Skip(frames[i].kind, CodeAt(i - 1))
Prepared(i) == CodeAt(i).fn = "asm" /\ CodeAt(i).off >= 2

(* The frame of the i-th upcall holds what it interrupted, below the live  *)
(* words of that.                                                          *)
FrameGood(i) ==
  /\ Utf(i) \in XBase..(XTop - TfWords)
  /\ mem[Utf(i) + 1] \in RegVals
  /\ mem[Utf(i) + 2] = Eip(CodeAt(i - 1))
  /\ mem[Utf(i) + 3] = Esp(IF Prepared(i) THEN TrapEsp(i) - 1 ELSE TrapEsp(i))
  /\ TrapEsp(i) \in Int
  /\ i > 1 => Utf(i) + UtfWords < TrapEsp(i)
  /\ Ret(i) \in CodeAddrs
  /\ CodeAt(i - 1).fn = "asm" => frames[i].kind = "pgfault" /\ CodeAt(i - 1).off \in {0, 2}

(* Where level i is, and what it needs to go on. *)
ProgramGood ==
  CodeAt(0) \in CodeAddrs /\ CodeAt(0).fn = "main" /\ EspAt(0) \in (UTop - MaxLocals)..UTop

UpcallGood(i) ==
  /\ CodeAt(i) \in CodeAddrs /\ CodeAt(i).fn # "main"
  /\ CodeAt(i).fn = "asm" => EspAt(i) = Utf(i)
  /\ CodeAt(i).fn = "C" => /\ EspAt(i) \in (Utf(i) - 2 - MaxLocals)..(Utf(i) - 2) /\ XBase <= Utf(i) - 2
                           /\ mem[Utf(i) - 2] = Eip(Code("asm", 1))
  /\ CodeAt(i) = Code("asm", 2) => RegsAt(i) = RetRegs(Ret(i), TrapEsp(i) - 1)

(* The return word is in place when an upcall leaves. *)
LeaveGood ==
  cpu.eip = Code("asm", 3) =>
    TrapEsp(Depth) - 1 \in Addrs /\ mem[TrapEsp(Depth) - 1] = Eip(Ret(Depth))

Ordered == \A i, j \in 1..Depth : i < j => Utf(j) + UtfWords < Utf(i)

UInv ==
  /\ TypeOK /\ ProgramGood /\ LeaveGood /\ Ordered
  /\ \A i \in 1..Depth : FrameGood(i) /\ UpcallGood(i)

IInv == TypeOK /\ (overrun \/ UInv)

-----------------------------------------------------------------------------
(* Addresses and code. *)

LEMMA CodeFacts ==
  ASSUME NEW c \in CodeAddrs
  PROVE  /\ c.fn \in {"main", "C", "asm"} /\ c.off \in Nat /\ c = Code(c.fn, c.off)
         /\ c.fn = "asm" => c.off \in 0..3
         /\ c.off <= MaxOff /\ c.fn # "asm" => Code(c.fn, c.off + 2) \in CodeAddrs
  <1>1. MaxOff \in Nat
    BY UpcallAssumption
  <1>2. CASE \E n \in 0..(MaxOff + 2) : c = Code("main", n) \/ c = Code("C", n)
    <2>1. PICK n \in 0..(MaxOff + 2), f \in {"main", "C"} : c = Code(f, n)
      BY <1>2
    <2>2. c.fn = f /\ c.off = n /\ n \in Nat
      BY <1>1, <2>1 DEF Code
    <2>3. n <= MaxOff => n + 2 \in 0..(MaxOff + 2)
      BY <1>1, <2>2
    <2>4. n <= MaxOff => Code(f, n + 2) \in CodeAddrs
      BY <2>3 DEF CodeAddrs
    <2> QED  BY <2>1, <2>2, <2>4
  <1>3. CASE \E n \in 0..3 : c = Code("asm", n)
    BY <1>3 DEF Code
  <1> QED  BY <1>2, <1>3 DEF CodeAddrs

(* Skipping an instruction of two bytes. *)
LEMMA SkipFacts ==
  ASSUME NEW c \in CodeAddrs, NEW k
  PROVE  /\ k = "pgfault" => Skip(k, c) = c
         /\ k # "pgfault" => Skip(k, c) = Code(c.fn, c.off + 2)
         /\ Skip(k, c).fn = c.fn
  <1>1. c = Code(c.fn, c.off) /\ c.off \in Nat
    BY CodeFacts
  <1>2. k # "pgfault" => Skip(k, c) = Code(c.fn, c.off + 2)
    BY <1>1 DEF Skip, Code
  <1> QED  BY <1>2 DEF Skip, Code

LEMMA SeqFacts ==
  ASSUME NEW S, NEW s \in Seq(S)
  PROVE  Len(s) \in Nat /\ \A i \in 1..Len(s) : s[i] \in S
  OBVIOUS

LEMMA FrameFacts ==
  ASSUME UInv
  PROVE  /\ Depth \in Nat /\ XBase \in Nat /\ XTop \in Nat /\ TfWords \in Nat /\ TfWords >= 4
         /\ UBase \in Nat /\ UTop \in Nat /\ UBase < UTop /\ UTop < XBase /\ XBase + TfWords < XTop
         /\ MaxLocals \in Nat /\ UTop + MaxLocals + 2 <= XBase
         /\ \A i \in 1..Depth :
              /\ Utf(i) \in Nat /\ XBase <= Utf(i) /\ Utf(i) + 3 <= XTop - 1
              /\ frames[i] \in [utf : XPage, kind : Kinds]
  <1>1. Depth \in Nat /\ \A i \in 1..Depth : frames[i] \in [utf : XPage, kind : Kinds]
    <2>1. PICK S : S = [utf : XPage, kind : Kinds] /\ frames \in Seq(S)
      BY DEF UInv, TypeOK
    <2>2. Len(frames) \in Nat /\ \A i \in 1..Len(frames) : frames[i] \in S
      BY <2>1, SeqFacts
    <2> QED  BY <2>1, <2>2 DEF Depth
  <1>2. /\ XBase \in Nat /\ XTop \in Nat /\ TfWords \in Nat /\ TfWords >= 4
        /\ UBase \in Nat /\ UTop \in Nat /\ UBase < UTop /\ UTop < XBase /\ XBase + TfWords < XTop
        /\ MaxLocals \in Nat /\ UTop + MaxLocals + 2 <= XBase
    BY UpcallAssumption DEF UtfWords
  <1>3. \A i \in 1..Depth : Utf(i) \in XBase..(XTop - TfWords)
    BY DEF UInv, FrameGood
  <1> QED  BY <1>1, <1>2, <1>3

(* The stack pointer of each level. *)
LEMMA EspFacts ==
  ASSUME UInv
  PROVE  /\ \A i \in 1..Depth : EspAt(i) \in UTop..Utf(i)
         /\ EspAt(0) \in (UTop - MaxLocals)..UTop
         /\ \A i \in 1..Depth : TrapEsp(i) \in Int /\ EspAt(i - 1) = TrapEsp(i)
         /\ Depth > 0 => TrapEsp(1) \in (UTop - MaxLocals)..UTop
         /\ \A i \in 2..Depth : TrapEsp(i) \in XBase..Utf(i - 1) /\ Utf(i) + 4 < TrapEsp(i)
         /\ EspAt(Depth) = cpu.esp
  <1>1. ASSUME NEW i \in 1..Depth PROVE EspAt(i) \in UTop..Utf(i)
    <2>1. UpcallGood(i)
      BY DEF UInv
    <2>2. CodeAt(i).fn \in {"C", "asm"}
      BY <2>1, CodeFacts DEF UpcallGood
    <2>3. /\ Utf(i) \in Nat /\ XBase <= Utf(i) /\ XBase \in Nat
          /\ UTop \in Nat /\ MaxLocals \in Nat /\ UTop + MaxLocals + 2 <= XBase
      BY FrameFacts
    <2>4. CASE CodeAt(i).fn = "C"
      BY <2>1, <2>3, <2>4 DEF UpcallGood
    <2>5. CASE CodeAt(i).fn = "asm"
      BY <2>1, <2>3, <2>5 DEF UpcallGood
    <2> QED  BY <2>2, <2>4, <2>5
  <1>2. EspAt(0) \in (UTop - MaxLocals)..UTop
    BY DEF UInv, ProgramGood
  <1>3. ASSUME NEW i \in 1..Depth PROVE TrapEsp(i) \in Int /\ EspAt(i - 1) = TrapEsp(i)
    <2>1. Depth \in Nat /\ i - 1 # Depth /\ (i - 1) + 1 = i
      BY FrameFacts
    <2>2. TrapEsp(i) \in Int
      BY DEF UInv, FrameGood
    <2> QED  BY <2>1, <2>2 DEF EspAt
  <1>4. Depth > 0 => TrapEsp(1) \in (UTop - MaxLocals)..UTop
    <2>1. Depth > 0 => 1 \in 1..Depth /\ 1 - 1 = 0
      BY FrameFacts
    <2> QED  BY <1>2, <1>3, <2>1
  <1>5. ASSUME NEW i \in 2..Depth PROVE TrapEsp(i) \in XBase..Utf(i - 1) /\ Utf(i) + 4 < TrapEsp(i)
    <2>1. i \in 1..Depth /\ i - 1 \in 1..Depth /\ i > 1
      BY FrameFacts
    <2>2. TrapEsp(i) \in UTop..Utf(i - 1)
      BY <1>1, <1>3, <2>1
    <2>3. Utf(i) + 4 < TrapEsp(i)
      BY <2>1 DEF UInv, FrameGood, UtfWords
    <2>4. XBase \in Nat /\ UTop \in Nat /\ Utf(i) \in Nat /\ XBase <= Utf(i) /\ Utf(i - 1) \in Nat
      BY <2>1, FrameFacts
    <2> QED  BY <2>2, <2>3, <2>4
  <1>6. EspAt(Depth) = cpu.esp
    BY DEF EspAt
  <1> QED  BY <1>1, <1>2, <1>3, <1>4, <1>5, <1>6

(* The words of memory that what is suspended in frame i is made of. *)
End(i)  == IF i = 0 THEN UTop ELSE Utf(i)
Live(i) == {Utf(i), Utf(i) + 1, Utf(i) + 2} \cup ((TrapEsp(i)..(End(i - 1) - 1)) \cap Addrs)

LEMMA LiveAddrs ==
  ASSUME UInv, NEW i \in 1..Depth
  PROVE  Live(i) \subseteq Addrs /\ Utf(i) + 3 \in Addrs
  <1>1. PICK u \in Nat : u = Utf(i) /\ XBase <= u /\ u + 3 <= XTop - 1
    BY FrameFacts
  <1>2. {u, u + 1, u + 2} \subseteq Addrs /\ u + 3 \in Addrs
    BY <1>1, FrameFacts DEF Addrs, XPage
  <1> QED  BY <1>1, <1>2 DEF Live

(* Nothing in the page below the last frame is live. *)
LEMMA BelowTop ==
  ASSUME UInv, NEW x \in Int, x >= XBase, x < Utf(Depth), NEW i \in 1..Depth
  PROVE  x \notin Live(i) /\ x # Utf(i) + 3
  <1>1. PICK u \in Nat, top \in Nat : u = Utf(i) /\ top = Utf(Depth) /\ top <= u
    <2>1. Depth \in 1..Depth /\ Depth \in Nat
      BY FrameFacts
    <2>2. Utf(i) \in Nat /\ Utf(Depth) \in Nat
      BY <2>1, FrameFacts
    <2>3. Utf(Depth) <= Utf(i)
      <3>1. CASE i = Depth
        BY <2>2, <3>1
      <3>2. CASE i # Depth
        BY <2>1, <2>2, <3>2 DEF UInv, Ordered, UtfWords
      <3> QED  BY <3>1, <3>2
    <2> QED  BY <2>2, <2>3
  <1>2. x < u
    BY <1>1
  <1>3. CASE i = 1
    <2>1. End(i - 1) = UTop /\ UTop \in Nat /\ UTop < XBase /\ XBase \in Nat
      BY <1>3, FrameFacts DEF End
    <2>2. TrapEsp(i) \in Int
      BY EspFacts
    <2> QED  BY <1>1, <1>2, <2>1, <2>2 DEF Live
  <1>4. CASE i # 1
    <2>1. i \in 2..Depth
      BY <1>4, FrameFacts
    <2>2. PICK t \in Int : t = TrapEsp(i) /\ u + 4 < t
      BY <1>1, <2>1, EspFacts
    <2>3. End(i - 1) \in Int
      <3>1. i - 1 \in 1..Depth /\ i - 1 # 0
        BY <2>1, FrameFacts
      <3> QED  BY <3>1, FrameFacts DEF End
    <2> QED  BY <1>1, <1>2, <2>2, <2>3 DEF Live
  <1> QED  BY <1>3, <1>4

(* The word an upcall returns through is not live. *)
LEMMA ReturnCell ==
  ASSUME UInv, Depth > 0, NEW x, x = TrapEsp(Depth) - 1, NEW i \in 1..Depth
  PROVE  x \notin Live(i) /\ x # Utf(i) + 3 /\ x \in Int
  <1>1. Depth \in 1..Depth /\ Depth \in Nat /\ TrapEsp(Depth) \in Int
    BY FrameFacts, EspFacts
  <1>2. PICK t \in Int, u \in Nat, v \in Int : t = TrapEsp(Depth) /\ u = Utf(i) /\ v = TrapEsp(i)
    BY <1>1, FrameFacts, EspFacts
  <1>3. x = t - 1 /\ x \in Int
    BY <1>2
  <1>4. End(i - 1) \in Int
    <2>1. i - 1 # 0 => i - 1 \in 1..Depth
      BY FrameFacts
    <2> QED  BY <2>1, FrameFacts DEF End
  <1>5. CASE Depth = 1
    <2>1. i = 1 /\ v = t /\ t <= UTop /\ UTop < XBase /\ XBase <= u /\ UTop \in Nat /\ XBase \in Nat
      BY <1>2, <1>5, FrameFacts, EspFacts
    <2> QED  BY <1>2, <1>3, <1>4, <2>1 DEF Live
  <1>6. CASE Depth # 1
    <2>1. Depth \in 2..Depth /\ Depth - 1 \in 1..Depth
      BY <1>1, <1>6
    <2>2. PICK w \in Nat, d \in Nat :
            w = Utf(Depth - 1) /\ d = Utf(Depth) /\ t <= w /\ d + 4 < t /\ XBase <= t
      BY <1>1, <1>2, <2>1, FrameFacts, EspFacts
    <2>3. CASE i = Depth
      <3>1. u = d /\ v = t
        BY <1>2, <2>2, <2>3
      <3> QED  BY <1>2, <1>3, <1>4, <2>2, <3>1 DEF Live
    <2>4. CASE i # Depth
      <3>1. w <= u
        <4>1. CASE i = Depth - 1
          BY <1>2, <2>2, <4>1
        <4>2. CASE i # Depth - 1
          <5>1. i < Depth - 1
            BY <1>1, <2>4, <4>2
          <5>2. Utf(Depth - 1) + 4 < Utf(i)
            BY <2>1, <5>1 DEF UInv, Ordered, UtfWords
          <5> QED  BY <1>2, <2>2, <5>2
        <4> QED  BY <4>1, <4>2
      <3>2. x < u
        BY <1>3, <2>2, <3>1
      <3>3. i = 1 => End(i - 1) = UTop /\ UTop < x
        <4>1. UTop \in Nat /\ UTop < XBase /\ XBase \in Nat /\ XBase <= d
          BY <1>1, <2>2, FrameFacts
        <4> QED  BY <1>3, <2>2, <4>1 DEF End
      <3>4. i # 1 => u + 4 < v
        <4>1. i # 1 => i \in 2..Depth
          BY <1>1
        <4> QED  BY <1>2, <4>1, EspFacts
      <3> QED  BY <1>2, <1>3, <1>4, <3>2, <3>3, <3>4 DEF Live
    <2> QED  BY <2>3, <2>4
  <1> QED  BY <1>3, <1>5, <1>6

-----------------------------------------------------------------------------
(* What is suspended, entry by entry. *)

Susp(i) ==
  [kind |-> frames[i].kind, va |-> mem[Utf(i)],
   act  |-> [eip |-> mem[Utf(i) + 2][2], regs |-> mem[Utf(i) + 1],
             words |-> StackOf(i - 1, TrapEsp(i))]]

LEMMA SuspendedIs == Suspended = [i \in 1..Depth |-> Susp(i)]
  BY DEF Suspended, Susp, Utf

(* The code of a suspended level is in the next frame. *)
LEMMA CodeIs ==
  ASSUME Depth \in Nat
  PROVE  /\ \A i \in 1..Depth : CodeAt(i - 1) = mem[Utf(i) + 2][2]
         /\ CodeAt(Depth) = cpu.eip
  <1>1. ASSUME NEW i \in 1..Depth PROVE CodeAt(i - 1) = mem[Utf(i) + 2][2]
    <2>1. i - 1 # Depth /\ (i - 1) + 1 = i
      OBVIOUS
    <2> QED  BY <2>1 DEF CodeAt, Utf
  <1> QED  BY <1>1 DEF CodeAt

(* An entry stays if its words do. *)
LEMMA EntryKept ==
  ASSUME UInv, NEW i \in 1..Depth, frames'[i] = frames[i], i > 1 => frames'[i - 1] = frames[i - 1],
         \A a \in Live(i) : mem'[a] = mem[a],
         TrapEsp(i)' = TrapEsp(i)
  PROVE  Susp(i)' = Susp(i)
  <1>1. Utf(i)' = Utf(i)
    BY DEF Utf
  <1>2. mem'[Utf(i)] = mem[Utf(i)] /\ mem'[Utf(i) + 1] = mem[Utf(i) + 1] /\ mem'[Utf(i) + 2] = mem[Utf(i) + 2]
    BY DEF Live
  <1>3. PICK t \in Int, end \in Int : t = TrapEsp(i) /\ end = End(i - 1)
    <2>1. i - 1 # 0 => i - 1 \in 1..Depth
      BY FrameFacts
    <2> QED  BY <2>1, FrameFacts, EspFacts DEF End
  <1>4. \A j \in 1..(end - t) : WordAt(t + j - 1)' = WordAt(t + j - 1)
    <2>1. \A j \in 1..(end - t) : t + j - 1 \in t..(end - 1)
      BY <1>3
    <2>2. \A a \in t..(end - 1) : a \in Addrs => mem'[a] = mem[a]
      BY <1>3 DEF Live
    <2> QED  BY <2>1, <2>2 DEF WordAt
  <1>5. StackOf(i - 1, TrapEsp(i)) = [j \in 1..(end - t) |-> WordAt(t + j - 1)]
    BY <1>3 DEF StackOf, End, Utf
  <1>6. StackOf(i - 1, TrapEsp(i))' = [j \in 1..(end - t) |-> WordAt(t + j - 1)']
    <2>1. i - 1 # 0 => frames'[i - 1] = frames[i - 1]
      BY FrameFacts
    <2> QED  BY <1>3, <2>1 DEF StackOf, End, Utf
  <1>7. StackOf(i - 1, TrapEsp(i))' = StackOf(i - 1, TrapEsp(i))
    BY <1>4, <1>5, <1>6
  <1> QED  BY <1>1, <1>2, <1>7 DEF Susp

(* A frame that is not the top one, and the level suspended in it. *)
LEMMA LevelsKept ==
  ASSUME UInv, frames' = frames,
         \A i \in 1..Depth : \A a \in Live(i) : mem'[a] = mem[a],
         \A i \in 1..Depth : i < Depth => mem'[Utf(i) + 3] = mem[Utf(i) + 3],
         Depth > 0 => TrapEsp(Depth)' = TrapEsp(Depth)
  PROVE  /\ Depth' = Depth /\ \A i : Utf(i)' = Utf(i)
         /\ \A i \in 1..Depth : /\ TrapEsp(i)' = TrapEsp(i) /\ CodeAt(i - 1)' = CodeAt(i - 1)
                               /\ Ret(i)' = Ret(i) /\ Susp(i)' = Susp(i)
         /\ \A i \in 1..Depth : i < Depth => CodeAt(i)' = CodeAt(i)
  <1>1. Depth' = Depth /\ \A i : Utf(i)' = Utf(i)
    BY DEF Depth, Utf
  <1>2. Depth \in Nat
    BY FrameFacts
  <1>3. ASSUME NEW i \in 1..Depth PROVE CodeAt(i - 1)' = CodeAt(i - 1)
    <2>1. mem'[Utf(i) + 2] = mem[Utf(i) + 2]
      BY DEF Live
    <2>2. i - 1 # Depth /\ (i - 1) + 1 = i
      BY <1>2
    <2> QED  BY <1>1, <2>1, <2>2 DEF CodeAt, Utf
  <1>4. ASSUME NEW i \in 1..Depth, i < Depth PROVE CodeAt(i)' = CodeAt(i)
    <2>1. i + 1 \in 1..Depth /\ (i + 1) - 1 = i
      BY <1>2, <1>4
    <2> QED  BY <1>3, <2>1
  <1>5. ASSUME NEW i \in 1..Depth PROVE TrapEsp(i)' = TrapEsp(i)
    <2>1. CASE i = Depth
      BY <1>1, <1>2, <2>1
    <2>2. CASE i # Depth
      <3>1. i < Depth
        BY <1>2, <2>2
      <3>2. mem'[Utf(i) + 3] = mem[Utf(i) + 3] /\ CodeAt(i)' = CodeAt(i)
        BY <1>4, <3>1
      <3> QED  BY <3>2 DEF TrapEsp, Utf
    <2> QED  BY <2>1, <2>2
  <1>6. ASSUME NEW i \in 1..Depth PROVE Ret(i)' = Ret(i)
    BY <1>3 DEF Ret, Skip
  <1>7. ASSUME NEW i \in 1..Depth PROVE Susp(i)' = Susp(i)
    BY <1>5, EntryKept
  <1> QED  BY <1>1, <1>3, <1>4, <1>5, <1>6, <1>7

LEMMA SameDepth ==
  ASSUME UInv, frames' = frames,
         \A i \in 1..Depth : \A a \in Live(i) : mem'[a] = mem[a],
         \A i \in 1..Depth : i < Depth => mem'[Utf(i) + 3] = mem[Utf(i) + 3],
         Depth > 0 => TrapEsp(Depth)' = TrapEsp(Depth)
  PROVE  /\ Ordered' /\ (Depth > 0 => ProgramGood') /\ Suspended' = Suspended
         /\ \A i \in 1..Depth : i < Depth => FrameGood(i)' /\ UpcallGood(i)'
         /\ \A i \in 1..Depth :
              (mem'[Utf(i) + 3] = Esp(IF Prepared(i)' THEN TrapEsp(i) - 1 ELSE TrapEsp(i))) => FrameGood(i)'
  <1>1. /\ Depth' = Depth /\ \A i : Utf(i)' = Utf(i)
        /\ \A i \in 1..Depth : /\ TrapEsp(i)' = TrapEsp(i) /\ CodeAt(i - 1)' = CodeAt(i - 1)
                              /\ Ret(i)' = Ret(i) /\ Susp(i)' = Susp(i)
        /\ \A i \in 1..Depth : i < Depth => CodeAt(i)' = CodeAt(i)
    BY LevelsKept
  <1>2. Depth \in Nat
    BY FrameFacts
  <1>3. ASSUME NEW i \in 1..Depth,
               mem'[Utf(i) + 3] = Esp(IF Prepared(i)' THEN TrapEsp(i) - 1 ELSE TrapEsp(i))
        PROVE  FrameGood(i)'
    <2>1. FrameGood(i)
      BY DEF UInv
    <2>2. mem'[Utf(i) + 1] = mem[Utf(i) + 1] /\ mem'[Utf(i) + 2] = mem[Utf(i) + 2]
      BY DEF Live
    <2>3. Utf(i)' = Utf(i) /\ TrapEsp(i)' = TrapEsp(i) /\ CodeAt(i - 1)' = CodeAt(i - 1) /\ Ret(i)' = Ret(i)
      BY <1>1
    <2>4. mem'[Utf(i)' + 3] = Esp(IF Prepared(i)' THEN TrapEsp(i)' - 1 ELSE TrapEsp(i)')
      BY <1>3, <2>3
    <2> QED  BY <2>1, <2>2, <2>3, <2>4 DEF FrameGood
  <1>4. ASSUME NEW i \in 1..Depth, i < Depth PROVE FrameGood(i)'
    <2>1. FrameGood(i)
      BY DEF UInv
    <2>2. Prepared(i)' <=> Prepared(i)
      BY <1>1, <1>4 DEF Prepared
    <2>3. mem'[Utf(i) + 3] = mem[Utf(i) + 3]
      BY <1>4
    <2> QED  BY <1>3, <2>1, <2>2, <2>3 DEF FrameGood
  <1>5. ASSUME NEW i \in 1..Depth, i < Depth PROVE UpcallGood(i)'
    <2>1. UpcallGood(i) /\ i + 1 \in 1..Depth /\ i + 1 \in 2..Depth /\ i # Depth /\ (i + 1) - 1 = i /\ i # 0
      BY <1>2, <1>5 DEF UInv
    <2>2. EspAt(i) = TrapEsp(i + 1) /\ EspAt(i)' = TrapEsp(i + 1)
      BY <1>1, <2>1 DEF EspAt
    <2>3. RegsAt(i)' = RegsAt(i)
      <3>1. mem'[Utf(i + 1) + 1] = mem[Utf(i + 1) + 1]
        BY <2>1 DEF Live
      <3> QED  BY <1>1, <2>1, <3>1 DEF RegsAt
    <2>4. CodeAt(i).fn = "C" => mem'[Utf(i) - 2] = mem[Utf(i) - 2]
      <3>1. ASSUME CodeAt(i).fn = "C" PROVE Utf(i) - 2 \in Live(i + 1)
        <4>1. PICK u \in Nat, e \in Int : u = Utf(i) /\ e = TrapEsp(i + 1) /\ e <= u - 2 /\ u - 2 \in Addrs
          <5>1. Utf(i) - 2 \in XPage
            BY <2>1, <3>1, FrameFacts DEF UpcallGood, XPage
          <5> QED  BY <2>1, <2>2, <3>1, <5>1, FrameFacts, EspFacts DEF UpcallGood, Addrs
        <4>2. u - 2 \in e..(u - 1)
          BY <4>1
        <4>3. End((i + 1) - 1) = u
          BY <2>1, <4>1 DEF End
        <4> QED  BY <4>1, <4>2, <4>3 DEF Live
      <3> QED  BY <2>1, <3>1
    <2>5. Utf(i)' = Utf(i) /\ TrapEsp(i)' = TrapEsp(i) /\ CodeAt(i)' = CodeAt(i) /\ Ret(i)' = Ret(i)
      BY <1>1, <1>5
    <2> QED  BY <2>1, <2>2, <2>3, <2>4, <2>5 DEF UpcallGood
  <1>6. Depth > 0 => ProgramGood'
    <2>1. ASSUME Depth > 0 PROVE CodeAt(0)' = CodeAt(0) /\ EspAt(0)' = EspAt(0)
      <3>1. 1 \in 1..Depth /\ 1 - 1 = 0 /\ 0 # Depth /\ 0 + 1 = 1
        BY <1>2, <2>1
      <3>2. CodeAt(0)' = CodeAt(0)
        BY <1>1, <3>1
      <3>3. EspAt(0) = TrapEsp(1) /\ EspAt(0)' = TrapEsp(1)'
        BY <1>1, <3>1 DEF EspAt
      <3> QED  BY <1>1, <3>1, <3>2, <3>3
    <2> QED  BY <2>1 DEF UInv, ProgramGood
  <1>7. Ordered'
    BY <1>1 DEF UInv, Ordered
  <1>8. Suspended' = Suspended
    <2>1. Suspended' = [i \in 1..Depth |-> Susp(i)']
      BY <1>1 DEF Suspended, Susp, Utf
    <2> QED  BY <1>1, <2>1, SuspendedIs
  <1> QED  BY <1>3, <1>4, <1>5, <1>6, <1>7, <1>8

-----------------------------------------------------------------------------
(* Steps of the level that runs. *)

LateCode(c) == c.fn = "asm" /\ c.off >= 2

(* Such a step keeps the invariant, and what is suspended, if it leaves    *)
(* the live words alone and the running level in order.                    *)
LEMMA TopStep ==
  ASSUME UInv, TypeOK', frames' = frames,
         \A i \in 1..Depth : \A a \in Live(i) : mem'[a] = mem[a],
         \A i \in 1..Depth : i < Depth => mem'[Utf(i) + 3] = mem[Utf(i) + 3],
         Depth = 0 => cpu'.eip.fn = "main" /\ cpu'.esp \in (UTop - MaxLocals)..UTop,
         Depth > 0 =>
           /\ mem'[Utf(Depth) + 3] = Esp(IF LateCode(cpu'.eip) THEN TrapEsp(Depth) - 1 ELSE TrapEsp(Depth))
           /\ cpu'.eip.fn # "main"
           /\ cpu'.eip.fn = "asm" => cpu'.esp = Utf(Depth)
           /\ cpu'.eip.fn = "C" => /\ cpu'.esp \in (Utf(Depth) - 2 - MaxLocals)..(Utf(Depth) - 2)
                                  /\ XBase <= Utf(Depth) - 2
                                  /\ mem'[Utf(Depth) - 2] = Eip(Code("asm", 1))
           /\ cpu'.eip = Code("asm", 2) => cpu'.regs = RetRegs(Ret(Depth), TrapEsp(Depth) - 1)
           /\ cpu'.eip = Code("asm", 3) => /\ TrapEsp(Depth) - 1 \in Addrs
                                          /\ mem'[TrapEsp(Depth) - 1] = Eip(Ret(Depth))
  PROVE  UInv' /\ Suspended' = Suspended
  <1>1. Depth' = Depth /\ Depth \in Nat /\ \A i : Utf(i)' = Utf(i)
    BY FrameFacts DEF Depth, Utf
  <1>2. CodeAt(Depth)' = cpu'.eip /\ EspAt(Depth)' = cpu'.esp /\ RegsAt(Depth)' = cpu'.regs /\ cpu'.eip \in CodeAddrs
    BY DEF CodeAt, EspAt, RegsAt, TypeOK
  <1>3. Prepared(Depth)' <=> LateCode(cpu'.eip)
    BY <1>2 DEF Prepared, LateCode
  <1>4. Depth > 0 => TrapEsp(Depth)' = TrapEsp(Depth)
    <2>1. ASSUME Depth > 0 PROVE TrapEsp(Depth)' = TrapEsp(Depth)
      <3>1. PICK m, T : m = mem'[Utf(Depth) + 3] /\ T = TrapEsp(Depth) /\ T \in Int
        BY <1>1, <2>1, EspFacts
      <3>2. TrapEsp(Depth)' = m[2] + IF LateCode(cpu'.eip) THEN 1 ELSE 0
        BY <1>1, <1>2, <3>1 DEF TrapEsp, LateCode, Utf
      <3>3. m = Esp(IF LateCode(cpu'.eip) THEN T - 1 ELSE T)
        BY <2>1, <3>1
      <3>4. m[2] = IF LateCode(cpu'.eip) THEN T - 1 ELSE T
        BY <3>3 DEF Esp
      <3> QED  BY <3>1, <3>2, <3>4
    <2> QED  BY <2>1
  <1>5. /\ Ordered' /\ (Depth > 0 => ProgramGood') /\ Suspended' = Suspended
        /\ \A i \in 1..Depth : i < Depth => FrameGood(i)' /\ UpcallGood(i)'
        /\ \A i \in 1..Depth :
              (mem'[Utf(i) + 3] = Esp(IF Prepared(i)' THEN TrapEsp(i) - 1 ELSE TrapEsp(i))) => FrameGood(i)'
    BY <1>4, SameDepth
  <1>6. /\ \A i \in 1..Depth : TrapEsp(i)' = TrapEsp(i) /\ Ret(i)' = Ret(i)
    BY <1>4, LevelsKept
  <1>7. Depth = 0 => ProgramGood'
    BY <1>1, <1>2 DEF ProgramGood
  <1>8. ASSUME Depth > 0 PROVE FrameGood(Depth)' /\ UpcallGood(Depth)' /\ LeaveGood'
    <2>1. Depth \in 1..Depth
      BY <1>1, <1>8
    <2>2. PICK d \in 1..Depth : d = Depth
      BY <2>1
    <2>3. /\ CodeAt(d)' = cpu'.eip /\ EspAt(d)' = cpu'.esp /\ RegsAt(d)' = cpu'.regs
          /\ Prepared(d)' <=> LateCode(cpu'.eip)
          /\ Utf(d)' = Utf(d) /\ TrapEsp(d)' = TrapEsp(d) /\ Ret(d)' = Ret(d)
      BY <1>1, <1>2, <1>3, <1>6, <2>2
    <2>4. FrameGood(d)'
      BY <1>5, <1>8, <2>2, <2>3
    <2>5. UpcallGood(d)'
      BY <1>2, <1>8, <2>2, <2>3 DEF UpcallGood
    <2>6. LeaveGood'
      <3>1. TrapEsp(Depth)' = TrapEsp(Depth) /\ Ret(Depth)' = Ret(Depth)
        BY <1>1, <2>2, <2>3
      <3> QED  BY <1>8, <3>1 DEF LeaveGood
    <2> QED  BY <1>1, <2>2, <2>4, <2>5, <2>6
  <1>9. LeaveGood'
    <2>1. Depth = 0 => cpu'.eip # Code("asm", 3)
      BY DEF Code
    <2> QED  BY <1>1, <1>8, <2>1 DEF LeaveGood
  <1>10. \A i \in 1..Depth' : FrameGood(i)' /\ UpcallGood(i)'
    <2>1. ASSUME NEW i \in 1..Depth PROVE FrameGood(i)' /\ UpcallGood(i)'
      <3>1. CASE i < Depth
        BY <1>5, <3>1
      <3>2. CASE i = Depth
        BY <1>1, <1>8, <3>2
      <3> QED  BY <1>1, <3>1, <3>2
    <2> QED  BY <1>1, <2>1
  <1>11. ProgramGood'
    BY <1>1, <1>5, <1>7
  <1> QED  BY <1>5, <1>9, <1>10, <1>11 DEF UInv

(* The running level, before a step. *)
LEMMA TopFacts ==
  ASSUME UInv
  PROVE  /\ cpu \in [eip : CodeAddrs, esp : Esps, regs : RegVals]
         /\ cpu.eip \in CodeAddrs /\ cpu.regs \in RegVals /\ cpu.esp \in Int
         /\ Depth = 0 => cpu.eip.fn = "main" /\ cpu.esp \in (UTop - MaxLocals)..UTop
         /\ Depth > 0 =>
              /\ mem[Utf(Depth) + 3] = Esp(IF LateCode(cpu.eip) THEN TrapEsp(Depth) - 1 ELSE TrapEsp(Depth))
              /\ mem[Utf(Depth) + 2] = Eip(CodeAt(Depth - 1)) /\ mem[Utf(Depth) + 1] \in RegVals
              /\ cpu.eip.fn # "main" /\ Ret(Depth) \in CodeAddrs
              /\ cpu.eip.fn = "asm" => cpu.esp = Utf(Depth)
              /\ cpu.eip.fn = "C" => /\ cpu.esp \in (Utf(Depth) - 2 - MaxLocals)..(Utf(Depth) - 2)
                                    /\ XBase <= Utf(Depth) - 2
                                    /\ mem[Utf(Depth) - 2] = Eip(Code("asm", 1))
              /\ cpu.eip = Code("asm", 2) => cpu.regs = RetRegs(Ret(Depth), TrapEsp(Depth) - 1)
              /\ cpu.eip = Code("asm", 3) => /\ TrapEsp(Depth) - 1 \in Addrs
                                            /\ mem[TrapEsp(Depth) - 1] = Eip(Ret(Depth))
              /\ cpu.esp \in UTop..Utf(Depth) /\ Utf(Depth) \in Nat /\ TrapEsp(Depth) \in Int
              /\ Depth \in 1..Depth
  <1>1. cpu \in [eip : CodeAddrs, esp : Esps, regs : RegVals]
    BY DEF UInv, TypeOK
  <1>2. cpu.eip \in CodeAddrs /\ cpu.regs \in RegVals /\ cpu.esp \in Esps
    BY <1>1
  <1>3. cpu.esp \in Int
    BY <1>2, FrameFacts DEF Esps
  <1>4. CodeAt(Depth) = cpu.eip /\ EspAt(Depth) = cpu.esp /\ RegsAt(Depth) = cpu.regs
    BY DEF CodeAt, EspAt, RegsAt
  <1>5. Depth = 0 => cpu.eip.fn = "main" /\ cpu.esp \in (UTop - MaxLocals)..UTop
    BY <1>4 DEF UInv, ProgramGood
  <1>6. ASSUME Depth > 0 PROVE Depth \in 1..Depth /\ FrameGood(Depth) /\ UpcallGood(Depth)
    BY <1>6, FrameFacts DEF UInv
  <1>7. Prepared(Depth) <=> LateCode(cpu.eip)
    BY <1>4 DEF Prepared, LateCode
  <1>8. ASSUME Depth > 0
        PROVE /\ mem[Utf(Depth) + 3] = Esp(IF LateCode(cpu.eip) THEN TrapEsp(Depth) - 1 ELSE TrapEsp(Depth))
              /\ mem[Utf(Depth) + 2] = Eip(CodeAt(Depth - 1)) /\ mem[Utf(Depth) + 1] \in RegVals
              /\ Ret(Depth) \in CodeAddrs
    BY <1>6, <1>7, <1>8 DEF FrameGood
  <1>9. ASSUME Depth > 0
        PROVE /\ cpu.eip.fn # "main"
              /\ cpu.eip.fn = "asm" => cpu.esp = Utf(Depth)
              /\ cpu.eip.fn = "C" => /\ cpu.esp \in (Utf(Depth) - 2 - MaxLocals)..(Utf(Depth) - 2)
                                    /\ XBase <= Utf(Depth) - 2
                                    /\ mem[Utf(Depth) - 2] = Eip(Code("asm", 1))
              /\ cpu.eip = Code("asm", 2) => cpu.regs = RetRegs(Ret(Depth), TrapEsp(Depth) - 1)
    BY <1>4, <1>6, <1>9 DEF UpcallGood
  <1>10. ASSUME Depth > 0
         PROVE cpu.esp \in UTop..Utf(Depth) /\ Utf(Depth) \in Nat /\ TrapEsp(Depth) \in Int
    BY <1>4, <1>6, <1>10, FrameFacts, EspFacts
  <1>11. cpu.eip = Code("asm", 3) => /\ TrapEsp(Depth) - 1 \in Addrs
                                     /\ mem[TrapEsp(Depth) - 1] = Eip(Ret(Depth))
    BY DEF UInv, LeaveGood
  <1> QED  BY <1>1, <1>2, <1>3, <1>5, <1>6, <1>8, <1>9, <1>10, <1>11

LEMMA WordFacts ==
  /\ RegVals \subseteq Words /\ Stacked \subseteq RegVals /\ ZeroWord \in Words
  /\ \A c \in CodeAddrs : Eip(c) \in Words
  /\ \A a \in Esps : Esp(a) \in Words /\ Esp(a - 1) \in Words
  /\ \A v \in VAs : Va(v) \in Words
  /\ \A c \in CodeAddrs, a \in Esps : RetRegs(c, a - 1) \in RegVals
  /\ \A n \in 0..3 : Code("asm", n) \in CodeAddrs
  /\ Code("C", 0) \in CodeAddrs /\ Code("main", 0) \in CodeAddrs
  <1>1. \A a \in Esps : a - 1 \in Esps \cup {UTop - MaxLocals - 1}
    BY UpcallAssumption DEF Esps
  <1>2. /\ \A n \in 0..3 : Code("asm", n) \in CodeAddrs
        /\ Code("C", 0) \in CodeAddrs /\ Code("main", 0) \in CodeAddrs
    BY UpcallAssumption DEF CodeAddrs
  <1>3. /\ Stacked \subseteq RegVals
        /\ \A c \in CodeAddrs, a \in Esps : RetRegs(c, a - 1) \in RegVals
    BY DEF RegVals
  <1>4. /\ RegVals \subseteq Words /\ ZeroWord \in Words
        /\ \A c \in CodeAddrs : Eip(c) \in Words
        /\ \A v \in VAs : Va(v) \in Words
        /\ \A a \in Esps \cup {UTop - MaxLocals - 1} : Esp(a) \in Words
    BY DEF Words
  <1>5. \A a \in Esps : Esp(a) \in Words /\ Esp(a - 1) \in Words
    BY <1>1, <1>4
  <1> QED  BY <1>2, <1>3, <1>4, <1>5

LEMMA ComputeStep ==
  ASSUME UInv, Compute
  PROVE  UInv' /\ Suspended' = Suspended
  <1>1. PICK r \in Stacked : cpu' = [cpu EXCEPT !.regs = r]
    BY DEF Compute
  <1>2. frames' = frames /\ mem' = mem /\ UNCHANGED <<regVars, dead, overrun>> /\ cpu.eip.fn \in {"main", "C"}
    BY DEF Compute, InUserCode
  <1>3. cpu'.eip = cpu.eip /\ cpu'.esp = cpu.esp /\ cpu' \in [eip : CodeAddrs, esp : Esps, regs : RegVals]
    BY <1>1, TopFacts, WordFacts
  <1>4. TypeOK'
    BY <1>2, <1>3 DEF UInv, TypeOK, regVars
  <1>5. cpu.eip # Code("asm", 2) /\ cpu.eip # Code("asm", 3)
    BY <1>2 DEF Code
  <1> QED  BY <1>2, <1>3, <1>4, <1>5, TopFacts, TopStep

(* The stack that the running code has to itself. *)
LEMMA OwnStack ==
  ASSUME UInv, InUserCode
  PROVE  /\ Depth = 0 => StackEnd = UTop
         /\ Depth > 0 => /\ StackEnd = Utf(Depth) - 2 /\ cpu.eip.fn = "C"
                         /\ XBase <= StackEnd /\ StackEnd < XTop - 4
         /\ StackEnd \in UTop..XTop /\ cpu.esp \in (StackEnd - MaxLocals)..StackEnd
  <1>1. cpu.eip.fn \in {"main", "C"} /\ (frames = <<>> <=> Depth = 0) /\ Depth \in Nat
    BY FrameFacts DEF InUserCode, UInv, TypeOK, Depth
  <1>2. CASE Depth = 0
    <2>1. StackEnd = UTop
      BY <1>1, <1>2 DEF StackEnd
    <2> QED  BY <1>2, <2>1, TopFacts, FrameFacts
  <1>3. CASE Depth > 0
    <2>1. cpu.eip.fn = "C" /\ StackEnd = Utf(Depth) - 2
      BY <1>1, <1>3, TopFacts DEF StackEnd, Top, Utf
    <2>2. Depth \in 1..Depth
      BY <1>1, <1>3
    <2>3. /\ cpu.esp \in (Utf(Depth) - 2 - MaxLocals)..(Utf(Depth) - 2) /\ XBase <= Utf(Depth) - 2
      BY <1>3, <2>1, TopFacts
    <2> QED  BY <1>3, <2>1, <2>2, <2>3, FrameFacts
  <1> QED  BY <1>1, <1>2, <1>3

(* Moving esp within it, whatever is mapped there. *)
LEMMA MoveStep ==
  ASSUME UInv, InUserCode, UNCHANGED <<mem, frames, regVars, dead, overrun>>,
         NEW x \in (StackEnd - MaxLocals)..StackEnd, cpu' = [cpu EXCEPT !.esp = x]
  PROVE  UInv' /\ Suspended' = Suspended
  <1>1. cpu.eip.fn \in {"main", "C"}
    BY DEF InUserCode
  <1>2. x \in Esps
    BY OwnStack, FrameFacts DEF Esps
  <1>3. cpu'.eip = cpu.eip /\ cpu'.esp = x /\ cpu' \in [eip : CodeAddrs, esp : Esps, regs : RegVals]
    BY <1>2, TopFacts
  <1>4. TypeOK'
    BY <1>3 DEF UInv, TypeOK, regVars
  <1>5. cpu.eip # Code("asm", 2) /\ cpu.eip # Code("asm", 3) /\ cpu.eip.fn # "asm"
    BY <1>1 DEF Code
  <1>6. Depth = 0 => cpu'.esp \in (UTop - MaxLocals)..UTop
    BY <1>3, OwnStack
  <1>7. Depth > 0 => cpu'.esp \in (Utf(Depth) - 2 - MaxLocals)..(Utf(Depth) - 2)
    BY <1>3, OwnStack
  <1> QED  BY <1>3, <1>4, <1>5, <1>6, <1>7, TopFacts, TopStep

LEMMA ReserveStep ==
  ASSUME UInv, NEW n \in 1..MaxLocals, Reserve(n)
  PROVE  UInv' /\ Suspended' = Suspended
  <1>1. InUserCode /\ cpu.esp - n >= StackEnd - MaxLocals
    BY DEF Reserve
  <1>2. cpu.esp - n \in (StackEnd - MaxLocals)..StackEnd
    BY <1>1, OwnStack, FrameFacts
  <1> QED  BY <1>1, <1>2, MoveStep DEF Reserve

LEMMA ReleaseStep ==
  ASSUME UInv, NEW n \in 1..MaxLocals, Release(n)
  PROVE  UInv' /\ Suspended' = Suspended
  <1>1. InUserCode /\ cpu.esp + n <= StackEnd
    BY DEF Release
  <1>2. cpu.esp + n \in (StackEnd - MaxLocals)..StackEnd
    BY <1>1, OwnStack, FrameFacts
  <1> QED  BY <1>1, <1>2, MoveStep DEF Release

LEMMA StoreStep ==
  ASSUME UInv, Store
  PROVE  UInv' /\ Suspended' = Suspended
  <1>1. PICK x \in Addrs : cpu.esp <= x /\ x < StackEnd /\ mem' = [mem EXCEPT ![x] = cpu.regs]
    BY DEF Store
  <1>2. InUserCode /\ cpu.eip.fn \in {"main", "C"} /\ UNCHANGED <<cpu, frames, regVars, dead, overrun>>
    BY DEF Store, InUserCode
  <1>3. mem' \in [Addrs -> Words] /\ \A a \in Addrs : a # x => mem'[a] = mem[a]
    BY <1>1, TopFacts, WordFacts DEF UInv, TypeOK
  <1>4. TypeOK'
    BY <1>2, <1>3 DEF UInv, TypeOK, regVars
  <1>5. cpu.eip # Code("asm", 2) /\ cpu.eip # Code("asm", 3) /\ cpu.eip.fn # "asm"
    BY <1>2 DEF Code
  <1>6. Depth > 0 => x \in Int /\ x >= XBase /\ x < Utf(Depth) - 2 /\ x < Utf(Depth)
    <2>1. ASSUME Depth > 0 PROVE x \in Int /\ x >= XBase /\ x < Utf(Depth) - 2 /\ x < Utf(Depth)
      <3>1. x \in Int /\ (x < XBase => x < UTop)
        BY FrameFacts DEF Addrs, XPage
      <3>2. x >= UTop
        BY <1>1, <1>2, <2>1, <3>1, OwnStack, FrameFacts
      <3>3. x < Utf(Depth) - 2
        BY <1>1, <1>2, <2>1, OwnStack
      <3> QED  BY <2>1, <3>1, <3>2, <3>3, FrameFacts, TopFacts
    <2> QED  BY <2>1
  <1>7. \A i \in 1..Depth : x \notin Live(i) /\ x # Utf(i) + 3
    <2>1. \A i \in 1..Depth : Depth > 0
      BY FrameFacts
    <2> QED  BY <1>6, <2>1, BelowTop
  <1>8. Depth > 0 => mem'[Utf(Depth) + 3] = mem[Utf(Depth) + 3] /\ mem'[Utf(Depth) - 2] = mem[Utf(Depth) - 2]
    <2>1. ASSUME Depth > 0 PROVE Utf(Depth) - 2 \in Addrs /\ Utf(Depth) + 3 \in Addrs /\ Depth \in 1..Depth
      <3>1. Depth \in 1..Depth /\ XBase <= Utf(Depth) - 2
        BY <1>2, <2>1, OwnStack, TopFacts
      <3> QED  BY <3>1, FrameFacts, LiveAddrs DEF Addrs, XPage
    <2>2. ASSUME Depth > 0 PROVE x # Utf(Depth) - 2
      BY <1>6, <2>2, TopFacts
    <2> QED  BY <1>3, <1>7, <2>1, <2>2
  <1>9. /\ \A i \in 1..Depth : \A a \in Live(i) : mem'[a] = mem[a]
        /\ \A i \in 1..Depth : mem'[Utf(i) + 3] = mem[Utf(i) + 3]
    BY <1>3, <1>7, LiveAddrs
  <1> QED  BY <1>2, <1>4, <1>5, <1>8, <1>9, TopFacts, TopStep

(* The entry points run in an upcall, at its frame. *)
LEMMA AsmFacts ==
  ASSUME UInv, NEW n \in 0..3, At(n)
  PROVE  /\ Depth > 0 /\ Depth \in 1..Depth /\ Depth \in Nat /\ ~dead /\ ~overrun
         /\ cpu.esp = Utf(Depth) /\ cpu.eip.fn = "asm" /\ cpu.eip.off = n /\ (LateCode(cpu.eip) <=> n >= 2)
         /\ Utf(Depth) \in XPage /\ Utf(Depth) + 1 \in XPage /\ Utf(Depth) + 2 \in XPage /\ Utf(Depth) + 3 \in XPage
  <1>1. cpu.eip.fn = "asm" /\ cpu.eip.off = n /\ ~dead /\ ~overrun
    BY DEF At, Followed, Code
  <1>2. Depth \in Nat /\ Depth # 0
    BY <1>1, FrameFacts, TopFacts
  <1>3. Depth > 0
    BY <1>2
  <1>4. cpu.esp = Utf(Depth) /\ Depth \in 1..Depth
    BY <1>1, <1>3, TopFacts
  <1>5. /\ Utf(Depth) \in XPage /\ Utf(Depth) + 1 \in XPage /\ Utf(Depth) + 2 \in XPage /\ Utf(Depth) + 3 \in XPage
    BY <1>4, FrameFacts DEF XPage
  <1> QED  BY <1>1, <1>2, <1>3, <1>4, <1>5 DEF LateCode

LEMMA CallStep ==
  ASSUME UInv, upcall_call
  PROVE  UInv' /\ Suspended' = Suspended
  <1>1. At(0) /\ 0 \in 0..3
    BY DEF upcall_call
  <1>2. PICK u \in Nat : u = Utf(Depth) /\ cpu.esp = u
    BY <1>1, AsmFacts, FrameFacts
  <1>3. PICK x \in Int, y \in Int : x = u - 1 /\ y = u - 2
    BY <1>2
  <1>4. /\ frames' = frames /\ mem' = [mem EXCEPT ![x] = Esp(u), ![y] = Eip(Code("asm", 1))]
        /\ cpu' = [cpu EXCEPT !.esp = y, !.eip = Code("C", 0)]
        /\ UNCHANGED <<regVars, dead, overrun>> /\ y >= XBase
    BY <1>2, <1>3 DEF upcall_call
  <1>5. Depth > 0 /\ Depth \in 1..Depth /\ u \in XPage
    BY <1>1, <1>2, AsmFacts
  <1>6. x \in XPage /\ y \in XPage /\ x < cpu.esp /\ y < cpu.esp /\ x >= XBase /\ y # x
    BY <1>2, <1>3, <1>4, <1>5, FrameFacts DEF XPage
  <1>7. cpu'.eip = Code("C", 0) /\ cpu'.esp = y /\ cpu' \in [eip : CodeAddrs, esp : Esps, regs : RegVals]
    <2>1. y \in Esps
      BY <1>6, FrameFacts DEF Esps, XPage
    <2> QED  BY <1>4, <2>1, TopFacts, WordFacts
  <1>8. mem' \in [Addrs -> Words]
    <2>1. Esp(u) \in Words /\ Eip(Code("asm", 1)) \in Words
      <3>1. u \in Esps
        BY <1>2, TopFacts
      <3> QED  BY <3>1, WordFacts
    <2> QED  BY <1>4, <2>1 DEF UInv, TypeOK
  <1>9. (\A a \in Addrs : a # x /\ a # y => mem'[a] = mem[a]) /\ mem'[y] = Eip(Code("asm", 1))
    <2>1. x \in Addrs /\ y \in Addrs
      BY <1>6 DEF Addrs
    <2>2. mem \in [Addrs -> Words]
      BY DEF UInv, TypeOK
    <2> HIDE DEF Addrs, Words
    <2> QED  BY <1>4, <1>6, <2>1, <2>2
  <1>10. TypeOK'
    BY <1>4, <1>7, <1>8 DEF UInv, TypeOK, regVars
  <1>11. \A i \in 1..Depth : x \notin Live(i) /\ x # Utf(i) + 3 /\ y \notin Live(i) /\ y # Utf(i) + 3
    BY <1>2, <1>4, <1>6, BelowTop
  <1>12. /\ \A i \in 1..Depth : \A a \in Live(i) : mem'[a] = mem[a]
         /\ \A i \in 1..Depth : mem'[Utf(i) + 3] = mem[Utf(i) + 3]
    BY <1>9, <1>11, LiveAddrs
  <1>13. ~LateCode(cpu.eip) /\ ~LateCode(cpu'.eip)
    BY <1>1, <1>7, AsmFacts DEF LateCode, Code
  <1>14. mem'[Utf(Depth) + 3] = Esp(TrapEsp(Depth))
    BY <1>5, <1>12, <1>13, TopFacts
  <1>15. cpu'.eip.fn = "C" /\ cpu'.eip # Code("asm", 2) /\ cpu'.eip # Code("asm", 3)
    BY <1>7 DEF Code
  <1>16. /\ cpu'.esp \in (Utf(Depth) - 2 - MaxLocals)..(Utf(Depth) - 2) /\ XBase <= Utf(Depth) - 2
         /\ mem'[Utf(Depth) - 2] = Eip(Code("asm", 1))
    <2>1. y = Utf(Depth) - 2 /\ y \in (y - MaxLocals)..y /\ XBase <= y
      BY <1>2, <1>3, <1>4, FrameFacts
    <2> QED  BY <1>7, <1>9, <2>1
  <1>17. cpu'.eip.fn # "main" /\ cpu'.eip.fn # "asm" /\ Depth # 0
    BY <1>5, <1>15
  <1> QED  BY <1>4, <1>5, <1>10, <1>12, <1>13, <1>14, <1>15, <1>16, <1>17, TopStep

LEMMA ReturnStep ==
  ASSUME UInv, handler_return
  PROVE  UInv' /\ Suspended' = Suspended
  <1>1. cpu.eip.fn = "C" /\ frames' = frames /\ mem' = mem /\ UNCHANGED <<regVars, dead, overrun>> /\ cpu.esp = StackEnd
    BY DEF handler_return
  <1>2. Depth \in Nat /\ Depth # 0 /\ (frames = <<>> <=> Depth = 0)
    BY <1>1, FrameFacts, TopFacts DEF UInv, TypeOK, Depth
  <1>3. Depth > 0
    BY <1>2
  <1>4. PICK u \in Nat : u = Utf(Depth) /\ cpu.esp = u - 2 /\ u \in XPage
    BY <1>1, <1>2, <1>3, TopFacts, FrameFacts DEF StackEnd, Top, Utf, XPage
  <1>5. mem[cpu.esp] = Eip(Code("asm", 1))
    BY <1>1, <1>3, <1>4, TopFacts
  <1>6. mem[cpu.esp][2] = Code("asm", 1)
    BY <1>5 DEF Eip
  <1>7. cpu' = [cpu EXCEPT !.eip = Code("asm", 1), !.esp = u]
    <2>1. cpu.esp + 2 = u
      BY <1>4
    <2>2. cpu' = [cpu EXCEPT !.eip = mem[cpu.esp][2], !.esp = cpu.esp + 2]
      BY DEF handler_return
    <2> QED  BY <1>6, <2>1, <2>2
  <1>8. cpu'.eip = Code("asm", 1) /\ cpu'.esp = u /\ cpu' \in [eip : CodeAddrs, esp : Esps, regs : RegVals]
    <2>1. Code("asm", 1) \in CodeAddrs /\ u \in Esps
      BY <1>4, WordFacts, FrameFacts DEF Esps, XPage
    <2> QED  BY <1>7, <2>1, TopFacts
  <1>9. TypeOK'
    BY <1>1, <1>8 DEF UInv, TypeOK, regVars
  <1>10. ~LateCode(cpu.eip) /\ ~LateCode(cpu'.eip)
    BY <1>1, <1>8 DEF LateCode, Code
  <1>11. cpu'.eip.fn = "asm" /\ cpu'.eip # Code("asm", 2) /\ cpu'.eip # Code("asm", 3)
    BY <1>8 DEF Code
  <1>12. mem'[Utf(Depth) + 3] = Esp(TrapEsp(Depth))
    BY <1>1, <1>3, <1>10, TopFacts
  <1> QED  BY <1>1, <1>3, <1>4, <1>8, <1>9, <1>10, <1>11, <1>12, TopStep

LEMMA DestroyedStep ==
  ASSUME UInv, Destroyed
  PROVE  UInv' /\ Suspended' = Suspended
  <1>1. frames' = frames /\ mem' = mem /\ cpu' = cpu /\ dead' = TRUE /\ UNCHANGED <<regVars, overrun>>
    BY DEF Destroyed
  <1>2. TypeOK'
    BY <1>1 DEF UInv, TypeOK, regVars
  <1> QED  BY <1>1, <1>2, TopFacts, TopStep

(* The page of the exception stack is replaced while no upcall runs. *)
LEMMA SetStep ==
  ASSUME UInv, NEW k \in Kinds, set_handler(k), ~Destroyed
  PROVE  UInv' /\ Suspended' = Suspended /\ UNCHANGED <<dead, overrun>>
  <1>1. CASE k \notin handler
    <2>1. /\ mem' = [a \in Addrs |-> IF a \in XPage THEN ZeroWord ELSE mem[a]] /\ frames = <<>>
          /\ xmapped' = TRUE /\ upcall' = upcall \cup {k} /\ handler' = handler \cup {k}
          /\ UNCHANGED <<cpu, frames, dead, overrun>>
      BY <1>1 DEF set_handler
    <2>2. Depth = 0
      BY <2>1 DEF Depth
    <2>3. mem' \in [Addrs -> Words]
      BY <2>1, WordFacts DEF UInv, TypeOK
    <2>4. TypeOK'
      BY <2>1, <2>3 DEF UInv, TypeOK
    <2>5. \A i \in 1..Depth : FALSE
      BY <2>2
    <2>6. ~(Depth > 0)
      BY <2>2
    <2> QED  BY <2>1, <2>2, <2>4, <2>5, <2>6, TopFacts, TopStep
  <1>2. CASE k \in handler
    <2>1. UNCHANGED vars
      BY <1>2 DEF set_handler
    <2>2. TypeOK' /\ frames' = frames /\ mem' = mem /\ cpu' = cpu
      BY <2>1 DEF UInv, TypeOK, vars, regVars
    <2> QED  BY <2>1, <2>2, TopFacts, TopStep DEF vars
  <1> QED  BY <1>1, <1>2

(* The esp in the top frame is not part of what is suspended. *)
LEMMA EspCell ==
  ASSUME UInv, Depth > 0, NEW i \in 1..Depth, NEW x \in Int, x = Utf(Depth) + 3
  PROVE  x \notin Live(i) /\ (i < Depth => x # Utf(i) + 3)
  <1>1. PICK d \in Nat, u \in Nat, t \in Int, e \in Int :
          d = Utf(Depth) /\ u = Utf(i) /\ t = TrapEsp(i) /\ e = End(i - 1)
    <2>1. i - 1 # 0 => i - 1 \in 1..Depth
      BY FrameFacts
    <2>2. Depth \in 1..Depth
      BY FrameFacts
    <2> QED  BY <2>1, <2>2, FrameFacts, EspFacts, SMTT(30) DEF End
  <1>2. XBase <= d /\ XBase \in Nat /\ UTop \in Nat /\ UTop < XBase /\ Depth \in Nat
    BY <1>1, FrameFacts
  <1>3. d = u \/ d + 4 < u
    <2>1. CASE i = Depth
      BY <1>1, <2>1
    <2>2. CASE i # Depth
      <3>1. i < Depth /\ Depth \in 1..Depth
        BY <1>2, <2>2
      <3> QED  BY <1>1, <3>1 DEF UInv, Ordered, UtfWords
    <2> QED  BY <2>1, <2>2
  <1>4. i < Depth => d + 4 < u
    <2>1. Depth \in 1..Depth
      BY <1>2
    <2> QED  BY <1>1, <2>1 DEF UInv, Ordered, UtfWords
  <1>5. x \notin t..(e - 1)
    <2>1. CASE i = 1
      BY <1>1, <1>2, <2>1 DEF End
    <2>2. CASE i # 1
      <3>1. i \in 2..Depth
        BY <1>2, <2>2
      <3>2. u + 4 < t
        BY <1>1, <3>1, EspFacts
      <3> QED  BY <1>1, <1>3, <3>2
    <2> QED  BY <2>1, <2>2
  <1>6. x # u /\ x # u + 1 /\ x # u + 2
    BY <1>1, <1>3
  <1> QED  BY <1>1, <1>4, <1>5, <1>6 DEF Live

(* The esp of what is interrupted. *)
LEMMA TrapEsps ==
  ASSUME UInv, Depth > 0
  PROVE  TrapEsp(Depth) \in Esps
  <1>1. Depth \in 1..Depth /\ Depth \in Nat
    BY FrameFacts
  <1>2. CASE Depth = 1
    <2>1. TrapEsp(1) \in (UTop - MaxLocals)..UTop
      BY EspFacts
    <2> QED  BY <1>2, <2>1, FrameFacts DEF Esps
  <1>3. CASE Depth # 1
    <2>1. Depth \in 2..Depth /\ Depth - 1 \in 1..Depth
      BY <1>1, <1>3
    <2>2. PICK w \in Nat : w = Utf(Depth - 1) /\ TrapEsp(Depth) \in XBase..w /\ w + 3 <= XTop - 1
      BY <2>1, FrameFacts, EspFacts
    <2> QED  BY <2>2, FrameFacts DEF Esps
  <1> QED  BY <1>2, <1>3

LEMMA PrepareStep ==
  ASSUME UInv, upcall_prepare
  PROVE  UInv' /\ Suspended' = Suspended
  <1>1. At(1) /\ 1 \in 0..3
    BY DEF upcall_prepare
  <1>2. Depth > 0 /\ Depth \in 1..Depth /\ Depth \in Nat /\ ~LateCode(cpu.eip) /\ cpu.esp = Utf(Depth)
    BY <1>1, AsmFacts
  <1>3. PICK u \in Nat, T \in Int : u = Utf(Depth) /\ T = TrapEsp(Depth)
    BY <1>2, TopFacts
  <1>4. PICK x \in Int : x = u + 3 /\ x \in Addrs
    BY <1>1, <1>3, AsmFacts DEF Addrs
  <1>5. Skip(Top.kind, mem[cpu.esp + 2][2]) = Ret(Depth)
    <2>1. mem[u + 2] = Eip(CodeAt(Depth - 1))
      BY <1>2, <1>3, TopFacts
    <2>2. mem[cpu.esp + 2][2] = CodeAt(Depth - 1)
      BY <1>2, <1>3, <2>1 DEF Eip
    <2> QED  BY <2>2 DEF Ret, Top
  <1>6. mem[cpu.esp + 3][2] = T
    <2>1. mem[u + 3] = Esp(T)
      BY <1>2, <1>3, TopFacts
    <2> QED  BY <1>2, <1>3, <2>1 DEF Esp
  <1>7. T \in Esps
    BY <1>2, <1>3, TrapEsps
  <1>17. PICK b \in Int : b = T - 1
    BY <1>3
  <1>8. /\ frames' = frames /\ UNCHANGED <<regVars, dead, overrun>>
        /\ mem' = [mem EXCEPT ![x] = Esp(b)]
        /\ cpu' = [cpu EXCEPT !.regs = RetRegs(Ret(Depth), b), !.eip = Code("asm", 2)]
    <2>1. cpu.esp + 3 = x
      BY <1>2, <1>3, <1>4
    <2> QED  BY <1>5, <1>6, <1>17, <2>1 DEF upcall_prepare
  <1>9. mem \in [Addrs -> Words] /\ Esp(b) \in Words
    BY <1>7, <1>17, WordFacts DEF UInv, TypeOK
  <1>10. mem' \in [Addrs -> Words] /\ mem'[x] = Esp(b) /\ \A a \in Addrs : a # x => mem'[a] = mem[a]
    BY <1>4, <1>8, <1>9
  <1>11. /\ cpu'.eip = Code("asm", 2) /\ cpu'.esp = u /\ cpu'.regs = RetRegs(Ret(Depth), T - 1)
         /\ cpu' \in [eip : CodeAddrs, esp : Esps, regs : RegVals]
    <2>1. Code("asm", 2) \in CodeAddrs /\ RetRegs(Ret(Depth), b) \in RegVals
      BY <1>2, <1>7, <1>17, TopFacts, WordFacts
    <2> QED  BY <1>2, <1>3, <1>17, <1>8, <2>1, TopFacts
  <1>12. TypeOK'
    BY <1>8, <1>10, <1>11 DEF UInv, TypeOK, regVars
  <1>13. \A i \in 1..Depth : x \notin Live(i) /\ (i < Depth => x # Utf(i) + 3)
    BY <1>2, <1>3, <1>4, EspCell
  <1>14. /\ \A i \in 1..Depth : \A a \in Live(i) : mem'[a] = mem[a]
         /\ \A i \in 1..Depth : i < Depth => mem'[Utf(i) + 3] = mem[Utf(i) + 3]
    BY <1>10, <1>13, LiveAddrs
  <1>15. LateCode(cpu'.eip) /\ cpu'.eip.fn = "asm" /\ cpu'.eip # Code("asm", 3)
    BY <1>11 DEF LateCode, Code
  <1>16. mem'[Utf(Depth) + 3] = Esp(TrapEsp(Depth) - 1) /\ cpu'.esp = Utf(Depth)
         /\ cpu'.regs = RetRegs(Ret(Depth), TrapEsp(Depth) - 1)
    BY <1>3, <1>4, <1>17, <1>10, <1>11
  <1> QED  BY <1>2, <1>8, <1>12, <1>14, <1>15, <1>16, TopStep

LEMMA WriteStep ==
  ASSUME UInv, upcall_write
  PROVE  UInv' /\ Suspended' = Suspended
  <1>1. At(2) /\ 2 \in 0..3
    BY DEF upcall_write
  <1>2. Depth > 0 /\ Depth \in 1..Depth /\ Depth \in Nat /\ LateCode(cpu.eip) /\ cpu.esp = Utf(Depth)
    BY <1>1, AsmFacts
  <1>3. PICK x \in Int : x = TrapEsp(Depth) - 1
    BY <1>2, TopFacts
  <1>4. cpu.regs[3] = x /\ cpu.regs[2] = Ret(Depth) /\ Ret(Depth) \in CodeAddrs
    <2>1. cpu.regs = RetRegs(Ret(Depth), x)
      BY <1>1, <1>2, <1>3, TopFacts DEF At
    <2>2. RetRegs(Ret(Depth), x)[3] = x /\ RetRegs(Ret(Depth), x)[2] = Ret(Depth)
      BY DEF RetRegs
    <2>3. Ret(Depth) \in CodeAddrs
      BY <1>2, TopFacts
    <2> QED  BY <2>1, <2>2, <2>3
  <1>5. /\ frames' = frames /\ UNCHANGED <<regVars, dead, overrun>> /\ x \in Addrs
        /\ mem' = [mem EXCEPT ![x] = Eip(Ret(Depth))] /\ cpu' = [cpu EXCEPT !.eip = Code("asm", 3)]
    BY <1>4 DEF upcall_write
  <1>6. mem \in [Addrs -> Words] /\ Eip(Ret(Depth)) \in Words
    BY <1>4, WordFacts DEF UInv, TypeOK
  <1>7. mem' \in [Addrs -> Words] /\ mem'[x] = Eip(Ret(Depth)) /\ \A a \in Addrs : a # x => mem'[a] = mem[a]
    BY <1>5, <1>6
  <1>8. cpu'.eip = Code("asm", 3) /\ cpu'.esp = Utf(Depth) /\ cpu' \in [eip : CodeAddrs, esp : Esps, regs : RegVals]
    <2>1. Code("asm", 3) \in CodeAddrs
      BY WordFacts
    <2> QED  BY <1>2, <1>5, <2>1, TopFacts
  <1>9. TypeOK'
    BY <1>5, <1>7, <1>8 DEF UInv, TypeOK, regVars
  <1>10. \A i \in 1..Depth : x \notin Live(i) /\ x # Utf(i) + 3
    BY <1>2, <1>3, ReturnCell
  <1>11. /\ \A i \in 1..Depth : \A a \in Live(i) : mem'[a] = mem[a]
         /\ \A i \in 1..Depth : mem'[Utf(i) + 3] = mem[Utf(i) + 3]
    BY <1>7, <1>10, LiveAddrs
  <1>12. LateCode(cpu'.eip) /\ cpu'.eip.fn = "asm" /\ cpu'.eip # Code("asm", 2)
    BY <1>8 DEF LateCode, Code
  <1>13. mem'[Utf(Depth) + 3] = Esp(TrapEsp(Depth) - 1)
    BY <1>2, <1>11, TopFacts
  <1> QED  BY <1>2, <1>3, <1>5, <1>7, <1>8, <1>9, <1>11, <1>12, <1>13, TopStep

-----------------------------------------------------------------------------
(* A level more. *)

LEMMA AppendFacts ==
  ASSUME NEW S, NEW s \in Seq(S), NEW x \in S
  PROVE  /\ Append(s, x) \in Seq(S) /\ Len(Append(s, x)) = Len(s) + 1
         /\ Append(s, x)[Len(s) + 1] = x /\ \A i \in 1..Len(s) : Append(s, x)[i] = s[i]
  OBVIOUS

(* An exception in code that may take it, and that the kernel delivers. *)
Delivered(k, va, u) ==
  /\ UInv /\ k \in Kinds /\ va \in VAs /\ u = Frame(cpu.esp) /\ u >= XBase
  /\ Depth > 0 => cpu.esp \in XPage
  /\ Skip(k, cpu.eip) \in CodeAddrs
  /\ cpu.eip.fn = "asm" => k = "pgfault" /\ cpu.eip.off \in {0, 2}
  /\ mem' = [mem EXCEPT ![u] = Va(va), ![u + 1] = cpu.regs, ![u + 2] = Eip(cpu.eip), ![u + 3] = Esp(cpu.esp)]
  /\ cpu' = [cpu EXCEPT !.eip = Code("asm", 0), !.esp = u]
  /\ frames' = Append(frames, [utf |-> u, kind |-> k])
  /\ UNCHANGED <<regVars, dead, overrun>>

(* Where the new frame is. *)
LEMMA NewFrame ==
  ASSUME NEW k, NEW va, NEW u, Delivered(k, va, u)
  PROVE  /\ u \in Nat /\ u \in XBase..(XTop - TfWords) /\ u + 3 <= XTop - 1
         /\ {u, u + 1, u + 2, u + 3} \subseteq XPage
         /\ Depth > 0 => u + 4 < cpu.esp /\ cpu.esp \in XBase..Utf(Depth) /\ u < Utf(Depth) - 3
         /\ Depth = 0 => cpu.esp \in (UTop - MaxLocals)..UTop
  <1>1. UInv /\ u = Frame(cpu.esp) /\ u >= XBase /\ (Depth > 0 => cpu.esp \in XPage)
    BY DEF Delivered
  <1>2. PICK e \in Int : e = cpu.esp /\ (Depth = 0 => e \in (UTop - MaxLocals)..UTop) /\ (Depth > 0 => e \in XBase..Utf(Depth))
    <2>1. Depth > 0 => cpu.esp >= XBase
      BY <1>1, FrameFacts DEF XPage
    <2> QED  BY <1>1, <2>1, TopFacts, FrameFacts
  <1>3. Depth = 0 => u = XTop - TfWords
    BY <1>1, <1>2, FrameFacts DEF Frame
  <1>4. Depth > 0 => u = e - TfWords - 1 /\ e <= XTop - 1
    <2>1. ASSUME Depth > 0 PROVE e <= XTop - 1
      <3>1. Depth \in 1..Depth
        BY <1>1, <2>1, FrameFacts
      <3> QED  BY <1>1, <1>2, <2>1, <3>1, FrameFacts
    <2> QED  BY <1>1, <1>2, <2>1, FrameFacts DEF Frame
  <1>5. Depth = 0 \/ Depth > 0
    BY <1>1, FrameFacts
  <1>6. u \in Nat /\ u \in XBase..(XTop - TfWords) /\ u + 3 <= XTop - 1
    BY <1>1, <1>2, <1>3, <1>4, <1>5, FrameFacts
  <1>7. {u, u + 1, u + 2, u + 3} \subseteq XPage
    BY <1>1, <1>6, FrameFacts DEF XPage
  <1>8. Depth > 0 => Utf(Depth) \in Nat
    BY <1>1, TopFacts
  <1> QED  BY <1>1, <1>2, <1>4, <1>6, <1>7, <1>8, FrameFacts

(* What the step writes, and what it leaves. *)
LEMMA FaultWrites ==
  ASSUME NEW k, NEW va, NEW u, Delivered(k, va, u)
  PROVE  /\ mem' \in [Addrs -> Words]
         /\ mem'[u] = Va(va) /\ mem'[u + 1] = cpu.regs /\ mem'[u + 2] = Eip(cpu.eip) /\ mem'[u + 3] = Esp(cpu.esp)
         /\ \A i \in 1..Depth : (\A a \in Live(i) : mem'[a] = mem[a]) /\ mem'[Utf(i) + 3] = mem[Utf(i) + 3]
         /\ \A a \in Addrs : a >= cpu.esp /\ Depth > 0 => mem'[a] = mem[a]
         /\ \A a \in Addrs : a < XBase => mem'[a] = mem[a]
  <1>1. /\ UInv /\ va \in VAs
        /\ mem' = [mem EXCEPT ![u] = Va(va), ![u + 1] = cpu.regs, ![u + 2] = Eip(cpu.eip), ![u + 3] = Esp(cpu.esp)]
    BY DEF Delivered
  <1>2. PICK a1 \in Addrs, a2 \in Addrs, a3 \in Addrs, a4 \in Addrs, e \in Int :
          /\ a1 = u /\ a2 = u + 1 /\ a3 = u + 2 /\ a4 = u + 3 /\ e = cpu.esp
          /\ a1 # a2 /\ a1 # a3 /\ a1 # a4 /\ a2 # a3 /\ a2 # a4 /\ a3 # a4
    BY <1>1, NewFrame, TopFacts DEF Addrs
  <1>3. mem \in [Addrs -> Words]
    BY <1>1 DEF UInv, TypeOK
  <1>4. PICK w1 \in Words, w2 \in Words, w3 \in Words, w4 \in Words :
          w1 = Va(va) /\ w2 = cpu.regs /\ w3 = Eip(cpu.eip) /\ w4 = Esp(cpu.esp)
    <2>1. cpu.esp \in Esps
      BY <1>1, TopFacts
    <2> QED  BY <1>1, <2>1, TopFacts, WordFacts
  <1>5. mem' = [mem EXCEPT ![a1] = w1, ![a2] = w2, ![a3] = w3, ![a4] = w4]
    BY <1>1, <1>2, <1>4
  <1>6. /\ mem' \in [Addrs -> Words] /\ mem'[a1] = w1 /\ mem'[a2] = w2 /\ mem'[a3] = w3 /\ mem'[a4] = w4
        /\ \A a \in Addrs : a \notin {a1, a2, a3, a4} => mem'[a] = mem[a]
    BY <1>2, <1>3, <1>5
  <1>7. \A i \in 1..Depth : \A x \in {a1, a2, a3, a4} : x \notin Live(i) /\ x # Utf(i) + 3
    <2>1. ASSUME NEW i \in 1..Depth, NEW x \in {a1, a2, a3, a4} PROVE x \notin Live(i) /\ x # Utf(i) + 3
      <3>1. Depth > 0
        BY <1>1, <2>1, FrameFacts
      <3>2. x \in Int /\ x >= XBase /\ x < Utf(Depth)
        BY <1>1, <1>2, <2>1, <3>1, NewFrame, FrameFacts, TopFacts
      <3> QED  BY <1>1, <3>2, BelowTop
    <2> QED  BY <2>1
  <1>8. \A i \in 1..Depth : (\A a \in Live(i) : mem'[a] = mem[a]) /\ mem'[Utf(i) + 3] = mem[Utf(i) + 3]
    BY <1>1, <1>6, <1>7, LiveAddrs
  <1>9. \A a \in Addrs : a >= cpu.esp /\ Depth > 0 => mem'[a] = mem[a]
    <2>1. ASSUME NEW a \in Addrs, a >= cpu.esp, Depth > 0 PROVE a \notin {a1, a2, a3, a4}
      <3>1. a \in Int /\ u \in Nat /\ u + 4 < e
        BY <1>1, <1>2, <2>1, NewFrame, FrameFacts DEF Addrs, XPage
      <3> QED  BY <1>2, <2>1, <3>1
    <2> QED  BY <1>6, <2>1
  <1>10. \A a \in Addrs : a < XBase => mem'[a] = mem[a]
    <2>1. ASSUME NEW a \in Addrs, a < XBase PROVE a \notin {a1, a2, a3, a4}
      <3>1. a \in Int /\ u \in Nat /\ u >= XBase /\ XBase \in Nat
        BY <1>1, NewFrame, FrameFacts DEF Addrs, XPage
      <3> QED  BY <1>2, <2>1, <3>1
    <2> QED  BY <1>6, <2>1
  <1> QED  BY <1>2, <1>4, <1>6, <1>8, <1>9, <1>10

(* The levels there were, and the new one. *)
LEMMA FaultLevels ==
  ASSUME NEW k, NEW va, NEW u, Delivered(k, va, u), NEW n, n = Depth + 1
  PROVE  /\ Depth' = n /\ Depth \in Nat /\ n \in Nat /\ frames' \in Seq([utf : XPage, kind : Kinds])
         /\ frames'[n] = [utf |-> u, kind |-> k] /\ Utf(n)' = u
         /\ \A i \in 1..Depth : frames'[i] = frames[i] /\ Utf(i)' = Utf(i)
         /\ \A i \in 0..Depth : CodeAt(i)' = CodeAt(i) /\ EspAt(i)' = EspAt(i) /\ RegsAt(i)' = RegsAt(i)
         /\ CodeAt(n)' = Code("asm", 0) /\ EspAt(n)' = u /\ TrapEsp(n)' = cpu.esp
         /\ \A i \in 1..Depth : TrapEsp(i)' = TrapEsp(i) /\ Ret(i)' = Ret(i)
         /\ Ret(n)' = Skip(k, cpu.eip)
  <1>1. /\ UInv /\ k \in Kinds /\ cpu' = [cpu EXCEPT !.eip = Code("asm", 0), !.esp = u]
        /\ frames' = Append(frames, [utf |-> u, kind |-> k])
    BY DEF Delivered
  <1>2. /\ Depth' = n /\ Depth \in Nat /\ n \in Nat /\ frames' \in Seq([utf : XPage, kind : Kinds])
        /\ frames'[n] = [utf |-> u, kind |-> k] /\ \A i \in 1..Depth : frames'[i] = frames[i]
    <2>1. PICK S, x : S = [utf : XPage, kind : Kinds] /\ x = [utf |-> u, kind |-> k]
      OBVIOUS
    <2>2. x \in S /\ frames \in Seq(S)
      BY <1>1, <2>1, NewFrame DEF UInv, TypeOK
    <2>3. /\ Append(frames, x) \in Seq(S) /\ Len(Append(frames, x)) = Len(frames) + 1
          /\ Append(frames, x)[Len(frames) + 1] = x /\ \A i \in 1..Len(frames) : Append(frames, x)[i] = frames[i]
      BY <2>2, AppendFacts
    <2>4. Depth \in Nat
      BY <1>1, FrameFacts
    <2> QED  BY <1>1, <2>1, <2>3, <2>4 DEF Depth
  <1>3. Utf(n)' = u /\ \A i \in 1..Depth : Utf(i)' = Utf(i)
    BY <1>2 DEF Utf
  <1>4. cpu'.eip = Code("asm", 0) /\ cpu'.esp = u /\ cpu'.regs = cpu.regs
    BY <1>1, TopFacts
  <1>5. ASSUME NEW i \in 0..Depth PROVE CodeAt(i)' = CodeAt(i) /\ RegsAt(i)' = RegsAt(i)
    <2>1. i # n
      BY <1>2
    <2>2. CASE i = Depth
      <3>1. CodeAt(i)' = mem'[u + 2][2] /\ RegsAt(i)' = mem'[u + 1]
        BY <1>2, <1>3, <2>1, <2>2 DEF CodeAt, RegsAt, Utf
      <3>2. mem'[u + 2] = Eip(cpu.eip) /\ mem'[u + 1] = cpu.regs
        BY FaultWrites
      <3> QED  BY <2>2, <3>1, <3>2 DEF CodeAt, RegsAt, Eip
    <2>3. CASE i # Depth
      <3>1. i + 1 \in 1..Depth
        BY <1>2, <2>3
      <3>2. mem'[Utf(i + 1) + 2] = mem[Utf(i + 1) + 2] /\ mem'[Utf(i + 1) + 1] = mem[Utf(i + 1) + 1]
        BY <3>1, FaultWrites DEF Live
      <3>3. frames'[i + 1] = frames[i + 1]
        BY <1>2, <3>1
      <3> QED  BY <1>2, <2>1, <2>3, <3>2, <3>3 DEF CodeAt, RegsAt, Utf
    <2> QED  BY <2>2, <2>3
  <1>6. CodeAt(n)' = Code("asm", 0) /\ EspAt(n)' = u
    BY <1>2, <1>4 DEF CodeAt, EspAt
  <1>7. TrapEsp(n)' = cpu.esp
    <2>1. PICK m : m = mem'[u + 3] /\ m[2] = cpu.esp
      BY FaultWrites DEF Esp
    <2>2. ~(CodeAt(n)'.fn = "asm" /\ CodeAt(n)'.off >= 2)
      BY <1>6 DEF Code
    <2>3. TrapEsp(n)' = m[2] + 0
      BY <1>2, <1>3, <2>1, <2>2 DEF TrapEsp, Utf
    <2> QED  BY <1>1, <2>1, <2>3, TopFacts
  <1>8. ASSUME NEW i \in 1..Depth PROVE TrapEsp(i)' = TrapEsp(i)
    <2>1. CodeAt(i)' = CodeAt(i)
      BY <1>2, <1>5
    <2>2. mem'[Utf(i) + 3] = mem[Utf(i) + 3] /\ frames'[i] = frames[i]
      BY <1>2, FaultWrites
    <2> QED  BY <2>1, <2>2 DEF TrapEsp, Utf
  <1>9. ASSUME NEW i \in 0..Depth PROVE EspAt(i)' = EspAt(i)
    <2>1. i # n
      BY <1>2
    <2>2. CASE i = Depth
      BY <1>2, <1>7, <2>1, <2>2 DEF EspAt
    <2>3. CASE i # Depth
      <3>1. i + 1 \in 1..Depth
        BY <1>2, <2>3
      <3> QED  BY <1>2, <1>8, <2>1, <2>3, <3>1 DEF EspAt
    <2> QED  BY <2>2, <2>3
  <1>10. ASSUME NEW i \in 1..Depth PROVE Ret(i)' = Ret(i)
    <2>1. i - 1 \in 0..Depth
      BY <1>2
    <2>2. CodeAt(i - 1)' = CodeAt(i - 1) /\ frames'[i] = frames[i]
      BY <1>2, <1>5, <2>1
    <2> QED  BY <2>2 DEF Ret, Skip
  <1>11. Ret(n)' = Skip(k, cpu.eip)
    <2>1. n - 1 = Depth /\ Depth \in 0..Depth
      BY <1>2
    <2>2. CodeAt(n - 1)' = cpu.eip
      BY <1>5, <2>1 DEF CodeAt
    <2> QED  BY <1>2, <2>2 DEF Ret, Skip
  <1> QED  BY <1>2, <1>3, <1>5, <1>6, <1>7, <1>8, <1>9, <1>10, <1>11

LEMMA FaultInv ==
  ASSUME NEW k, NEW va, NEW u, Delivered(k, va, u)
  PROVE  UInv'
  <1>1. /\ UInv /\ k \in Kinds /\ cpu' = [cpu EXCEPT !.eip = Code("asm", 0), !.esp = u]
        /\ Skip(k, cpu.eip) \in CodeAddrs /\ UNCHANGED <<regVars, dead, overrun>>
        /\ cpu.eip.fn = "asm" => k = "pgfault" /\ cpu.eip.off \in {0, 2}
    BY DEF Delivered
  <1>2. PICK n : n = Depth + 1
    OBVIOUS
  <1>3. /\ Depth' = n /\ Depth \in Nat /\ n \in Nat /\ frames' \in Seq([utf : XPage, kind : Kinds])
        /\ frames'[n] = [utf |-> u, kind |-> k] /\ Utf(n)' = u
        /\ \A i \in 1..Depth : frames'[i] = frames[i] /\ Utf(i)' = Utf(i)
        /\ \A i \in 0..Depth : CodeAt(i)' = CodeAt(i) /\ EspAt(i)' = EspAt(i) /\ RegsAt(i)' = RegsAt(i)
        /\ CodeAt(n)' = Code("asm", 0) /\ EspAt(n)' = u /\ TrapEsp(n)' = cpu.esp
        /\ \A i \in 1..Depth : TrapEsp(i)' = TrapEsp(i) /\ Ret(i)' = Ret(i)
        /\ Ret(n)' = Skip(k, cpu.eip)
    <2>1. /\ Depth' = n /\ Depth \in Nat /\ n \in Nat
          /\ frames'[n] = [utf |-> u, kind |-> k] /\ Utf(n)' = u
          /\ \A i \in 1..Depth : frames'[i] = frames[i] /\ Utf(i)' = Utf(i)
      BY <1>2, FaultLevels
    <2>2. frames' \in Seq([utf : XPage, kind : Kinds])
      BY <1>2, FaultLevels
    <2>3. /\ \A i \in 0..Depth : CodeAt(i)' = CodeAt(i) /\ EspAt(i)' = EspAt(i) /\ RegsAt(i)' = RegsAt(i)
          /\ \A i \in 1..Depth : TrapEsp(i)' = TrapEsp(i) /\ Ret(i)' = Ret(i)
      BY <1>2, FaultLevels
    <2>4. CodeAt(n)' = Code("asm", 0) /\ EspAt(n)' = u /\ TrapEsp(n)' = cpu.esp /\ Ret(n)' = Skip(k, cpu.eip)
      BY <1>2, FaultLevels
    <2> QED  BY <2>1, <2>2, <2>3, <2>4
  <1>4. /\ mem' \in [Addrs -> Words]
        /\ mem'[u + 1] = cpu.regs /\ mem'[u + 2] = Eip(cpu.eip) /\ mem'[u + 3] = Esp(cpu.esp)
        /\ \A i \in 1..Depth : (\A a \in Live(i) : mem'[a] = mem[a]) /\ mem'[Utf(i) + 3] = mem[Utf(i) + 3]
        /\ \A a \in Addrs : a >= cpu.esp /\ Depth > 0 => mem'[a] = mem[a]
    BY FaultWrites
  <1>5. /\ u \in Nat /\ u \in XBase..(XTop - TfWords) /\ u \in XPage
        /\ Depth > 0 => u + 4 < cpu.esp /\ cpu.esp \in XBase..Utf(Depth)
    BY NewFrame
  <1>6. TypeOK'
    <2>1. Code("asm", 0) \in CodeAddrs /\ u \in Esps
      BY <1>1, <1>5, WordFacts, FrameFacts DEF Esps
    <2>2. cpu' \in [eip : CodeAddrs, esp : Esps, regs : RegVals]
      BY <1>1, <2>1, TopFacts
    <2> QED  BY <1>1, <1>3, <1>4, <2>2 DEF UInv, TypeOK, regVars
  <1>7. ProgramGood'
    <2>1. 0 \in 0..Depth
      BY <1>3
    <2> QED  BY <1>1, <1>3, <2>1 DEF UInv, ProgramGood
  <1>8. LeaveGood'
    <2>1. cpu'.eip # Code("asm", 3)
      BY <1>1, TopFacts DEF Code
    <2> QED  BY <2>1 DEF LeaveGood
  <1>9. Ordered'
    <2>1. ASSUME NEW i \in 1..n, NEW j \in 1..n, i < j PROVE Utf(j)' + UtfWords < Utf(i)'
      <3>1. i \in 1..Depth
        BY <1>2, <1>3, <2>1
      <3>2. CASE j \in 1..Depth
        BY <1>1, <1>3, <2>1, <3>1, <3>2 DEF UInv, Ordered
      <3>3. CASE j \notin 1..Depth
        <4>1. j = n /\ Depth > 0 /\ Depth \in 1..Depth
          BY <1>2, <1>3, <3>1, <3>3
        <4>2. PICK v \in Nat, w \in Nat, e \in Int : v = Utf(i) /\ w = Utf(Depth) /\ e = cpu.esp
          BY <1>1, <3>1, <4>1, FrameFacts, TopFacts
        <4>3. w <= v
          <5>1. CASE i = Depth
            BY <4>2, <5>1
          <5>2. CASE i # Depth
            <6>1. i < Depth
              BY <1>3, <3>1, <5>2
            <6> QED  BY <1>1, <3>1, <4>1, <4>2, <6>1 DEF UInv, Ordered, UtfWords
          <5> QED  BY <5>1, <5>2
        <4>4. u + 4 < e /\ e <= w
          BY <1>1, <1>5, <4>1, <4>2, FrameFacts
        <4> QED  BY <1>3, <1>5, <3>1, <4>1, <4>2, <4>3, <4>4 DEF UtfWords
      <3> QED  BY <3>2, <3>3
    <2> QED  BY <1>3, <2>1 DEF Ordered
  <1>10. ASSUME NEW i \in 1..Depth PROVE FrameGood(i)' /\ UpcallGood(i)'
    <2>1. FrameGood(i) /\ UpcallGood(i) /\ i - 1 \in 0..Depth /\ i \in 0..Depth
      BY <1>1, <1>3 DEF UInv
    <2>2. /\ Utf(i)' = Utf(i) /\ TrapEsp(i)' = TrapEsp(i) /\ Ret(i)' = Ret(i) /\ frames'[i] = frames[i]
          /\ CodeAt(i)' = CodeAt(i) /\ CodeAt(i - 1)' = CodeAt(i - 1) /\ EspAt(i)' = EspAt(i) /\ RegsAt(i)' = RegsAt(i)
      BY <1>3, <2>1
    <2>3. /\ mem'[Utf(i) + 1] = mem[Utf(i) + 1] /\ mem'[Utf(i) + 2] = mem[Utf(i) + 2]
          /\ mem'[Utf(i) + 3] = mem[Utf(i) + 3]
      BY <1>4 DEF Live
    <2>4. FrameGood(i)'
      BY <2>1, <2>2, <2>3 DEF FrameGood, Prepared
    <2>5. CodeAt(i).fn = "C" => mem'[Utf(i) - 2] = mem[Utf(i) - 2]
      <3>1. ASSUME CodeAt(i).fn = "C" PROVE Utf(i) - 2 \in Addrs /\ Utf(i) - 2 >= cpu.esp /\ Depth > 0
        <4>1. PICK v \in Nat, e \in Int : v = Utf(i) /\ e = cpu.esp /\ XBase <= v - 2 /\ v + 3 <= XTop - 1
          <5>1. XBase <= Utf(i) - 2
            BY <2>1, <3>1 DEF UpcallGood
          <5> QED  BY <1>1, <5>1, FrameFacts, TopFacts
        <4>2. v - 2 \in Addrs /\ Depth > 0
          <5>1. v - 2 \in XPage
            BY <1>1, <4>1, FrameFacts DEF XPage
          <5>2. Depth > 0
            BY <1>3
          <5> QED  BY <5>1, <5>2 DEF Addrs
        <4>3. v - 2 >= e
          <5>1. CASE i = Depth
            <6>1. EspAt(i) = cpu.esp /\ EspAt(i) \in (Utf(i) - 2 - MaxLocals)..(Utf(i) - 2)
              BY <2>1, <3>1, <5>1 DEF UpcallGood, EspAt
            <6> QED  BY <1>1, <4>1, <6>1, FrameFacts
          <5>2. CASE i # Depth
            <6>1. i < Depth /\ Depth \in 1..Depth
              BY <1>3, <5>2
            <6>2. PICK w \in Nat : w = Utf(Depth) /\ w + 4 < v /\ e <= w
              BY <1>1, <1>5, <4>1, <4>2, <6>1, FrameFacts DEF UInv, Ordered, UtfWords
            <6> QED  BY <4>1, <6>2
          <5> QED  BY <5>1, <5>2
        <4> QED  BY <4>1, <4>2, <4>3
      <3> QED  BY <1>4, <3>1
    <2>6. UpcallGood(i)'
      BY <2>1, <2>2, <2>5 DEF UpcallGood
    <2> QED  BY <2>4, <2>6
  <1>11. FrameGood(n)'
    <2>1. n - 1 = Depth /\ Depth \in 0..Depth
      BY <1>2, <1>3
    <2>2. CodeAt(n - 1)' = cpu.eip
      BY <1>3, <2>1 DEF CodeAt
    <2>3. ~Prepared(n)'
      BY <1>3 DEF Prepared, Code
    <2>4. cpu.esp \in Int /\ cpu.regs \in RegVals
      BY <1>1, TopFacts
    <2>5. n > 1 => u + UtfWords < cpu.esp
      BY <1>2, <1>3, <1>5 DEF UtfWords
    <2>6. frames'[n].kind = k
      BY <1>3
    <2> QED  BY <1>1, <1>3, <1>4, <1>5, <2>2, <2>3, <2>4, <2>5, <2>6 DEF FrameGood
  <1>12. UpcallGood(n)'
    <2>1. CodeAt(n)' \in CodeAddrs
      BY <1>3, WordFacts
    <2>2. CodeAt(n)'.fn = "asm" /\ CodeAt(n)' # Code("asm", 2)
      BY <1>3 DEF Code
    <2> QED  BY <1>3, <2>1, <2>2 DEF UpcallGood
  <1>13. \A i \in 1..Depth' : FrameGood(i)' /\ UpcallGood(i)'
    <2>1. ASSUME NEW i \in 1..n PROVE i \in 1..Depth \/ i = n
      BY <1>2, <1>3
    <2> QED  BY <1>3, <1>10, <1>11, <1>12, <2>1
  <1> QED  BY <1>6, <1>7, <1>8, <1>9, <1>13 DEF UInv

(* A function of 1..n is a sequence. *)
LEMMA FunctionSeq ==
  ASSUME NEW n \in Nat, NEW f, DOMAIN f = 1..n, f = [i \in 1..n |-> f[i]]
  PROVE  /\ Len(f) = n
         /\ \A m \in 0..n : SubSeq(f, 1, m) = [i \in 1..m |-> f[i]]
         /\ n = 0 => f = <<>>
         /\ n > 0 => f # <<>>
  <1>1. PICK S : S = {f[i] : i \in 1..n}
    OBVIOUS
  <1>2. f \in Seq(S)
    BY <1>1
  <1>3. Len(f) = n
    BY <1>2
  <1>4. ASSUME NEW m \in 0..n PROVE SubSeq(f, 1, m) = [i \in 1..m |-> f[i]]
    BY <1>2, <1>3
  <1> QED  BY <1>2, <1>3, <1>4

(* The new upcall suspends what ran. *)
LEMMA FaultSuspends ==
  ASSUME NEW k, NEW va, NEW u, Delivered(k, va, u)
  PROVE  /\ Len(Suspended') = Len(Suspended) + 1
         /\ SubSeq(Suspended', 1, Len(Suspended)) = Suspended
         /\ Suspended'[Len(Suspended) + 1].act = Running
  <1>1. UInv
    BY DEF Delivered
  <1>2. PICK n : n = Depth + 1
    OBVIOUS
  <1>3. /\ Depth' = n /\ Depth \in Nat /\ n \in Nat
        /\ frames'[n] = [utf |-> u, kind |-> k] /\ Utf(n)' = u
        /\ \A i \in 1..Depth : frames'[i] = frames[i] /\ Utf(i)' = Utf(i)
        /\ TrapEsp(n)' = cpu.esp
        /\ \A i \in 1..Depth : TrapEsp(i)' = TrapEsp(i) /\ Ret(i)' = Ret(i)
    BY <1>2, FaultLevels
  <1>4. ASSUME NEW i \in 1..Depth PROVE Susp(i)' = Susp(i)
    <2>1. i > 1 => i - 1 \in 1..Depth
      BY <1>3
    <2>2. frames'[i] = frames[i] /\ (i > 1 => frames'[i - 1] = frames[i - 1]) /\ TrapEsp(i)' = TrapEsp(i)
      BY <1>3, <2>1
    <2>3. \A a \in Live(i) : mem'[a] = mem[a]
      BY FaultWrites
    <2> QED  BY <1>1, <2>2, <2>3, EntryKept
  <1>5. Susp(n)'.act = Running
    <2>1. mem'[u + 1] = cpu.regs /\ mem'[u + 2][2] = cpu.eip
      BY FaultWrites DEF Eip
    <2>2. PICK e \in Int, end \in Int : e = cpu.esp /\ end = End(Depth)
      <3>1. Depth # 0 => Depth \in 1..Depth
        BY <1>3
      <3> QED  BY <1>1, <3>1, FrameFacts, TopFacts DEF End
    <2>3. StackOf(Depth, cpu.esp) = [j \in 1..(end - e) |-> WordAt(e + j - 1)]
      BY <2>2 DEF StackOf, End, Utf
    <2>4. StackOf(n - 1, TrapEsp(n))' = [j \in 1..(end - e) |-> WordAt(e + j - 1)']
      <3>1. n - 1 = Depth /\ n' = n
        BY <1>2, <1>3
      <3>2. Depth # 0 => frames'[Depth] = frames[Depth]
        BY <1>3
      <3>3. (IF n - 1 = 0 THEN UTop ELSE frames'[n - 1].utf) = end
        BY <2>2, <3>1, <3>2 DEF End, Utf
      <3>4. TrapEsp(n)' = e
        BY <1>3, <2>2
      <3> QED  BY <3>3, <3>4 DEF StackOf
    <2>5. ASSUME NEW j \in 1..(end - e) PROVE WordAt(e + j - 1)' = WordAt(e + j - 1)
      <3>1. PICK a \in Int : a = e + j - 1 /\ a >= e /\ a < end
        BY <2>2
      <3>2. a \in Addrs => mem'[a] = mem[a]
        <4>1. CASE Depth = 0
          <5>1. end = UTop
            BY <2>2, <4>1 DEF End
          <5> QED  BY <1>1, <3>1, <5>1, FrameFacts, FaultWrites
        <4>2. CASE Depth # 0
          <5>1. Depth > 0
            BY <1>3, <4>2
          <5> QED  BY <2>2, <3>1, <5>1, FaultWrites
        <4> QED  BY <4>1, <4>2
      <3> QED  BY <3>1, <3>2 DEF WordAt
    <2>6. StackOf(n - 1, TrapEsp(n))' = StackOf(Depth, cpu.esp)
      BY <2>3, <2>4, <2>5
    <2> QED  BY <1>3, <2>1, <2>6 DEF Susp, Running
  <1>6. Suspended = [i \in 1..Depth |-> Susp(i)]
    BY SuspendedIs
  <1>7. PICK s, t : s = Suspended /\ t = Suspended' /\ DOMAIN s = 1..Depth /\ DOMAIN t = 1..n
                    /\ (\A i \in 1..Depth : s[i] = Susp(i)) /\ (\A i \in 1..n : t[i] = Susp(i)')
                    /\ s = [i \in 1..Depth |-> s[i]] /\ t = [i \in 1..n |-> t[i]]
    <2>1. Suspended' = [i \in 1..n |-> Susp(i)']
      BY <1>3 DEF Suspended, Susp, Utf
    <2>2. DOMAIN Suspended = 1..Depth /\ \A i \in 1..Depth : Suspended[i] = Susp(i)
      BY <1>6, Zenon
    <2>3. DOMAIN Suspended' = 1..n /\ \A i \in 1..n : Suspended'[i] = Susp(i)'
      BY <2>1, Zenon
    <2>4. Suspended = [i \in 1..Depth |-> Suspended[i]]
      BY <1>6, Zenon
    <2>5. Suspended' = [i \in 1..n |-> Suspended'[i]]
      BY <2>1, Zenon
    <2> QED  BY <2>2, <2>3, <2>4, <2>5, Zenon
  <1>8. Len(s) = Depth /\ Len(t) = n
    BY <1>3, <1>7, FunctionSeq
  <1>9. SubSeq(t, 1, Depth) = [i \in 1..Depth |-> t[i]]
    <2>1. Depth \in 0..n
      BY <1>2, <1>3
    <2> QED  BY <1>3, <1>7, <2>1, FunctionSeq
  <1>10. \A i \in 1..Depth : t[i] = s[i]
    <2>1. \A i \in 1..Depth : i \in 1..n
      BY <1>2, <1>3
    <2> QED  BY <1>4, <1>7, <2>1
  <1>11. SubSeq(t, 1, Depth) = s
    BY <1>7, <1>9, <1>10
  <1>12. t[n].act = Running
    <2>1. n \in 1..n
      BY <1>2, <1>3
    <2> QED  BY <1>5, <1>7, <2>1
  <1> QED  BY <1>2, <1>7, <1>8, <1>11, <1>12

-----------------------------------------------------------------------------
(* A level less. *)

LEMMA SubSeqFacts ==
  ASSUME NEW S, NEW s \in Seq(S), Len(s) > 0
  PROVE  /\ SubSeq(s, 1, Len(s) - 1) \in Seq(S) /\ Len(SubSeq(s, 1, Len(s) - 1)) = Len(s) - 1
         /\ \A i \in 1..(Len(s) - 1) : SubSeq(s, 1, Len(s) - 1)[i] = s[i]
  <1>1. PICK m \in Nat : m = Len(s) - 1 /\ m \in 0..Len(s)
    <2>1. Len(s) \in Nat
      BY SeqFacts
    <2>2. Len(s) - 1 \in Nat /\ Len(s) - 1 \in 0..Len(s)
      BY <2>1
    <2> QED  BY <2>2
  <1>2. SubSeq(s, 1, m) = [i \in 1..m |-> s[i]]
    BY <1>1
  <1>3. \A i \in 1..m : s[i] \in S
    BY <1>1
  <1>4. PICK q : q = [i \in 1..m |-> s[i]]
    OBVIOUS
  <1>5. q \in Seq(S)
    BY <1>1, <1>3, <1>4
  <1>6. Len(q) = m /\ \A i \in 1..m : q[i] = s[i]
    BY <1>1, <1>4
  <1> QED  BY <1>1, <1>2, <1>4, <1>5, <1>6

(* What an upcall returns to. *)
LEMMA LeaveState ==
  ASSUME UInv, upcall_leave, NEW n, n = Depth - 1
  PROVE  /\ n \in Nat /\ Depth \in Nat /\ Depth > 0 /\ Depth \in 1..Depth /\ Depth' = n /\ mem' = mem
         /\ frames' \in Seq([utf : XPage, kind : Kinds]) /\ UNCHANGED <<regVars, dead, overrun>> /\ ~dead /\ ~overrun
         /\ \A i \in 1..n : frames'[i] = frames[i] /\ Utf(i)' = Utf(i)
         /\ cpu' = [eip |-> Ret(Depth), esp |-> TrapEsp(Depth), regs |-> mem[Utf(Depth) + 1]]
  <1>1. At(3) /\ 3 \in 0..3
    BY DEF upcall_leave
  <1>2. Depth > 0 /\ Depth \in 1..Depth /\ Depth \in Nat /\ ~dead /\ ~overrun /\ LateCode(cpu.eip) /\ cpu.esp = Utf(Depth)
    BY <1>1, AsmFacts
  <1>3. PICK T \in Int, x \in Int : T = TrapEsp(Depth) /\ x = T - 1
    BY <1>2, TopFacts
  <1>4. mem[cpu.esp + 3][2] = x
    <2>1. mem[Utf(Depth) + 3] = Esp(x)
      BY <1>2, <1>3, TopFacts
    <2> QED  BY <1>2, <2>1 DEF Esp
  <1>5. mem[x][2] = Ret(Depth)
    <2>1. mem[x] = Eip(Ret(Depth))
      BY <1>1, <1>2, <1>3, TopFacts DEF At
    <2> QED  BY <2>1 DEF Eip
  <1>6. cpu' = [eip |-> Ret(Depth), esp |-> TrapEsp(Depth), regs |-> mem[Utf(Depth) + 1]]
    <2>1. x + 1 = TrapEsp(Depth)
      BY <1>3
    <2> QED  BY <1>2, <1>4, <1>5, <2>1 DEF upcall_leave
  <1>7. mem' = mem /\ UNCHANGED <<regVars, dead, overrun>> /\ frames' = SubSeq(frames, 1, Depth - 1)
    BY DEF upcall_leave
  <1>8. /\ n \in Nat /\ Depth' = n /\ frames' \in Seq([utf : XPage, kind : Kinds])
        /\ \A i \in 1..n : frames'[i] = frames[i]
    <2>1. PICK S : S = [utf : XPage, kind : Kinds]
      OBVIOUS
    <2>2. frames \in Seq(S) /\ Len(frames) > 0
      BY <1>2, <2>1 DEF UInv, TypeOK, Depth
    <2>3. /\ SubSeq(frames, 1, Len(frames) - 1) \in Seq(S)
          /\ Len(SubSeq(frames, 1, Len(frames) - 1)) = Len(frames) - 1
          /\ \A i \in 1..(Len(frames) - 1) : SubSeq(frames, 1, Len(frames) - 1)[i] = frames[i]
      BY <2>2, SubSeqFacts
    <2> QED  BY <1>2, <1>7, <2>1, <2>3 DEF Depth
  <1>9. \A i \in 1..n : Utf(i)' = Utf(i)
    BY <1>8 DEF Utf
  <1> QED  BY <1>2, <1>6, <1>7, <1>8, <1>9

(* The levels that are left: the interrupted one goes on after the         *)
(* instruction or at it, and at it if it was on its own way back.          *)
LEMMA LeaveLevels ==
  ASSUME UInv, upcall_leave, NEW n, n = Depth - 1
  PROVE  /\ \A i \in 0..n : EspAt(i)' = EspAt(i) /\ RegsAt(i)' = RegsAt(i)
         /\ \A i \in 0..(n - 1) : CodeAt(i)' = CodeAt(i)
         /\ CodeAt(n)' = Ret(Depth) /\ Ret(Depth) \in CodeAddrs /\ CodeAt(n) \in CodeAddrs
         /\ Ret(Depth).fn = CodeAt(n).fn
         /\ CodeAt(n).fn = "asm" => Ret(Depth) = CodeAt(n) /\ CodeAt(n).off \in {0, 2}
         /\ \A i \in 1..n : TrapEsp(i)' = TrapEsp(i) /\ Ret(i)' = Ret(i)
  <1>1. /\ n \in Nat /\ Depth \in Nat /\ Depth > 0 /\ Depth \in 1..Depth /\ Depth' = n /\ mem' = mem
        /\ \A i \in 1..n : frames'[i] = frames[i] /\ Utf(i)' = Utf(i)
        /\ cpu' = [eip |-> Ret(Depth), esp |-> TrapEsp(Depth), regs |-> mem[Utf(Depth) + 1]]
    BY LeaveState
  <1>2. cpu'.eip = Ret(Depth) /\ cpu'.esp = TrapEsp(Depth) /\ cpu'.regs = mem[Utf(Depth) + 1]
    BY <1>1
  <1>3. n # Depth /\ n + 1 = Depth /\ Depth - 1 = n
    BY <1>1
  <1>4. CodeAt(n)' = Ret(Depth) /\ EspAt(n)' = EspAt(n) /\ RegsAt(n)' = RegsAt(n)
    BY <1>1, <1>2, <1>3 DEF CodeAt, EspAt, RegsAt
  <1>5. FrameGood(Depth)
    BY <1>1 DEF UInv
  <1>6. CodeAt(n) \in CodeAddrs
    <2>1. CASE n = 0
      BY <2>1 DEF UInv, ProgramGood
    <2>2. CASE n # 0
      <3>1. n \in 1..Depth
        BY <1>1, <1>3, <2>2
      <3> QED  BY <3>1 DEF UInv, UpcallGood
    <2> QED  BY <2>1, <2>2
  <1>7. /\ Ret(Depth) \in CodeAddrs /\ Ret(Depth) = Skip(frames[Depth].kind, CodeAt(n))
        /\ CodeAt(n).fn = "asm" => frames[Depth].kind = "pgfault" /\ CodeAt(n).off \in {0, 2}
    BY <1>3, <1>5 DEF FrameGood, Ret
  <1>8. /\ Ret(Depth).fn = CodeAt(n).fn
        /\ CodeAt(n).fn = "asm" => Ret(Depth) = CodeAt(n) /\ CodeAt(n).off \in {0, 2}
    BY <1>6, <1>7, SkipFacts
  <1>9. ASSUME NEW i \in 0..(n - 1) PROVE CodeAt(i)' = CodeAt(i) /\ RegsAt(i)' = RegsAt(i)
    <2>1. i # n /\ i # Depth /\ i + 1 \in 1..n
      BY <1>1, <1>3
    <2>2. frames'[i + 1] = frames[i + 1]
      BY <1>1, <2>1
    <2> QED  BY <1>1, <2>1, <2>2 DEF CodeAt, RegsAt, Utf
  <1>10. ASSUME NEW i \in 1..n PROVE TrapEsp(i)' = TrapEsp(i)
    <2>1. (CodeAt(i)'.fn = "asm" /\ CodeAt(i)'.off >= 2) <=> (CodeAt(i).fn = "asm" /\ CodeAt(i).off >= 2)
      <3>1. CASE i = n
        BY <1>4, <1>8, <3>1
      <3>2. CASE i # n
        <4>1. i \in 0..(n - 1)
          BY <1>1, <3>2
        <4> QED  BY <1>9, <4>1
      <3> QED  BY <3>1, <3>2
    <2>2. frames'[i] = frames[i]
      BY <1>1
    <2> QED  BY <1>1, <2>1, <2>2 DEF TrapEsp
  <1>11. ASSUME NEW i \in 0..n PROVE EspAt(i)' = EspAt(i) /\ RegsAt(i)' = RegsAt(i)
    <2>1. CASE i = n
      BY <1>4, <2>1
    <2>2. CASE i # n
      <3>1. i \in 0..(n - 1) /\ i # Depth /\ i + 1 \in 1..n
        BY <1>1, <1>3, <2>2
      <3>2. EspAt(i)' = EspAt(i)
        BY <1>1, <1>10, <2>2, <3>1 DEF EspAt
      <3> QED  BY <1>9, <3>1, <3>2
    <2> QED  BY <2>1, <2>2
  <1>12. ASSUME NEW i \in 1..n PROVE Ret(i)' = Ret(i)
    <2>1. i - 1 \in 0..(n - 1)
      BY <1>1
    <2>2. CodeAt(i - 1)' = CodeAt(i - 1) /\ frames'[i] = frames[i]
      BY <1>1, <1>9, <2>1
    <2> QED  BY <2>2 DEF Ret, Skip
  <1> QED  BY <1>4, <1>6, <1>7, <1>8, <1>9, <1>10, <1>11, <1>12

LEMMA LeaveInv ==
  ASSUME UInv, upcall_leave
  PROVE  UInv'
  <1>1. PICK n : n = Depth - 1
    OBVIOUS
  <1>2. /\ n \in Nat /\ Depth \in Nat /\ Depth > 0 /\ Depth \in 1..Depth /\ Depth' = n /\ mem' = mem
        /\ UNCHANGED <<regVars, dead, overrun>>
        /\ \A i \in 1..n : frames'[i] = frames[i] /\ Utf(i)' = Utf(i)
        /\ cpu' = [eip |-> Ret(Depth), esp |-> TrapEsp(Depth), regs |-> mem[Utf(Depth) + 1]]
    BY <1>1, LeaveState
  <1>3. /\ \A i \in 0..n : EspAt(i)' = EspAt(i) /\ RegsAt(i)' = RegsAt(i)
        /\ \A i \in 0..(n - 1) : CodeAt(i)' = CodeAt(i)
        /\ CodeAt(n)' = Ret(Depth) /\ Ret(Depth) \in CodeAddrs /\ CodeAt(n) \in CodeAddrs
        /\ Ret(Depth).fn = CodeAt(n).fn
        /\ CodeAt(n).fn = "asm" => Ret(Depth) = CodeAt(n) /\ CodeAt(n).off \in {0, 2}
        /\ \A i \in 1..n : TrapEsp(i)' = TrapEsp(i) /\ Ret(i)' = Ret(i)
    BY <1>1, LeaveLevels
  <1>4. \A i \in 1..n : i \in 1..Depth /\ i - 1 \in 0..(n - 1) /\ i \in 0..n
    BY <1>1, <1>2
  <1>5. ASSUME NEW i \in 0..n
        PROVE /\ CodeAt(i)' \in CodeAddrs /\ CodeAt(i)'.fn = CodeAt(i).fn
              /\ CodeAt(i).fn = "asm" => CodeAt(i)' = CodeAt(i)
    <2>1. CASE i = n
      BY <1>3, <2>1
    <2>2. CASE i # n
      <3>1. i \in 0..(n - 1)
        BY <1>2, <2>2
      <3>2. CodeAt(i)' = CodeAt(i)
        BY <1>3, <3>1
      <3>3. CodeAt(i) \in CodeAddrs
        <4>1. CASE i = 0
          BY <4>1 DEF UInv, ProgramGood
        <4>2. CASE i # 0
          <5>1. i \in 1..Depth
            BY <1>1, <1>2, <4>2
          <5> QED  BY <5>1 DEF UInv, UpcallGood
        <4> QED  BY <4>1, <4>2
      <3> QED  BY <3>2, <3>3
    <2> QED  BY <2>1, <2>2
  <1>6. TypeOK'
    <2>1. TrapEsp(Depth) \in Esps
      BY <1>2, TrapEsps
    <2>2. mem[Utf(Depth) + 1] \in RegVals
      BY <1>2, TopFacts
    <2>3. cpu' \in [eip : CodeAddrs, esp : Esps, regs : RegVals]
      BY <1>2, <1>3, <2>1, <2>2
    <2>4. frames' \in Seq([utf : XPage, kind : Kinds])
      BY <1>1, LeaveState
    <2> QED  BY <1>2, <2>3, <2>4 DEF UInv, TypeOK, regVars
  <1>7. ProgramGood'
    <2>1. 0 \in 0..n
      BY <1>2
    <2> QED  BY <1>3, <1>5, <2>1 DEF UInv, ProgramGood
  <1>8. LeaveGood'
    <2>1. cpu'.eip = Ret(Depth)
      BY <1>2
    <2>2. Ret(Depth) # Code("asm", 3)
      BY <1>3 DEF Code
    <2> QED  BY <2>1, <2>2 DEF LeaveGood
  <1>9. Ordered'
    BY <1>2, <1>4 DEF UInv, Ordered
  <1>10. ASSUME NEW i \in 1..n PROVE FrameGood(i)' /\ UpcallGood(i)'
    <2>1. FrameGood(i) /\ UpcallGood(i)
      BY <1>4 DEF UInv
    <2>2. /\ Utf(i)' = Utf(i) /\ TrapEsp(i)' = TrapEsp(i) /\ Ret(i)' = Ret(i) /\ frames'[i] = frames[i]
          /\ CodeAt(i - 1)' = CodeAt(i - 1) /\ EspAt(i)' = EspAt(i) /\ RegsAt(i)' = RegsAt(i)
      BY <1>2, <1>3, <1>4
    <2>3. /\ CodeAt(i)' \in CodeAddrs /\ CodeAt(i)'.fn = CodeAt(i).fn
          /\ CodeAt(i).fn = "asm" => CodeAt(i)' = CodeAt(i)
      BY <1>4, <1>5
    <2>4. Prepared(i)' <=> Prepared(i)
      BY <2>3 DEF Prepared
    <2>5. FrameGood(i)'
      BY <1>2, <2>1, <2>2, <2>4 DEF FrameGood
    <2>6. CodeAt(i)' = Code("asm", 2) => CodeAt(i) = Code("asm", 2)
      BY <2>3 DEF Code
    <2>7. UpcallGood(i)'
      BY <1>2, <2>1, <2>2, <2>3, <2>6 DEF UpcallGood
    <2> QED  BY <2>5, <2>7
  <1> QED  BY <1>2, <1>6, <1>7, <1>8, <1>9, <1>10 DEF UInv

(* What was suspended last goes on as it was; InstrLen is the length the   *)
(* entry points take an instruction to have.                               *)
LEMMA LeaveReturns ==
  ASSUME UInv, upcall_leave, InstrLen = 2
  PROVE  /\ Suspended # <<>>
         /\ Running' = Abstract!AfterReturn(Suspended[Len(Suspended)])
         /\ Suspended' = SubSeq(Suspended, 1, Len(Suspended) - 1)
  <1>1. PICK n : n = Depth - 1
    OBVIOUS
  <1>2. /\ n \in Nat /\ Depth \in Nat /\ Depth > 0 /\ Depth \in 1..Depth /\ Depth' = n /\ mem' = mem
        /\ \A i \in 1..n : frames'[i] = frames[i] /\ Utf(i)' = Utf(i)
        /\ cpu' = [eip |-> Ret(Depth), esp |-> TrapEsp(Depth), regs |-> mem[Utf(Depth) + 1]]
    BY <1>1, LeaveState
  <1>3. CodeAt(n) \in CodeAddrs /\ \A i \in 1..n : TrapEsp(i)' = TrapEsp(i)
    BY <1>1, LeaveLevels
  <1>4. ASSUME NEW i \in 1..n PROVE Susp(i)' = Susp(i)
    <2>1. i \in 1..Depth /\ (i > 1 => i - 1 \in 1..n)
      BY <1>1, <1>2
    <2>2. frames'[i] = frames[i] /\ (i > 1 => frames'[i - 1] = frames[i - 1])
      BY <1>2, <2>1
    <2> QED  BY <1>2, <1>3, <2>1, <2>2, EntryKept
  <1>5. PICK s, t : s = Suspended /\ t = Suspended' /\ DOMAIN s = 1..Depth /\ DOMAIN t = 1..n
                    /\ (\A i \in 1..Depth : s[i] = Susp(i)) /\ (\A i \in 1..n : t[i] = Susp(i)')
                    /\ s = [i \in 1..Depth |-> s[i]] /\ t = [i \in 1..n |-> t[i]]
    <2>1. Suspended = [i \in 1..Depth |-> Susp(i)] /\ Suspended' = [i \in 1..n |-> Susp(i)']
      BY <1>2, SuspendedIs DEF Suspended, Susp, Utf
    <2>2. DOMAIN Suspended = 1..Depth /\ \A i \in 1..Depth : Suspended[i] = Susp(i)
      BY <2>1, Zenon
    <2>3. DOMAIN Suspended' = 1..n /\ \A i \in 1..n : Suspended'[i] = Susp(i)'
      BY <2>1, Zenon
    <2>4. Suspended = [i \in 1..Depth |-> Suspended[i]]
      BY <2>1, Zenon
    <2>5. Suspended' = [i \in 1..n |-> Suspended'[i]]
      BY <2>1, Zenon
    <2> QED  BY <2>2, <2>3, <2>4, <2>5, Zenon
  <1>6. Len(s) = Depth /\ s # <<>> /\ SubSeq(s, 1, n) = [i \in 1..n |-> s[i]]
    <2>1. n \in 0..Depth
      BY <1>1, <1>2
    <2> QED  BY <1>2, <1>5, <2>1, FunctionSeq
  <1>7. SubSeq(s, 1, n) = t
    <2>1. \A i \in 1..n : t[i] = s[i]
      <3>1. \A i \in 1..n : i \in 1..Depth
        BY <1>1, <1>2
      <3> QED  BY <1>4, <1>5, <3>1
    <2> QED  BY <1>5, <1>6, <2>1
  <1>8. Running' = Abstract!AfterReturn(s[Depth])
    <2>1. Depth - 1 = n
      BY <1>1
    <2>2. PICK c, r, w, k : c = CodeAt(n) /\ r = mem[Utf(Depth) + 1]
                             /\ w = StackOf(n, TrapEsp(Depth)) /\ k = frames[Depth].kind
      OBVIOUS
    <2>3. mem[Utf(Depth) + 2][2] = c
      BY <1>2, <2>1, <2>2, CodeIs
    <2>4. s[Depth].kind = k /\ s[Depth].act = [eip |-> c, regs |-> r, words |-> w]
      <3>1. s[Depth] = Susp(Depth)
        BY <1>2, <1>5
      <3> QED  BY <2>1, <2>2, <2>3, <3>1 DEF Susp
    <2>5. Running' = [eip |-> Skip(k, c), regs |-> r, words |-> w]
      <3>1. cpu'.eip = Ret(Depth) /\ cpu'.esp = TrapEsp(Depth) /\ cpu'.regs = r
        BY <1>2, <2>2
      <3>2. Ret(Depth) = Skip(k, c)
        BY <2>1, <2>2 DEF Ret
      <3>3. StackOf(Depth, cpu.esp)' = w
        <4>1. n # 0 => n \in 1..n
          BY <1>2
        <4>2. n # 0 => frames'[n] = frames[n]
          BY <1>2, <4>1
        <4> QED  BY <1>2, <2>2, <3>1, <4>2 DEF StackOf, WordAt
      <3> QED  BY <3>1, <3>2, <3>3 DEF Running
    <2>6. CASE k = "pgfault"
      BY <2>4, <2>5, <2>6 DEF Abstract!AfterReturn, Skip
    <2>7. CASE k # "pgfault"
      <3>1. Skip(k, c) = [c EXCEPT !.off = @ + 2]
        BY <2>7 DEF Skip
      <3>2. PICK z : z = s[Depth] /\ z.kind # "pgfault" /\ z.act = [eip |-> c, regs |-> r, words |-> w]
        BY <2>4, <2>7
      <3>3. Abstract!AfterReturn(z) = [z.act EXCEPT !.eip.off = @ + 2]
        BY <3>2 DEF Abstract!AfterReturn
      <3>4. [z.act EXCEPT !.eip.off = @ + 2] = [eip |-> [c EXCEPT !.off = @ + 2], regs |-> r, words |-> w]
        BY <3>2
      <3>5. Abstract!AfterReturn(z) = Running'
        BY <2>5, <3>1, <3>3, <3>4
      <3> QED  BY <3>2, <3>5
    <2> QED  BY <2>6, <2>7
  <1> QED  BY <1>1, <1>5, <1>6, <1>7, <1>8

-----------------------------------------------------------------------------
(* All the steps. *)

(* An exception destroys the environment, is delivered, or has its frame   *)
(* put over the first one; the entry points take page faults only, where   *)
(* they write to a stack.                                                  *)
LEMMA ExceptionStep ==
  ASSUME UInv, NEW va \in VAs, Fault(va) \/ upcall_fault(va)
  PROVE  /\ Followed
         /\ Destroyed \/ (\E k, u : Delivered(k, va, u)) \/ (TypeOK' /\ overrun')
  <1>0. Followed
    BY DEF Fault, upcall_fault, InUserCode, At
  <1>1. ASSUME NEW k \in Kinds, Exception(k, va), Skip(k, cpu.eip) \in CodeAddrs,
               cpu.eip.fn = "asm" => k = "pgfault" /\ cpu.eip.off \in {0, 2}
        PROVE  Destroyed \/ (\E u : Delivered(k, va, u)) \/ (TypeOK' /\ overrun')
    <2>1. CASE Destroyed
      BY <2>1
    <2>2. CASE ~Destroyed
      <3>1. PICK u : /\ u = Frame(cpu.esp) /\ u >= XBase /\ overrun' = Overruns
                     /\ mem' = [mem EXCEPT ![u] = Va(va), ![u + 1] = cpu.regs,
                                           ![u + 2] = Eip(cpu.eip), ![u + 3] = Esp(cpu.esp)]
                     /\ cpu' = [cpu EXCEPT !.eip = Code("asm", 0), !.esp = u]
                     /\ frames' = Append(frames, [utf |-> u, kind |-> k])
                     /\ UNCHANGED <<regVars, dead>>
        BY <1>1, <2>2 DEF Exception, user_mem_assert
      <3>2. CASE Overruns
        <4>1. cpu.esp \notin XPage /\ Depth > 0
          BY <3>2, FrameFacts DEF Overruns, Depth, UInv, TypeOK
        <4>2. u = XTop - TfWords
          BY <3>1, <4>1, FrameFacts, TopFacts DEF Frame, XPage
        <4>3. u \in XPage /\ u \in Esps
          BY <4>2, FrameFacts DEF XPage, Esps
        <4>4. mem' \in [Addrs -> Words]
          <5>1. /\ Va(va) \in Words /\ cpu.regs \in Words /\ Eip(cpu.eip) \in Words /\ Esp(cpu.esp) \in Words
            BY TopFacts, WordFacts
          <5>2. mem \in [Addrs -> Words]
            BY DEF UInv, TypeOK
          <5> HIDE DEF Addrs, Words
          <5> QED  BY <3>1, <5>1, <5>2
        <4>5. cpu' \in [eip : CodeAddrs, esp : Esps, regs : RegVals]
          <5>1. Code("asm", 0) \in CodeAddrs
            BY WordFacts
          <5> QED  BY <3>1, <4>3, <5>1, TopFacts
        <4>6. frames' \in Seq([utf : XPage, kind : Kinds])
          <5>1. PICK S, x : S = [utf : XPage, kind : Kinds] /\ x = [utf |-> u, kind |-> k]
            OBVIOUS
          <5>2. x \in S /\ frames \in Seq(S)
            BY <4>3, <5>1 DEF UInv, TypeOK
          <5> QED  BY <3>1, <5>1, <5>2, AppendFacts
        <4>7. overrun' = TRUE
          BY <3>1, <3>2
        <4> QED  BY <3>1, <4>4, <4>5, <4>6, <4>7 DEF UInv, TypeOK, regVars
      <3>3. CASE ~Overruns
        <4>1. Depth > 0 => cpu.esp \in XPage
          BY <3>3 DEF Overruns, Depth
        <4>2. overrun = FALSE /\ overrun' = FALSE
          BY <1>0, <3>1, <3>3 DEF Followed, UInv, TypeOK
        <4> QED  BY <1>1, <3>1, <4>1, <4>2 DEF Delivered
      <3> QED  BY <3>2, <3>3
    <2> QED  BY <2>1, <2>2
  <1>2. cpu.eip \in CodeAddrs
    BY TopFacts
  <1>3. CASE Fault(va)
    <2>1. Followed /\ cpu.eip.fn \in {"main", "C"} /\ cpu.eip.off <= MaxOff
      BY <1>3 DEF Fault, InUserCode
    <2>2. ASSUME NEW k \in Kinds PROVE Skip(k, cpu.eip) \in CodeAddrs
      BY <1>2, <2>1, SkipFacts, CodeFacts
    <2>3. PICK k \in Kinds : Exception(k, va)
      BY <1>3 DEF Fault, Kinds, page_fault_handler, divide_by_zero_handler,
                  general_protection_fault_handler, illegal_opcode_handler
    <2>4. Skip(k, cpu.eip) \in CodeAddrs /\ cpu.eip.fn # "asm"
      BY <2>1, <2>2
    <2> QED  BY <1>1, <2>1, <2>3, <2>4
  <1>4. CASE upcall_fault(va)
    <2>1. (At(0) \/ At(2)) /\ Exception("pgfault", va)
      BY <1>4 DEF upcall_fault, page_fault_handler
    <2>2. Followed /\ cpu.eip.off \in {0, 2}
      BY <2>1 DEF At, Code
    <2>3. Skip("pgfault", cpu.eip) \in CodeAddrs /\ "pgfault" \in Kinds
      BY <1>2 DEF Skip, Kinds
    <2> QED  BY <1>1, <2>1, <2>2, <2>3
  <1> QED  BY <1>3, <1>4

(* Every step is of one of five sorts. *)
LEMMA NextStep ==
  ASSUME UInv, Next
  PROVE  /\ Followed
         /\ \/ Destroyed
            \/ UInv' /\ Suspended' = Suspended /\ UNCHANGED <<dead, overrun>>
            \/ \E k, va, u : Delivered(k, va, u)
            \/ TypeOK' /\ overrun'
            \/ upcall_leave
  <1>1. CASE Compute \/ Store
    BY <1>1, ComputeStep, StoreStep DEF Compute, Store, InUserCode
  <1>2. CASE \E n \in 1..MaxLocals : Reserve(n) \/ Release(n)
    BY <1>2, ReserveStep, ReleaseStep DEF Reserve, Release, InUserCode
  <1>4. CASE \E va \in VAs : Fault(va) \/ upcall_fault(va)
    BY <1>4, ExceptionStep
  <1>5. CASE set_pgfault_handler \/ set_divide_handler \/ set_gpfault_handler \/ set_illop_handler
    <2>1. PICK k \in Kinds : set_handler(k)
      BY <1>5 DEF Kinds, set_pgfault_handler, set_divide_handler, set_gpfault_handler, set_illop_handler
    <2>2. Followed
      BY <2>1 DEF set_handler, InUserCode
    <2> QED  BY <2>1, <2>2, SetStep
  <1>6. CASE upcall_call
    BY <1>6, CallStep DEF upcall_call, At
  <1>7. CASE handler_return
    BY <1>7, ReturnStep DEF handler_return
  <1>8. CASE upcall_prepare
    BY <1>8, PrepareStep DEF upcall_prepare, At
  <1>9. CASE upcall_write
    BY <1>9, WriteStep DEF upcall_write, At
  <1>10. CASE upcall_leave
    BY <1>10 DEF upcall_leave, At
  <1> QED  BY <1>1, <1>2, <1>4, <1>5, <1>6, <1>7, <1>8, <1>9, <1>10 DEF Next

LEMMA StutterStep ==
  ASSUME UNCHANGED vars
  PROVE  /\ Suspended' = Suspended /\ Running' = Running
         /\ (TypeOK => TypeOK') /\ (UInv => UInv')
  <1>1. /\ mem' = mem /\ cpu' = cpu /\ frames' = frames /\ handler' = handler /\ upcall' = upcall
        /\ xmapped' = xmapped /\ dead' = dead /\ overrun' = overrun
    BY DEF vars, regVars
  <1>2. TypeOK => TypeOK'
    BY <1>1 DEF TypeOK
  <1>3. /\ Depth' = Depth /\ \A i : Utf(i)' = Utf(i) /\ CodeAt(i)' = CodeAt(i) /\ TrapEsp(i)' = TrapEsp(i)
    BY <1>1 DEF Depth, Utf, CodeAt, TrapEsp
  <1>4. \A i, e : StackOf(i, e)' = StackOf(i, e)
    BY <1>1 DEF StackOf, WordAt
  <1>5. Suspended' = Suspended /\ Running' = Running
    BY <1>1, <1>3, <1>4 DEF Suspended, Running
  <1>6. UInv => UInv'
    BY <1>1, <1>2, TopFacts, TopStep DEF UInv
  <1> QED  BY <1>2, <1>5, <1>6

LEMMA InitGood ==
  ASSUME Init
  PROVE  UInv /\ Depth = 0 /\ Suspended = <<>> /\ Running.words = <<>> /\ dead = FALSE /\ overrun = FALSE
  <1>1. frames = <<>> /\ Depth = 0 /\ mem = [a \in Addrs |-> ZeroWord] /\ dead = FALSE /\ overrun = FALSE
    BY DEF Init, Depth
  <1>2. PICK r \in Stacked : cpu = [eip |-> Code("main", 0), esp |-> UTop, regs |-> r]
    BY DEF Init
  <1>3. TypeOK
    <2>1. Code("main", 0) \in CodeAddrs /\ r \in RegVals /\ ZeroWord \in Words
      BY WordFacts
    <2>2. mem \in [Addrs -> Words]
      BY <1>1, <2>1
    <2>3. UTop \in Esps
      BY UpcallAssumption DEF Esps
    <2>4. cpu \in [eip : CodeAddrs, esp : Esps, regs : RegVals]
      BY <1>2, <2>1, <2>3
    <2>5. frames \in Seq([utf : XPage, kind : Kinds])
      BY <1>1
    <2> QED  BY <2>2, <2>4, <2>5 DEF Init, TypeOK
  <1>4. ProgramGood
    <2>1. Code("main", 0) \in CodeAddrs /\ Code("main", 0).fn = "main"
      BY WordFacts DEF Code
    <2>2. UTop \in (UTop - MaxLocals)..UTop
      BY UpcallAssumption
    <2> QED  BY <1>1, <1>2, <2>1, <2>2 DEF ProgramGood, CodeAt, EspAt
  <1>5. LeaveGood
    BY <1>2 DEF LeaveGood, Code
  <1>6. \A i \in 1..Depth : FALSE
    BY <1>1
  <1>7. UInv
    BY <1>3, <1>4, <1>5, <1>6 DEF UInv, Ordered
  <1>8. Suspended = <<>>
    BY <1>1 DEF Suspended
  <1>9. Running.words = <<>>
    <2>1. UTop - UTop = 0
      BY UpcallAssumption
    <2>2. StackOf(Depth, cpu.esp) = <<>>
      BY <1>1, <1>2, <2>1 DEF StackOf
    <2> QED  BY <2>2 DEF Running
  <1> QED  BY <1>1, <1>7, <1>8, <1>9

\* Nothing is followed after an overrun.
LEMMA OverrunStops == Next => ~overrun
  BY DEF Next, Compute, Store, Reserve, Release, Fault, upcall_fault, set_pgfault_handler,
         set_divide_handler, set_gpfault_handler, set_illop_handler, set_handler, upcall_call,
         handler_return, upcall_prepare, upcall_write, upcall_leave, At, InUserCode, Followed

LEMMA Step ==
  ASSUME IInv, [Next]_vars
  PROVE  IInv'
  <1>1. CASE Next
    <2>1. UInv
      BY <1>1, OverrunStops DEF IInv
    <2>2. CASE Destroyed
      BY <2>1, <2>2, DestroyedStep DEF IInv, UInv
    <2>3. CASE \E k, va, u : Delivered(k, va, u)
      BY <2>3, FaultInv DEF IInv, UInv
    <2>4. CASE upcall_leave
      BY <2>1, <2>4, LeaveInv DEF IInv, UInv
    <2>5. CASE UInv' \/ (TypeOK' /\ overrun')
      BY <2>5 DEF IInv, UInv
    <2> QED  BY <1>1, <2>1, <2>2, <2>3, <2>4, <2>5, NextStep
  <1>2. CASE UNCHANGED vars
    <2>1. overrun' = overrun
      BY <1>2 DEF vars
    <2> QED  BY <1>2, <2>1, StutterStep DEF IInv
  <1> QED  BY <1>1, <1>2

(* The inductive invariant: until a frame is put over the first one, every *)
(* frame holds what it interrupted, below the live words of that, and      *)
(* every level has what it needs to go on (kern/trap.c:348,                *)
(* lib/pfentry.S).                                                         *)
THEOREM Invariance == Spec => []IInv
  <1>1. Init => IInv
    BY InitGood DEF IInv, UInv
  <1>2. IInv /\ [Next]_vars => IInv'
    BY Step
  <1> QED  BY <1>1, <1>2, PTL DEF Spec

(* Memory, registers and frames keep their types: a word read as a code    *)
(* address or a stack address is one (lib/pfentry.S, ret and pop %esp).    *)
THEOREM TypeCorrect == Spec => []TypeOK
  <1>1. IInv => TypeOK
    BY DEF IInv
  <1> QED  BY <1>1, Invariance, PTL

(* Until an upcall faults with its esp below the exception page, frames    *)
(* lie one below the other, each below the live words of what it           *)
(* interrupted with the word its upcall returns through between them,      *)
(* however many there are (kern/trap.c:356, the extra word).               *)
THEOREM FramesStackWithinPage == Spec => []FramesStacked
  <1>1. ASSUME UInv PROVE FramesStacked
    <2>1. ASSUME NEW i \in 1..Depth
          PROVE  /\ frames[i].utf >= XBase
                 /\ IF i = 1 THEN TrapEsp(i) <= UTop
                    ELSE /\ TrapEsp(i) <= frames[i - 1].utf
                         /\ frames[i].utf + UtfWords <= TrapEsp(i) - 1
      <3>1. PICK u \in Nat, t \in Int : u = frames[i].utf /\ t = TrapEsp(i) /\ u >= XBase
        BY <1>1, FrameFacts, EspFacts DEF Utf
      <3>2. CASE i = 1
        <4>1. Depth > 0
          BY <1>1, <3>2, FrameFacts
        <4> QED  BY <1>1, <3>1, <3>2, <4>1, FrameFacts, EspFacts
      <3>3. CASE i # 1
        <4>1. i \in 2..Depth /\ i - 1 \in 1..Depth
          BY <1>1, <3>3, FrameFacts
        <4>2. PICK w \in Nat : w = frames[i - 1].utf
          BY <1>1, <4>1, FrameFacts DEF Utf
        <4>3. t <= w /\ u + 4 < t
          BY <1>1, <3>1, <4>1, <4>2, FrameFacts, EspFacts DEF Utf
        <4> QED  BY <3>1, <3>3, <4>2, <4>3 DEF UtfWords
      <3> QED  BY <3>2, <3>3
    <2>2. Depth > 0 => cpu.esp <= Top.utf
      BY <1>1, TopFacts, FrameFacts DEF Top, Utf
    <2> QED  BY <2>1, <2>2 DEF FramesStacked
  <1>2. overrun => FramesStacked
    BY DEF FramesStacked, Followed
  <1>3. IInv => FramesStacked
    BY <1>1, <1>2 DEF IInv
  <1> QED  BY <1>3, Invariance, PTL

(* However faults nest, each upcall returns to what it interrupted, with   *)
(* its registers and every word of its stack as they were: until the       *)
(* environment is destroyed or an upcall faults with its esp below the     *)
(* exception page, the frames implement nested calls, provided that an     *)
(* instruction that raises an exception other than a page fault has the    *)
(* two bytes that the entry points skip (lib/deentry.S:14).                *)
THEOREM UpcallsReturn ==
  ASSUME InstrLen = 2
  PROVE  Spec => ReturnsToInterrupted
  <1>1. Init => Abstract!Init
    BY InitGood DEF Abstract!Init
  <1>2. ASSUME IInv, [Next]_vars PROVE [Abstract!Next]_<<Running, Suspended, dead \/ overrun>>
    <2>1. CASE Next
      <3>1. UInv
        BY <1>2, <2>1, OverrunStops DEF IInv
      <3>2. ~(dead \/ overrun)
        BY <2>1, <3>1, NextStep DEF Followed
      <3>3. CASE Destroyed \/ overrun'
        BY <3>2, <3>3 DEF Destroyed, Abstract!Next, Abstract!Die
      <3>4. CASE Suspended' = Suspended /\ UNCHANGED <<dead, overrun>>
        BY <3>2, <3>4 DEF Abstract!Next, Abstract!Own
      <3>5. CASE \E k, va, u : Delivered(k, va, u)
        <4>1. PICK k, va, u : Delivered(k, va, u)
          BY <3>5
        <4>2. UNCHANGED <<dead, overrun>>
          BY <4>1 DEF Delivered
        <4> QED  BY <3>2, <4>1, <4>2, FaultSuspends DEF Abstract!Next, Abstract!Fault
      <3>6. CASE upcall_leave
        <4>1. UNCHANGED <<dead, overrun>>
          BY <3>6 DEF upcall_leave
        <4> QED  BY <1>2, <3>1, <3>2, <3>6, <4>1, LeaveReturns DEF Abstract!Next, Abstract!Return
      <3> QED  BY <2>1, <3>1, <3>3, <3>4, <3>5, <3>6, NextStep
    <2>2. CASE UNCHANGED vars
      BY <1>2, <2>2, StutterStep DEF vars
    <2> QED  BY <1>2, <2>1, <2>2
  <1> QED  BY <1>1, <1>2, Invariance, PTL DEF Spec, ReturnsToInterrupted, Abstract!Spec
=============================================================================

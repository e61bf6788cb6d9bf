---------------------------- MODULE SchedProofs -----------------------------
(***************************************************************************)
(* Proofs about the scheduler: the loop of sched_yield (kern/sched.c)      *)
(* finds the environment it is meant to find, for every number of          *)
(* environments.  The loop is a recursive function; what it computes is    *)
(* shown by induction on the turns of the loop, for which the numbers that *)
(* satisfy a claim are made a set.                                         *)
(***************************************************************************)
EXTENDS Sched, WellFoundedInduction, TLAPS

-----------------------------------------------------------------------------
(* Induction, and the definition of the loop. *)

(* A set of numbers with 0 and with the successor of each of its elements  *)
(* has all of them: every other set would lack a smallest one.             *)
LEMMA NatSet ==
  ASSUME NEW T \in SUBSET Nat, 0 \in T, \A n \in Nat : n \in T => n + 1 \in T
  PROVE  T = Nat
  <1> SUFFICES ASSUME Nat \ T # {} PROVE FALSE
    OBVIOUS
  <1>1. PICK R : R = OpToRel(<, Nat) /\ IsWellFoundedOn(R, Nat)
    BY NatLessThanWellFounded
  <1>2. \A x, y \in Nat : x < y => <<x, y>> \in R
    BY <1>1 DEF OpToRel
  <1>3. PICK x \in Nat \ T : \A y \in Nat \ T : <<y, x>> \notin R
    BY <1>1, WFMin
  <1>4. x # 0 /\ x - 1 \in Nat /\ x - 1 < x
    BY <1>3
  <1>5. x - 1 \in T
    BY <1>2, <1>3, <1>4
  <1> QED  BY <1>3, <1>4, <1>5

(* f is what the loop has after each of its first m turns. *)
IsScan(f, m, c, s, p, d) ==
  f = [n \in 0..m |-> IF n = 0 THEN LoopStart ELSE LoopTurn(ScanSlot(c, n), f[n - 1], s, p, d)]

(* The first m turns can be made, whatever m is. *)
LEMMA ScanExists ==
  ASSUME NEW c, NEW s, NEW p, NEW d, NEW m \in Nat
  PROVE  \E f : IsScan(f, m, c, s, p, d)
  <1> DEFINE T == {n \in Nat : \E f : IsScan(f, n, c, s, p, d)}
  <1>1. 0 \in T
    <2>1. IsScan([n \in 0..0 |-> LoopStart], 0, c, s, p, d)
      BY DEF IsScan
    <2> QED  BY <2>1
  <1>2. ASSUME NEW n \in Nat, n \in T PROVE n + 1 \in T
    <2>1. PICK f : IsScan(f, n, c, s, p, d)
      BY <1>2
    <2>2. PICK last : last = LoopTurn(ScanSlot(c, n + 1), f[n], s, p, d)
      OBVIOUS
    <2>3. PICK g : g = [k \in 0..(n + 1) |-> IF k = n + 1 THEN last ELSE f[k]]
      OBVIOUS
    <2>4. \A k \in 0..n : f[k] = IF k = 0 THEN LoopStart ELSE LoopTurn(ScanSlot(c, k), f[k - 1], s, p, d)
      BY <2>1 DEF IsScan
    <2>5. ASSUME NEW k \in 0..(n + 1)
          PROVE  g[k] = IF k = 0 THEN LoopStart ELSE LoopTurn(ScanSlot(c, k), g[k - 1], s, p, d)
      <3>1. CASE k = n + 1
        <4>1. g[k] = last /\ k # 0 /\ k - 1 = n /\ g[n] = f[n]
          BY <1>2, <2>3, <3>1
        <4> QED  BY <2>2, <3>1, <4>1
      <3>2. CASE k # n + 1
        <4>1. k \in 0..n /\ g[k] = f[k]
          BY <1>2, <2>3, <3>2
        <4>2. k # 0 => g[k - 1] = f[k - 1]
          BY <1>2, <2>3, <3>2
        <4> QED  BY <2>4, <4>1, <4>2
      <3> QED  BY <3>1, <3>2
    <2>6. g = [k \in 0..(n + 1) |-> g[k]]
      BY <2>3
    <2>7. IsScan(g, n + 1, c, s, p, d)
      BY <2>5, <2>6 DEF IsScan
    <2> QED  BY <1>2, <2>7
  <1>3. T = Nat
    <2> HIDE DEF T
    <2>1. T \in SUBSET Nat
      BY DEF T
    <2> QED  BY <1>1, <1>2, <2>1, NatSet
  <1> QED  BY <1>3

(* The loop makes NENV turns. *)
LEMMA LoopScans ==
  ASSUME NEW c, NEW s, NEW p, NEW d
  PROVE  \E f : IsScan(f, NENV, c, s, p, d) /\ SchedLoop(c, s, p, d) = f[NENV].envidx
  <1>1. \E f : IsScan(f, NENV, c, s, p, d)
    BY ScanExists, SchedAssumption
  <1>2. PICK g : g = CHOOSE f : IsScan(f, NENV, c, s, p, d)
    OBVIOUS
  <1>3. IsScan(g, NENV, c, s, p, d)
    BY <1>1, <1>2
  <1>4. SchedLoop(c, s, p, d) = g[NENV].envidx
    BY <1>2 DEF SchedLoop, IsScan
  <1> QED  BY <1>3, <1>4

-----------------------------------------------------------------------------
(* The slots in the order of the scan. *)

(* Turn n looks at the slot at distance n - 1 ... *)
LEMMA SlotAtDistance ==
  ASSUME NEW c \in Slots, NEW n \in 1..NENV
  PROVE  ScanSlot(c, n) \in Slots /\ Distance(c, ScanSlot(c, n)) = n - 1
  <1>1. CASE c + n < NENV
    <2>1. ScanSlot(c, n) = c + n
      BY <1>1, SchedAssumption DEF ScanSlot, Slots
    <2>2. (c + n) - c - 1 = n - 1 /\ (n - 1) % NENV = n - 1
      BY SchedAssumption DEF Slots
    <2> QED  BY <1>1, <2>1, <2>2, SchedAssumption DEF Slots, Distance
  <1>2. CASE c + n >= NENV
    <2>1. c + n - NENV \in 0..(NENV - 1)
      BY <1>2, SchedAssumption DEF Slots
    <2>2. (c + n - NENV + NENV) % NENV = c + n - NENV
      BY <2>1, SchedAssumption
    <2>3. ScanSlot(c, n) = c + n - NENV
      BY <2>2, SchedAssumption DEF ScanSlot, Slots
    <2>4. (c + n - NENV) - c - 1 = (n - 1) - NENV /\ ((n - 1) - NENV) % NENV = n - 1
      BY SchedAssumption DEF Slots
    <2> QED  BY <2>1, <2>3, <2>4, SchedAssumption DEF Slots, Distance
  <1> QED  BY <1>1, <1>2, SchedAssumption DEF Slots

(* ... and no other slot is at that distance. *)
LEMMA DistanceOfSlot ==
  ASSUME NEW c \in Slots, NEW i \in Slots
  PROVE  Distance(c, i) \in 0..(NENV - 1) /\ ScanSlot(c, Distance(c, i) + 1) = i
  <1>1. CASE i > c
    <2>1. Distance(c, i) = i - c - 1 /\ i - c - 1 \in 0..(NENV - 1)
      BY <1>1, SchedAssumption DEF Slots, Distance
    <2>2. c + ((i - c - 1) + 1) = i /\ i % NENV = i
      BY SchedAssumption DEF Slots
    <2> QED  BY <2>1, <2>2 DEF ScanSlot
  <1>2. CASE i <= c
    <2>1. NENV + i - c - 1 \in 0..(NENV - 1)
      BY <1>2, SchedAssumption DEF Slots
    <2>2. i - c - 1 = (NENV + i - c - 1) - NENV
      BY SchedAssumption DEF Slots
    <2>3. Distance(c, i) = NENV + i - c - 1
      BY <2>1, <2>2, SchedAssumption DEF Distance
    <2>4. c + ((NENV + i - c - 1) + 1) = i + NENV /\ (i + NENV) % NENV = i
      BY SchedAssumption DEF Slots
    <2> QED  BY <2>1, <2>3, <2>4 DEF ScanSlot
  <1> QED  BY <1>1, <1>2, SchedAssumption DEF Slots

(* The eligible slots the first n turns have looked at. *)
Seen(n, c, s, p, d) == {i \in Eligible(s, p, d) : Distance(c, i) < n}

(* The next turn adds its own slot, if that is eligible. *)
LEMMA SeenNext ==
  ASSUME NEW c \in Slots, NEW n \in 0..(NENV - 1), NEW s, NEW p, NEW d,
         NEW i, i = ScanSlot(c, n + 1)
  PROVE  /\ i \in Slots /\ Distance(c, i) = n
         /\ i \in Eligible(s, p, d) => Seen(n + 1, c, s, p, d) = Seen(n, c, s, p, d) \cup {i}
         /\ i \notin Eligible(s, p, d) => Seen(n + 1, c, s, p, d) = Seen(n, c, s, p, d)
  <1>1. n + 1 \in 1..NENV /\ (n + 1) - 1 = n /\ n \in Nat
    BY SchedAssumption
  <1>2. i \in Slots /\ Distance(c, i) = n
    BY <1>1, SlotAtDistance
  <1>3. ASSUME NEW j \in Slots
        PROVE  Distance(c, j) < n + 1 <=> (Distance(c, j) < n \/ j = i)
    <2>1. Distance(c, j) \in 0..(NENV - 1) /\ ScanSlot(c, Distance(c, j) + 1) = j
      BY DistanceOfSlot
    <2>2. PICK k \in 0..(NENV - 1) : k = Distance(c, j) /\ ScanSlot(c, k + 1) = j
      BY <2>1
    <2>3. k < n + 1 <=> (k < n \/ k = n)
      BY <1>1, SchedAssumption
    <2>4. k = n => j = i
      BY <2>2
    <2>5. j = i => k = n
      BY <1>2, <2>2
    <2> QED  BY <2>2, <2>3, <2>4, <2>5
  <1>4. Eligible(s, p, d) \subseteq Slots
    BY DEF Eligible
  <1>5. i \in Eligible(s, p, d) => Seen(n + 1, c, s, p, d) = Seen(n, c, s, p, d) \cup {i}
    BY <1>3, <1>4 DEF Seen
  <1>6. i \notin Eligible(s, p, d) => Seen(n + 1, c, s, p, d) = Seen(n, c, s, p, d)
    BY <1>3, <1>4 DEF Seen
  <1> QED  BY <1>2, <1>5, <1>6

-----------------------------------------------------------------------------
(* The invariant of the loop: after n turns it has the best of the         *)
(* eligible slots it has looked at, or is where it started.                *)
Best(r, n, c, s, p, d) ==
  \/ Seen(n, c, s, p, d) = {} /\ r = LoopStart
  \/ \E b \in Seen(n, c, s, p, d) :
       /\ r = [envidx |-> b, max_priority |-> p[b], min_ipc_sended |-> d[b]]
       /\ \A j \in Seen(n, c, s, p, d) \ {b} : Preferred(b, j, c, p, d)

(* A turn of the loop keeps it. *)
LEMMA TurnKeeps ==
  ASSUME NEW c \in Slots, NEW n \in 0..(NENV - 1), NEW s,
         NEW p \in [Slots -> Nat], NEW d \in [Slots -> Nat],
         NEW r, Best(r, n, c, s, p, d)
  PROVE  Best(LoopTurn(ScanSlot(c, n + 1), r, s, p, d), n + 1, c, s, p, d)
  <1>1. PICK i : i = ScanSlot(c, n + 1)
    OBVIOUS
  <1>2. PICK S, S1, r1 : /\ S = Seen(n, c, s, p, d) /\ S1 = Seen(n + 1, c, s, p, d)
                         /\ r1 = LoopTurn(i, r, s, p, d)
    OBVIOUS
  <1>3. /\ i \in Slots /\ Distance(c, i) = n
        /\ i \in Eligible(s, p, d) => S1 = S \cup {i}
        /\ i \notin Eligible(s, p, d) => S1 = S
    BY <1>1, <1>2, SeenNext
  <1>4. \A j \in S : j \in Eligible(s, p, d) /\ j \in Slots /\ Distance(c, j) < n
                     /\ Distance(c, j) \in Int /\ p[j] \in Nat /\ d[j] \in Nat
    BY <1>2, DistanceOfSlot DEF Seen, Eligible
  <1>5. p[i] \in Nat /\ d[i] \in Nat /\ n \in Int /\ SendedMax \in Nat
    BY <1>3, SchedAssumption
  <1>6. i \notin S
    BY <1>3, <1>4, <1>5
  <1>7. i \in Eligible(s, p, d) <=> i # 0 /\ s[i] = "RUNNABLE" /\ (p[i] > 0 \/ d[i] < SendedMax)
    BY <1>3 DEF Eligible
  <1>8. CASE S = {} /\ r = LoopStart
    <2>1. r.max_priority = 0 /\ r.min_ipc_sended = SendedMax
      BY <1>8 DEF LoopStart
    <2>2. Better(i, r, p, d) <=> (p[i] > 0 \/ d[i] < SendedMax)
      BY <1>5, <2>1 DEF Better
    <2>3. CASE i \in Eligible(s, p, d)
      <3>1. r1 = [envidx |-> i, max_priority |-> p[i], min_ipc_sended |-> d[i]]
        BY <1>2, <1>7, <2>2, <2>3 DEF LoopTurn
      <3>2. S1 = {i}
        BY <1>3, <1>8, <2>3
      <3> QED  BY <1>1, <1>2, <3>1, <3>2 DEF Best
    <2>4. CASE i \notin Eligible(s, p, d)
      <3>1. r1 = r /\ S1 = {}
        BY <1>2, <1>3, <1>7, <1>8, <2>2, <2>4 DEF LoopTurn
      <3> QED  BY <1>1, <1>2, <1>8, <3>1 DEF Best
    <2> QED  BY <2>3, <2>4
  <1>9. ASSUME NEW b \in S,
               r = [envidx |-> b, max_priority |-> p[b], min_ipc_sended |-> d[b]],
               \A j \in S \ {b} : Preferred(b, j, c, p, d)
        PROVE  Best(r1, n + 1, c, s, p, d)
    <2>1. Better(i, r, p, d) <=> p[i] > p[b] \/ (p[i] = p[b] /\ d[i] < d[b])
      BY <1>9 DEF Better
    <2>2. /\ b \in Slots /\ p[b] \in Nat /\ d[b] \in Nat /\ (p[b] > 0 \/ d[b] < SendedMax)
          /\ Distance(c, b) < n /\ Distance(c, b) \in Int
      BY <1>4 DEF Eligible
    <2>3. CASE i # 0 /\ s[i] = "RUNNABLE" /\ Better(i, r, p, d)
      <3>1. r1 = [envidx |-> i, max_priority |-> p[i], min_ipc_sended |-> d[i]]
        BY <1>2, <2>3 DEF LoopTurn
      <3>2. i \in Eligible(s, p, d)
        BY <1>5, <1>7, <2>1, <2>2, <2>3
      <3>3. ASSUME NEW j \in S PROVE Preferred(i, j, c, p, d)
        <4>1. CASE j = b
          BY <2>1, <2>3, <4>1 DEF Preferred
        <4>2. CASE j # b
          <5>1. Preferred(b, j, c, p, d)
            BY <1>9, <4>2
          <5>2. p[b] > p[j] \/ (p[b] = p[j] /\ d[b] <= d[j])
            BY <1>4, <2>2, <5>1 DEF Preferred
          <5>3. p[i] > p[j] \/ (p[i] = p[j] /\ d[i] < d[j])
            BY <1>4, <1>5, <2>1, <2>2, <2>3, <5>2
          <5> QED  BY <5>3 DEF Preferred
        <4> QED  BY <4>1, <4>2
      <3>4. i \in S1 /\ \A j \in S1 \ {i} : Preferred(i, j, c, p, d)
        BY <1>3, <3>2, <3>3
      <3> QED  BY <1>2, <3>1, <3>4 DEF Best
    <2>4. CASE ~(i # 0 /\ s[i] = "RUNNABLE" /\ Better(i, r, p, d))
      <3>1. r1 = r
        BY <1>2, <2>4 DEF LoopTurn
      <3>2. b \in S1 /\ S1 \subseteq S \cup {i}
        BY <1>3
      <3>3. ASSUME i \in Eligible(s, p, d) PROVE Preferred(b, i, c, p, d)
        <4>1. ~Better(i, r, p, d)
          BY <1>7, <2>4, <3>3
        <4>2. p[b] > p[i] \/ (p[b] = p[i] /\ d[b] <= d[i])
          BY <1>5, <2>1, <2>2, <4>1
        <4> QED  BY <1>3, <1>5, <2>2, <4>2 DEF Preferred
      <3>4. \A j \in S1 \ {b} : Preferred(b, j, c, p, d)
        BY <1>3, <1>9, <3>3
      <3> QED  BY <1>2, <1>9, <3>1, <3>2, <3>4 DEF Best
    <2> QED  BY <2>3, <2>4
  <1> QED  BY <1>1, <1>2, <1>8, <1>9 DEF Best

(* The loop of sched_yield finds the choice, and none only if nothing is   *)
(* eligible, whatever statuses, priorities and message counts are.         *)
LEMMA LoopCorrect ==
  ASSUME NEW c \in Slots, NEW s, NEW p \in [Slots -> Nat], NEW d \in [Slots -> Nat]
  PROVE  /\ Eligible(s, p, d) # {} => IsChoice(SchedLoop(c, s, p, d), c, s, p, d)
         /\ Eligible(s, p, d) = {} => SchedLoop(c, s, p, d) = NULL
  <1>1. PICK f : IsScan(f, NENV, c, s, p, d) /\ SchedLoop(c, s, p, d) = f[NENV].envidx
    BY LoopScans
  <1>2. \A n \in 0..NENV : f[n] = IF n = 0 THEN LoopStart
                                  ELSE LoopTurn(ScanSlot(c, n), f[n - 1], s, p, d)
    BY <1>1 DEF IsScan
  <1> DEFINE T == {n \in Nat : n <= NENV => Best(f[n], n, c, s, p, d)}
  <1>3. 0 \in T
    <2>1. f[0] = LoopStart
      BY <1>2, SchedAssumption
    <2>2. \A i \in Eligible(s, p, d) : Distance(c, i) \in Nat
      BY DistanceOfSlot, SchedAssumption DEF Eligible
    <2>3. Seen(0, c, s, p, d) = {}
      BY <2>2 DEF Seen
    <2> QED  BY <2>1, <2>3 DEF Best
  <1>4. ASSUME NEW n \in Nat, n \in T PROVE n + 1 \in T
    <2> SUFFICES ASSUME n + 1 <= NENV PROVE Best(f[n + 1], n + 1, c, s, p, d)
      OBVIOUS
    <2>1. n \in 0..(NENV - 1) /\ n + 1 \in 0..NENV /\ n + 1 # 0 /\ (n + 1) - 1 = n /\ n <= NENV
      BY SchedAssumption
    <2>2. n <= NENV => Best(f[n], n, c, s, p, d)
      BY <1>4
    <2>3. f[n + 1] = LoopTurn(ScanSlot(c, n + 1), f[n], s, p, d)
      BY <1>2, <2>1
    <2>4. Best(f[n], n, c, s, p, d)
      BY <2>1, <2>2
    <2> QED  BY <2>1, <2>3, <2>4, TurnKeeps
  <1>5. NENV \in T
    <2> HIDE DEF T
    <2>1. T \in SUBSET Nat
      BY DEF T
    <2> QED  BY <1>3, <1>4, <2>1, NatSet, SchedAssumption
  <1>6. Best(f[NENV], NENV, c, s, p, d)
    BY <1>5, SchedAssumption
  <1>7. Seen(NENV, c, s, p, d) = Eligible(s, p, d)
    <2>1. \A i \in Eligible(s, p, d) : Distance(c, i) < NENV
      BY DistanceOfSlot, SchedAssumption DEF Eligible
    <2> QED  BY <2>1 DEF Seen
  <1>8. LoopStart.envidx = NULL
    BY DEF LoopStart
  <1>9. PICK E, r : E = Eligible(s, p, d) /\ r = f[NENV]
    OBVIOUS
  <1>10. CASE E = {} /\ r = LoopStart
    BY <1>1, <1>8, <1>9, <1>10
  <1>11. ASSUME NEW b \in E,
                r = [envidx |-> b, max_priority |-> p[b], min_ipc_sended |-> d[b]],
                \A j \in E \ {b} : Preferred(b, j, c, p, d)
         PROVE  E # {} /\ IsChoice(SchedLoop(c, s, p, d), c, s, p, d)
    <2>1. SchedLoop(c, s, p, d) = b
      BY <1>1, <1>9, <1>11
    <2>2. IsChoice(b, c, s, p, d)
      BY <1>9, <1>11 DEF IsChoice
    <2> QED  BY <2>1, <2>2
  <1>12. \/ E = {} /\ r = LoopStart
         \/ \E b \in E : /\ r = [envidx |-> b, max_priority |-> p[b], min_ipc_sended |-> d[b]]
                        /\ \A j \in E \ {b} : Preferred(b, j, c, p, d)
    BY <1>6, <1>7, <1>9 DEF Best
  <1> QED  BY <1>9, <1>10, <1>11, <1>12

-----------------------------------------------------------------------------
(* The scheduler in use. *)

(* Priorities and message counts stay in their range. *)
Counted ==
  /\ st \in [Slots -> {"FREE", "RUNNABLE", "NOT_RUNNABLE"}]
  /\ pr \in [Slots -> Priorities]
  /\ sd \in [Slots -> 0..(SendedMax - 1)]

(* Every step keeps them. *)
LEMMA CountedKept == Counted /\ [Next]_vars => Counted'
  <1> SUFFICES ASSUME Counted, [Next]_vars PROVE Counted'
    OBVIOUS
  <1>1. 0 \in 0..(SendedMax - 1) /\ \A n \in 0..(SendedMax - 1) : CountSend(n) \in 0..(SendedMax - 1)
    BY SchedAssumption DEF CountSend
  <1>2. CASE Tick
    BY <1>2 DEF Tick, Counted
  <1>3. CASE Block
    BY <1>3 DEF Block, Counted
  <1>4. CASE Exit
    BY <1>4 DEF Exit, Counted
  <1>5. ASSUME NEW s \in Slots \ {0}, Exofork(s) PROVE Counted'
    BY <1>1, <1>5, PrioritiesAssumption DEF Exofork, Counted
  <1>6. ASSUME NEW s \in Slots \ {0}, Destroy(s) PROVE Counted'
    BY <1>6 DEF Destroy, Counted
  <1>7. ASSUME NEW s \in Slots \ {0}, Wake(s) PROVE Counted'
    BY <1>7 DEF Wake, Counted
  <1>8. ASSUME NEW s \in Slots \ {0}, Stop(s) PROVE Counted'
    BY <1>8 DEF Stop, Counted
  <1>9. ASSUME NEW s \in Slots \ {0}, Send(s) PROVE Counted'
    BY <1>1, <1>9, PrioritiesAssumption DEF Send, Counted
  <1>10. ASSUME NEW s \in Slots \ {0}, NEW q \in Priorities, SetPriority(s, q) PROVE Counted'
    BY <1>10 DEF SetPriority, Counted
  <1>11. CASE UNCHANGED vars
    BY <1>11 DEF vars, Counted
  <1> QED  BY <1>2, <1>3, <1>4, <1>5, <1>6, <1>7, <1>8, <1>9, <1>10, <1>11 DEF Next

(* Initially nobody has sent anything. *)
LEMMA InitCounted == Init => Counted
  BY SchedAssumption, PrioritiesAssumption DEF Init, Counted

(* Of what can run, everything is eligible. *)
LEMMA CountedChoice == Counted => LoopFindsChoice
  <1> SUFFICES ASSUME Counted, NEW c \in Slots
               PROVE  LET found == SchedLoop(c, st, pr, sd) IN
                      IF \E s \in Slots \ {0} : st[s] = "RUNNABLE"
                      THEN IsChoice(found, c, st, pr, sd)
                      ELSE found = NULL
    BY DEF LoopFindsChoice
  <1>1. pr \in [Slots -> Nat] /\ sd \in [Slots -> Nat]
    <2>1. Priorities \subseteq Nat /\ 0..(SendedMax - 1) \subseteq Nat
      BY PrioritiesAssumption, SchedAssumption
    <2>2. pr \in [Slots -> Priorities] /\ sd \in [Slots -> 0..(SendedMax - 1)]
      BY DEF Counted
    <2>3. ASSUME NEW S, NEW f \in [Slots -> S], S \subseteq Nat PROVE f \in [Slots -> Nat]
      BY <2>3
    <2> QED  BY <2>1, <2>2, <2>3
  <1>2. \A i \in Slots : sd[i] < SendedMax
    BY SchedAssumption DEF Counted
  <1>3. Eligible(st, pr, sd) = {i \in Slots \ {0} : st[i] = "RUNNABLE"}
    BY <1>2 DEF Eligible
  <1> QED  BY <1>1, <1>3, LoopCorrect

(* The loop of sched_yield (kern/sched.c) finds, from wherever it starts   *)
(* and for every number of environments, the runnable environment of       *)
(* highest priority, of those the one that sent the fewest messages, of    *)
(* those the next one in turn; it finds none only if no environment but    *)
(* the idle one can run.                                                   *)
THEOREM LoopChooses == Spec => []LoopFindsChoice
  <1>1. Spec => []Counted
    BY InitCounted, CountedKept, PTL DEF Spec
  <1> QED  BY <1>1, CountedChoice, PTL
=============================================================================

------------------------------ MODULE MCUpcall ------------------------------
(***************************************************************************)
(* Upcall for TLC.  What is below the esp of the running code, and in the  *)
(* part of a frame the kernel does not write, is never read: states that   *)
(* differ only there are the same.                                         *)
(***************************************************************************)
EXTENDS Upcall

Live == UNION {LET lo == IF i = Depth THEN cpu.esp ELSE TrapEsp(i + 1)
                   hi == IF i = 0 THEN UTop ELSE frames[i].utf + UtfWords
               IN lo..(hi - 1) : i \in 0..Depth}
          \cup {mem[Top.utf + 3][2] : x \in {y \in {1} : At(3)}}

View ==
  IF dead THEN <<>>
  ELSE IF overrun THEN <<frames>>
  ELSE <<[a \in Live \cap Addrs |-> mem[a]], cpu, frames, regVars>>
=============================================================================

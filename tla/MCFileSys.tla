------------------------------ MODULE MCFileSys -----------------------------
(* FileSys for TLC: names are interchangeable. *)
EXTENDS FileSys, TLC

NameSymmetry == Permutations(Names)

(* Without crashes the disk never comes back into memory: what is on it,   *)
(* and what is still to be written, can be left out of a state.  So can    *)
(* the old pointers in a free block, which is cleared before it is used.   *)
MemView ==
  <<[mem EXCEPT !.blk = [b \in Blocks |-> IF b \in mem.free THEN mem.blk[b].data ELSE mem.blk[b]]],
    opened, Len(todo)>>

(* Whose data is in a block decides nothing: runs that do not ask for it   *)
(* can leave it out.                                                       *)
Shape(block) == <<block.ptr, block.file>>
Shapes(s)    == <<s.root, s.free, [b \in Blocks |-> Shape(s.blk[b])]>>
DiskView ==
  <<Shapes(mem), Shapes(disk), opened,
    [i \in 1..Len(todo) |-> IF todo[i][1] = "blk" THEN <<todo[i][2], Shape(todo[i][3])>>
                            ELSE todo[i]]>>
=============================================================================

SPECIFICATION Spec
SYMMETRY NameSymmetry
CONSTANTS
  DIRBLOCKS = 2
  BLKFILES = 1
  Names = {a, b}
  NoName = NoName
  NB = 4
  BITS = 4
  BLKSIZE = 1
  NDIRECT = 1
  NINDIRECT = 2
  BelowZero = 0
  MaxSize = 4
  WORD = 16
  Crashes = FALSE
VIEW MemView
INVARIANTS TypeOK BlocksExact NothingPastSize NoForeignData

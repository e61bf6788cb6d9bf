SPECIFICATION Spec
CONSTANTS
  DIRBLOCKS = 1
  BLKFILES = 1
  Names = {a}
  NoName = NoName
  NB = 4
  BITS = 4
  BLKSIZE = 1
  NDIRECT = 1
  NINDIRECT = 2
  BelowZero = 0
  MaxSize = 3
  WORD = 16
  Crashes = TRUE
VIEW DiskView
INVARIANTS NeverReadsFree

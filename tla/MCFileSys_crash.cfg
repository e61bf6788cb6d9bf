SPECIFICATION Spec
SYMMETRY NameSymmetry
CONSTANTS
  DIRBLOCKS = 2
  BLKFILES = 1
  Names = {a, b}
  NoName = NoName
  NB = 3
  BITS = 3
  BLKSIZE = 1
  NDIRECT = 2
  NINDIRECT = 0
  BelowZero = 1
  MaxSize = 3
  WORD = 16
  Crashes = TRUE
VIEW DiskView
INVARIANTS BlocksApart DiskSafe NamesDurable

SPECIFICATION Spec
CHECK_DEADLOCK FALSE
SYMMETRY Symmetry
CONSTANTS
  Clients = {c1, c2}
  MAXOPEN = 2
  MAXFD = 2
  Names = {a, b}
  NoName = NoName
  Files = {1, 2}
  OpenBound = 2
  Modes = {"O_RDWR"}
  Uses = {"write"}
  Null = Null
INVARIANTS TypeOK EntryHeld ServesOwnFile

SPECIFICATION Spec
CHECK_DEADLOCK FALSE
CONSTANTS
  Envs = {e1, e2}
  PDs = {d1, d2}
  PTs = {1, 2}
  Pages = {p1, p2, p3, p4, p5, p6}
  NoPage = NoPage
  RefMod = 16
VIEW Sharing
INVARIANTS TypeOK RefCountExact FreeExact TablesPrivate
PROPERTIES NoWriteUpgrade

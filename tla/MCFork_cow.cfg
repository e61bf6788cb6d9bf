SPECIFICATION Spec
CHECK_DEADLOCK FALSE
VIEW View
CONSTANTS
  Envs = {e1, e2, e3}
  Started = {e1, e2}
  Frames = {p1, p2, p3, p4, p5, p6}
  NPages = 2
  Text = {1}
  Values = {0, 1}
  None = None
INVARIANTS TypeOK WritersAlone CowHandled
PROPERTIES ImplementsPrivateMemory

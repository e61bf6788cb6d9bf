SPECIFICATION Spec
CHECK_DEADLOCK FALSE
CONSTANTS
  UBase = 0
  UTop = 1
  XBase = 4
  XTop = 27
  TfWords = 5
  Values = {"a", "b"}
  VAs = {"v"}
  InstrLen = 2
  MaxOff = 0
  MaxLocals = 1
VIEW View
INVARIANTS TypeOK FramesStacked
PROPERTIES ReturnsToInterrupted

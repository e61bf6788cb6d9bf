SPECIFICATION Spec
CONSTANTS
  NENV = 4
  SendedMax = 3
  Priorities = {0, 1}
  DefaultPriority = 1
  Senders = {1, 2}
INVARIANTS LoopFindsChoice
PROPERTIES TurnsWhileNobodyEnds

SPECIFICATION Spec
CHECK_DEADLOCK FALSE
CONSTANTS
  NENV = 3
  NBoot = 2
  MaxGen = 3
  GenBound = 3
  Priorities = {1}
  PriorityDefault = 1
  SendedMax = 1
  Values = {0}
  Callers = {1, 2}
  Results = {}
  Polite = TRUE
INVARIANTS TypeOK FreeListExact CurenvRunnable RecvingBlocked WaitingSound BlockedSenderQueued
PROPERTIES SchedNeverIdles RegistersIsolated

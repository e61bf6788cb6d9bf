SPECIFICATION LibSpec
CHECK_DEADLOCK FALSE
CONSTANTS
  NENV = 4
  NBoot = 4
  MaxGen = 1
  GenBound = 1
  Priorities = {1}
  PriorityDefault = 1
  SendedMax = 5
  Values = {0, 1, 2, 3, 4}
  Callers = {1, 2, 3}
  Results = {"0", "error"}
  Polite = TRUE
  Receiver = 1
  Sending = {2, 3}
  MsgBound = 4
  Mortal = {2}
INVARIANTS ExactlyOnce AnswersOwnRequest
PROPERTIES SendTerminates

\* Every graph of three tasks, lists with errors, replies that are none; two attempts.
SPECIFICATION FairSpec
CONSTANTS
  a = a
  b = b
  c = c
  other = other
  Replies <- AllReplies
  MaxRetries = 2
INVARIANTS
  CycleVerdictIsRight
  AcceptedGraphsRun
PROPERTIES
  DecompositionEnds
CHECK_DEADLOCK FALSE

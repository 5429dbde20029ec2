\* Two tool calls, each decided up to twice, in two executions of one runtime.
SPECIFICATION FairSpec
CONSTANTS
  Request = {q1, q2}
  MaxDecisions = 2
  MaxExecutions = 2
INVARIANTS
  RunsOnlyApproved
  DeniedForAReason
  HandledAnswerCounts
  NoAnswerMissed
PROPERTIES
  WaitsEnd
CHECK_DEADLOCK FALSE

\* Blocking: a join, a chain and a self-block, each task published once.
SPECIFICATION Spec
CONSTANTS
  a = a
  b = b
  c = c
  card1 = card1
  Task = {a, b, c}
  Runtime = {r1}
  ExecId = {e1, e2, e3}
  Card = {card1, card2}
  NoAttempt = NoAttempt
  NoRuntime = NoRuntime
  NoCard = NoCard
  MaxAttempts = 2
  Dags <- JoinDags
  Rerun = "never"
  Managed = {card1, card2}
  LateBlockers = FALSE
  Audited <- NoEvents
SYMMETRY InterchangeableCards
INVARIANTS
  TypeOK
  BlockedCountsOpenBlockers
  StartedAfterBlockers
  ReadyTasksAreAnnounced
  RetriesContinueTheExecution
PROPERTIES
  ImplementsTaskBoard

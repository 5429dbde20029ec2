\* A publication may list a task that is in progress.
SPECIFICATION FairSpec
CONSTANTS
  a = a
  b = b
  c = c
  card1 = card1
  Task = {a}
  Runtime = {r1}
  ExecId = {e1}
  Card = {card1}
  NoAttempt = NoAttempt
  NoRuntime = NoRuntime
  NoCard = NoCard
  MaxAttempts = 2
  Dags <- SingleDags
  Rerun = "any"
  Managed = {card1}
  LateBlockers = FALSE
  Audited <- NoEvents
PROPERTIES
  AttemptsEnd

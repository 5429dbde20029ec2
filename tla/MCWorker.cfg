\* Two tasks on one process: crash, stop, cancellation (which may return while the
\* next claim is under way), expiry, a call that raises.
SPECIFICATION FairWorkerSpec
CONSTANTS
  a = a
  b = b
  Task = {a, b}
  Runtime = {r1}
  ExecId = {e1, e2}
  Card = {card1}
  NoAttempt = NoAttempt
  NoRuntime = NoRuntime
  NoCard = NoCard
  MaxAttempts = 1
  Dags <- TwoTasks
  Rerun = "never"
  Managed = {card1}
  LateBlockers = FALSE
  Audited <- NoEvents
  MaxErrors = 1

  
PROPERTIES
  AttemptsEnd
  StaleWorkStops
  StopIsObeyed
  

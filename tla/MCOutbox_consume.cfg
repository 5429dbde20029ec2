\* Two messages in a batch, a handler that fails and a process that crashes.
SPECIFICATION Spec
CONSTANTS
  wakeup = wakeup
  control = control
  r1 = r1
  r2 = r2
  Event = {wakeup, control}
  Dispatcher = {d1}
  Consumer = {r1}
  NoConsumer = NoConsumer
  Group <- Directed
  MaxRetries = 1
  BatchSize = 2
  MaxMessages = 2
  Prompt = FALSE
  MaxDeaths = 1
  MaxAbandons = 1
\* The system rests when every event has been dealt with.
CHECK_DEADLOCK FALSE
INVARIANTS
  LossIsOnRecord
PROPERTIES
  ConsumedIsFinal

\* Two dispatchers and the shared pool of two runtimes, under fairness.
SPECIFICATION FairSpec
CONSTANTS
  wakeup = wakeup
  control = control
  r1 = r1
  r2 = r2
  Event = {wakeup}
  Dispatcher = {d1, d2}
  Consumer = {r1, r2}
  NoConsumer = NoConsumer
  Group <- Shared
  MaxRetries = 2
  BatchSize = 2
  MaxMessages = 2
  Prompt = TRUE
  MaxDeaths = 1
  MaxAbandons = 0
\* The system rests when every event has been dealt with.
CHECK_DEADLOCK FALSE
INVARIANTS
  DuplicatesComeFromFailures
PROPERTIES
  PendingIsSettled
  PublishedIsHandled

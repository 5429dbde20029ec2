\* Attempts, retries, leases, crashes and re-runs of ended tasks.
SPECIFICATION Spec
CONSTANTS
  a = a
  b = b
  c = c
  card1 = card1
  Task = {a, b}
  Runtime = {r1, r2}
  ExecId = {e1, e2}
  Card = {card1}
  NoAttempt = NoAttempt
  NoRuntime = NoRuntime
  NoCard = NoCard
  MaxAttempts = 2
  Dags <- PairDags
  Rerun = "ended"
  Managed = {}
  LateBlockers = TRUE
  Audited <- OutcomeEvents
SYMMETRY InterchangeableTasks
INVARIANTS
  AttemptAndTaskAgree
  RuntimeFollowsAttempt
  OneLiveAttemptPerProcess
  OutcomeOfLatestAttempt
  AuditClosesTheAttempt
PROPERTIES
  EndedAttemptsAreFinal
  OnlyCurrentAttemptDecides

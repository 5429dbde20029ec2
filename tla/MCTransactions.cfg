\* Two transactions at a time on a graph in two parts: completions that share their
\* dependents, a publication that links to the dependents of one, expiry and
\* cancellation in between.
SPECIFICATION TransactionsSpec
CONSTANTS
  a = a
  b = b
  c = c
  d = d
  Task = {a, b, c, d}
  Runtime = {r1, r2}
  ExecId = {e1, e2}
  Card = {card1}
  NoAttempt = NoAttempt
  NoRuntime = NoRuntime
  NoCard = NoCard
  MaxAttempts = 1
  Dags <- SharedDependents
  Rerun = "never"
  Managed = {}
  LateBlockers = FALSE
  Audited <- LoadEvents
  Connection = {x1, x2}
SYMMETRY Interchangeable
INVARIANTS
  BlockedIsExactUnlessLate
  DeadlocksOnlyAmongDependents
PROPERTIES
  CommitsAreAtomic

------------------------- MODULE DagSchedulerProofs -------------------------
(***************************************************************************)
(* What DagScheduler promises for any number of tasks, runtimes and        *)
(* attempts and any sequence of publications: of the tasks and their       *)
(* attempts, of the rows of the runtimes, and of the audit trail.          *)
(***************************************************************************)
EXTENDS DagScheduler, FiniteSetTheorems, TLAPS

\* A recount finds a natural number of blockers.
LEMMA RemainingIsFinite ==
    ASSUME NEW rows, NEW t
    PROVE  Cardinality(Remaining(rows, t)) \in Nat
<1>1. Remaining(rows, t) \in SUBSET Task
  BY DEF Remaining, Blockers
<1>2. IsFiniteSet(Remaining(rows, t))
  BY <1>1, FS_Subset, BoundAssumption
<1>. QED
  BY <1>2, FS_CardinalityType

\* The recount changes blocked_by_count alone.
LEMMA RecountedRows ==
    ASSUME NEW rows \in [Task -> TaskRow], NEW t
    PROVE  /\ Recounted(rows, t) \in [Task -> TaskRow]
           /\ \A d \in Task : /\ Recounted(rows, t)[d].status = rows[d].status
                              /\ Recounted(rows, t)[d].current = rows[d].current
                              /\ Recounted(rows, t)[d].owner = rows[d].owner
<1>1. \A d \in Task : Cardinality(Remaining(rows, d)) \in Nat
  BY RemainingIsFinite
<1>2. \A d \in Task : /\ [rows[d] EXCEPT !.blocked = Cardinality(Remaining(rows, d))] \in TaskRow
                      /\ [rows[d] EXCEPT !.blocked = Cardinality(Remaining(rows, d))].status = rows[d].status
                      /\ [rows[d] EXCEPT !.blocked = Cardinality(Remaining(rows, d))].current = rows[d].current
                      /\ [rows[d] EXCEPT !.blocked = Cardinality(Remaining(rows, d))].owner = rows[d].owner
  BY <1>1 DEF TaskRow
<1>. QED
  BY <1>2 DEF Recounted

\* Closing an attempt keeps the columns of its row that name other rows.
LEMMA ClosedRows ==
    ASSUME TypeOK, NEW k \in Made, NEW status \in EndedStatus
    PROVE  /\ DOMAIN Closed(k, status) = Made
           /\ Closed(k, status) \in [Made -> AttemptRow]
BY DEF TypeOK, Closed, AttemptRow

\* Releasing a task keeps the attempt it points at.
LEMMA ReleasedRows ==
    ASSUME TypeOK, NEW k \in Made, NEW status \in TaskStatus
    PROVE  /\ Released(k, status) \in [Task -> TaskRow]
           /\ \A t \in Task : Released(k, status)[t].current = task[t].current
<1>1. attempt[k].task \in Task
  BY DEF TypeOK, AttemptRow
<1>2. \A t \in Task : /\ [task[t] EXCEPT !.status = status, !.owner = NoRuntime] \in TaskRow
                      /\ [task[t] EXCEPT !.status = status, !.owner = NoRuntime].current = task[t].current
  BY DEF TypeOK, TaskRow
<1>. QED
  BY <1>1, <1>2 DEF TypeOK, Released

\* Setting a runtime to unloading keeps the attempt it points at.
LEMMA UnloadingRows ==
    ASSUME TypeOK, NEW k
    PROVE  /\ SetRuntimeUnloading(k) \in [Runtime -> RuntimeRow]
           /\ \A r \in Runtime : SetRuntimeUnloading(k)[r].current = runtime[r].current
BY DEF TypeOK, SetRuntimeUnloading, RuntimeRow, BusyStatus

\* The audit trail of an attempt holds audited types only.
LEMMA RecordedEvents ==
    ASSUME TypeOK, NEW k \in Made, NEW evs
    PROVE  /\ DOMAIN Record(k, evs) = Made
           /\ Record(k, evs) \in [Made -> SUBSET Audited]
BY DEF TypeOK, Record

-----------------------------------------------------------------------------
(* A step with room in it: a publication may name any blocker, and a        *)
(* completion may leave the count of a dependent too high.  What holds of   *)
(* such steps holds of those of DagScheduler, and of what the transactions  *)
(* of TaskTransactions commit when a dependency is stored late.             *)

\* complete_execution, whatever its recount has found as long as no count gets too low.
Completes(k) ==
    /\ k \in held
    /\ IsCurrentAttempt(k)
    /\ attempt' = Closed(k, "completed")
    /\ task' \in [Task -> TaskRow]
    /\ \A t \in Task :
          LET row == Released(k, "completed")[t] IN
          /\ task'[t].status = row.status
          /\ task'[t].current = row.current
          /\ task'[t].owner = row.owner
          /\ \/ task'[t].blocked = task[t].blocked
             \/ task'[t].blocked >= Cardinality(OpenBlockers(t)')
    /\ available' \subseteq Task
    /\ runtime' = SetRuntimeUnloading(k)
    /\ events' = Record(k, {"execution.completed", "card.unload_started"})
    /\ UNCHANGED <<deps, cards, up, held>>

\* The steps that neither publish nor complete.
OtherNext ==
    \/ \E c \in Managed : SetCardStatus(c)
    \/ \E r \in Runtime : RegisterRuntime(r) \/ StopRuntime(r) \/ CrashRuntime(r)
    \/ \E r \in Runtime, t \in Task :
          \/ \E e \in ExecId : ClaimFirstAttempt(r, t, e)
          \/ ClaimRetry(r, t)
          \/ ClaimWithoutCard(r, t)
    \/ \E k \in held :
          \/ RejectStale(k) \/ RecordLoadEvent(k) \/ MarkExecutionStarted(k)
          \/ RenewLease(k) \/ FailExecution(k) \/ CancelExecution(k)
          \/ FinishCardUnload(k) \/ FailCardUnload(k) \/ DropClaim(k)
    \/ \E k \in Made : LeaseExpires(k)
    \/ \E S \in SUBSET Reclaimable : ReclaimLeasedTasks(S)

LooseNext ==
    \/ \E dag \in Dags : InsertDag(dag)
    \/ \E k \in held : Completes(k)
    \/ OtherNext

\* A completion that recounts leaves no count too low.
LEMMA CompleteIsLoose ==
    ASSUME TypeOK, NEW k \in held, CompleteExecution(k)
    PROVE  Completes(k)
<1>1. k \in Made /\ attempt[k].task \in Task
  BY DEF TypeOK, AttemptRow
<1>. PICK rows : rows = Released(k, "completed")
  OBVIOUS
<1>2. rows \in [Task -> TaskRow] /\ task' = Recounted(rows, attempt[k].task)
  BY <1>1, ReleasedRows DEF CompleteExecution, TaskStatus
<1>3. /\ task' \in [Task -> TaskRow]
      /\ \A t \in Task : /\ task'[t].status = rows[t].status
                         /\ task'[t].current = rows[t].current
                         /\ task'[t].owner = rows[t].owner
  BY <1>2, RecountedRows
<1>4. ASSUME NEW t \in Task
      PROVE  \/ task'[t].blocked = task[t].blocked
             \/ task'[t].blocked >= Cardinality(OpenBlockers(t)')
  <2>1. CASE t \in Dependents(attempt[k].task)
    <3>1. Remaining(rows, t) = OpenBlockers(t)'
      <4>1. deps' = deps
        BY DEF CompleteExecution
      <4>. QED
        BY <1>3, <4>1 DEF Remaining, Blockers, OpenBlockers
    <3>2. task'[t].blocked = Cardinality(Remaining(rows, t))
      BY <1>2, <2>1 DEF Recounted, TaskRow
    <3>3. Cardinality(Remaining(rows, t)) \in Nat
      BY RemainingIsFinite
    <3>. QED
      BY <3>1, <3>2, <3>3
  <2>2. CASE t \notin Dependents(attempt[k].task)
    <3>1. task'[t] = rows[t]
      BY <1>2, <2>2 DEF Recounted
    <3>2. rows[t].blocked = task[t].blocked
      <4>1. /\ task[t] \in TaskRow
            /\ rows[t] \in {task[t], [task[t] EXCEPT !.status = "completed", !.owner = NoRuntime]}
        BY <1>1 DEF TypeOK, Released
      <4>2. [task[t] EXCEPT !.status = "completed", !.owner = NoRuntime].blocked = task[t].blocked
        BY <4>1 DEF TaskRow
      <4>. QED
        BY <4>1, <4>2
    <3>. QED
      BY <3>1, <3>2
  <2>. QED
    BY <2>1, <2>2
<1>5. available' \subseteq Task
  BY DEF CompleteExecution, TypeOK, Unblocked, Dependents
<1>. QED
  BY <1>3, <1>4, <1>5 DEF CompleteExecution, Completes

\* So every step of the scheduler is such a step.
LEMMA NextIsLoose == TypeOK /\ [Next]_vars => [LooseNext]_vars
<1>. SUFFICES ASSUME TypeOK, Next PROVE LooseNext
  OBVIOUS
<1>1. CASE \E dag \in Dags : PublishDag(dag)
  BY <1>1 DEF PublishDag, LooseNext
<1>2. CASE \E k \in held : CompleteExecution(k)
  BY <1>2, CompleteIsLoose DEF LooseNext
<1>. QED
  BY <1>1, <1>2 DEF Next, LooseNext, OtherNext

-----------------------------------------------------------------------------
(* Type correctness, one lemma for each group of actions. *)

\* A publication writes rows of the right type.
LEMMA InsertDagType ==
    ASSUME TypeOK, NEW dag \in Dags, InsertDag(dag)
    PROVE  TypeOK'
<1>1. /\ DOMAIN dag \subseteq Task
      /\ \A t \in DOMAIN dag : /\ dag[t].blockedBy \subseteq Task
                               /\ dag[t].selector \in Card \cup {NoCard}
  BY DagsAssumption
<1>2. \A t \in DOMAIN dag : Cardinality(dag[t].blockedBy) \in Nat
  BY <1>1, FS_Subset, FS_CardinalityType, BoundAssumption
<1>3. task' \in [Task -> TaskRow]
  BY <1>1, <1>2 DEF InsertDag, TypeOK, TaskRow, TaskStatus
<1>4. \A t \in Task : task'[t].current \in Made \cup {NoAttempt}
  BY <1>1 DEF InsertDag, TypeOK
<1>5. deps' \subseteq Task \X Task /\ available' \subseteq Task
  BY <1>1 DEF InsertDag, TypeOK
<1>. QED
  BY <1>3, <1>4, <1>5 DEF InsertDag, TypeOK, Made

\* So do registration, stop and crash.
LEMMA RuntimeType ==
    ASSUME TypeOK, NEW r \in Runtime,
           RegisterRuntime(r) \/ StopRuntime(r) \/ CrashRuntime(r)
    PROVE  TypeOK'
<1>1. Forget(r) \subseteq held
  BY DEF Forget
<1>2. CASE RegisterRuntime(r)
  BY <1>2 DEF RegisterRuntime, TypeOK, RuntimeRow, Made
<1>3. CASE StopRuntime(r)
  BY <1>1, <1>3 DEF StopRuntime, TypeOK, RuntimeRow, Made
<1>4. CASE CrashRuntime(r)
  BY <1>1, <1>4 DEF CrashRuntime, TypeOK, Made
<1>. QED
  BY <1>2, <1>3, <1>4

\* What the two kinds of claim write has the right type.
LEMMA ClaimedType ==
    ASSUME TypeOK, NEW r \in Runtime, NEW t \in Task, NEW k \in Attempt, NEW card \in Card,
           Claimed(r, t, k, card)
    PROVE  TypeOK'
<1>1. Made' = Made \cup {k} /\ attempt' \in [Made \cup {k} -> AttemptRow]
  BY DEF Claimed, TypeOK, Made, AttemptRow, ActiveStatus
<1>2. events' \in [Made \cup {k} -> SUBSET Audited]
  BY DEF Claimed, TypeOK
<1>3. [task[t] EXCEPT !.status = "in_progress", !.current = k, !.owner = r] \in TaskRow
  BY DEF TypeOK, TaskRow, TaskStatus
<1>4. task' \in [Task -> TaskRow]
  BY <1>3 DEF Claimed, TypeOK
<1>5. \A u \in Task : task'[u].current \in Made \cup {k, NoAttempt}
  BY DEF Claimed, TypeOK, TaskRow
<1>6. runtime' \in [Runtime -> RuntimeRow]
  BY DEF Claimed, TypeOK, RuntimeRow, BusyStatus
<1>7. \A s \in Runtime : runtime'[s].current \in Made \cup {k, NoAttempt}
  BY DEF Claimed, TypeOK
<1>. QED
  BY <1>1, <1>2, <1>4, <1>5, <1>6, <1>7 DEF Claimed, TypeOK

\* Every outcome of claim_next_available_task keeps the types.
LEMMA ClaimType ==
    ASSUME TypeOK, NEW r \in Runtime, NEW t \in Task,
           \/ \E e \in ExecId : ClaimFirstAttempt(r, t, e)
           \/ ClaimRetry(r, t)
           \/ ClaimWithoutCard(r, t)
    PROVE  TypeOK'
<1>1. CASE \E e \in ExecId : ClaimFirstAttempt(r, t, e)
  <2>1. PICK e \in ExecId : ClaimFirstAttempt(r, t, e)
    BY <1>1
  <2>2. ResolvedCard(t) \in Card
    BY <2>1 DEF ClaimFirstAttempt, ResolvedCard, TypeOK
  <2>3. <<e, 1>> \in Attempt
    BY DEF Attempt
  <2>. QED
    BY <2>1, <2>2, <2>3, ClaimedType DEF ClaimFirstAttempt
<1>2. CASE ClaimRetry(r, t)
  <2>1. task[t].current \in Made /\ task[t].current \in Attempt
    BY <1>2 DEF ClaimRetry, TypeOK
  <2>2. FrozenCard(task[t].current) \in Card
    BY <1>2, <2>1 DEF ClaimRetry, FrozenCard, TypeOK
  <2>3. <<task[t].current[1], task[t].current[2] + 1>> \in Attempt
    BY <2>1 DEF Attempt
  <2>. QED
    BY <1>2, <2>2, <2>3, ClaimedType DEF ClaimRetry
<1>3. CASE ClaimWithoutCard(r, t)
  <2>1. [task[t] EXCEPT !.status = "failed", !.owner = NoRuntime] \in TaskRow
    BY DEF TypeOK, TaskRow, TaskStatus
  <2>2. task' \in [Task -> TaskRow]
    BY <1>3, <2>1 DEF ClaimWithoutCard, TypeOK
  <2>3. \A u \in Task : task'[u].current = task[u].current
    BY <1>3 DEF ClaimWithoutCard, TypeOK
  <2>. QED
    BY <1>3, <2>2, <2>3 DEF ClaimWithoutCard, TypeOK, Made
<1>. QED
  BY <1>1, <1>2, <1>3
\* The three ways in which a call of the runtime ends an attempt.
LEMMA EndType ==
    ASSUME TypeOK, NEW k \in held,
           Completes(k) \/ FailExecution(k) \/ CancelExecution(k)
    PROVE  TypeOK'
<1>1. k \in Made
  BY DEF TypeOK
<1>2. PICK status \in EndedStatus : attempt' = Closed(k, status)
  BY DEF Completes, FailExecution, CancelExecution, EndedStatus
<1>3. Made' = Made /\ attempt' \in [Made -> AttemptRow]
  BY <1>1, <1>2, ClosedRows DEF Made
<1>4. events' \in [Made -> SUBSET Audited]
  BY <1>1, RecordedEvents DEF Completes, FailExecution, CancelExecution
<1>5. /\ runtime' \in [Runtime -> RuntimeRow]
      /\ \A r \in Runtime : runtime'[r].current = runtime[r].current
  BY UnloadingRows DEF Completes, FailExecution, CancelExecution
<1>6. /\ task' \in [Task -> TaskRow]
      /\ \A t \in Task : task'[t].current = task[t].current
  <2>1. CASE Completes(k)
    BY <1>1, <2>1, ReleasedRows, RecountedRows DEF Completes, TaskStatus
  <2>2. CASE FailExecution(k)
    BY <1>1, <2>2, ReleasedRows DEF FailExecution, TaskStatus
  <2>3. CASE CancelExecution(k)
    BY <1>1, <2>3, ReleasedRows DEF CancelExecution, TaskStatus
  <2>. QED
    BY <2>1, <2>2, <2>3
<1>7. available' \subseteq Task
  <2>1. attempt[k].task \in Task
    BY <1>1 DEF TypeOK, AttemptRow
  <2>. QED
    BY <2>1 DEF Completes, FailExecution, CancelExecution, TypeOK, Unblocked, Dependents
<1>. QED
  BY <1>3, <1>4, <1>5, <1>6, <1>7 DEF Completes, FailExecution, CancelExecution, TypeOK

\* The calls that leave the attempt and its task alive.
LEMMA CallType ==
    ASSUME TypeOK, NEW k \in held,
           \/ RejectStale(k) \/ RecordLoadEvent(k) \/ MarkExecutionStarted(k)
           \/ RenewLease(k) \/ FinishCardUnload(k) \/ FailCardUnload(k) \/ DropClaim(k)
    PROVE  TypeOK'
<1>1. k \in Made /\ attempt[k].runtime \in Runtime
  BY DEF TypeOK, AttemptRow
<1>2. events' \in [Made -> SUBSET Audited]
  BY <1>1, RecordedEvents DEF TypeOK, RejectStale, RecordLoadEvent, MarkExecutionStarted,
     RenewLease, FinishCardUnload, FailCardUnload, DropClaim
<1>3. CASE RejectStale(k) \/ RecordLoadEvent(k) \/ FailCardUnload(k)
  BY <1>2, <1>3 DEF TypeOK, RejectStale, RecordLoadEvent, FailCardUnload, Made
<1>4. CASE MarkExecutionStarted(k)
  <2>1. [attempt[k] EXCEPT !.status = "running", !.lease = "live"] \in AttemptRow
    BY <1>1 DEF TypeOK, AttemptRow, ActiveStatus
  <2>2. Made' = Made /\ attempt' \in [Made -> AttemptRow]
    BY <1>1, <1>4, <2>1 DEF TypeOK, MarkExecutionStarted, Made
  <2>3. /\ runtime' \in [Runtime -> RuntimeRow]
        /\ \A r \in Runtime : runtime'[r].current = runtime[r].current
    BY <1>1, <1>4 DEF TypeOK, MarkExecutionStarted, RuntimeRow, BusyStatus
  <2>. QED
    BY <1>2, <1>4, <2>2, <2>3 DEF TypeOK, MarkExecutionStarted
<1>5. CASE RenewLease(k)
  <2>1. Made' = Made /\ attempt' \in [Made -> AttemptRow]
    BY <1>1, <1>5 DEF TypeOK, RenewLease, Made, AttemptRow
  <2>. QED
    BY <1>2, <1>5, <2>1 DEF TypeOK, RenewLease
<1>6. CASE FinishCardUnload(k)
  <2>1. /\ runtime' \in [Runtime -> RuntimeRow]
        /\ \A r \in Runtime : runtime'[r].current \in {runtime[r].current, NoAttempt}
    BY <1>1, <1>6 DEF TypeOK, FinishCardUnload, RuntimeRow
  <2>. QED
    BY <1>2, <1>6, <2>1 DEF TypeOK, FinishCardUnload, Made
<1>7. CASE DropClaim(k)
  BY <1>2, <1>7 DEF TypeOK, DropClaim, Made
<1>. QED
  BY <1>3, <1>4, <1>5, <1>6, <1>7

\* Expiry and reclaim keep the types.
LEMMA LeaseType ==
    ASSUME TypeOK,
           \/ \E k \in Made : LeaseExpires(k)
           \/ \E S \in SUBSET Reclaimable : ReclaimLeasedTasks(S)
    PROVE  TypeOK'
<1>1. ASSUME NEW k \in Made, LeaseExpires(k)
      PROVE  TypeOK'
  <2>1. Made' = Made /\ attempt' \in [Made -> AttemptRow]
    BY <1>1 DEF TypeOK, LeaseExpires, Made, AttemptRow
  <2>. QED
    BY <1>1, <2>1 DEF TypeOK, LeaseExpires
<1>2. ASSUME NEW S \in SUBSET Reclaimable, ReclaimLeasedTasks(S)
      PROVE  TypeOK'
  <2>1. \A k \in Made : [attempt[k] EXCEPT !.status = "expired", !.lease = "none"] \in AttemptRow
    BY DEF TypeOK, AttemptRow, EndedStatus
  <2>2. Made' = Made /\ attempt' \in [Made -> AttemptRow]
    BY <1>2, <2>1 DEF TypeOK, ReclaimLeasedTasks, Made
  <2>3. \A t \in Task, status \in TaskStatus :
          /\ [task[t] EXCEPT !.status = status, !.owner = NoRuntime] \in TaskRow
          /\ [task[t] EXCEPT !.status = status, !.owner = NoRuntime].current = task[t].current
    BY DEF TypeOK, TaskRow
  <2>4. /\ task' \in [Task -> TaskRow]
        /\ \A t \in Task : task'[t].current = task[t].current
    <3>1. ASSUME NEW t \in Task PROVE task'[t] \in TaskRow /\ task'[t].current = task[t].current
      <4>1. \/ task'[t] = task[t]
            \/ \E status \in TaskStatus :
                  task'[t] = [task[t] EXCEPT !.status = status, !.owner = NoRuntime]
        BY <1>2 DEF ReclaimLeasedTasks, TaskStatus
      <4>2. task[t] \in TaskRow
        BY DEF TypeOK
      <4>. QED
        BY <2>3, <4>1, <4>2
    <3>2. task' \in [Task -> TaskRow]
      BY <1>2, <3>1 DEF ReclaimLeasedTasks
    <3>. QED
      BY <3>1, <3>2
  <2>5. /\ runtime' \in [Runtime -> RuntimeRow]
        /\ \A r \in Runtime : runtime'[r].current \in {runtime[r].current, NoAttempt}
    BY <1>2 DEF TypeOK, ReclaimLeasedTasks, RuntimeRow
  <2>6. events' \in [Made -> SUBSET Audited]
    BY <1>2 DEF TypeOK, ReclaimLeasedTasks
  <2>. QED
    BY <1>2, <2>2, <2>4, <2>5, <2>6 DEF TypeOK, ReclaimLeasedTasks
<1>. QED
  BY <1>1, <1>2

\* The empty tables have the right types.
LEMMA InitType == Init => TypeOK
BY DEF Init, TypeOK, Made, TaskRow, TaskStatus, RuntimeRow

\* TypeOK is inductive.
LEMMA NextType == TypeOK /\ [LooseNext]_vars => TypeOK'
<1>. SUFFICES ASSUME TypeOK, [LooseNext]_vars PROVE TypeOK'
  OBVIOUS
<1>1. CASE \E dag \in Dags : InsertDag(dag)
  BY <1>1, InsertDagType
<1>2. CASE \E c \in Managed : SetCardStatus(c)
  BY <1>2, BoundAssumption DEF SetCardStatus, TypeOK, Made
<1>3. CASE \E r \in Runtime : RegisterRuntime(r) \/ StopRuntime(r) \/ CrashRuntime(r)
  BY <1>3, RuntimeType
<1>4. CASE \E r \in Runtime, t \in Task :
             \/ \E e \in ExecId : ClaimFirstAttempt(r, t, e)
             \/ ClaimRetry(r, t)
             \/ ClaimWithoutCard(r, t)
  BY <1>4, ClaimType
<1>5. CASE \E k \in held :
             Completes(k) \/ FailExecution(k) \/ CancelExecution(k)
  BY <1>5, EndType
<1>6. CASE \E k \in held :
             \/ RejectStale(k) \/ RecordLoadEvent(k) \/ MarkExecutionStarted(k)
             \/ RenewLease(k) \/ FinishCardUnload(k) \/ FailCardUnload(k) \/ DropClaim(k)
  BY <1>6, CallType
<1>7. CASE \/ \E k \in Made : LeaseExpires(k)
           \/ \E S \in SUBSET Reclaimable : ReclaimLeasedTasks(S)
  BY <1>7, LeaseType
<1>8. CASE UNCHANGED vars
  BY <1>8 DEF vars, TypeOK, Made
<1>. QED
  BY <1>1, <1>2, <1>3, <1>4, <1>5, <1>6, <1>7, <1>8 DEF LooseNext, OtherNext

\* Every column keeps its type and every reference to an attempt names a row of
\* task_executions, whatever is published and however calls are interleaved.
THEOREM TypeCorrect == Spec => []TypeOK
BY InitType, NextType, NextIsLoose, PTL DEF Spec

-----------------------------------------------------------------------------
(* The history of an execution.  The invariant says of each task where its *)
(* current attempt stands: this is what makes a retry the next attempt of  *)
(* the same execution and keeps the rows of ended attempts as they are.    *)

TaskInProgressIsRun ==
    \A t \in Task : task[t].status = "in_progress" =>
        task[t].current \in Made /\ Active(task[t].current)

HeadInv ==
    /\ TypeOK
    /\ CurrentIsLatest
    /\ OutcomeOfLatestAttempt
    /\ TaskInProgressIsRun

\* What the claim of attempt k rests on.
LEMMA ClaimsANewRow ==
    ASSUME HeadInv, NEW r \in Runtime, NEW t \in Task
    PROVE  /\ \A e \in ExecId : ClaimFirstAttempt(r, t, e) =>
                 /\ <<e, 1>> \in Attempt \ Made
                 /\ <<e, 2>> \notin Made
                 /\ ResolvedCard(t) \in Card
           /\ ClaimRetry(r, t) =>
                 LET k == task[t].current
                     next == <<k[1], k[2] + 1>>
                 IN /\ k \in Made /\ k[2] \in Nat \ {0}
                    /\ attempt[k].task = t
                    /\ attempt[k].status \in {"failed", "expired"}
                    /\ FrozenCard(k) = attempt[k].card
                    /\ FrozenCard(k) \in Card
                    /\ k[2] < MaxAttempts
                    /\ next \in Attempt \ Made
<1>1. ASSUME NEW e \in ExecId, ClaimFirstAttempt(r, t, e)
      PROVE  /\ <<e, 1>> \in Attempt \ Made
             /\ <<e, 2>> \notin Made
             /\ ResolvedCard(t) \in Card
  <2>1. \A k \in Made : k[1] # e
    BY <1>1 DEF ClaimFirstAttempt
  <2>2. <<e, 1>> \in Attempt /\ <<e, 1>>[1] = e /\ <<e, 2>>[1] = e
    BY DEF Attempt
  <2>3. ResolvedCard(t) \in Card
    BY <1>1 DEF ClaimFirstAttempt, ResolvedCard, HeadInv, TypeOK
  <2>. QED
    BY <2>1, <2>2, <2>3
<1>2. ASSUME ClaimRetry(r, t)
      PROVE  LET k == task[t].current
                 next == <<k[1], k[2] + 1>>
             IN /\ k \in Made /\ k[2] \in Nat \ {0}
                /\ attempt[k].task = t
                /\ attempt[k].status \in {"failed", "expired"}
                /\ FrozenCard(k) = attempt[k].card
                /\ FrozenCard(k) \in Card
                /\ k[2] < MaxAttempts
                /\ next \in Attempt \ Made
  <2>. DEFINE k == task[t].current
  <2>1. k # NoAttempt /\ task[t].status = "pending" /\ FrozenCard(k) # NoCard
    BY <1>2 DEF ClaimRetry, Ready
  <2>2. k \in Made /\ k \in Attempt
    BY <2>1 DEF HeadInv, TypeOK
  <2>3. k[1] \in ExecId /\ k[2] \in Nat \ {0} /\ <<k[1], k[2] + 1>> \in Attempt
    BY <2>2 DEF Attempt
  <2>4. attempt[k].task = t /\ \A j \in Made : j[1] = k[1] => j[2] <= k[2]
    BY <2>1 DEF HeadInv, CurrentIsLatest
  <2>7. <<k[1], k[2] + 1>> \notin Made
    BY <2>3, <2>4
  <2>5. attempt[k].status \in {"failed", "expired"} /\ k[2] < MaxAttempts
    BY <2>1 DEF HeadInv, OutcomeOfLatestAttempt
  <2>6. FrozenCard(k) = attempt[k].card /\ FrozenCard(k) \in Card
    BY <2>1 DEF FrozenCard, HeadInv, TypeOK
  <2>. QED
    BY <2>2, <2>3, <2>4, <2>5, <2>6, <2>7
<1>. QED
  BY <1>1, <1>2

\* No step removes a row of task_executions, moves it to another task, runtime
\* or card, or changes it after the attempt ended.
LEMMA RowsStay ==
    ASSUME HeadInv, [LooseNext]_vars
    PROVE  \A k \in Made :
              /\ k \in Made'
              /\ attempt'[k].task = attempt[k].task
              /\ attempt'[k].card = attempt[k].card
              /\ attempt'[k].runtime = attempt[k].runtime
              /\ ~ Active(k) => attempt'[k] = attempt[k]
<1>. USE DEF HeadInv
<1>1. CASE attempt' = attempt
  BY <1>1 DEF Made
<1>2. ASSUME NEW k, NEW r \in Runtime, NEW t \in Task, NEW card, Claimed(r, t, k, card), k \notin Made
      PROVE  \A j \in Made : j \in Made' /\ attempt'[j] = attempt[j]
  BY <1>2 DEF Claimed, Made
<1>3. CASE \E r \in Runtime, t \in Task :
             \/ \E e \in ExecId : ClaimFirstAttempt(r, t, e)
             \/ ClaimRetry(r, t)
  <2>1. PICK r \in Runtime, t \in Task :
             \/ \E e \in ExecId : ClaimFirstAttempt(r, t, e)
             \/ ClaimRetry(r, t)
    BY <1>3
  <2>2. \A j \in Made : j \in Made' /\ attempt'[j] = attempt[j]
    <3>1. CASE \E e \in ExecId : ClaimFirstAttempt(r, t, e)
      BY <3>1, <1>2, ClaimsANewRow DEF ClaimFirstAttempt
    <3>2. CASE ClaimRetry(r, t)
      BY <3>2, <1>2, ClaimsANewRow DEF ClaimRetry
    <3>. QED
      BY <2>1, <3>1, <3>2
  <2>. QED
    BY <2>2
<1>4. ASSUME NEW j \in Made, NEW row, attempt' = [attempt EXCEPT ![j] = row], Active(j),
             row.task = attempt[j].task, row.card = attempt[j].card,
             row.runtime = attempt[j].runtime
      PROVE  \A k \in Made :
                /\ k \in Made'
                /\ attempt'[k].task = attempt[k].task
                /\ attempt'[k].card = attempt[k].card
                /\ attempt'[k].runtime = attempt[k].runtime
                /\ ~ Active(k) => attempt'[k] = attempt[k]
  BY <1>4 DEF TypeOK, Made
<1>5. CASE \E k \in held :
             Completes(k) \/ FailExecution(k) \/ CancelExecution(k)
  <2>1. PICK k \in held, status \in EndedStatus : Active(k) /\ attempt' = Closed(k, status)
    BY <1>5 DEF Completes, FailExecution, CancelExecution, IsCurrentAttempt, EndedStatus
  <2>2. k \in Made
    BY <2>1 DEF TypeOK
  <2>. DEFINE row == [attempt[k] EXCEPT !.status = status, !.lease = "none"]
  <2>3. row.task = attempt[k].task /\ row.card = attempt[k].card /\ row.runtime = attempt[k].runtime
    BY <2>2 DEF TypeOK, AttemptRow
  <2>4. attempt' = [attempt EXCEPT ![k] = row]
    BY <2>1 DEF Closed
  <2>. HIDE DEF row
  <2>. QED
    BY <1>4, <2>1, <2>2, <2>3, <2>4
<1>6. CASE \E k \in held : MarkExecutionStarted(k)
  <2>1. PICK k \in held : MarkExecutionStarted(k)
    BY <1>6
  <2>2. k \in Made
    BY <2>1 DEF TypeOK
  <2>. DEFINE row == [attempt[k] EXCEPT !.status = "running", !.lease = "live"]
  <2>3. row.task = attempt[k].task /\ row.card = attempt[k].card /\ row.runtime = attempt[k].runtime
    BY <2>2 DEF TypeOK, AttemptRow
  <2>4. attempt' = [attempt EXCEPT ![k] = row] /\ Active(k)
    BY <2>1 DEF MarkExecutionStarted, IsCurrentAttempt
  <2>. HIDE DEF row
  <2>. QED
    BY <1>4, <2>2, <2>3, <2>4
<1>7. CASE \/ \E k \in held : RenewLease(k)
           \/ \E k \in Made : LeaseExpires(k)
  <2>1. PICK k \in Made, lease \in {"live", "expired"} :
            Active(k) /\ attempt' = [attempt EXCEPT ![k].lease = lease]
    BY <1>7 DEF RenewLease, LeaseExpires, IsCurrentAttempt, TypeOK
  <2>. DEFINE row == [attempt[k] EXCEPT !.lease = lease]
  <2>2. row.task = attempt[k].task /\ row.card = attempt[k].card /\ row.runtime = attempt[k].runtime
    BY DEF TypeOK, AttemptRow
  <2>3. attempt' = [attempt EXCEPT ![k] = row]
    BY <2>1
  <2>. HIDE DEF row
  <2>. QED
    BY <1>4, <2>1, <2>2, <2>3
<1>8. CASE \E S \in SUBSET Reclaimable : ReclaimLeasedTasks(S)
  <2>1. PICK S \in SUBSET Reclaimable : ReclaimLeasedTasks(S)
    BY <1>8
  <2>2. \A k \in S : Active(k)
    BY DEF Reclaimable
  <2>3. \A k \in Made :
           LET row == [attempt[k] EXCEPT !.status = "expired", !.lease = "none"] IN
           row.task = attempt[k].task /\ row.card = attempt[k].card /\ row.runtime = attempt[k].runtime
    BY DEF TypeOK, AttemptRow
  <2>. QED
    BY <2>1, <2>2, <2>3 DEF ReclaimLeasedTasks, Made
<1>9. CASE \/ \E dag \in Dags : InsertDag(dag)
           \/ \E c \in Managed : SetCardStatus(c)
           \/ \E r \in Runtime : RegisterRuntime(r) \/ StopRuntime(r) \/ CrashRuntime(r)
           \/ \E r \in Runtime, t \in Task : ClaimWithoutCard(r, t)
           \/ \E k \in held : \/ RejectStale(k) \/ RecordLoadEvent(k)
                               \/ FinishCardUnload(k) \/ FailCardUnload(k) \/ DropClaim(k)
           \/ UNCHANGED vars
  <2>1. attempt' = attempt
    BY <1>9 DEF InsertDag, SetCardStatus, RegisterRuntime, StopRuntime, CrashRuntime,
       ClaimWithoutCard, RejectStale, RecordLoadEvent, FinishCardUnload, FailCardUnload, DropClaim, vars
  <2>. QED
    BY <1>1, <2>1
<1>. QED
  BY <1>3, <1>5, <1>6, <1>7, <1>8, <1>9 DEF LooseNext, OtherNext

\* The invariant for one task.
HeadOf(t) ==
    LET k == task[t].current IN
    /\ k # NoAttempt => /\ attempt[k].task = t
                        /\ \A j \in Made : j[1] = k[1] => j[2] <= k[2]
    /\ task[t].status \in {"completed", "cancelled"} =>
          k \in Made /\ attempt[k].status = task[t].status
    /\ task[t].status \in {"pending", "failed"} /\ k # NoAttempt =>
          attempt[k].status \in {"failed", "expired"}
    /\ task[t].status = "pending" /\ k # NoAttempt => k[2] < MaxAttempts
    /\ task[t].status = "in_progress" => k \in Made /\ Active(k)

\* HeadInv is a statement about each task by itself.
LEMMA HeadOfEach == HeadInv <=> TypeOK /\ \A t \in Task : HeadOf(t)
BY Zenon DEF HeadInv, HeadOf, CurrentIsLatest, OutcomeOfLatestAttempt, TaskInProgressIsRun

\* A step that keeps a task's row and the row of its attempt keeps the invariant
\* for that task, unless it makes another attempt of the same execution.
LEMMA HeadStays ==
    ASSUME TypeOK, NEW t \in Task, HeadOf(t),
           task'[t].status = task[t].status, task'[t].current = task[t].current,
           task[t].current \in Made =>
              /\ task[t].current \in Made'
              /\ attempt'[task[t].current].task = attempt[task[t].current].task
              /\ attempt'[task[t].current].status = attempt[task[t].current].status
              /\ \A j \in Made' \ Made : j[1] # task[t].current[1]
    PROVE  HeadOf(t)'
<1>1. task[t].current \in Made \cup {NoAttempt}
  BY DEF TypeOK
<1>2. NoAttempt \notin Made
  BY NullAssumption DEF TypeOK
<1>. QED
  BY <1>1, <1>2 DEF HeadOf, Active

\* A published task points at no attempt.
LEMMA InsertDagHead ==
    ASSUME HeadInv, NEW dag \in Dags, InsertDag(dag)
    PROVE  \A t \in Task : HeadOf(t)'
<1>. SUFFICES ASSUME NEW t \in Task PROVE HeadOf(t)'
  OBVIOUS
<1>1. CASE t \in DOMAIN dag
  <2>1. task'[t].status = "pending" /\ task'[t].current = NoAttempt
    BY <1>1 DEF InsertDag
  <2>. QED
    BY <2>1 DEF HeadOf
<1>2. CASE t \notin DOMAIN dag
  <2>1. task'[t] = task[t] /\ attempt' = attempt
    BY <1>2 DEF InsertDag
  <2>. QED
    BY <2>1, HeadStays, HeadOfEach DEF Made
<1>. QED
  BY <1>1, <1>2

\* Two tasks never stand at attempts of the same execution.
LEMMA HeadsDiffer ==
    ASSUME HeadInv, NEW t \in Task, NEW u \in Task,
           task[t].current \in Made, task[u].current \in Made,
           task[t].current[1] = task[u].current[1]
    PROVE  t = u
<1>1. NoAttempt \notin Made
  BY NullAssumption DEF HeadInv, TypeOK
<1>2. /\ attempt[task[t].current].task = t /\ attempt[task[u].current].task = u
      /\ task[t].current[2] <= task[u].current[2]
      /\ task[u].current[2] <= task[t].current[2]
  BY <1>1 DEF HeadInv, CurrentIsLatest
<1>3. /\ task[t].current = <<task[t].current[1], task[t].current[2]>>
      /\ task[u].current = <<task[u].current[1], task[u].current[2]>>
      /\ task[t].current[2] \in Nat /\ task[u].current[2] \in Nat
  BY DEF HeadInv, TypeOK, Attempt
<1>4. task[t].current[2] = task[u].current[2]
  BY <1>2, <1>3
<1>. QED
  BY <1>2, <1>3, <1>4

\* After a claim the task points at its new attempt, the last of its execution.
LEMMA ClaimedHead ==
    ASSUME HeadInv, NEW r \in Runtime, NEW t \in Task, NEW k \in Attempt \ Made, NEW card,
           Claimed(r, t, k, card), \A j \in Made : j[1] = k[1] => j[2] <= k[2],
           \A j \in Made : j[1] = k[1] => task[t].current \in Made /\ task[t].current[1] = k[1]
    PROVE  \A u \in Task : HeadOf(u)'
<1>. SUFFICES ASSUME NEW u \in Task PROVE HeadOf(u)'
  OBVIOUS
<1>1. Made' = Made \cup {k} /\ \A j \in Made : attempt'[j] = attempt[j]
  BY DEF Claimed, Made
<1>2. CASE u = t
  <2>1. task'[t].status = "in_progress" /\ task'[t].current = k
    BY DEF Claimed, HeadInv, TypeOK, TaskRow
  <2>2. attempt'[k].task = t /\ attempt'[k].status = "claimed"
    BY DEF Claimed
  <2>3. k[2] <= k[2]
    BY DEF Attempt
  <2>. QED
    BY <1>1, <1>2, <2>1, <2>2, <2>3 DEF HeadOf, Active, ActiveStatus
<1>3. CASE u # t
  <2>1. task'[u] = task[u]
    BY <1>3 DEF Claimed, HeadInv, TypeOK
  <2>2. ASSUME task[u].current \in Made
        PROVE  k[1] # task[u].current[1]
    BY <1>3, <2>2, HeadsDiffer
  <2>. QED
    BY <1>1, <2>1, <2>2, HeadStays, HeadOfEach
<1>. QED
  BY <1>2, <1>3

\* Every outcome of claim_next_available_task keeps HeadInv.
LEMMA ClaimHead ==
    ASSUME HeadInv, NEW r \in Runtime, NEW t \in Task,
           \/ \E e \in ExecId : ClaimFirstAttempt(r, t, e)
           \/ ClaimRetry(r, t)
           \/ ClaimWithoutCard(r, t)
    PROVE  \A u \in Task : HeadOf(u)'
<1>1. ASSUME NEW e \in ExecId, ClaimFirstAttempt(r, t, e)
      PROVE  \A u \in Task : HeadOf(u)'
  <2>1. <<e, 1>> \in Attempt \ Made
    BY <1>1, ClaimsANewRow
  <2>2. Claimed(r, t, <<e, 1>>, ResolvedCard(t)) /\ \A j \in Made : j[1] # e
    BY <1>1 DEF ClaimFirstAttempt
  <2>. QED
    BY <2>1, <2>2, ClaimedHead
<1>2. ASSUME ClaimRetry(r, t)
      PROVE  \A u \in Task : HeadOf(u)'
  <2>. DEFINE k == task[t].current
              next == <<k[1], k[2] + 1>>
  <2>1. k \in Made /\ k[2] \in Nat \ {0} /\ next \in Attempt \ Made
    BY <1>2, ClaimsANewRow
  <2>2. Claimed(r, t, next, FrozenCard(k))
    BY <1>2 DEF ClaimRetry
  <2>3. \A j \in Made : j[1] = k[1] => j[2] <= k[2] /\ j[2] \in Nat
    BY <2>1, NullAssumption DEF HeadInv, CurrentIsLatest, TypeOK, Attempt
  <2>4. \A j \in Made : j[1] = next[1] => j[2] <= next[2]
    BY <2>1, <2>3
  <2>5. k[1] = next[1]
    OBVIOUS
  <2>. HIDE DEF next
  <2>. QED
    BY <2>1, <2>2, <2>4, <2>5, ClaimedHead
<1>3. ASSUME ClaimWithoutCard(r, t)
      PROVE  \A u \in Task : HeadOf(u)'
  <2>. SUFFICES ASSUME NEW u \in Task PROVE HeadOf(u)'
    OBVIOUS
  <2>1. attempt' = attempt /\ task'[u].current = task[u].current
    BY <1>3 DEF ClaimWithoutCard, HeadInv, TypeOK, TaskRow
  <2>2. CASE u = t
    <3>1. task[t].status = "pending" /\ task'[t].status = "failed"
      BY <1>3 DEF ClaimWithoutCard, Ready, HeadInv, TypeOK, TaskRow
    <3>. QED
      BY <2>1, <2>2, <3>1, HeadOfEach DEF HeadOf, Made
  <2>3. CASE u # t
    <3>1. task'[u].status = task[u].status
      BY <1>3, <2>3 DEF ClaimWithoutCard, HeadInv, TypeOK
    <3>. QED
      BY <2>1, <3>1, HeadStays, HeadOfEach DEF Made
  <2>. QED
    BY <2>2, <2>3
<1>. QED
  BY <1>1, <1>2, <1>3

\* An attempt that ends leaves its task where it belongs.
LEMMA EndHead ==
    ASSUME HeadInv, NEW k \in held,
           Completes(k) \/ FailExecution(k) \/ CancelExecution(k)
    PROVE  \A u \in Task : HeadOf(u)'
<1>. DEFINE t == attempt[k].task
<1>1. k \in Made /\ k # NoAttempt /\ t \in Task /\ task[t].current = k
  BY NullAssumption DEF HeadInv, TypeOK, AttemptRow, Completes, FailExecution,
     CancelExecution, IsCurrentAttempt
<1>2. \A status \in TaskStatus :
         /\ Released(k, status) \in [Task -> TaskRow]
         /\ \A u \in Task :
               /\ Released(k, status)[u].current = task[u].current
               /\ Released(k, status)[u].status = IF u = t THEN status ELSE task[u].status
  <2>1. ASSUME NEW status \in TaskStatus, NEW u \in Task
        PROVE  Released(k, status)[u].status = IF u = t THEN status ELSE task[u].status
    BY <1>1 DEF Released, HeadInv, TypeOK, TaskRow
  <2>. QED
    BY <1>1, <2>1, ReleasedRows DEF HeadInv
<1>3. PICK status \in EndedStatus, left \in TaskStatus :
         /\ attempt' = Closed(k, status)
         /\ left = "pending" => k[2] < MaxAttempts
         /\ \/ left \in {"completed", "cancelled"} /\ status = left
            \/ left \in {"pending", "failed"} /\ status = "failed"
         /\ \A u \in Task :
               /\ task'[u].current = task[u].current
               /\ task'[u].status = IF u = t THEN left ELSE task[u].status
  <2>1. CASE Completes(k)
    <3>1. "completed" \in EndedStatus /\ "completed" \in TaskStatus
      BY DEF EndedStatus, TaskStatus
    <3>2. /\ attempt' = Closed(k, "completed")
          /\ \A u \in Task : /\ task'[u].current = Released(k, "completed")[u].current
                             /\ task'[u].status = Released(k, "completed")[u].status
      BY <2>1 DEF Completes
    <3>3. \A u \in Task : /\ task'[u].current = task[u].current
                          /\ task'[u].status = IF u = t THEN "completed" ELSE task[u].status
      BY <1>2, <3>1, <3>2
    <3>. QED
      BY <3>1, <3>2, <3>3
  <2>2. CASE FailExecution(k)
    <3>. DEFINE left == IF RetryScheduled(k) THEN "pending" ELSE "failed"
    <3>1. "failed" \in EndedStatus /\ left \in TaskStatus
      BY DEF EndedStatus, TaskStatus
    <3>2. attempt' = Closed(k, "failed") /\ task' = Released(k, left)
      BY <2>2 DEF FailExecution
    <3>3. left = "pending" => k[2] < MaxAttempts
      BY DEF RetryScheduled
    <3>4. left \in {"pending", "failed"}
      OBVIOUS
    <3>. HIDE DEF left
    <3>. QED
      BY <1>2, <3>1, <3>2, <3>3, <3>4
  <2>3. CASE CancelExecution(k)
    <3>1. "cancelled" \in EndedStatus /\ "cancelled" \in TaskStatus
      BY DEF EndedStatus, TaskStatus
    <3>. QED
      BY <1>2, <2>3, <3>1 DEF CancelExecution
  <2>. QED
    BY <2>1, <2>2, <2>3
<1>. SUFFICES ASSUME NEW u \in Task PROVE HeadOf(u)'
  OBVIOUS
<1>4. Made' = Made
  BY <1>1, <1>3, ClosedRows DEF Made, HeadInv
<1>5. attempt'[k].task = t /\ attempt'[k].status = status
  BY <1>1, <1>3 DEF Closed, HeadInv, TypeOK, AttemptRow
<1>6. \A j \in Made : j # k => attempt'[j] = attempt[j]
  BY <1>3 DEF Closed, HeadInv, TypeOK
<1>7. CASE u = t
  <2>1. HeadOf(u)
    BY HeadOfEach
  <2>. QED
    BY <1>1, <1>3, <1>4, <1>5, <1>7, <2>1 DEF HeadOf
<1>8. CASE u # t
  <2>1. task[u].current \in Made => attempt[task[u].current].task = u
    BY NullAssumption DEF HeadInv, TypeOK, CurrentIsLatest
  <2>2. task[u].current # k
    BY <1>1, <1>8, <2>1
  <2>. QED
    BY <1>3, <1>4, <1>6, <1>8, <2>2, HeadStays, HeadOfEach
<1>. QED
  BY <1>7, <1>8

\* The calls that leave an attempt alive, and the passing of time.
LEMMA CallHead ==
    ASSUME HeadInv,
           \/ \E k \in held : \/ RejectStale(k) \/ RecordLoadEvent(k) \/ MarkExecutionStarted(k)
                              \/ RenewLease(k) \/ FinishCardUnload(k) \/ FailCardUnload(k) \/ DropClaim(k)
           \/ \E k \in Made : LeaseExpires(k)
           \/ \E c \in Managed : SetCardStatus(c)
           \/ \E r \in Runtime : RegisterRuntime(r) \/ StopRuntime(r) \/ CrashRuntime(r)
           \/ UNCHANGED vars
    PROVE  \A u \in Task : HeadOf(u)'
<1>. SUFFICES ASSUME NEW u \in Task PROVE HeadOf(u)'
  OBVIOUS
<1>1. task' = task
  BY DEF RejectStale, RecordLoadEvent, MarkExecutionStarted, RenewLease, FinishCardUnload,
     FailCardUnload, DropClaim, LeaseExpires, SetCardStatus, RegisterRuntime, StopRuntime, CrashRuntime, vars
<1>2. CASE attempt' = attempt
  BY <1>1, <1>2, HeadStays, HeadOfEach DEF Made
<1>3. CASE \/ \E k \in held : RenewLease(k)
           \/ \E k \in Made : LeaseExpires(k)
  <2>1. PICK k \in Made, lease \in {"live", "expired"} : attempt' = [attempt EXCEPT ![k].lease = lease]
    BY <1>3 DEF RenewLease, LeaseExpires, HeadInv, TypeOK
  <2>2. Made' = Made /\ \A j \in Made : /\ attempt'[j].task = attempt[j].task
                                        /\ attempt'[j].status = attempt[j].status
    BY <2>1 DEF Made, HeadInv, TypeOK, AttemptRow
  <2>. QED
    BY <1>1, <2>2, HeadStays, HeadOfEach
<1>4. CASE \E k \in held : MarkExecutionStarted(k)
  <2>1. PICK k \in held : MarkExecutionStarted(k)
    BY <1>4
  <2>2. k \in Made
    BY DEF HeadInv, TypeOK
  <2>3. Made' = Made /\ \A j \in Made : /\ attempt'[j].task = attempt[j].task
                                        /\ j # k => attempt'[j].status = attempt[j].status
    BY <2>1, <2>2 DEF MarkExecutionStarted, Made, HeadInv, TypeOK, AttemptRow
  <2>4. attempt'[k].status = "running" /\ attempt[k].status = "claimed"
    BY <2>1, <2>2 DEF MarkExecutionStarted, HeadInv, TypeOK, AttemptRow
  <2>5. task[u].current \in Made \cup {NoAttempt} /\ NoAttempt \notin Made /\ HeadOf(u)
    BY NullAssumption, HeadOfEach DEF HeadInv, TypeOK
  <2>. QED
    BY <1>1, <2>2, <2>3, <2>4, <2>5 DEF HeadOf, Active, ActiveStatus
<1>. QED
  BY <1>2, <1>3, <1>4 DEF RejectStale, RecordLoadEvent, FinishCardUnload, FailCardUnload, DropClaim,
     SetCardStatus, RegisterRuntime, StopRuntime, CrashRuntime, vars

\* Reclaimed tasks are retried or failed.
LEMMA ReclaimHead ==
    ASSUME HeadInv, NEW S \in SUBSET Reclaimable, ReclaimLeasedTasks(S)
    PROVE  \A u \in Task : HeadOf(u)'
<1>. SUFFICES ASSUME NEW u \in Task PROVE HeadOf(u)'
  OBVIOUS
<1>. DEFINE k == task[u].current
<1>1. S \subseteq Made /\ NoAttempt \notin Made /\ HeadOf(u) /\ TypeOK
  BY NullAssumption, HeadOfEach DEF Reclaimable, HeadInv, TypeOK
<1>2. Made' = Made /\ \A j \in Made : /\ attempt'[j].task = attempt[j].task
                                      /\ attempt'[j].status = IF j \in S THEN "expired"
                                                              ELSE attempt[j].status
  BY <1>1 DEF ReclaimLeasedTasks, Made, TypeOK, AttemptRow
<1>3. CASE k \in S
  <2>1. /\ task'[u].current = k
        /\ task'[u].status = IF RetryScheduled(k) THEN "pending" ELSE "failed"
    BY <1>1, <1>3 DEF ReclaimLeasedTasks, TypeOK, TaskRow
  <2>. QED
    BY <1>1, <1>2, <1>3, <2>1 DEF HeadOf, RetryScheduled
<1>4. CASE k \notin S
  <2>1. task'[u] = task[u]
    BY <1>4 DEF ReclaimLeasedTasks
  <2>. QED
    BY <1>1, <1>2, <1>4, <2>1, HeadStays
<1>. QED
  BY <1>3, <1>4

\* HeadInv holds of the empty tables.
LEMMA HeadInvInit == Init => HeadInv
BY InitType, NullAssumption DEF Init, HeadInv, CurrentIsLatest, OutcomeOfLatestAttempt,
   TaskInProgressIsRun

\* HeadInv is inductive.
LEMMA HeadInvNext == HeadInv /\ [LooseNext]_vars => HeadInv'
<1>. SUFFICES ASSUME HeadInv, [LooseNext]_vars PROVE HeadInv'
  OBVIOUS
<1>1. TypeOK'
  BY NextType DEF HeadInv
<1>2. \A u \in Task : HeadOf(u)'
  BY InsertDagHead, ClaimHead, EndHead, CallHead, ReclaimHead DEF LooseNext, OtherNext
<1>3. (TypeOK /\ \A u \in Task : HeadOf(u))' => HeadInv'
  BY Zenon DEF HeadInv, HeadOf, CurrentIsLatest, OutcomeOfLatestAttempt, TaskInProgressIsRun
<1>. QED
  BY <1>1, <1>2, <1>3

\* A task's latest attempt explains its status, for every sequence of claims,
\* ends, expiries and publications, re-publication of running tasks included.
THEOREM OutcomeCorrect == Spec => []OutcomeOfLatestAttempt
<1>1. HeadInv => OutcomeOfLatestAttempt
  BY DEF HeadInv
<1>2. HeadInv /\ [Next]_vars => [LooseNext]_vars
  BY NextIsLoose DEF HeadInv
<1>. QED
  BY <1>1, <1>2, HeadInvInit, HeadInvNext, PTL DEF Spec

\* The row of an ended attempt is never written again, whatever is called late.
THEOREM EndedAttemptsStay == Spec => EndedAttemptsAreFinal
<1>1. HeadInv /\ [Next]_vars =>
        [\A k \in Made : /\ k \in Made'
                         /\ ~ Active(k) => attempt'[k] = attempt[k]]_vars
  BY RowsStay, NextIsLoose DEF HeadInv
<1>2. HeadInv /\ [Next]_vars => [LooseNext]_vars
  BY NextIsLoose DEF HeadInv
<1>. QED
  BY <1>1, <1>2, HeadInvInit, HeadInvNext, PTL DEF Spec, EndedAttemptsAreFinal

-----------------------------------------------------------------------------
(* Retries. *)

\* Only a claim makes an attempt.
LEMMA NewRows ==
    ASSUME HeadInv, [LooseNext]_vars, NEW k \in Made' \ Made
    PROVE  \E r \in Runtime, t \in Task :
              \/ \E e \in ExecId : ClaimFirstAttempt(r, t, e) /\ k = <<e, 1>>
              \/ /\ ClaimRetry(r, t)
                 /\ k = <<task[t].current[1], task[t].current[2] + 1>>
<1>1. CASE \E r \in Runtime, t \in Task :
             \/ \E e \in ExecId : ClaimFirstAttempt(r, t, e)
             \/ ClaimRetry(r, t)
  <2>1. \A r \in Runtime, t \in Task : \A j, card : Claimed(r, t, j, card) => Made' = Made \cup {j}
    BY DEF Claimed, Made
  <2>2. PICK r \in Runtime, t \in Task :
             \/ \E e \in ExecId : ClaimFirstAttempt(r, t, e)
             \/ ClaimRetry(r, t)
    BY <1>1
  <2>3. CASE \E e \in ExecId : ClaimFirstAttempt(r, t, e)
    <3>1. PICK e \in ExecId : ClaimFirstAttempt(r, t, e)
      BY <2>3
    <3>2. Claimed(r, t, <<e, 1>>, ResolvedCard(t))
      BY <3>1 DEF ClaimFirstAttempt
    <3>. QED
      BY <2>1, <3>1, <3>2
  <2>4. CASE ClaimRetry(r, t)
    <3>. DEFINE next == <<task[t].current[1], task[t].current[2] + 1>>
    <3>1. Claimed(r, t, next, FrozenCard(task[t].current))
      BY <2>4 DEF ClaimRetry
    <3>2. Made' = Made \cup {next}
      BY <2>1, <3>1
    <3>. QED
      BY <2>4, <3>2
  <2>. QED
    BY <2>2, <2>3, <2>4
<1>2. CASE \E j \in held : Completes(j) \/ FailExecution(j) \/ CancelExecution(j)
  BY <1>2, ClosedRows DEF Completes, FailExecution, CancelExecution, EndedStatus,
     HeadInv, TypeOK, Made
<1>3. CASE \/ \E j \in held : MarkExecutionStarted(j) \/ RenewLease(j)
           \/ \E j \in Made : LeaseExpires(j)
           \/ \E S \in SUBSET Reclaimable : ReclaimLeasedTasks(S)
  BY <1>3 DEF MarkExecutionStarted, RenewLease, LeaseExpires, ReclaimLeasedTasks,
     HeadInv, TypeOK, Made
<1>4. CASE \/ \E dag \in Dags : InsertDag(dag)
           \/ \E c \in Managed : SetCardStatus(c)
           \/ \E r \in Runtime : RegisterRuntime(r) \/ StopRuntime(r) \/ CrashRuntime(r)
           \/ \E r \in Runtime, t \in Task : ClaimWithoutCard(r, t)
           \/ \E j \in held : \/ RejectStale(j) \/ RecordLoadEvent(j)
                              \/ FinishCardUnload(j) \/ FailCardUnload(j) \/ DropClaim(j)
           \/ UNCHANGED vars
  BY <1>4 DEF InsertDag, SetCardStatus, RegisterRuntime, StopRuntime, CrashRuntime,
     ClaimWithoutCard, RejectStale, RecordLoadEvent, FinishCardUnload, FailCardUnload, DropClaim, vars, Made
<1>. QED
  BY <1>1, <1>2, <1>3, <1>4 DEF LooseNext, OtherNext

RetriesInv == HeadInv /\ RetriesContinueTheExecution

\* A step that adds an attempt continues its execution; no other step disturbs it.
LEMMA RetriesNext == RetriesInv /\ [Next]_vars => RetriesInv'
<1>. SUFFICES ASSUME RetriesInv, [Next]_vars PROVE RetriesInv'
  OBVIOUS
<1>. USE DEF RetriesInv
<1>. [LooseNext]_vars
  BY NextIsLoose DEF HeadInv
<1>1. HeadInv'
  BY HeadInvNext
<1>2. ASSUME NEW k \in Made'
      PROVE  /\ k[2] <= MaxAttempts
             /\ k[2] > 1 => LET before == <<k[1], k[2] - 1>> IN
                   /\ before \in Made'
                   /\ attempt'[before].task = attempt'[k].task
                   /\ attempt'[before].card = attempt'[k].card
                   /\ attempt'[before].status \in {"failed", "expired"}
  <2>1. CASE k \in Made
    <3>. DEFINE before == <<k[1], k[2] - 1>>
    <3>1. k[2] <= MaxAttempts
      BY <2>1 DEF RetriesContinueTheExecution
    <3>2. ASSUME k[2] > 1
          PROVE  /\ before \in Made'
                 /\ attempt'[before].task = attempt'[k].task
                 /\ attempt'[before].card = attempt'[k].card
                 /\ attempt'[before].status \in {"failed", "expired"}
      <4>1. /\ before \in Made
            /\ attempt[before].task = attempt[k].task
            /\ attempt[before].card = attempt[k].card
            /\ attempt[before].status \in {"failed", "expired"}
        BY <2>1, <3>2 DEF RetriesContinueTheExecution
      <4>2. ~ Active(before)
        BY <4>1 DEF Active, ActiveStatus
      <4>. HIDE DEF before
      <4>. QED
        BY <2>1, <4>1, <4>2, RowsStay
    <3>. QED
      BY <3>1, <3>2
  <2>2. CASE k \notin Made
    <3>1. PICK r \in Runtime, t \in Task :
              \/ \E e \in ExecId : ClaimFirstAttempt(r, t, e) /\ k = <<e, 1>>
              \/ /\ ClaimRetry(r, t)
                 /\ k = <<task[t].current[1], task[t].current[2] + 1>>
      BY <2>2, NewRows
    <3>2. CASE \E e \in ExecId : ClaimFirstAttempt(r, t, e) /\ k = <<e, 1>>
      BY <3>2, BoundAssumption
    <3>3. CASE /\ ClaimRetry(r, t)
               /\ k = <<task[t].current[1], task[t].current[2] + 1>>
      <4>. DEFINE before == task[t].current
      <4>1. /\ before \in Made /\ before[2] \in Nat \ {0}
            /\ attempt[before].task = t
            /\ attempt[before].status \in {"failed", "expired"}
            /\ FrozenCard(before) = attempt[before].card
            /\ before[2] < MaxAttempts
        BY <3>3, ClaimsANewRow
      <4>2. attempt'[k].task = t /\ attempt'[k].card = FrozenCard(before)
        BY <3>3 DEF ClaimRetry, Claimed
      <4>3. attempt'[before] = attempt[before] /\ before \in Made'
        BY <4>1, RowsStay DEF Active, ActiveStatus
      <4>4. before = <<k[1], k[2] - 1>> /\ k[2] <= MaxAttempts
        BY <3>3, <4>1, BoundAssumption DEF HeadInv, TypeOK, Attempt
      <4>. HIDE DEF before
      <4>. QED
        BY <4>1, <4>2, <4>3, <4>4
    <3>. QED
      BY <3>1, <3>2, <3>3
  <2>. QED
    BY <2>1, <2>2
<1>3. (RetriesContinueTheExecution)'
  BY <1>2, Zenon DEF RetriesContinueTheExecution
<1>. QED
  BY <1>1, <1>3

\* No execution runs more than MaxAttempts times, and its attempts form one
\* history: same task, same card, each begun after the failure or the expiry of
\* the one before.
THEOREM RetriesCorrect == Spec => []RetriesContinueTheExecution
<1>1. Init => RetriesInv
  BY HeadInvInit DEF RetriesInv, RetriesContinueTheExecution, Init, Made
<1>2. RetriesInv => RetriesContinueTheExecution
  BY DEF RetriesInv
<1>. QED
  BY <1>1, <1>2, RetriesNext, PTL DEF Spec

-----------------------------------------------------------------------------
(* Tasks and attempts agree as long as no publication lists a task that is *)
(* not over: one that does orphans the attempt of that task.               *)

\* No step takes a task in progress from the attempt it points at, except by ending that attempt.
LEMMA TaskInProgressStays ==
    ASSUME HeadInv, [LooseNext]_vars, Rerun # "any",
           NEW t \in Task, task[t].status = "in_progress"
    PROVE  /\ task'[t].current = task[t].current
           /\ Active(task[t].current)' => /\ task'[t].status = task[t].status
                                          /\ task'[t].owner = task[t].owner
<1>. DEFINE k == task[t].current
<1>0. k \in Made /\ attempt[k].task = t
  BY NullAssumption DEF HeadInv, TypeOK, TaskInProgressIsRun, CurrentIsLatest
<1>1. CASE task'[t] = task[t]
  BY <1>1
<1>2. CASE \E dag \in Dags : InsertDag(dag)
  <2>1. PICK dag \in Dags : InsertDag(dag)
    BY <1>2
  <2>2. t \notin DOMAIN dag
    BY <2>1 DEF InsertDag, MayPublish, EndedTaskStatus
  <2>. QED
    BY <1>1, <2>1, <2>2 DEF InsertDag
<1>3. CASE \E r \in Runtime, u \in Task :
             \/ \E e \in ExecId : ClaimFirstAttempt(r, u, e)
             \/ ClaimRetry(r, u)
             \/ ClaimWithoutCard(r, u)
  <2>1. PICK u \in Task : Ready(u) /\ \A v \in Task : v # u => task'[v] = task[v]
    <3>1. PICK r \in Runtime, u \in Task :
              \/ \E e \in ExecId : ClaimFirstAttempt(r, u, e)
              \/ ClaimRetry(r, u)
              \/ ClaimWithoutCard(r, u)
      BY <1>3
    <3>2. Ready(u)
      BY <3>1 DEF ClaimFirstAttempt, ClaimRetry, ClaimWithoutCard
    <3>3. \E row : task' = [task EXCEPT ![u] = row]
      BY <3>1 DEF ClaimFirstAttempt, ClaimRetry, ClaimWithoutCard, Claimed
    <3>. QED
      BY <3>2, <3>3 DEF HeadInv, TypeOK
  <2>2. t # u
    BY <2>1 DEF Ready
  <2>. QED
    BY <1>1, <2>1, <2>2
<1>4. CASE \E j \in held : Completes(j) \/ FailExecution(j) \/ CancelExecution(j)
  <2>1. PICK j \in held : Completes(j) \/ FailExecution(j) \/ CancelExecution(j)
    BY <1>4
  <2>2. PICK status \in EndedStatus, left \in TaskStatus :
           /\ task[attempt[j].task].current = j
           /\ attempt' = Closed(j, status)
           /\ \A v \in Task : /\ task'[v].status = Released(j, left)[v].status
                              /\ task'[v].current = Released(j, left)[v].current
                              /\ task'[v].owner = Released(j, left)[v].owner
    BY <2>1 DEF Completes, FailExecution, CancelExecution, IsCurrentAttempt,
       EndedStatus, TaskStatus
  <2>3. j \in Made
    BY DEF HeadInv, TypeOK
  <2>4. CASE j = k
    <3>1. attempt'[k].status = status
      BY <1>0, <2>2, <2>4 DEF Closed, HeadInv, TypeOK, AttemptRow
    <3>2. task'[t].current = k
      BY <2>2, <2>3, ReleasedRows DEF HeadInv
    <3>. QED
      BY <3>1, <3>2 DEF Active, ActiveStatus, EndedStatus
  <2>5. CASE j # k
    <3>1. attempt[j].task # t
      BY <2>2, <2>5
    <3>2. /\ Released(j, left)[t] = task[t]
          /\ Released(j, left) \in [Task -> TaskRow]
      BY <2>2, <2>3, <3>1, ReleasedRows DEF Released, HeadInv, TypeOK
    <3>. QED
      BY <2>2, <3>2
  <2>. QED
    BY <2>4, <2>5
<1>5. CASE \E S \in SUBSET Reclaimable : ReclaimLeasedTasks(S)
  <2>1. PICK S \in SUBSET Reclaimable : ReclaimLeasedTasks(S)
    BY <1>5
  <2>2. CASE k \in S
    <3>1. attempt'[k].status = "expired" /\ task'[t].current = k
      <4>1. task[t] \in TaskRow /\ attempt[k] \in AttemptRow /\ t \in Task /\ k \in Made
        BY <1>0, <2>1, <2>2 DEF HeadInv, TypeOK, Reclaimable
      <4>. QED
        BY <1>0, <2>1, <2>2, <4>1 DEF ReclaimLeasedTasks, AttemptRow, TaskRow
    <3>. QED
      BY <3>1 DEF Active, ActiveStatus
  <2>3. CASE k \notin S
    BY <1>1, <2>1, <2>3 DEF ReclaimLeasedTasks
  <2>. QED
    BY <2>2, <2>3
<1>6. CASE \/ \E j \in held : \/ RejectStale(j) \/ RecordLoadEvent(j) \/ MarkExecutionStarted(j)
                              \/ RenewLease(j) \/ FinishCardUnload(j) \/ FailCardUnload(j) \/ DropClaim(j)
           \/ \E j \in Made : LeaseExpires(j)
           \/ \E c \in Managed : SetCardStatus(c)
           \/ \E r \in Runtime : RegisterRuntime(r) \/ StopRuntime(r) \/ CrashRuntime(r)
           \/ UNCHANGED vars
  BY <1>1, <1>6 DEF RejectStale, RecordLoadEvent, MarkExecutionStarted, RenewLease,
     FinishCardUnload, FailCardUnload, DropClaim, LeaseExpires, SetCardStatus, RegisterRuntime,
     StopRuntime, CrashRuntime, vars
<1>. QED
  BY <1>2, <1>3, <1>4, <1>5, <1>6 DEF LooseNext, OtherNext

\* The new row of a claim agrees with the task it was claimed for.
LEMMA NewRowAgrees ==
    ASSUME HeadInv, [LooseNext]_vars, NEW k \in Made' \ Made
    PROVE  (IsCurrentAttempt(k) /\ task[attempt[k].task].status = "in_progress")'
<1>1. PICK r \in Runtime, t \in Task : \E card : Claimed(r, t, k, card)
  <2>1. PICK r \in Runtime, t \in Task :
            \/ \E e \in ExecId : ClaimFirstAttempt(r, t, e) /\ k = <<e, 1>>
            \/ ClaimRetry(r, t) /\ k = <<task[t].current[1], task[t].current[2] + 1>>
    BY NewRows
  <2>2. CASE \E e \in ExecId : ClaimFirstAttempt(r, t, e) /\ k = <<e, 1>>
    BY <2>2 DEF ClaimFirstAttempt
  <2>3. CASE ClaimRetry(r, t) /\ k = <<task[t].current[1], task[t].current[2] + 1>>
    BY <2>3 DEF ClaimRetry
  <2>. QED
    BY <2>1, <2>2, <2>3
<1>2. PICK card : Claimed(r, t, k, card)
  BY <1>1
<1>3. attempt'[k] = [task |-> t, runtime |-> r, card |-> card, status |-> "claimed", lease |-> "live"]
  BY <1>2 DEF Claimed
<1>4. task'[t].status = "in_progress" /\ task'[t].current = k /\ task'[t].owner = r
  BY <1>2 DEF Claimed, HeadInv, TypeOK, TaskRow
<1>. QED
  BY <1>3, <1>4 DEF IsCurrentAttempt, Active, ActiveStatus

AgreeInv == HeadInv /\ AttemptAndTaskAgree

\* AgreeInv is inductive if no publication lists a task in progress.
LEMMA AgreeNext ==
    ASSUME AgreeInv, [LooseNext]_vars, Rerun # "any"
    PROVE  AgreeInv'
<1>. USE DEF AgreeInv
<1>1. HeadInv'
  BY HeadInvNext
<1>2. ASSUME NEW k \in Made', Active(k)'
      PROVE  (IsCurrentAttempt(k) /\ task[attempt[k].task].status = "in_progress")'
  <2>1. CASE k \in Made
    <3>1. Active(k) /\ attempt'[k].task = attempt[k].task /\ attempt'[k].runtime = attempt[k].runtime
      BY <1>2, <2>1, RowsStay DEF Active
    <3>2. /\ task[attempt[k].task].current = k
          /\ task[attempt[k].task].owner = attempt[k].runtime
          /\ task[attempt[k].task].status = "in_progress"
          /\ attempt[k].task \in Task
      BY <2>1, <3>1 DEF AttemptAndTaskAgree, IsCurrentAttempt, HeadInv, TypeOK, AttemptRow
    <3>3. /\ task'[attempt[k].task].current = k
          /\ task'[attempt[k].task].owner = attempt[k].runtime
          /\ task'[attempt[k].task].status = "in_progress"
      BY <1>2, <3>2, TaskInProgressStays
    <3>. QED
      BY <1>2, <3>1, <3>3 DEF IsCurrentAttempt
  <2>2. CASE k \notin Made
    BY <2>2, NewRowAgrees
  <2>. QED
    BY <2>1, <2>2
<1>3. ASSUME NEW t \in Task, task'[t].status = "in_progress"
      PROVE  /\ task'[t].current \in Made'
             /\ attempt'[task'[t].current].task = t
             /\ Active(task[t].current)'
  BY <1>1, <1>3, NullAssumption DEF HeadInv, TypeOK, TaskInProgressIsRun, CurrentIsLatest
<1>4. (AttemptAndTaskAgree)'
  BY <1>2, <1>3 DEF AttemptAndTaskAgree
<1>. QED
  BY <1>1, <1>4

\* A live attempt is the current one of a task in progress, and a task in
\* progress has a live attempt: so at most one runtime works on a task at a time.
THEOREM AgreementCorrect ==
    ASSUME Rerun # "any"
    PROVE  Spec => []AttemptAndTaskAgree
<1>1. Init => AgreeInv
  BY HeadInvInit DEF AgreeInv, AttemptAndTaskAgree, Init, Made
<1>2. AgreeInv /\ [Next]_vars => AgreeInv'
  BY AgreeNext, NextIsLoose DEF AgreeInv, HeadInv
<1>3. AgreeInv => AttemptAndTaskAgree
  BY DEF AgreeInv
<1>. QED
  BY <1>1, <1>2, <1>3, PTL DEF Spec

\* Only the end of the attempt it is in progress under moves a task on.
THEOREM OnlyCurrentDecides ==
    ASSUME Rerun # "any"
    PROVE  Spec => OnlyCurrentAttemptDecides
<1>1. ASSUME HeadInv, HeadInv', [Next]_vars, NEW t \in Task,
             task[t].status = "in_progress", task'[t].status # "in_progress"
      PROVE  /\ attempt'[task[t].current].status \in EndedStatus
             /\ task'[t].status \in {"completed", "cancelled"} =>
                   attempt'[task[t].current].status = task'[t].status
  <2>. [LooseNext]_vars
    BY <1>1, NextIsLoose DEF HeadInv
  <2>1. task'[t].current = task[t].current /\ ~ Active(task[t].current)'
    BY <1>1, TaskInProgressStays
  <2>2. task[t].current \in Made'
    BY <1>1, RowsStay DEF HeadInv, TaskInProgressIsRun
  <2>3. attempt'[task[t].current].status \in EndedStatus
    BY <1>1, <2>1, <2>2 DEF HeadInv, TypeOK, AttemptRow, Active
  <2>. QED
    BY <1>1, <2>1, <2>3 DEF HeadInv, OutcomeOfLatestAttempt
<1>2. HeadInv /\ HeadInv' /\ [Next]_vars =>
        [\A t \in Task :
            LET k == task[t].current IN
            task[t].status = "in_progress" /\ task'[t].status # "in_progress" =>
                /\ attempt'[k].status \in EndedStatus
                /\ task'[t].status \in {"completed", "cancelled"} =>
                      attempt'[k].status = task'[t].status]_vars
  BY <1>1
<1>3. HeadInv /\ [Next]_vars => [LooseNext]_vars
  BY NextIsLoose DEF HeadInv
<1>. QED
  BY <1>2, <1>3, HeadInvInit, HeadInvNext, PTL DEF Spec, OnlyCurrentAttemptDecides

-----------------------------------------------------------------------------
(* Runtimes.  The invariant relates what a process has in its memory to    *)
(* the row of its runtime.                                                 *)

\* The claims in the memory of a process that runs: one that is live is the one
\* the runtime's row names.
HeldIsCurrent ==
    \A k \in held :
        /\ attempt[k].runtime \in up
        /\ Active(k) => runtime[attempt[k].runtime].current = k

RuntimeInv == HeadInv /\ RuntimeFollowsAttempt /\ HeldIsCurrent

\* The invariant for one runtime.
RowOf(r) ==
    LET k == runtime[r].current IN
    /\ k # NoAttempt => attempt[k].runtime = r
    /\ runtime[r].status = "idle" => k = NoAttempt
    /\ runtime[r].status \in BusyStatus => k # NoAttempt
    /\ runtime[r].status = "loading" => attempt[k].status = "claimed"
    /\ runtime[r].status = "running" => attempt[k].status = "running"
    /\ runtime[r].status = "unloading" => attempt[k].status \in EndedStatus

\* ... and for one claim in memory.
HeldOf(k) ==
    /\ attempt[k].runtime \in up
    /\ Active(k) => runtime[attempt[k].runtime].current = k

\* The invariant is a statement about each runtime and each claim by itself.
LEMMA RuntimeInvEach ==
    RuntimeInv <=> HeadInv /\ (\A r \in Runtime : RowOf(r)) /\ \A k \in held : HeldOf(k)
BY Zenon DEF RuntimeInv, RuntimeFollowsAttempt, RowOf, HeldIsCurrent, HeldOf

\* A step that keeps the row of a runtime and the status of its attempt keeps the
\* invariant for that runtime.
LEMMA RowStays ==
    ASSUME HeadInv, [LooseNext]_vars, NEW r \in Runtime, RowOf(r),
           runtime'[r] = runtime[r],
           runtime[r].current \in Made =>
              attempt'[runtime[r].current].status = attempt[runtime[r].current].status
    PROVE  RowOf(r)'
<1>1. runtime[r].current \in Made \cup {NoAttempt}
  BY DEF HeadInv, TypeOK
<1>2. CASE runtime[r].current \in Made
  BY <1>2, RowsStay DEF RowOf
<1>3. CASE runtime[r].current = NoAttempt
  BY <1>3 DEF RowOf, BusyStatus
<1>. QED
  BY <1>1, <1>2, <1>3

\* A claim in memory that was there before keeps the invariant if its process
\* stays up and its runtime's row stays with it while it is live.
LEMMA HeldStays ==
    ASSUME HeadInv, [LooseNext]_vars, NEW k \in held, HeldOf(k),
           attempt[k].runtime \in up',
           Active(k)' =>
              runtime'[attempt[k].runtime].current = runtime[attempt[k].runtime].current
    PROVE  HeldOf(k)'
<1>1. k \in Made
  BY DEF HeadInv, TypeOK
<1>2. attempt'[k].runtime = attempt[k].runtime /\ (Active(k)' => Active(k))
  BY <1>1, RowsStay DEF Active
<1>. QED
  BY <1>2 DEF HeldOf

\* Publications and cards do not concern the runtimes.
LEMMA LeadRuntimes ==
    ASSUME RuntimeInv, [LooseNext]_vars,
           \/ \E dag \in Dags : InsertDag(dag)
           \/ \E c \in Managed : SetCardStatus(c)
           \/ \E r \in Runtime, t \in Task : ClaimWithoutCard(r, t)
           \/ UNCHANGED vars
    PROVE  (\A r \in Runtime : RowOf(r))' /\ (\A k \in held : HeldOf(k))'
<1>1. UNCHANGED <<attempt, runtime, up, held>>
  BY DEF InsertDag, SetCardStatus, ClaimWithoutCard, vars
<1>2. HeadInv /\ (\A r \in Runtime : RowOf(r)) /\ \A k \in held : HeldOf(k)
  BY RuntimeInvEach
<1>. QED
  BY <1>1, <1>2, Zenon DEF RowOf, HeldOf, Active

\* A process that starts has no claim in memory; one that ends loses its own.
LEMMA ProcessRuntimes ==
    ASSUME RuntimeInv, [LooseNext]_vars, NEW r \in Runtime,
           RegisterRuntime(r) \/ StopRuntime(r) \/ CrashRuntime(r)
    PROVE  (\A s \in Runtime : RowOf(s))' /\ (\A k \in held : HeldOf(k))'
<1>1. HeadInv /\ (\A s \in Runtime : RowOf(s)) /\ \A k \in held : HeldOf(k)
  BY RuntimeInvEach
<1>2. attempt' = attempt /\ runtime \in [Runtime -> RuntimeRow]
  BY <1>1 DEF RegisterRuntime, StopRuntime, CrashRuntime, HeadInv, TypeOK
<1>3. ASSUME NEW s \in Runtime PROVE RowOf(s)'
  <2>1. CASE runtime'[s] = runtime[s]
    BY <1>1, <1>2, <2>1, RowStays
  <2>2. CASE s = r /\ RegisterRuntime(r)
    <3>1. runtime'[s].status = "idle" /\ runtime'[s].current = NoAttempt
      BY <1>2, <2>2 DEF RegisterRuntime
    <3>. QED
      BY <3>1 DEF RowOf, BusyStatus
  <2>3. CASE s = r /\ StopRuntime(r)
    <3>1. runtime'[s].status = "stopped" /\ runtime'[s].current = runtime[s].current
      BY <1>2, <2>3 DEF StopRuntime, RuntimeRow
    <3>. QED
      BY <1>1, <1>2, <3>1 DEF RowOf, BusyStatus
  <2>. QED
    BY <1>2, <2>1, <2>2, <2>3 DEF RegisterRuntime, StopRuntime, CrashRuntime
<1>4. ASSUME NEW k \in held' PROVE HeldOf(k)'
  <2>1. k \in held /\ attempt[k].runtime # r
    BY <1>1 DEF RegisterRuntime, StopRuntime, CrashRuntime, Forget, HeldOf
  <2>2. attempt[k].runtime \in up' /\ attempt[k].runtime \in Runtime
    BY <1>1, <2>1 DEF RegisterRuntime, StopRuntime, CrashRuntime, HeldOf, HeadInv, TypeOK, AttemptRow
  <2>3. runtime'[attempt[k].runtime] = runtime[attempt[k].runtime]
    BY <1>2, <2>1, <2>2 DEF RegisterRuntime, StopRuntime, CrashRuntime
  <2>. QED
    BY <1>1, <2>1, <2>2, <2>3, HeldStays
<1>. QED
  BY <1>3, <1>4

\* Only an idle runtime claims, and its process has no live claim in memory.
LEMMA ClaimedRuntimes ==
    ASSUME RuntimeInv, [LooseNext]_vars, NEW r \in Runtime, NEW t \in Task, NEW k \in Attempt \ Made,
           NEW card, MayClaim(r), Claimed(r, t, k, card)
    PROVE  (\A s \in Runtime : RowOf(s))' /\ (\A j \in held : HeldOf(j))'
<1>1. HeadInv /\ (\A s \in Runtime : RowOf(s)) /\ \A j \in held : HeldOf(j)
  BY RuntimeInvEach
<1>2. /\ \A j \in Made : attempt'[j] = attempt[j]
      /\ attempt'[k].runtime = r /\ attempt'[k].status = "claimed"
      /\ k # NoAttempt
  BY NullAssumption DEF Claimed, Made
<1>3. /\ \A s \in Runtime \ {r} : runtime'[s] = runtime[s]
      /\ runtime'[r] = [status |-> "loading", current |-> k]
  BY <1>1 DEF Claimed, HeadInv, TypeOK
<1>4. ASSUME NEW s \in Runtime PROVE RowOf(s)'
  <2>1. CASE s = r
    BY <1>2, <1>3, <2>1 DEF RowOf, BusyStatus
  <2>2. CASE s # r
    BY <1>1, <1>2, <1>3, <2>2, RowStays
  <2>. QED
    BY <2>1, <2>2
<1>5. ASSUME NEW j \in held' PROVE HeldOf(j)'
  <2>1. up' = up /\ held' = held \cup {k} /\ r \in up
    BY DEF Claimed, MayClaim
  <2>2. CASE j = k
    BY <1>2, <1>3, <2>1, <2>2 DEF HeldOf
  <2>3. CASE j # k
    <3>1. j \in held /\ j \in Made /\ j # NoAttempt /\ HeldOf(j) /\ attempt[j].runtime \in Runtime
      BY <1>1, <2>1, <2>3, NullAssumption DEF HeadInv, TypeOK, AttemptRow
    <3>2. attempt[j].runtime = r => ~ Active(j)
      BY <1>1, <3>1 DEF MayClaim, RowOf, HeldOf
    <3>3. attempt'[j] = attempt[j]
      BY <1>2, <3>1
    <3>4. CASE attempt[j].runtime = r
      BY <2>1, <3>2, <3>3, <3>4 DEF HeldOf, Active
    <3>5. CASE attempt[j].runtime # r
      BY <1>1, <1>3, <2>1, <3>1, <3>5, HeldStays DEF HeldOf
    <3>. QED
      BY <3>4, <3>5
  <2>. QED
    BY <2>2, <2>3
<1>. QED
  BY <1>4, <1>5

\* Both kinds of claim.
LEMMA ClaimRuntimes ==
    ASSUME RuntimeInv, [LooseNext]_vars, NEW r \in Runtime, NEW t \in Task,
           (\E e \in ExecId : ClaimFirstAttempt(r, t, e)) \/ ClaimRetry(r, t)
    PROVE  (\A s \in Runtime : RowOf(s))' /\ (\A j \in held : HeldOf(j))'
<1>1. HeadInv
  BY DEF RuntimeInv
<1>2. CASE \E e \in ExecId : ClaimFirstAttempt(r, t, e)
  <2>1. PICK e \in ExecId : ClaimFirstAttempt(r, t, e)
    BY <1>2
  <2>2. <<e, 1>> \in Attempt \ Made
    BY <1>1, <2>1, ClaimsANewRow
  <2>. QED
    BY <2>1, <2>2, ClaimedRuntimes DEF ClaimFirstAttempt
<1>3. CASE ClaimRetry(r, t)
  <2>1. <<task[t].current[1], task[t].current[2] + 1>> \in Attempt \ Made
    BY <1>1, <1>3, ClaimsANewRow
  <2>. QED
    BY <1>3, <2>1, ClaimedRuntimes DEF ClaimRetry
<1>. QED
  BY <1>2, <1>3

\* A step that changes the row of one claim in memory and of its own runtime.
LEMMA OtherRuntimesStay ==
    ASSUME RuntimeInv, [LooseNext]_vars, held' \subseteq held, up' = up,
           NEW k \in held, NEW r \in Runtime, attempt[k].runtime = r,
           \A j \in Made : j # k => attempt'[j].status = attempt[j].status,
           \A s \in Runtime : s # r => runtime'[s] = runtime[s],
           RowOf(r)',
           \A j \in held : attempt[j].runtime = r /\ Active(j)' =>
              runtime'[r].current = runtime[r].current
    PROVE  (\A s \in Runtime : RowOf(s))' /\ (\A j \in held : HeldOf(j))'
<1>1. HeadInv /\ (\A s \in Runtime : RowOf(s)) /\ \A j \in held : HeldOf(j)
  BY RuntimeInvEach
<1>2. k \in Made /\ k # NoAttempt
  BY <1>1, NullAssumption DEF HeadInv, TypeOK
<1>3. ASSUME NEW s \in Runtime PROVE RowOf(s)'
  <2>1. CASE s # r
    <3>1. runtime[s].current # k
      BY <1>1, <1>2, <2>1 DEF RowOf
    <3>. QED
      BY <1>1, <2>1, <3>1, RowStays
  <2>. QED
    BY <2>1
<1>4. ASSUME NEW j \in held' PROVE HeldOf(j)'
  <2>1. j \in held /\ attempt[j].runtime \in up /\ attempt[j].runtime \in Runtime
    BY <1>1 DEF HeldOf, HeadInv, TypeOK, AttemptRow
  <2>. QED
    BY <1>1, <2>1, HeldStays
<1>. QED
  BY <1>3, <1>4

\* An attempt that ends is the one its runtime's row names; so is one that starts.
LEMMA EndRuntimes ==
    ASSUME RuntimeInv, [LooseNext]_vars, NEW k \in held,
           \/ Completes(k) \/ FailExecution(k) \/ CancelExecution(k)
           \/ MarkExecutionStarted(k)
    PROVE  (\A s \in Runtime : RowOf(s))' /\ (\A j \in held : HeldOf(j))'
<1>. PICK r \in Runtime : r = attempt[k].runtime
  BY DEF RuntimeInv, HeadInv, TypeOK, AttemptRow
<1>1. HeadInv /\ (\A s \in Runtime : RowOf(s)) /\ \A j \in held : HeldOf(j)
  BY RuntimeInvEach
<1>2. /\ k \in Made /\ k # NoAttempt /\ r \in Runtime /\ Active(k) /\ runtime[r].current = k
      /\ runtime \in [Runtime -> RuntimeRow] /\ attempt \in [Made -> AttemptRow]
  BY <1>1, NullAssumption DEF HeadInv, TypeOK, AttemptRow, HeldOf, Completes, FailExecution,
     CancelExecution, MarkExecutionStarted, IsCurrentAttempt
<1>3. PICK status \in EndedStatus \cup {"running"}, kind \in {"unloading", "running"} :
         /\ status = "running" <=> kind = "running"
         /\ attempt'[k].status = status
         /\ \A j \in Made : j # k => attempt'[j].status = attempt[j].status
         /\ \A s \in Runtime : s # r => runtime'[s] = runtime[s]
         /\ runtime'[r].status = kind /\ runtime'[r].current = k
  <2>1. CASE MarkExecutionStarted(k)
    <3>1. attempt'[k].status = "running" /\ \A j \in Made : j # k => attempt'[j].status = attempt[j].status
      BY <1>2, <2>1 DEF MarkExecutionStarted, AttemptRow
    <3>2. /\ \A s \in Runtime : s # r => runtime'[s] = runtime[s]
          /\ runtime'[r].status = "running" /\ runtime'[r].current = k
      BY <1>2, <2>1 DEF MarkExecutionStarted, RuntimeRow
    <3>. QED
      BY <3>1, <3>2
  <2>2. CASE Completes(k) \/ FailExecution(k) \/ CancelExecution(k)
    <3>1. PICK status \in EndedStatus : attempt' = Closed(k, status) /\ runtime' = SetRuntimeUnloading(k)
      BY <2>2 DEF Completes, FailExecution, CancelExecution, EndedStatus
    <3>2. attempt'[k].status = status /\ \A j \in Made : j # k => attempt'[j].status = attempt[j].status
      BY <1>2, <3>1 DEF Closed, AttemptRow
    <3>3. /\ \A s \in Runtime : s # r => runtime'[s] = runtime[s]
          /\ runtime'[r].status = "unloading" /\ runtime'[r].current = k
      BY <1>2, <3>1 DEF SetRuntimeUnloading, RuntimeRow
    <3>. QED
      BY <3>1, <3>2, <3>3 DEF EndedStatus
  <2>. QED
    BY <2>1, <2>2
<1>4. RowOf(r)'
  <2>1. attempt'[k].runtime = r
    BY <1>1, <1>2, RowsStay
  <2>. QED
    BY <1>2, <1>3, <2>1 DEF RowOf, BusyStatus
<1>5. held' = held /\ up' = up
  BY DEF Completes, FailExecution, CancelExecution, MarkExecutionStarted
<1>. QED
  BY <1>2, <1>3, <1>4, <1>5, OtherRuntimesStay

\* The calls that leave the status of the attempt alone.
LEMMA CallRuntimes ==
    ASSUME RuntimeInv, [LooseNext]_vars,
           \/ \E k \in held : \/ RejectStale(k) \/ RecordLoadEvent(k) \/ RenewLease(k)
                              \/ FinishCardUnload(k) \/ FailCardUnload(k) \/ DropClaim(k)
           \/ \E k \in Made : LeaseExpires(k)
    PROVE  (\A s \in Runtime : RowOf(s))' /\ (\A j \in held : HeldOf(j))'
<1>1. HeadInv /\ (\A s \in Runtime : RowOf(s)) /\ \A j \in held : HeldOf(j)
  BY RuntimeInvEach
<1>2. /\ \A j \in Made : attempt'[j].status = attempt[j].status
      /\ held' \subseteq held /\ up' = up
  BY <1>1 DEF RejectStale, RecordLoadEvent, RenewLease, FinishCardUnload, FailCardUnload, DropClaim,
     LeaseExpires, HeadInv, TypeOK, AttemptRow
<1>3. CASE \E k \in held : FinishCardUnload(k)
  <2>1. PICK k \in held : FinishCardUnload(k)
    BY <1>3
  <2>. PICK r \in Runtime : r = attempt[k].runtime
    BY DEF RuntimeInv, HeadInv, TypeOK, AttemptRow
  <2>2. k \in Made /\ r \in Runtime /\ runtime[r].current = k /\ ~ Active(k)
    BY <1>1, <2>1 DEF HeadInv, TypeOK, AttemptRow, FinishCardUnload, Unloadable, Active,
       ActiveStatus, EndedStatus
  <2>3. /\ \A s \in Runtime : s # r => runtime'[s] = runtime[s]
        /\ runtime'[r] = [status |-> "idle", current |-> NoAttempt]
    BY <1>1, <2>1, <2>2 DEF FinishCardUnload, HeadInv, TypeOK
  <2>4. RowOf(r)'
    BY <2>3 DEF RowOf, BusyStatus
  <2>5. \A j \in held : attempt[j].runtime = r => ~ Active(j)'
    <3>1. \A j \in held : j \in Made /\ (Active(j)' <=> Active(j))
      BY <1>1, <1>2 DEF HeadInv, TypeOK, Active
    <3>. QED
      BY <1>1, <2>2, <3>1 DEF HeldOf
  <2>. QED
    BY <1>2, <2>3, <2>4, <2>5, OtherRuntimesStay
<1>4. CASE runtime' = runtime
  <2>1. ASSUME NEW s \in Runtime PROVE RowOf(s)'
    BY <1>1, <1>2, <1>4, RowStays
  <2>2. ASSUME NEW j \in held' PROVE HeldOf(j)'
    BY <1>1, <1>2, <1>4, HeldStays DEF HeldOf
  <2>. QED
    BY <2>1, <2>2
<1>. QED
  BY <1>3, <1>4 DEF RejectStale, RecordLoadEvent, RenewLease, FailCardUnload, DropClaim, LeaseExpires

\* A runtime whose attempt is reclaimed is idle, and no process holds a live claim for it.
LEMMA ReclaimRuntimes ==
    ASSUME RuntimeInv, [LooseNext]_vars, NEW S \in SUBSET Reclaimable, ReclaimLeasedTasks(S)
    PROVE  (\A s \in Runtime : RowOf(s))' /\ (\A j \in held : HeldOf(j))'
<1>1. HeadInv /\ (\A s \in Runtime : RowOf(s)) /\ \A j \in held : HeldOf(j)
  BY RuntimeInvEach
<1>2. \A k \in Made : attempt'[k].status = IF k \in S THEN "expired" ELSE attempt[k].status
  BY <1>1 DEF ReclaimLeasedTasks, Made, HeadInv, TypeOK, AttemptRow
<1>3. ASSUME NEW s \in Runtime PROVE RowOf(s)'
  <2>1. CASE runtime[s].current \in S
    <3>1. runtime'[s] = [status |-> "idle", current |-> NoAttempt]
      BY <2>1 DEF ReclaimLeasedTasks
    <3>. QED
      BY <3>1 DEF RowOf, BusyStatus
  <2>2. CASE runtime[s].current \notin S
    BY <1>1, <1>2, <2>2, RowStays DEF ReclaimLeasedTasks
  <2>. QED
    BY <2>1, <2>2
<1>4. ASSUME NEW j \in held' PROVE HeldOf(j)'
  <2>1. /\ j \in held /\ j \in Made /\ HeldOf(j) /\ up' = up
        /\ attempt[j].runtime \in Runtime /\ attempt[j].runtime \in up
    BY <1>1 DEF ReclaimLeasedTasks, HeldOf, HeadInv, TypeOK, AttemptRow
  <2>2. ASSUME Active(j)'
        PROVE  j \notin S /\ Active(j)
    BY <1>2, <2>1, <2>2 DEF Active, ActiveStatus
  <2>3. ASSUME Active(j)'
        PROVE  runtime'[attempt[j].runtime].current = runtime[attempt[j].runtime].current
    BY <2>1, <2>2, <2>3 DEF HeldOf, ReclaimLeasedTasks
  <2>. QED
    BY <1>1, <2>1, <2>3, HeldStays
<1>. QED
  BY <1>3, <1>4

\* RuntimeInv holds of the empty tables.
LEMMA RuntimeInvInit == Init => RuntimeInv
BY HeadInvInit DEF Init, RuntimeInv, RuntimeFollowsAttempt, HeldIsCurrent, BusyStatus

\* RuntimeInv is inductive.
LEMMA RuntimeInvNext == RuntimeInv /\ [LooseNext]_vars => RuntimeInv'
<1>. SUFFICES ASSUME RuntimeInv, [LooseNext]_vars PROVE RuntimeInv'
  OBVIOUS
<1>1. HeadInv'
  BY HeadInvNext DEF RuntimeInv
<1>2. (\A r \in Runtime : RowOf(r))' /\ (\A k \in held : HeldOf(k))'
  BY LeadRuntimes, ProcessRuntimes, ClaimRuntimes, EndRuntimes, CallRuntimes, ReclaimRuntimes DEF LooseNext, OtherNext
<1>3. (HeadInv /\ (\A r \in Runtime : RowOf(r)) /\ \A k \in held : HeldOf(k))' => RuntimeInv'
  BY Zenon DEF RuntimeInv, RuntimeFollowsAttempt, RowOf, HeldIsCurrent, HeldOf
<1>. QED
  BY <1>1, <1>2, <1>3

\* The row of a runtime tells the state of its attempt through every order of
\* claims, late calls, expiries, restarts and publications: an idle runtime is free.
THEOREM RuntimeRowsCorrect == Spec => []RuntimeFollowsAttempt
<1>1. RuntimeInv => RuntimeFollowsAttempt
  BY DEF RuntimeInv
<1>2. RuntimeInv /\ [Next]_vars => [LooseNext]_vars
  BY NextIsLoose DEF RuntimeInv, HeadInv
<1>. QED
  BY <1>1, <1>2, RuntimeInvInit, RuntimeInvNext, PTL DEF Spec

\* No process ever has two live attempts in its memory.
THEOREM OneLiveAttempt == Spec => []OneLiveAttemptPerProcess
<1>1. RuntimeInv => OneLiveAttemptPerProcess
  BY DEF RuntimeInv, HeldIsCurrent, OneLiveAttemptPerProcess
<1>2. RuntimeInv /\ [Next]_vars => [LooseNext]_vars
  BY NextIsLoose DEF RuntimeInv, HeadInv
<1>. QED
  BY <1>1, <1>2, RuntimeInvInit, RuntimeInvNext, PTL DEF Spec

-----------------------------------------------------------------------------
(* The audit trail. *)

\* The event of each outcome.
LEMMA TerminalEventOf ==
    /\ TerminalEvent("completed") = "execution.completed"
    /\ TerminalEvent("failed") = "execution.failed"
    /\ TerminalEvent("expired") = "execution.expired"
    /\ TerminalEvent("cancelled") = "execution.cancelled"
BY DEF TerminalEvent

\* What is never written before an attempt has ended.
ClosingEvents == {"card.unload_started", "card.unloaded", "execution.retried",
                  "execution.stale_update_rejected"}

\* The trail of one attempt.
TrailOf(k) ==
    /\ events[k] \cap TerminalEvents =
          IF Active(k) THEN {} ELSE {TerminalEvent(attempt[k].status)} \cap Audited
    /\ events[k] \cap ClosingEvents # {} => ~ Active(k)
    /\ "execution.started" \in events[k] => attempt[k].status # "claimed"
    /\ "card.unload_started" \in Audited /\ ~ Active(k) => "card.unload_started" \in events[k]

AuditInv == AgreeInv /\ \A k \in Made : TrailOf(k)

\* A step that leaves the status of an attempt alone and writes nothing that
\* belongs to a start or an end.
LEMMA TrailGoesOn ==
    ASSUME NEW k \in Made, TrailOf(k), NEW evs,
           attempt'[k].status = attempt[k].status,
           events'[k] = events[k] \cup (evs \cap Audited),
           evs \cap TerminalEvents = {}, "execution.started" \notin evs,
           evs \cap ClosingEvents # {} => ~ Active(k)
    PROVE  TrailOf(k)'
<1>1. Active(k)' <=> Active(k)
  BY DEF Active
<1>2. events'[k] \cap TerminalEvents = events[k] \cap TerminalEvents
  OBVIOUS
<1>. QED
  BY <1>1, <1>2 DEF TrailOf

\* The end of an attempt, or its start, closes or continues the trail.
LEMMA TrailEnds ==
    ASSUME NEW k \in Made, TrailOf(k), NEW evs, Active(k),
           NEW status \in EndedStatus, attempt'[k].status = status,
           events'[k] = events[k] \cup (evs \cap Audited),
           evs \cap TerminalEvents = {TerminalEvent(status)},
           "card.unload_started" \in evs
    PROVE  TrailOf(k)'
<1>1. ~ Active(k)' /\ status # "claimed"
  BY DEF Active, ActiveStatus, EndedStatus
<1>2. events[k] \cap TerminalEvents = {}
  BY DEF TrailOf
<1>3. events'[k] \cap TerminalEvents = {TerminalEvent(status)} \cap Audited
  BY <1>2
<1>. QED
  BY <1>1, <1>3 DEF TrailOf

\* The actions that write no trail.
LEMMA SilentTrails ==
    ASSUME AuditInv, UNCHANGED <<attempt, events>>
    PROVE  \A k \in Made' : TrailOf(k)'
BY DEF AuditInv, TrailOf, Active, Made

\* A new attempt has a trail without a start or an end.
LEMMA ClaimedTrails ==
    ASSUME AuditInv, NEW r \in Runtime, NEW t \in Task, NEW k \in Attempt \ Made, NEW card,
           Claimed(r, t, k, card)
    PROVE  \A j \in Made' : TrailOf(j)'
<1>1. Made' = Made \cup {k}
  BY DEF Claimed, Made
<1>2. ASSUME NEW j \in Made PROVE TrailOf(j)'
  <2>1. attempt'[j] = attempt[j] /\ events'[j] = events[j]
    BY DEF Claimed
  <2>. QED
    BY <2>1 DEF AuditInv, TrailOf, Active
<1>3. TrailOf(k)'
  <2>1. /\ attempt'[k].status = "claimed"
        /\ events'[k] = {"execution.claimed", "card.resolved"} \cap Audited
    BY DEF Claimed
  <2>2. Active(k)'
    BY <2>1 DEF Active, ActiveStatus
  <2>. QED
    BY <2>1, <2>2 DEF TrailOf, TerminalEvents, ClosingEvents
<1>. QED
  BY <1>1, <1>2, <1>3

\* Both kinds of claim.
LEMMA ClaimTrails ==
    ASSUME AuditInv, NEW r \in Runtime, NEW t \in Task,
           (\E e \in ExecId : ClaimFirstAttempt(r, t, e)) \/ ClaimRetry(r, t)
    PROVE  \A k \in Made' : TrailOf(k)'
<1>1. HeadInv
  BY DEF AuditInv, AgreeInv
<1>2. CASE \E e \in ExecId : ClaimFirstAttempt(r, t, e)
  <2>1. PICK e \in ExecId : ClaimFirstAttempt(r, t, e)
    BY <1>2
  <2>2. <<e, 1>> \in Attempt \ Made
    BY <1>1, <2>1, ClaimsANewRow
  <2>. QED
    BY <2>1, <2>2, ClaimedTrails DEF ClaimFirstAttempt
<1>3. CASE ClaimRetry(r, t)
  <2>1. <<task[t].current[1], task[t].current[2] + 1>> \in Attempt \ Made
    BY <1>1, <1>3, ClaimsANewRow
  <2>. QED
    BY <1>3, <2>1, ClaimedTrails DEF ClaimRetry
<1>. QED
  BY <1>2, <1>3

\* The calls about an attempt that neither start nor end it.  One that is rejected
\* as stale finds the attempt over: no live attempt loses its task.
LEMMA CallTrails ==
    ASSUME AuditInv, NEW k \in held,
           \/ RejectStale(k) \/ RecordLoadEvent(k) \/ RenewLease(k)
           \/ FinishCardUnload(k) \/ FailCardUnload(k)
    PROVE  \A j \in Made' : TrailOf(j)'
<1>1. k \in Made /\ attempt \in [Made -> AttemptRow] /\ events \in [Made -> SUBSET Audited]
  BY DEF AuditInv, AgreeInv, HeadInv, TypeOK
<1>2. Made' = Made /\ \A j \in Made : attempt'[j].status = attempt[j].status
  BY <1>1 DEF RejectStale, RecordLoadEvent, RenewLease, FinishCardUnload, FailCardUnload, Made, AttemptRow
<1>3. PICK evs : /\ events' = Record(k, evs)
                 /\ evs \cap TerminalEvents = {} /\ "execution.started" \notin evs
                 /\ evs \cap ClosingEvents # {} => ~ Active(k)
  <2>1. CASE RejectStale(k)
    <3>1. ~ Active(k)
      BY <1>1, <2>1 DEF RejectStale, AuditInv, AgreeInv, AttemptAndTaskAgree
    <3>. QED
      BY <2>1, <3>1 DEF RejectStale, TerminalEvents
  <2>2. CASE RecordLoadEvent(k)
    BY <2>2 DEF RecordLoadEvent, TerminalEvents, ClosingEvents
  <2>3. CASE RenewLease(k)
    BY <2>3 DEF RenewLease, TerminalEvents, ClosingEvents
  <2>4. CASE FinishCardUnload(k)
    <3>1. ~ Active(k)
      BY <2>4 DEF FinishCardUnload, Unloadable, Active, ActiveStatus, EndedStatus
    <3>. QED
      BY <2>4, <3>1 DEF FinishCardUnload, TerminalEvents
  <2>5. CASE FailCardUnload(k)
    BY <2>5 DEF FailCardUnload, TerminalEvents, ClosingEvents
  <2>. QED
    BY <2>1, <2>2, <2>3, <2>4, <2>5
<1>4. ASSUME NEW j \in Made PROVE TrailOf(j)'
  <2>1. TrailOf(j)
    BY DEF AuditInv
  <2>2. CASE j = k
    <3>1. events'[j] = events[j] \cup (evs \cap Audited)
      BY <1>1, <1>3, <2>2 DEF Record
    <3>. QED
      BY <1>2, <1>3, <2>1, <2>2, <3>1, TrailGoesOn
  <2>3. CASE j # k
    <3>1. events'[j] = events[j]
      BY <1>1, <1>3, <2>3 DEF Record
    <3>. QED
      BY <1>2, <2>1, <3>1 DEF TrailOf, Active
  <2>. QED
    BY <2>2, <2>3
<1>. QED
  BY <1>2, <1>4

\* The start of an attempt.
LEMMA StartTrails ==
    ASSUME AuditInv, NEW k \in held, MarkExecutionStarted(k)
    PROVE  \A j \in Made' : TrailOf(j)'
<1>1. k \in Made /\ attempt \in [Made -> AttemptRow] /\ events \in [Made -> SUBSET Audited]
  BY DEF AuditInv, AgreeInv, HeadInv, TypeOK
<1>2. /\ Made' = Made /\ attempt[k].status = "claimed" /\ attempt'[k].status = "running"
      /\ \A j \in Made : j # k => attempt'[j] = attempt[j] /\ events'[j] = events[j]
      /\ events'[k] = events[k] \cup ({"card.loaded", "execution.started"} \cap Audited)
  BY <1>1 DEF MarkExecutionStarted, Made, AttemptRow, Record
<1>3. ASSUME NEW j \in Made, j # k PROVE TrailOf(j)'
  BY <1>2, <1>3 DEF AuditInv, TrailOf, Active
<1>4. TrailOf(k)'
  <2>1. TrailOf(k) /\ Active(k) /\ Active(k)'
    BY <1>1, <1>2 DEF AuditInv, Active, ActiveStatus
  <2>2. events'[k] \cap TerminalEvents = {} /\ events'[k] \cap ClosingEvents = {}
    BY <1>2, <2>1 DEF TrailOf, TerminalEvents, ClosingEvents
  <2>. QED
    BY <1>2, <2>1, <2>2 DEF TrailOf
<1>. QED
  BY <1>2, <1>3, <1>4

\* The end of an attempt by a call of its process.
LEMMA EndTrails ==
    ASSUME AuditInv, NEW k \in held,
           CompleteExecution(k) \/ FailExecution(k) \/ CancelExecution(k)
    PROVE  \A j \in Made' : TrailOf(j)'
<1>1. /\ k \in Made /\ attempt \in [Made -> AttemptRow] /\ events \in [Made -> SUBSET Audited]
      /\ Active(k)
  BY DEF AuditInv, AgreeInv, HeadInv, TypeOK, CompleteExecution, FailExecution, CancelExecution,
     IsCurrentAttempt
<1>2. PICK status \in EndedStatus : \E evs :
         /\ attempt' = Closed(k, status)
         /\ events' = Record(k, evs)
         /\ evs \cap TerminalEvents = {TerminalEvent(status)}
         /\ "card.unload_started" \in evs
  <2>1. CASE CompleteExecution(k)
    BY <2>1, TerminalEventOf DEF CompleteExecution, EndedStatus, TerminalEvents
  <2>2. CASE FailExecution(k)
    <3>. DEFINE evs == {"execution.failed", "card.unload_started"}
                          \cup {x \in {"execution.retried"} : RetryScheduled(k)}
    <3>1. attempt' = Closed(k, "failed") /\ events' = Record(k, evs)
      BY <2>2 DEF FailExecution
    <3>2. evs \cap TerminalEvents = {TerminalEvent("failed")} /\ "card.unload_started" \in evs
      BY TerminalEventOf DEF TerminalEvents
    <3>3. "failed" \in EndedStatus
      BY DEF EndedStatus
    <3>. HIDE DEF evs
    <3>. QED
      BY <3>1, <3>2, <3>3
  <2>3. CASE CancelExecution(k)
    BY <2>3, TerminalEventOf DEF CancelExecution, EndedStatus, TerminalEvents
  <2>. QED
    BY <2>1, <2>2, <2>3
<1>3. PICK evs : /\ attempt' = Closed(k, status)
                 /\ events' = Record(k, evs)
                 /\ evs \cap TerminalEvents = {TerminalEvent(status)}
                 /\ "card.unload_started" \in evs
  BY <1>2
<1>4. /\ Made' = Made /\ attempt'[k].status = status
      /\ \A j \in Made : j # k => attempt'[j] = attempt[j] /\ events'[j] = events[j]
      /\ events'[k] = events[k] \cup (evs \cap Audited)
  BY <1>1, <1>3 DEF Closed, Record, Made, AttemptRow
<1>5. ASSUME NEW j \in Made, j # k PROVE TrailOf(j)'
  BY <1>4, <1>5 DEF AuditInv, TrailOf, Active
<1>6. TrailOf(k)'
  BY <1>1, <1>3, <1>4, TrailEnds DEF AuditInv
<1>. QED
  BY <1>4, <1>5, <1>6

\* The end of an attempt by a reclaim.
LEMMA ReclaimTrails ==
    ASSUME AuditInv, NEW S \in SUBSET Reclaimable, ReclaimLeasedTasks(S)
    PROVE  \A j \in Made' : TrailOf(j)'
<1>. DEFINE evs == {"execution.expired", "card.unload_started", "card.unloaded"}
<1>1. attempt \in [Made -> AttemptRow] /\ S \subseteq Made /\ \A k \in S : Active(k)
  BY DEF AuditInv, AgreeInv, HeadInv, TypeOK, Reclaimable
<1>2. Made' = Made
  BY DEF ReclaimLeasedTasks, Made
<1>3. ASSUME NEW j \in Made, j \in S PROVE TrailOf(j)'
  <2>1. attempt'[j].status = "expired" /\ events'[j] = events[j] \cup (evs \cap Audited)
    BY <1>1, <1>3 DEF ReclaimLeasedTasks, AttemptRow
  <2>2. evs \cap TerminalEvents = {TerminalEvent("expired")} /\ "card.unload_started" \in evs
    BY TerminalEventOf DEF TerminalEvents
  <2>3. "expired" \in EndedStatus
    BY DEF EndedStatus
  <2>. HIDE DEF evs
  <2>. QED
    BY <1>1, <1>3, <2>1, <2>2, <2>3, TrailEnds DEF AuditInv
<1>4. ASSUME NEW j \in Made, j \notin S PROVE TrailOf(j)'
  <2>1. attempt'[j] = attempt[j] /\ events'[j] = events[j]
    BY <1>4 DEF ReclaimLeasedTasks
  <2>. QED
    BY <2>1 DEF AuditInv, TrailOf, Active
<1>. QED
  BY <1>2, <1>3, <1>4

\* Time does not write.
LEMMA ExpiryTrails ==
    ASSUME AuditInv, NEW k \in Made, LeaseExpires(k)
    PROVE  \A j \in Made' : TrailOf(j)'
<1>1. Made' = Made /\ events' = events /\ \A j \in Made : attempt'[j].status = attempt[j].status
  BY DEF LeaseExpires, Made, AuditInv, AgreeInv, HeadInv, TypeOK, AttemptRow
<1>. QED
  BY <1>1 DEF AuditInv, TrailOf, Active

\* AuditInv is inductive if no publication lists a task in progress.
LEMMA AuditInvNext ==
    ASSUME AuditInv, [Next]_vars, Rerun # "any"
    PROVE  AuditInv'
<1>1. AgreeInv'
  BY AgreeNext, NextIsLoose DEF AuditInv, AgreeInv, HeadInv
<1>2. CASE \/ \E dag \in Dags : PublishDag(dag)
           \/ \E c \in Managed : SetCardStatus(c)
           \/ \E r \in Runtime : RegisterRuntime(r) \/ StopRuntime(r) \/ CrashRuntime(r)
           \/ \E r \in Runtime, t \in Task : ClaimWithoutCard(r, t)
           \/ \E k \in held : DropClaim(k)
           \/ UNCHANGED vars
  <2>1. UNCHANGED <<attempt, events>>
    BY <1>2 DEF PublishDag, InsertDag, SetCardStatus, RegisterRuntime, StopRuntime,
       CrashRuntime, ClaimWithoutCard, DropClaim, vars
  <2>. QED
    BY <1>1, <2>1, SilentTrails DEF AuditInv
<1>3. CASE \E r \in Runtime, t \in Task :
              (\E e \in ExecId : ClaimFirstAttempt(r, t, e)) \/ ClaimRetry(r, t)
  BY <1>1, <1>3, ClaimTrails DEF AuditInv
<1>4. CASE \E k \in held : \/ RejectStale(k) \/ RecordLoadEvent(k) \/ RenewLease(k)
                           \/ FinishCardUnload(k) \/ FailCardUnload(k)
  BY <1>1, <1>4, CallTrails DEF AuditInv
<1>5. CASE \E k \in held : MarkExecutionStarted(k)
  BY <1>1, <1>5, StartTrails DEF AuditInv
<1>6. CASE \E k \in held : CompleteExecution(k) \/ FailExecution(k) \/ CancelExecution(k)
  BY <1>1, <1>6, EndTrails DEF AuditInv
<1>7. CASE \E S \in SUBSET Reclaimable : ReclaimLeasedTasks(S)
  BY <1>1, <1>7, ReclaimTrails DEF AuditInv
<1>8. CASE \E k \in Made : LeaseExpires(k)
  BY <1>1, <1>8, ExpiryTrails DEF AuditInv
<1>. QED
  BY <1>2, <1>3, <1>4, <1>5, <1>6, <1>7, <1>8 DEF Next

\* Whoever ends an attempt, and however late the calls of others arrive, its audit
\* trail says once how it ended, and says nothing of an end before.
THEOREM AuditCorrect ==
    ASSUME Rerun # "any"
    PROVE  Spec => []AuditClosesTheAttempt
<1>1. Init => AuditInv
  BY HeadInvInit DEF AuditInv, AgreeInv, AttemptAndTaskAgree, Init, Made
<1>2. AuditInv /\ [Next]_vars => AuditInv'
  BY AuditInvNext
<1>3. AuditInv => AuditClosesTheAttempt
  <2>1. ASSUME AuditInv, NEW k \in Made, "card.unloaded" \in events[k]
        PROVE  ~ Active(k)
    <3>1. "card.unloaded" \in events[k] \cap ClosingEvents
      BY <2>1 DEF ClosingEvents
    <3>. QED
      BY <2>1, <3>1 DEF AuditInv, TrailOf
  <2>. QED
    BY <2>1 DEF AuditInv, TrailOf, AuditClosesTheAttempt, ClosingEvents
<1>. QED
  BY <1>1, <1>2, <1>3, PTL DEF Spec

=============================================================================

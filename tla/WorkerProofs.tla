----------------------------- MODULE WorkerProofs -----------------------------
(***************************************************************************)
(* The worker processes use the scheduler as it is meant to be used, and   *)
(* their loop finds its row free, for any number of processes, attempts    *)
(* and errors.                                                             *)
(***************************************************************************)
EXTENDS RuntimeWorker, DagSchedulerProofs

-----------------------------------------------------------------------------
(* What a process does to the tables. *)

\* What process r does in one step.
Act(r) ==
    \/ StartWorker(r) \/ CrashWorker(r)
    \/ TakeTask(r) \/ TurnRaises(r) \/ ClaimIsLost(r) \/ Proceed(r)
    \/ AgentAnswers(r) \/ AgentFails(r)
    \/ Renew(r) \/ LoseLease(r) \/ ReceiveCancel(r) \/ CancelReturns(r)
    \/ ReceiveStop(r) \/ DeliverCancel(r)

\* The calls of the execution of an attempt.
ExecutionCall(k) ==
    \/ RejectStale(k) \/ RecordLoadEvent(k) \/ MarkExecutionStarted(k) \/ RenewLease(k)
    \/ CompleteExecution(k) \/ FailExecution(k) \/ CancelExecution(k) \/ FinishCardUnload(k)

Claims(r, t) == (\E e \in ExecId : ClaimFirstAttempt(r, t, e)) \/ ClaimRetry(r, t) \/ ClaimWithoutCard(r, t)

\* A process changes the tables by calls on its own row and on its own claim.
LEMMA OwnCalls ==
    ASSUME NEW r \in Runtime, Act(r)
    PROVE  \/ UNCHANGED vars
           \/ RegisterRuntime(r) \/ StopRuntime(r) \/ CrashRuntime(r)
           \/ \E t \in Task : At(r, {"scanning", "receiving"}) /\ Claims(r, t)
           \/ /\ ~ At(r, {"down", "top", "scanning", "receiving"})
              /\ ExecutionCall(Claim(r)) \/ DropClaim(Claim(r))
<1>1. CASE StartWorker(r) \/ CrashWorker(r) \/ TurnRaises(r) \/ ClaimIsLost(r) \/ AgentFails(r)
           \/ CancelReturns(r) \/ ReceiveStop(r) \/ DeliverCancel(r)
  BY <1>1 DEF StartWorker, CrashWorker, TurnRaises, ClaimIsLost, AgentFails, CancelReturns, ReceiveStop,
     DeliverCancel, Exit, Escapes, Error
<1>2. CASE TakeTask(r)
  BY <1>2 DEF TakeTask, Claims
<1>3. CASE AgentAnswers(r) \/ Renew(r) \/ LoseLease(r) \/ ReceiveCancel(r)
  BY <1>3 DEF AgentAnswers, Renew, LoseLease, ReceiveCancel, Refused, Caught, Error, Beats, At,
     InExecution, ExecutionCall
<1>4. CASE TopOfLoop(r) \/ TakeNothing(r) \/ Execute(r)
  BY <1>4 DEF TopOfLoop, TakeNothing, Execute, Exit
<1>5. CASE StartLoading(r) \/ StartExecuting(r) \/ LoadFails(r) \/ ReportFailure(r)
  BY <1>5 DEF StartLoading, StartExecuting, LoadFails, ReportFailure, LoadEvent, Refused, Caught, Escapes,
     Error, At, ExecutionCall
<1>6. CASE CloseExecution(r) \/ UnloadAgain(r)
  BY <1>6 DEF CloseExecution, UnloadAgain, Unloads, Error, At, ExecutionCall
<1>7. CASE LeaveExecution(r)
  BY <1>7 DEF LeaveExecution, Exit, At
<1> QED
  BY <1>1, <1>2, <1>3, <1>4, <1>5, <1>6, <1>7 DEF Act, Proceed

\* Every step of the workers and of their environment is a step of the scheduler, or none.
LEMMA SchedulerStep == [WorkerNext]_allVars => [Next]_vars
<1>1. ASSUME NEW k, ExecutionCall(k) \/ DropClaim(k) PROVE Next
  BY <1>1 DEF ExecutionCall, DropClaim, RejectStale, RecordLoadEvent, MarkExecutionStarted, RenewLease,
     CompleteExecution, FailExecution, CancelExecution, FinishCardUnload, Next
<1>2. ASSUME NEW r \in Runtime, Act(r) PROVE [Next]_vars
  <2>1. CASE \E t \in Task : Claims(r, t)
    BY <2>1 DEF Claims, Next
  <2>2. CASE RegisterRuntime(r) \/ StopRuntime(r) \/ CrashRuntime(r)
    BY <2>2 DEF Next
  <2> QED
    BY <1>1, <1>2, <2>1, <2>2, OwnCalls
<1>3. CASE Environment
  BY <1>3 DEF Environment, Next
<1>4. CASE UNCHANGED allVars
  BY <1>4 DEF allVars
<1> QED
  BY <1>2, <1>3, <1>4 DEF WorkerNext, Act

\* The worker loop drives the scheduler within its rules: whatever the coroutines, the
\* cancellations and the errors of the calls do, a behaviour of the workers is one of
\* DagScheduler, so that all that is proved of the scheduler holds while they run.
THEOREM WorkersObeyScheduler == WorkerSpec => Spec
<1>1. WorkerInit => Init
  BY DEF WorkerInit
<1> QED
  BY <1>1, SchedulerStep, PTL DEF WorkerSpec, Spec

-----------------------------------------------------------------------------
(* What a process has in memory, and its row. *)

Places == {"down", "top", "scanning", "receiving", "claimed", "unloading", "leaving"} \cup InExecution

Memory == [at : Places, claim : Attempt \cup {NoAttempt}, scanned : BOOLEAN, cancelling : BOOLEAN,
           raised : BOOLEAN, isolated : BOOLEAN, confirmed : BOOLEAN, stopping : BOOLEAN]

\* Between two claims.
AtRest(r) == At(r, {"down", "top", "scanning", "receiving"})

\* The row is free, or will be when the lease of the attempt it names runs out.
Free(r) ==
    \/ runtime[r].status = "idle"
    \/ runtime[r].current # NoAttempt /\ Active(runtime[r].current)

\* The row waits for the call that unloads attempt k.
Unloading(r, k) == runtime[r].current = k /\ Unloadable(k)

\* A process that works on a claim holds it, and its row is free but for the time
\* between the end of an attempt and its unload.
MemoryOf(r) ==
    /\ r \in up <=> ~ At(r, {"down"})
    /\ ~ AtRest(r) => Claim(r) \in held /\ attempt[Claim(r)].runtime = r
    /\ ~ At(r, {"down"}) /\ ~ worker[r].isolated =>
          \/ Free(r)
          \/ At(r, InExecution \cup {"unloading"}) /\ Unloading(r, Claim(r))

WorkerInv ==
    /\ RuntimeInv
    /\ worker \in [Runtime -> Memory]
    /\ \A r \in Runtime : MemoryOf(r)

\* Nobody has a process, and every row is unregistered.
LEMMA WorkerInvInit == WorkerInit => WorkerInv
<1> SUFFICES ASSUME WorkerInit PROVE WorkerInv
  OBVIOUS
<1>1. RuntimeInv
  BY RuntimeInvInit DEF WorkerInit
<1>2. worker \in [Runtime -> Memory]
  BY DEF WorkerInit, Off, Memory, Places
<1>3. \A r \in Runtime : MemoryOf(r)
  BY DEF WorkerInit, Init, Off, MemoryOf, AtRest, At
<1> QED
  BY <1>1, <1>2, <1>3 DEF WorkerInv

-----------------------------------------------------------------------------
(* The steps of a process leave the other processes alone. *)

\* A step that keeps the memory of a process, its claims and the state of its attempts,
\* and that keeps or frees its row.
LEMMA LeftAlone ==
    ASSUME WorkerInv, [Next]_vars, NEW x \in Runtime,
           worker'[x] = worker[x], x \in up' <=> x \in up,
           \A k \in held : attempt[k].runtime = x => k \in held',
           \/ runtime'[x].status = "idle"
           \/ /\ runtime'[x] = runtime[x]
              /\ \A k \in Made : runtime[x].current = k =>
                    \/ attempt'[k].status = attempt[k].status
                    \/ Active(k) /\ Active(k)'
    PROVE  MemoryOf(x)'
<1> USE DEF WorkerInv, RuntimeInv, HeadInv, TypeOK
<1>1. \A k \in Made : k \in Made' /\ attempt'[k].runtime = attempt[k].runtime
  <2>1. [LooseNext]_vars
    BY NextIsLoose
  <2> QED
    BY <2>1, RowsStay
<1>2. /\ x \in up' <=> ~ At(x, {"down"})'
      /\ ~ AtRest(x)' => Claim(x)' \in held' /\ attempt'[Claim(x)'].runtime = x
  BY <1>1 DEF MemoryOf, AtRest, At, Claim
<1>3. CASE runtime'[x].status = "idle"
  BY <1>2, <1>3 DEF MemoryOf, Free
<1>4. CASE /\ runtime'[x] = runtime[x]
           /\ \A k \in Made : runtime[x].current = k =>
                 \/ attempt'[k].status = attempt[k].status
                 \/ Active(k) /\ Active(k)'
  <2>1. Free(x) => Free(x)'
    <3>1. runtime[x].current # NoAttempt => runtime[x].current \in Made
      OBVIOUS
    <3>2. \A k \in Made : runtime[x].current = k /\ Active(k) => Active(k)'
      BY <1>4 DEF Active
    <3> QED
      BY <1>4, <3>1, <3>2 DEF Free, Active
  <2>2. ~ AtRest(x) /\ Unloading(x, Claim(x)) => Unloading(x, Claim(x))'
    <3>1. ASSUME NEW k \in Made, attempt[k].runtime = x, Unloading(x, k)
          PROVE  runtime'[x].current = k /\ attempt'[k].status \in EndedStatus /\ runtime'[x].status = "unloading"
      BY <1>4, <3>1 DEF Unloading, Unloadable, Active, ActiveStatus, EndedStatus
    <3>2. ~ AtRest(x) => Claim(x) \in Made /\ attempt[Claim(x)].runtime = x
      BY DEF MemoryOf
    <3>3. Claim(x)' = Claim(x)
      BY DEF Claim
    <3> QED
      BY <1>1, <3>1, <3>2, <3>3 DEF Unloading, Unloadable
  <2> QED
    BY <1>2, <2>1, <2>2 DEF MemoryOf, AtRest, At, InExecution
<1> QED
  BY <1>3, <1>4

\* The calls of another process on its own claim.
LEMMA OthersCall ==
    ASSUME WorkerInv, [Next]_vars, NEW x \in Runtime, worker'[x] = worker[x],
           NEW k, k \in held, attempt[k].runtime # x, ExecutionCall(k) \/ DropClaim(k)
    PROVE  MemoryOf(x)'
<1> USE DEF WorkerInv, RuntimeInv, HeadInv, TypeOK
<1>0. runtime[x].current = k => attempt[k].runtime = x
  BY NullAssumption DEF RuntimeFollowsAttempt
<1>1. up' = up /\ \A j \in held : j # k => j \in held'
  BY DEF ExecutionCall, DropClaim, RejectStale, RecordLoadEvent, MarkExecutionStarted, RenewLease,
     CompleteExecution, FailExecution, CancelExecution, FinishCardUnload
<1>2. runtime'[x] = runtime[x]
  BY DEF ExecutionCall, DropClaim, RejectStale, RecordLoadEvent, MarkExecutionStarted, RenewLease,
     CompleteExecution, FailExecution, CancelExecution, FinishCardUnload, SetRuntimeUnloading
<1>3. \A j \in Made : j # k => attempt'[j] = attempt[j]
  BY DEF ExecutionCall, DropClaim, RejectStale, RecordLoadEvent, MarkExecutionStarted, RenewLease,
     CompleteExecution, FailExecution, CancelExecution, FinishCardUnload, Closed
<1> QED
  BY <1>0, <1>1, <1>2, <1>3, LeftAlone

\* A claim with a card writes the row of an attempt that was not there.
LEMMA ClaimedRow ==
    ASSUME HeadInv, NEW r \in Runtime, NEW t \in Task,
           (\E e \in ExecId : ClaimFirstAttempt(r, t, e)) \/ ClaimRetry(r, t)
    PROVE  \E k \in Attempt \ Made : \E card : Claimed(r, t, k, card)
<1>1. ASSUME NEW e \in ExecId, ClaimFirstAttempt(r, t, e)
      PROVE  \E k \in Attempt \ Made : \E card : Claimed(r, t, k, card)
  <2>1. <<e, 1>> \in Attempt \ Made
    BY <1>1, ClaimsANewRow
  <2>2. Claimed(r, t, <<e, 1>>, ResolvedCard(t))
    BY <1>1 DEF ClaimFirstAttempt
  <2> QED
    BY <2>1, <2>2
<1>2. ASSUME ClaimRetry(r, t)
      PROVE  \E k \in Attempt \ Made : \E card : Claimed(r, t, k, card)
  <2>1. <<task[t].current[1], task[t].current[2] + 1>> \in Attempt \ Made
    BY <1>2, ClaimsANewRow
  <2>2. Claimed(r, t, <<task[t].current[1], task[t].current[2] + 1>>, FrozenCard(task[t].current))
    BY <1>2 DEF ClaimRetry
  <2> QED
    BY <2>1, <2>2
<1> QED
  BY <1>1, <1>2

\* The step of another process.
LEMMA OthersStep ==
    ASSUME WorkerInv, [Next]_vars, NEW r \in Runtime, Act(r), NEW x \in Runtime, x # r,
           worker'[x] = worker[x]
    PROVE  MemoryOf(x)'
<1> USE DEF WorkerInv, RuntimeInv, HeadInv, TypeOK
<1>1. CASE UNCHANGED vars
  BY <1>1, LeftAlone DEF vars
<1>2. CASE RegisterRuntime(r) \/ StopRuntime(r) \/ CrashRuntime(r)
  <2>1. /\ x \in up' <=> x \in up
        /\ runtime'[x] = runtime[x] /\ attempt' = attempt
        /\ \A k \in held : attempt[k].runtime = x => k \in held'
    BY <1>2 DEF RegisterRuntime, StopRuntime, CrashRuntime, Forget
  <2> QED
    BY <2>1, LeftAlone
<1>3. ASSUME NEW t \in Task, Claims(r, t) PROVE MemoryOf(x)'
  <2>1. CASE ClaimWithoutCard(r, t)
    BY <2>1, LeftAlone DEF ClaimWithoutCard
  <2>2. ASSUME NEW k, NEW card, Claimed(r, t, k, card), k \notin Made PROVE MemoryOf(x)'
    <3>1. /\ up' = up /\ held \subseteq held' /\ runtime'[x] = runtime[x]
          /\ \A j \in Made : attempt'[j] = attempt[j]
      BY <2>2 DEF Claimed
    <3> QED
      BY <3>1, LeftAlone
  <2> QED
    BY <1>3, <2>1, <2>2, ClaimedRow DEF Claims
<1>4. CASE /\ ~ At(r, {"down", "top", "scanning", "receiving"})
           /\ ExecutionCall(Claim(r)) \/ DropClaim(Claim(r))
  <2>1. Claim(r) \in held /\ attempt[Claim(r)].runtime = r
    BY <1>4 DEF MemoryOf, AtRest
  <2> QED
    BY <1>4, <2>1, OthersCall
<1> QED
  BY <1>1, <1>2, <1>3, <1>4, OwnCalls

\* The step of the environment.
LEMMA EnvironmentStep ==
    ASSUME WorkerInv, [Next]_vars, Environment, NEW x \in Runtime
    PROVE  MemoryOf(x)'
<1> USE DEF WorkerInv, RuntimeInv, HeadInv, TypeOK
<1>1. worker' = worker
  BY DEF Environment, workerVars
<1>2. CASE (\E dag \in Dags : PublishDag(dag)) \/ \E c \in Managed : SetCardStatus(c)
  BY <1>1, <1>2, LeftAlone DEF PublishDag, InsertDag, SetCardStatus
<1>3. ASSUME NEW k \in Made, LeaseExpires(k) PROVE MemoryOf(x)'
  <2>1. \A j \in Made : attempt'[j].status = attempt[j].status
    BY <1>3 DEF LeaseExpires, AttemptRow
  <2> QED
    BY <1>1, <1>3, <2>1, LeftAlone DEF LeaseExpires
<1>4. ASSUME NEW S \in SUBSET Reclaimable, ReclaimLeasedTasks(S) PROVE MemoryOf(x)'
  <2>1. UNCHANGED <<up, held>>
    BY <1>4 DEF ReclaimLeasedTasks
  <2>2. runtime'[x].status = "idle" \/ (runtime'[x] = runtime[x] /\ runtime[x].current \notin S)
    BY <1>4 DEF ReclaimLeasedTasks
  <2>3. CASE runtime'[x].status = "idle"
    BY <1>1, <2>1, <2>3, LeftAlone
  <2>4. CASE runtime'[x] = runtime[x] /\ runtime[x].current \notin S
    <3>1. \A j \in Made \ S : attempt'[j] = attempt[j]
      BY <1>4 DEF ReclaimLeasedTasks
    <3> QED
      BY <1>1, <2>1, <2>4, <3>1, LeftAlone
  <2> QED
    BY <2>2, <2>3, <2>4
<1> QED
  BY <1>2, <1>3, <1>4 DEF Environment

-----------------------------------------------------------------------------
(* The steps of a process in its own memory. *)

\* A step of process r writes nothing in memory but its own.
Writes(r) ==
    /\ worker' \in [Runtime -> Memory]
    /\ \A x \in Runtime : x # r => worker'[x] = worker[x]

\* ... and leaves it somewhere in places with the claim it had.
Moves(r, places) ==
    /\ Writes(r)
    /\ worker'[r].claim = worker[r].claim /\ worker'[r].isolated = worker[r].isolated
    /\ worker'[r].at \in places

\* A write of a whole record.
LEMMA RecordWritten ==
    ASSUME worker \in [Runtime -> Memory], NEW r \in Runtime,
           NEW m \in Memory, worker' = [worker EXCEPT ![r] = m]
    PROVE  Writes(r) /\ worker'[r] = m
BY DEF Writes

\* A write of a record with the claim there was.
LEMMA RecordMoves ==
    ASSUME worker \in [Runtime -> Memory], NEW r \in Runtime, NEW places,
           NEW m \in Memory, worker' = [worker EXCEPT ![r] = m],
           m.claim = worker[r].claim, m.isolated = worker[r].isolated, m.at \in places
    PROVE  Moves(r, places)
BY RecordWritten DEF Moves

\* A write of the place, and one of an exception on its way.
LEMMA PlaceMoves ==
    ASSUME worker \in [Runtime -> Memory], NEW r \in Runtime, NEW places \in SUBSET Places,
           NEW place \in places,
           \/ worker' = [worker EXCEPT ![r].at = place]
           \/ worker' = [worker EXCEPT ![r].at = place, ![r].raised = TRUE]
    PROVE  Moves(r, places)
<1>0. worker[r] \in Memory /\ place \in Places
  OBVIOUS
<1>1. CASE worker' = [worker EXCEPT ![r].at = place]
  <2> DEFINE m == [worker[r] EXCEPT !.at = place]
  <2>1. m \in Memory /\ m.claim = worker[r].claim /\ m.isolated = worker[r].isolated /\ m.at = place
    BY <1>0 DEF Memory
  <2>2. worker' = [worker EXCEPT ![r] = m]
    BY <1>1
  <2> HIDE DEF m
  <2> QED
    BY <2>1, <2>2, RecordMoves
<1>2. CASE worker' = [worker EXCEPT ![r].at = place, ![r].raised = TRUE]
  <2> DEFINE m == [worker[r] EXCEPT !.at = place, !.raised = TRUE]
  <2>1. m \in Memory /\ m.claim = worker[r].claim /\ m.isolated = worker[r].isolated /\ m.at = place
    BY <1>0 DEF Memory
  <2>2. worker' = [worker EXCEPT ![r] = m]
    BY <1>2
  <2> HIDE DEF m
  <2> QED
    BY <2>1, <2>2, RecordMoves
<1> QED
  BY <1>1, <1>2

\* A step that leaves the memory as it is, in a place it knows.
LEMMA StaysMoves ==
    ASSUME worker \in [Runtime -> Memory], NEW r \in Runtime, NEW places, At(r, places),
           worker' = worker
    PROVE  Moves(r, places)
BY DEF Moves, Writes, At

\* The calls of an execution lead from one of its places to the next.
LEMMA ExecutionMoves ==
    ASSUME WorkerInv, NEW r \in Runtime,
           \/ StartLoading(r) \/ StartExecuting(r) \/ LoadFails(r) \/ ReportFailure(r)
           \/ CloseExecution(r) \/ AgentAnswers(r) \/ Renew(r) \/ LoseLease(r) \/ ReceiveCancel(r)
    PROVE  Moves(r, InExecution \cup {"unloading"})
<1> DEFINE places == InExecution \cup {"unloading"}
<1>0. /\ worker \in [Runtime -> Memory] /\ worker[r] \in Memory
      /\ places \in SUBSET Places
      /\ {"starting", "loading", "executing", "failing", "closing", "unloading"} \subseteq places
  BY DEF WorkerInv, Places, InExecution
<1>1. CASE StartLoading(r) \/ StartExecuting(r)
  <2>1. \E place \in {"loading", "executing", "failing", "closing", "unloading"} :
           \/ worker' = [worker EXCEPT ![r].at = place]
           \/ worker' = [worker EXCEPT ![r].at = place, ![r].raised = TRUE]
    BY <1>1 DEF StartLoading, StartExecuting, Goto, Refused, Caught, Escapes
  <2> QED
    BY <1>0, <2>1, PlaceMoves
<1>2. CASE LoadFails(r) \/ ReportFailure(r) \/ AgentAnswers(r)
  <2>1. \E place \in {"failing", "closing"} :
           \/ worker' = [worker EXCEPT ![r].at = place]
           \/ worker' = [worker EXCEPT ![r].at = place, ![r].raised = TRUE]
    BY <1>2 DEF LoadFails, ReportFailure, AgentAnswers, Goto, Refused, Caught, Escapes
  <2> QED
    BY <1>0, <2>1, PlaceMoves
<1>3. CASE CloseExecution(r)
  <2> DEFINE closed == [worker[r] EXCEPT !.at = "unloading", !.cancelling = FALSE]
             raised == [closed EXCEPT !.raised = TRUE]
  <2>1. /\ closed \in Memory /\ closed.claim = worker[r].claim /\ closed.isolated = worker[r].isolated
        /\ closed.at = "unloading"
    BY <1>0 DEF Memory, Places
  <2> DEFINE over == [worker EXCEPT ![r] = closed]
  <2>2. over[r] = closed /\ \A m : [over EXCEPT ![r] = m] = [worker EXCEPT ![r] = m]
    BY <1>0, <2>1
  <2>3. worker' = over \/ worker' = [over EXCEPT ![r] = [over[r] EXCEPT !.raised = TRUE]]
    BY <1>3 DEF CloseExecution
  <2> HIDE DEF closed
  <2>4. /\ raised \in Memory /\ raised.claim = worker[r].claim /\ raised.isolated = worker[r].isolated
        /\ raised.at = "unloading"
    BY <2>1 DEF Memory
  <2>5. worker' = over \/ worker' = [worker EXCEPT ![r] = raised]
    BY <2>2, <2>3
  <2> HIDE DEF raised
  <2> QED
    BY <1>0, <2>1, <2>4, <2>5, RecordMoves
<1>4. CASE Renew(r)
  BY <1>0, <1>4, StaysMoves DEF Renew, Beats, At, workerVars
<1>5. CASE LoseLease(r) \/ ReceiveCancel(r)
  <2>1. At(r, places) /\ Cancelled(r) \in BOOLEAN
    BY <1>0, <1>5 DEF LoseLease, ReceiveCancel, Beats, Cancelled, At
  <2>2. \A b \in BOOLEAN, f \in {"cancelling", "confirmed"} :
           LET m == [worker[r] EXCEPT ![f] = b] IN
           /\ m \in Memory
           /\ m.claim = worker[r].claim /\ m.isolated = worker[r].isolated /\ m.at = worker[r].at
    BY <1>0 DEF Memory
  <2>3. \/ worker' = [worker EXCEPT ![r] = [worker[r] EXCEPT !.cancelling = Cancelled(r)]]
        \/ worker' = [worker EXCEPT ![r] = [worker[r] EXCEPT !.confirmed = TRUE]]
        \/ worker' = worker
    BY <1>5 DEF LoseLease, ReceiveCancel, workerVars
  <2> QED
    BY <1>0, <2>1, <2>2, <2>3, RecordMoves, StaysMoves DEF At
<1> QED
  BY <1>1, <1>2, <1>3, <1>4, <1>5

\* A cancelled execution goes to one of its finally blocks.
LEMMA CancelMoves ==
    ASSUME WorkerInv, NEW r \in Runtime, DeliverCancel(r)
    PROVE  At(r, InExecution) /\ Moves(r, InExecution \cup {"unloading"})
<1> DEFINE calm == [worker[r] EXCEPT !.cancelling = FALSE]
<1>0. worker \in [Runtime -> Memory] /\ worker[r] \in Memory
  BY DEF WorkerInv
<1>1. /\ calm \in Memory /\ calm.claim = worker[r].claim /\ calm.isolated = worker[r].isolated
      /\ calm.at = worker[r].at
  BY <1>0 DEF Memory
<1> DEFINE noticed == [worker EXCEPT ![r] = calm]
<1>2. noticed[r] = calm /\ \A m : [noticed EXCEPT ![r] = m] = [worker EXCEPT ![r] = m]
  BY <1>0
<1>3. /\ At(r, InExecution)
      /\ \/ worker' = noticed
         \/ worker' = [noticed EXCEPT ![r] = [noticed[r] EXCEPT !.at = "unloading"]]
         \/ worker' = [noticed EXCEPT ![r] = [noticed[r] EXCEPT !.at = "closing"]]
         \/ worker' = [noticed EXCEPT ![r] = [noticed[r] EXCEPT !.at = "unloading", !.raised = FALSE]]
  BY DEF DeliverCancel, At, InExecution
<1> HIDE DEF calm
<1>4. \/ worker' = [worker EXCEPT ![r] = calm]
      \/ worker' = [worker EXCEPT ![r] = [calm EXCEPT !.at = "unloading"]]
      \/ worker' = [worker EXCEPT ![r] = [calm EXCEPT !.at = "closing"]]
      \/ worker' = [worker EXCEPT ![r] = [calm EXCEPT !.at = "unloading", !.raised = FALSE]]
  BY <1>2, <1>3
<1>5. \A m \in {[calm EXCEPT !.at = "unloading"], [calm EXCEPT !.at = "closing"],
                [calm EXCEPT !.at = "unloading", !.raised = FALSE]} :
         /\ m \in Memory /\ m.claim = worker[r].claim /\ m.isolated = worker[r].isolated
         /\ m.at \in {"unloading", "closing"}
  BY <1>1 DEF Memory, Places, InExecution
<1>6. {"unloading", "closing"} \subseteq InExecution \cup {"unloading"}
  BY DEF InExecution
<1> QED
  BY <1>0, <1>1, <1>3, <1>4, <1>5, <1>6, RecordMoves DEF At

\* The steps of the loop, and those that are no call.
LEMMA LoopMoves ==
    ASSUME WorkerInv, NEW r \in Runtime
    PROVE  /\ TopOfLoop(r) \/ TakeNothing(r) =>
                 /\ At(r, {"top", "scanning", "receiving"})
                 /\ Exit(r) \/ Moves(r, {"top", "scanning", "receiving"})
           /\ StartWorker(r) => Moves(r, {"top"})
           /\ Execute(r) \/ ClaimIsLost(r) =>
                 At(r, {"claimed"}) /\ Moves(r, {"starting", "leaving"})
           /\ AgentFails(r) => At(r, InExecution) /\ Moves(r, InExecution)
           /\ CancelReturns(r) \/ ReceiveStop(r) => Moves(r, {worker[r].at})
<1>0. /\ worker \in [Runtime -> Memory] /\ worker[r] \in Memory
      /\ {"top", "scanning", "receiving"} \in SUBSET Places
      /\ {"top"} \in SUBSET Places
      /\ {"starting", "leaving"} \in SUBSET Places
      /\ InExecution \in SUBSET Places /\ {"executing", "failing"} \subseteq InExecution
  BY DEF WorkerInv, Places, InExecution
<1>1. ASSUME TopOfLoop(r) \/ TakeNothing(r)
      PROVE  /\ At(r, {"top", "scanning", "receiving"})
             /\ Exit(r) \/ Moves(r, {"top", "scanning", "receiving"})
  <2>1. \/ Exit(r)
        \/ \E place \in {"top", "scanning", "receiving"} : worker' = [worker EXCEPT ![r].at = place]
    BY <1>1 DEF TopOfLoop, TakeNothing, Goto
  <2> QED
    BY <1>0, <1>1, <2>1, PlaceMoves DEF TopOfLoop, TakeNothing, At
<1>2. StartWorker(r) => Moves(r, {"top"})
  BY <1>0, PlaceMoves DEF StartWorker, Goto
<1>3. Execute(r) \/ ClaimIsLost(r) => At(r, {"claimed"}) /\ Moves(r, {"starting", "leaving"})
  BY <1>0, PlaceMoves DEF Execute, ClaimIsLost, Goto, Escapes
<1>4. AgentFails(r) => At(r, InExecution) /\ Moves(r, InExecution)
  BY <1>0, PlaceMoves DEF AgentFails, Goto, At
<1>5. ASSUME CancelReturns(r) \/ ReceiveStop(r) PROVE Moves(r, {worker[r].at})
  <2> DEFINE stopped == [worker[r] EXCEPT !.stopping = TRUE]
             returned == [worker[r] EXCEPT !.confirmed = FALSE, !.cancelling = Cancelled(r)]
  <2>1. /\ stopped \in Memory /\ stopped.claim = worker[r].claim
        /\ stopped.isolated = worker[r].isolated /\ stopped.at = worker[r].at
    BY <1>0 DEF Memory
  <2>2. /\ returned \in Memory /\ returned.claim = worker[r].claim
        /\ returned.isolated = worker[r].isolated /\ returned.at = worker[r].at
    <3>1. Cancelled(r) \in BOOLEAN
      BY DEF Cancelled, At
    <3> QED
      BY <1>0, <3>1 DEF Memory
  <2>3. worker' = [worker EXCEPT ![r] = stopped] \/ worker' = [worker EXCEPT ![r] = returned]
    BY <1>5 DEF CancelReturns, ReceiveStop
  <2> HIDE DEF stopped, returned
  <2> QED
    BY <1>0, <2>1, <2>2, <2>3, RecordMoves
<1> QED
  BY <1>1, <1>2, <1>3, <1>4, <1>5

\* A claim: the process notes the attempt its row names, or goes to the next turn.
LEMMA TakeWrites ==
    ASSUME WorkerInv, TypeOK', NEW r \in Runtime, TakeTask(r)
    PROVE  Writes(r)
<1>0. worker \in [Runtime -> Memory] /\ worker[r] \in Memory
  BY DEF WorkerInv
<1>1. runtime'[r].current \in Attempt \cup {NoAttempt} /\ At(r, {"scanning"}) \in BOOLEAN
  BY DEF TypeOK, RuntimeRow, At
<1> DEFINE m == [worker[r] EXCEPT !.at = "claimed", !.claim = runtime'[r].current,
                                  !.scanned = At(r, {"scanning"})]
<1>2. m \in Memory
  BY <1>0, <1>1 DEF Memory, Places
<1>3. worker' = [worker EXCEPT ![r] = m] \/ worker' = [worker EXCEPT ![r].at = "top"]
  BY DEF TakeTask
<1>4. {"top"} \in SUBSET Places
  BY DEF Places
<1> HIDE DEF m
<1> QED
  BY <1>0, <1>2, <1>3, <1>4, RecordWritten, PlaceMoves DEF Moves

\* The end of an execution: unload raised or not, and the claim is forgotten or the process is.
LEMMA EndMoves ==
    ASSUME WorkerInv, NEW r \in Runtime
    PROVE  /\ UnloadAgain(r) =>
                 /\ Writes(r) /\ worker'[r].at = "leaving" /\ worker'[r].claim = worker[r].claim
                 /\ worker'[r].isolated \/ (Unloads(Claim(r)) /\ worker'[r].isolated = worker[r].isolated)
           /\ LeaveExecution(r) =>
                 \/ Exit(r)
                 \/ /\ DropClaim(Claim(r)) /\ Writes(r)
                    /\ worker'[r].at \in {"receiving", "top"}
                    /\ worker'[r].isolated = worker[r].isolated
<1>0. worker \in [Runtime -> Memory] /\ worker[r] \in Memory
  BY DEF WorkerInv
<1>1. ASSUME UnloadAgain(r)
      PROVE  /\ Writes(r) /\ worker'[r].at = "leaving" /\ worker'[r].claim = worker[r].claim
             /\ worker'[r].isolated \/ (Unloads(Claim(r)) /\ worker'[r].isolated = worker[r].isolated)
  <2> DEFINE m == [worker[r] EXCEPT !.at = "leaving", !.raised = TRUE, !.isolated = TRUE]
  <2>1. m \in Memory /\ m.at = "leaving" /\ m.claim = worker[r].claim /\ m.isolated
    BY <1>0 DEF Memory, Places
  <2>2. \/ Unloads(Claim(r)) /\ worker' = [worker EXCEPT ![r].at = "leaving"]
        \/ worker' = [worker EXCEPT ![r] = m]
    BY <1>1 DEF UnloadAgain, Goto
  <2>3. {"leaving"} \in SUBSET Places
    BY DEF Places
  <2>4. CASE Unloads(Claim(r)) /\ worker' = [worker EXCEPT ![r].at = "leaving"]
    <3>1. Moves(r, {"leaving"})
      BY <1>0, <2>3, <2>4, PlaceMoves
    <3> QED
      BY <2>4, <3>1 DEF Moves
  <2>5. CASE worker' = [worker EXCEPT ![r] = m]
    <3> HIDE DEF m
    <3> QED
      BY <1>0, <2>1, <2>5, RecordWritten
  <2> QED
    BY <2>2, <2>4, <2>5
<1>2. ASSUME LeaveExecution(r), ~ Exit(r)
      PROVE  /\ DropClaim(Claim(r)) /\ Writes(r)
             /\ worker'[r].at \in {"receiving", "top"} /\ worker'[r].isolated = worker[r].isolated
  <2> DEFINE next == IF worker[r].scanned THEN "receiving" ELSE "top"
             m == [worker[r] EXCEPT !.at = next, !.claim = NoAttempt, !.scanned = FALSE,
                                    !.cancelling = FALSE, !.raised = FALSE]
  <2>1. m \in Memory /\ m.at \in {"receiving", "top"} /\ m.isolated = worker[r].isolated
    BY <1>0 DEF Memory, Places
  <2>2. DropClaim(Claim(r)) /\ worker' = [worker EXCEPT ![r] = m]
    BY <1>2 DEF LeaveExecution
  <2> HIDE DEF m
  <2> QED
    BY <1>0, <2>1, <2>2, RecordWritten
<1> QED
  BY <1>1, <1>2

\* A process writes its own memory, and what it writes has its type.
LEMMA OwnMemory ==
    ASSUME WorkerInv, TypeOK', NEW r \in Runtime, Act(r)
    PROVE  Writes(r)
<1>1. ASSUME Gone(r) PROVE Writes(r)
  <2>1. Off \in Memory
    BY DEF Off, Memory, Places
  <2> QED
    BY <1>1, <2>1, RecordWritten DEF Gone, WorkerInv
<1>2. CASE TakeTask(r)
  BY <1>2, TakeWrites
<1>3. CASE CrashWorker(r) \/ TurnRaises(r)
  BY <1>1, <1>3 DEF CrashWorker, TurnRaises, Exit
<1>4. CASE DeliverCancel(r)
  BY <1>4, CancelMoves DEF Moves
<1>5. CASE UnloadAgain(r) \/ LeaveExecution(r)
  BY <1>1, <1>5, EndMoves DEF Exit
<1>6. CASE \/ StartLoading(r) \/ StartExecuting(r) \/ LoadFails(r) \/ ReportFailure(r)
           \/ CloseExecution(r) \/ AgentAnswers(r) \/ Renew(r) \/ LoseLease(r) \/ ReceiveCancel(r)
  BY <1>6, ExecutionMoves DEF Moves
<1>7. CASE \/ TopOfLoop(r) \/ TakeNothing(r) \/ StartWorker(r) \/ Execute(r) \/ ClaimIsLost(r)
           \/ AgentFails(r) \/ CancelReturns(r) \/ ReceiveStop(r)
  BY <1>1, <1>7, LoopMoves DEF Moves, Exit
<1> QED
  BY <1>2, <1>3, <1>4, <1>5, <1>6, <1>7 DEF Act, Proceed

\* The end of a process.
LEMMA ExitKeeps ==
    ASSUME WorkerInv, NEW r \in Runtime, StopRuntime(r) \/ CrashRuntime(r), Gone(r)
    PROVE  MemoryOf(r)'
<1>1. worker'[r].at = "down" /\ r \notin up'
  BY DEF WorkerInv, Gone, Off, StopRuntime, CrashRuntime
<1> QED
  BY <1>1 DEF MemoryOf, AtRest, At

\* A step from one place to another that leaves the tables as they are.
LEMMA MoveKeeps ==
    ASSUME WorkerInv, NEW r \in Runtime, UNCHANGED vars,
           worker'[r].claim = worker[r].claim, worker'[r].isolated = worker[r].isolated,
           At(r, {"down"})' <=> At(r, {"down"}), AtRest(r)' <=> AtRest(r),
           At(r, InExecution \cup {"unloading"}) => At(r, InExecution \cup {"unloading"})'
    PROVE  MemoryOf(r)'
<1>1. Claim(r)' = Claim(r) /\ UNCHANGED <<attempt, runtime, up, held>>
  BY DEF Claim, vars
<1>2. (Free(r)' <=> Free(r)) /\ \A k : Unloading(r, k)' <=> Unloading(r, k)
  BY <1>1 DEF Free, Unloading, Unloadable, Active
<1>3. MemoryOf(r)
  BY DEF WorkerInv
<1>4. Unloading(r, Claim(r)) => Unloading(r, Claim(r))'
  BY <1>1 DEF Unloading, Unloadable
<1> QED
  BY <1>1, <1>2, <1>3, <1>4 DEF MemoryOf, AtRest, At

\* A call of an execution leaves the row free or waiting for the unload; unload frees it.
LEMMA CallKeeps ==
    ASSUME WorkerInv, [Next]_vars, NEW r \in Runtime, NEW k \in held, attempt[k].runtime = r,
           UNCHANGED vars \/ ExecutionCall(k)
    PROVE  /\ up' = up /\ k \in held' /\ attempt'[k].runtime = r
           /\ Free(r) \/ Unloading(r, k) => Free(r)' \/ Unloading(r, k)'
           /\ Unloads(k) /\ (Free(r) \/ Unloading(r, k)) => Free(r)'
<1>1. /\ attempt \in [Made -> AttemptRow] /\ runtime \in [Runtime -> RuntimeRow]
      /\ k \in Made /\ k # NoAttempt /\ attempt[k] \in AttemptRow /\ runtime[r] \in RuntimeRow
      /\ Active(k) => runtime[r].current = k
  BY NullAssumption DEF WorkerInv, RuntimeInv, HeadInv, TypeOK, HeldIsCurrent
<1>2. up' = up /\ held' = held /\ attempt'[k].runtime = r
  <2>1. up' = up /\ held' = held
    BY DEF vars, ExecutionCall, RejectStale, RecordLoadEvent, MarkExecutionStarted, RenewLease,
       CompleteExecution, FailExecution, CancelExecution, FinishCardUnload
  <2>2. [LooseNext]_vars
    BY NextIsLoose DEF WorkerInv, RuntimeInv, HeadInv
  <2> QED
    BY <1>1, <2>1, <2>2, RowsStay DEF WorkerInv, RuntimeInv
<1>3. ASSUME UNCHANGED <<attempt, runtime>>
      PROVE  (Free(r)' <=> Free(r)) /\ (Unloading(r, k)' <=> Unloading(r, k))
  <2>1. Free(r)' <=> Free(r)
    BY <1>3 DEF Free, Active
  <2>2. Unloading(r, k)' <=> Unloading(r, k)
    BY <1>3 DEF Unloading, Unloadable
  <2> QED
    BY <2>1, <2>2
<1>4. IsCurrentAttempt(k) => Active(k)
  BY DEF IsCurrentAttempt
<1>5. ASSUME MarkExecutionStarted(k) PROVE Free(r)'
  <2>1. Active(k) /\ attempt'[k].status = "running"
    BY <1>1, <1>4, <1>5 DEF MarkExecutionStarted, AttemptRow
  <2>2. runtime'[r].current = k
    BY <1>1, <1>5, <2>1 DEF MarkExecutionStarted, RuntimeRow
  <2>3. Active(k)'
    BY <2>1 DEF Active, ActiveStatus
  <2> QED
    BY <1>1, <2>2, <2>3 DEF Free, Active
<1>6. ASSUME RenewLease(k) PROVE Free(r)'
  <2>1. Active(k) /\ attempt'[k].status = attempt[k].status /\ runtime' = runtime
    BY <1>1, <1>4, <1>6 DEF RenewLease, AttemptRow
  <2>2. runtime'[r].current = k /\ Active(k)'
    BY <1>1, <2>1 DEF Active
  <2> QED
    BY <1>1, <2>2 DEF Free, Active
<1>7. ASSUME CompleteExecution(k) \/ FailExecution(k) \/ CancelExecution(k)
      PROVE  Unloading(r, k)' /\ ~ Unloads(k)
  <2>1. PICK status \in EndedStatus : attempt' = Closed(k, status)
    BY <1>7 DEF CompleteExecution, FailExecution, CancelExecution, EndedStatus
  <2>2. Active(k) /\ runtime' = SetRuntimeUnloading(k)
    BY <1>4, <1>7 DEF CompleteExecution, FailExecution, CancelExecution
  <2>3. attempt'[k].status \in EndedStatus
    BY <1>1, <2>1 DEF Closed, AttemptRow
  <2>4. runtime'[r].status = "unloading" /\ runtime'[r].current = k
    BY <1>1, <2>2 DEF SetRuntimeUnloading, RuntimeRow
  <2>5. Unloading(r, k)'
    BY <1>2, <2>3, <2>4 DEF Unloading, Unloadable
  <2>6. attempt[k].status \notin EndedStatus
    BY <2>2 DEF Active, ActiveStatus, EndedStatus
  <2> QED
    BY <2>3, <2>5, <2>6 DEF Unloads, FinishCardUnload, Unloadable, vars
<1>8. FinishCardUnload(k) => Free(r)'
  BY <1>1 DEF FinishCardUnload, Free
<1>9. Unloads(k) /\ (Free(r) \/ Unloading(r, k)) => Free(r)'
  <2>1. CASE ~ Unloadable(k) /\ UNCHANGED vars
    BY <2>1 DEF Unloading, Free, Active, vars
  <2> QED
    BY <1>8, <2>1 DEF Unloads
<1>10. Free(r) \/ Unloading(r, k) => Free(r)' \/ Unloading(r, k)'
  BY <1>3, <1>5, <1>6, <1>7, <1>8 DEF ExecutionCall, RejectStale, RecordLoadEvent, vars
<1> QED
  BY <1>2, <1>9, <1>10

\* A call from inside the execution, after which the execution or its finally blocks go on.
LEMMA ExecutionKeeps ==
    ASSUME WorkerInv, [Next]_vars, NEW r \in Runtime, ~ AtRest(r), ~ At(r, {"leaving"}),
           UNCHANGED vars \/ ExecutionCall(Claim(r)),
           worker'[r].claim = worker[r].claim, worker'[r].isolated = worker[r].isolated,
           At(r, InExecution \cup {"unloading"})'
    PROVE  MemoryOf(r)'
<1>1. MemoryOf(r)
  BY DEF WorkerInv
<1>2. PICK k \in held : k = Claim(r) /\ attempt[k].runtime = r
  BY <1>1 DEF MemoryOf
<1>3. /\ up' = up /\ k \in held' /\ attempt'[k].runtime = r
      /\ Free(r) \/ Unloading(r, k) => Free(r)' \/ Unloading(r, k)'
  <2>1. UNCHANGED vars \/ ExecutionCall(k)
    BY <1>2
  <2> QED
    BY <1>2, <2>1, CallKeeps
<1>4. k = Claim(r)'
  BY <1>2 DEF Claim
<1>5. Unloading(r, k)' <=> Unloading(r, Claim(r))'
  BY <1>4 DEF Unloading, Unloadable
<1>6. /\ r \in up' /\ ~ At(r, {"down"})'
      /\ Claim(r)' \in held' /\ attempt'[Claim(r)'].runtime = r
  BY <1>1, <1>3, <1>4 DEF MemoryOf, AtRest, At, InExecution
<1>7. ~ worker[r].isolated => Free(r) \/ Unloading(r, k)
  BY <1>1, <1>2 DEF MemoryOf, AtRest, At
<1> QED
  BY <1>3, <1>5, <1>6, <1>7 DEF MemoryOf

\* A claim: the row names an attempt that is live.
LEMMA TakeKeeps ==
    ASSUME WorkerInv, [Next]_vars, NEW r \in Runtime, TakeTask(r)
    PROVE  MemoryOf(r)'
<1>1. /\ MemoryOf(r) /\ worker \in [Runtime -> Memory] /\ worker[r] \in Memory
      /\ runtime \in [Runtime -> RuntimeRow] /\ HeadInv
  BY DEF WorkerInv, RuntimeInv, HeadInv, TypeOK
<1>2. ASSUME NEW t \in Task, NEW k, NEW card, Claimed(r, t, k, card), k \in Attempt,
             worker' = [worker EXCEPT ![r].at = "claimed", ![r].claim = runtime'[r].current,
                                      ![r].scanned = At(r, {"scanning"})]
      PROVE  MemoryOf(r)'
  <2>1. runtime'[r].current = k /\ k \in held' /\ up' = up /\ k # NoAttempt
    BY <1>1, <1>2, NullAssumption DEF Claimed
  <2>2. attempt'[k].status = "claimed" /\ attempt'[k].runtime = r
    BY <1>2 DEF Claimed
  <2>3. worker'[r].at = "claimed" /\ worker'[r].claim = k
    <3>1. worker'[r] = [worker[r] EXCEPT !.at = "claimed", !.claim = runtime'[r].current,
                                         !.scanned = At(r, {"scanning"})]
      BY <1>1, <1>2
    <3> QED
      BY <1>1, <2>1, <3>1 DEF Memory
  <2>4. Free(r)'
    BY <2>1, <2>2 DEF Free, Active, ActiveStatus
  <2>5. r \in up
    BY <1>1 DEF TakeTask, MemoryOf, At
  <2>6. Claim(r)' = k
    BY <2>3 DEF Claim
  <2> QED
    BY <2>1, <2>2, <2>3, <2>4, <2>5, <2>6 DEF MemoryOf, AtRest, At
<1>3. ASSUME NEW t \in Task, ClaimWithoutCard(r, t), worker' = [worker EXCEPT ![r].at = "top"]
      PROVE  MemoryOf(r)'
  <2>1. UNCHANGED <<attempt, runtime, up, held>>
    BY <1>3 DEF ClaimWithoutCard
  <2>2. Moves(r, {"top"})
    BY <1>1, <1>3, PlaceMoves DEF Places
  <2>3. Free(r)' <=> Free(r)
    BY <2>1 DEF Free, Active
  <2>4. At(r, {"scanning", "receiving"})
    BY DEF TakeTask
  <2> QED
    BY <1>1, <2>1, <2>2, <2>3, <2>4 DEF Moves, MemoryOf, AtRest, At, InExecution
<1>4. ASSUME NEW t \in Task,
             (\E e \in ExecId : ClaimFirstAttempt(r, t, e)) \/ ClaimRetry(r, t)
      PROVE  \E k \in Attempt : \E card : Claimed(r, t, k, card)
  BY <1>1, <1>4, ClaimedRow
<1> QED
  BY <1>2, <1>3, <1>4 DEF TakeTask

\* The last call of an execution, after which the process leaves it.
LEMMA UnloadKeeps ==
    ASSUME WorkerInv, [Next]_vars, NEW r \in Runtime, UnloadAgain(r)
    PROVE  MemoryOf(r)'
<1>1. MemoryOf(r) /\ At(r, {"unloading"})
  BY DEF WorkerInv, UnloadAgain
<1>2. PICK k \in held : k = Claim(r) /\ attempt[k].runtime = r
  BY <1>1 DEF MemoryOf, AtRest, At
<1>3. UNCHANGED vars \/ ExecutionCall(k)
  BY <1>2 DEF UnloadAgain, Unloads, Error, ExecutionCall
<1>4. /\ worker'[r].at = "leaving" /\ worker'[r].claim = k
      /\ worker'[r].isolated \/ (Unloads(k) /\ worker'[r].isolated = worker[r].isolated)
  BY <1>2, EndMoves DEF Claim
<1>5. k = Claim(r)'
  BY <1>4 DEF Claim
<1>6. /\ up' = up /\ k \in held' /\ attempt'[k].runtime = r
      /\ Unloads(k) /\ (Free(r) \/ Unloading(r, k)) => Free(r)'
  BY <1>2, <1>3, CallKeeps
<1>7. r \in up /\ (~ worker[r].isolated => Free(r) \/ Unloading(r, k))
  BY <1>1, <1>2 DEF MemoryOf, At
<1> QED
  BY <1>4, <1>5, <1>6, <1>7 DEF MemoryOf, AtRest, At

\* The process forgets its claim and its loop goes on.
LEMMA LeaveKeeps ==
    ASSUME WorkerInv, [Next]_vars, NEW r \in Runtime, LeaveExecution(r)
    PROVE  MemoryOf(r)'
<1>1. MemoryOf(r) /\ At(r, {"leaving"})
  BY DEF WorkerInv, LeaveExecution
<1>2. CASE Exit(r)
  BY <1>2, ExitKeeps DEF Exit
<1>3. CASE ~ Exit(r)
  <2>1. /\ UNCHANGED <<attempt, runtime, up>>
        /\ worker'[r].at \in {"receiving", "top"} /\ worker'[r].isolated = worker[r].isolated
    BY <1>3, EndMoves DEF DropClaim
  <2>2. Free(r)' <=> Free(r)
    BY <2>1 DEF Free, Active
  <2> QED
    BY <1>1, <2>1, <2>2 DEF MemoryOf, AtRest, At, InExecution
<1> QED
  BY <1>2, <1>3

\* A process that starts has a row that is idle.
LEMMA StartKeeps ==
    ASSUME WorkerInv, NEW r \in Runtime, StartWorker(r)
    PROVE  MemoryOf(r)'
<1>1. worker'[r].at = "top"
  BY LoopMoves DEF Moves
<1>2. r \in up' /\ runtime'[r].status = "idle"
  <2>1. runtime \in [Runtime -> RuntimeRow]
    BY DEF WorkerInv, RuntimeInv, HeadInv, TypeOK
  <2> QED
    BY <2>1 DEF StartWorker, RegisterRuntime
<1> QED
  BY <1>1, <1>2 DEF MemoryOf, AtRest, At, Free

\* The calls of an execution, one place after the other.
LEMMA ExecutionStep ==
    ASSUME WorkerInv, [Next]_vars, NEW r \in Runtime,
           \/ StartLoading(r) \/ StartExecuting(r) \/ LoadFails(r) \/ ReportFailure(r)
           \/ CloseExecution(r) \/ AgentAnswers(r) \/ Renew(r) \/ LoseLease(r) \/ ReceiveCancel(r)
    PROVE  MemoryOf(r)'
<1>1. At(r, InExecution)
  BY DEF StartLoading, StartExecuting, LoadFails, ReportFailure, CloseExecution, AgentAnswers, Renew,
     LoseLease, ReceiveCancel, Beats, At, InExecution
<1>2. UNCHANGED vars \/ ExecutionCall(Claim(r))
  <2>1. CASE StartLoading(r) \/ StartExecuting(r) \/ LoadFails(r)
    BY <2>1 DEF StartLoading, StartExecuting, LoadFails, LoadEvent, Refused, Caught, Escapes, Error,
       ExecutionCall
  <2>2. CASE ReportFailure(r) \/ CloseExecution(r) \/ AgentAnswers(r)
    BY <2>2 DEF ReportFailure, CloseExecution, AgentAnswers, Refused, Caught, Escapes, Error, Unloads,
       ExecutionCall
  <2>3. CASE Renew(r) \/ LoseLease(r) \/ ReceiveCancel(r)
    BY <2>3 DEF Renew, LoseLease, ReceiveCancel, Error, ExecutionCall
  <2> QED
    BY <2>1, <2>2, <2>3
<1>3. Moves(r, InExecution \cup {"unloading"})
  BY ExecutionMoves
<1>4. ~ AtRest(r) /\ ~ At(r, {"leaving"}) /\ At(r, InExecution \cup {"unloading"})'
  BY <1>1, <1>3 DEF Moves, At, AtRest, InExecution
<1> QED
  BY <1>2, <1>3, <1>4, ExecutionKeeps DEF Moves

\* The steps between the calls.
LEMMA MoveStep ==
    ASSUME WorkerInv, NEW r \in Runtime,
           \/ TopOfLoop(r) \/ TakeNothing(r) \/ Execute(r) \/ ClaimIsLost(r) \/ AgentFails(r)
           \/ CancelReturns(r) \/ ReceiveStop(r) \/ DeliverCancel(r)
    PROVE  MemoryOf(r)'
<1>1. CASE Exit(r)
  BY <1>1, ExitKeeps DEF Exit
<1>2. CASE ~ Exit(r)
  <2>1. UNCHANGED vars
    BY <1>2 DEF TopOfLoop, TakeNothing, Execute, ClaimIsLost, AgentFails, CancelReturns, ReceiveStop,
       DeliverCancel, Escapes, Error
  <2>2. /\ worker'[r].claim = worker[r].claim /\ worker'[r].isolated = worker[r].isolated
        /\ \/ worker'[r].at = worker[r].at
           \/ /\ worker[r].at \in {"top", "scanning", "receiving"}
              /\ worker'[r].at \in {"top", "scanning", "receiving"}
           \/ worker[r].at = "claimed" /\ worker'[r].at \in {"starting", "leaving"}
           \/ /\ worker[r].at \in InExecution
              /\ worker'[r].at \in InExecution \cup {"unloading"}
    BY <1>2, LoopMoves, CancelMoves DEF Moves, At
  <2>3. /\ At(r, {"down"})' <=> At(r, {"down"})
        /\ AtRest(r)' <=> AtRest(r)
        /\ At(r, InExecution \cup {"unloading"}) => At(r, InExecution \cup {"unloading"})'
    BY <2>2 DEF At, AtRest, InExecution
  <2> QED
    BY <2>1, <2>2, <2>3, MoveKeeps
<1> QED
  BY <1>1, <1>2

\* WorkerInv is inductive.
LEMMA WorkerInvNext == WorkerInv /\ [WorkerNext]_allVars => WorkerInv'
<1> SUFFICES ASSUME WorkerInv, [WorkerNext]_allVars PROVE WorkerInv'
  OBVIOUS
<1>1. [Next]_vars
  BY SchedulerStep
<1>2. RuntimeInv'
  BY <1>1, RuntimeInvNext, NextIsLoose DEF WorkerInv, RuntimeInv, HeadInv
<1>3. TypeOK'
  BY <1>2 DEF RuntimeInv, HeadInv
<1>4. ASSUME NEW r \in Runtime, Act(r) PROVE WorkerInv'
  <2>1. worker' \in [Runtime -> Memory] /\ \A x \in Runtime : x # r => worker'[x] = worker[x]
    BY <1>3, <1>4, OwnMemory DEF Writes
  <2>2. \A x \in Runtime : x # r => MemoryOf(x)'
    BY <1>1, <1>4, <2>1, OthersStep
  <2>3. CrashWorker(r) \/ TurnRaises(r) => MemoryOf(r)'
    BY ExitKeeps DEF CrashWorker, TurnRaises, Exit
  <2>4. MemoryOf(r)'
    BY <1>1, <1>4, <2>3, StartKeeps, TakeKeeps, UnloadKeeps, LeaveKeeps, ExecutionStep, MoveStep
       DEF Act, Proceed
  <2> QED
    BY <1>2, <2>1, <2>2, <2>4 DEF WorkerInv
<1>5. CASE Environment
  BY <1>1, <1>2, <1>5, EnvironmentStep DEF WorkerInv, Environment, workerVars
<1>6. CASE UNCHANGED allVars
  <2>1. worker' = worker /\ UNCHANGED vars
    BY <1>6 DEF allVars, workerVars
  <2>2. ASSUME NEW r \in Runtime PROVE MemoryOf(r)'
    <3>1. /\ At(r, {"down"})' <=> At(r, {"down"})
          /\ AtRest(r)' <=> AtRest(r)
          /\ At(r, InExecution \cup {"unloading"})' <=> At(r, InExecution \cup {"unloading"})
      BY <2>1 DEF At, AtRest
    <3> QED
      BY <2>1, <3>1, MoveKeeps
  <2> QED
    BY <1>2, <2>1, <2>2 DEF WorkerInv
<1> QED
  BY <1>4, <1>5, <1>6 DEF WorkerNext, Act

\* Between two claims the row of a process is idle, or the attempt it names is live and its
\* lease will free it: crashes, cancellations, expiries and errors notwithstanding, only a
\* process whose own last unload raised is cut off from the board.
THEOREM LoopFindsRowFree == WorkerSpec => []FreeLoopFreeRow
<1>1. WorkerInv => FreeLoopFreeRow
  BY DEF WorkerInv, MemoryOf, FreeLoopFreeRow, Free, At, InExecution
<1> QED
  BY <1>1, WorkerInvInit, WorkerInvNext, PTL DEF WorkerSpec
=============================================================================

---------------------------- MODULE RuntimeWorker ----------------------------
(***************************************************************************)
(* A worker process: the loop of run_sub_agent, the execution it awaits    *)
(* (_run_claimed_execution), and the heartbeat and control coroutines that *)
(* run beside it (lib/sub_agent.py).  Every step is a transaction of       *)
(* DagScheduler or none; in between the coroutines of a process interleave *)
(* at each await, and other processes at any point.                        *)
(*                                                                         *)
(* A call to the database or to the broker may raise, before or after it   *)
(* took effect.  Bound: at most MaxErrors calls raise.                     *)
(***************************************************************************)
EXTENDS DagScheduler

CONSTANT MaxErrors

ASSUME ErrorsAssumption == MaxErrors \in Nat

VARIABLES
    worker,   \* what each process has in memory
    errors    \* how many calls have raised

workerVars == <<worker, errors>>
allVars == <<vars, workerVars>>

\* Where a process is.  down: no process; top: the condition of the loop; scanning,
\* receiving: the two ways to a claim in one turn; claimed: before execute_claim; then
\* the calls of the execution in order; closing and unloading: its finally block and
\* that of execute_claim; leaving: execute_claim is over.
InExecution == {"starting", "loading", "executing", "failing", "closing"}

Off == [at |-> "down",
        claim |-> NoAttempt,      \* the attempt it works on
        scanned |-> FALSE,        \* claimed by a scan, not after a message
        cancelling |-> FALSE,     \* cancelled, and has not noticed yet
        raised |-> FALSE,         \* an exception is on its way out of execute_claim
        isolated |-> FALSE,       \* its last unload raised
        confirmed |-> FALSE,      \* the control loop waits for cancel_execution to return
        stopping |-> FALSE]       \* stop_requested

WorkerInit == Init /\ worker = [r \in Runtime |-> Off] /\ errors = 0

-----------------------------------------------------------------------------
(* How a step ends. *)

At(r, places) == worker[r].at \in places

\* The process goes on at place; its transaction, if any, is a conjunct of its own.
Goto(r, place) ==
    /\ worker' = [worker EXCEPT ![r].at = place]
    /\ UNCHANGED errors

\* The call raised: its transaction may have committed nevertheless.
Error(effect) ==
    /\ errors < MaxErrors
    /\ errors' = errors + 1
    /\ effect \/ UNCHANGED vars

\* ... and the exception is handled at place.
Caught(r, effect, place) ==
    /\ Error(effect)
    /\ worker' = [worker EXCEPT ![r].at = place]

\* ... and the exception leaves the execution, by way of the finally blocks.
Escapes(r, effect, place) ==
    /\ Error(effect)
    /\ worker' = [worker EXCEPT ![r].at = place, ![r].raised = TRUE]

Gone(r) == worker' = [worker EXCEPT ![r] = Off]

\* The finally block of run_sub_agent.
Exit(r) == StopRuntime(r) /\ Gone(r)

-----------------------------------------------------------------------------
(* The loop. *)

StartWorker(r) == At(r, {"down"}) /\ RegisterRuntime(r) /\ Goto(r, "top")

CrashWorker(r) == CrashRuntime(r) /\ Gone(r) /\ UNCHANGED errors

\* Slip: a process that is asked to stop goes on while its row is in use.
MayStopWhenIdle(r) == worker[r].stopping /\ runtime[r].status = "idle"

\* while not state.stop_requested
MayStop(r) == worker[r].stopping

\* A scan is due after a wakeup or 15 seconds.
TopOfLoop(r) ==
    /\ At(r, {"top"})
    /\ \/ MayStop(r) /\ Exit(r) /\ UNCHANGED errors
       \/ /\ ~ MayStop(r)
          /\ \E place \in {"scanning", "receiving"} : Goto(r, place)
          /\ UNCHANGED vars

\* claim_next_available_task, for a shard of the scan or for a task_available message.
TakeTask(r) ==
    /\ At(r, {"scanning", "receiving"})
    /\ UNCHANGED errors
    /\ \E t \in Task :
          \/ /\ (\E e \in ExecId : ClaimFirstAttempt(r, t, e)) \/ ClaimRetry(r, t)
             /\ worker' = [worker EXCEPT ![r].at = "claimed",
                                         ![r].claim = runtime'[r].current,
                                         ![r].scanned = At(r, {"scanning"})]
          \/ /\ ClaimWithoutCard(r, t)
             /\ worker' = [worker EXCEPT ![r].at = "top"]

\* Nothing to claim: a scan is followed by receive, a message by the next turn.
TakeNothing(r) ==
    /\ At(r, {"scanning", "receiving"})
    /\ Goto(r, IF At(r, {"scanning"}) THEN "receiving" ELSE "top")
    /\ UNCHANGED vars

\* receive and the scan are not guarded: what they raise ends the process.
TurnRaises(r) ==
    /\ At(r, {"scanning", "receiving"})
    /\ errors < MaxErrors
    /\ errors' = errors + 1
    /\ Exit(r)

\* The claim committed and its reply was lost, or the ack of the message raised.
ClaimIsLost(r) == At(r, {"claimed"}) /\ Escapes(r, FALSE, "leaving")

Execute(r) == At(r, {"claimed"}) /\ Goto(r, "starting") /\ UNCHANGED vars

-----------------------------------------------------------------------------
(* The execution of a claim. *)

Claim(r) == worker[r].claim

\* Every call below is refused when the attempt is no longer current.
Refused(r, place) == RejectStale(Claim(r)) /\ Goto(r, place)

LoadEvent(k, type) == RecordLoadEvent(k) /\ events' = Record(k, {type})

StartLoading(r) ==
    LET call == LoadEvent(Claim(r), "card.load_started") IN
    /\ At(r, {"starting"})
    /\ \/ call /\ Goto(r, "loading")
       \/ Refused(r, "unloading")
       \/ Escapes(r, call, "unloading")

\* if not started: return
StartExecuting(r) ==
    /\ At(r, {"loading"})
    /\ \/ MarkExecutionStarted(Claim(r)) /\ Goto(r, "executing")
       \/ Refused(r, "closing")
       \/ Caught(r, MarkExecutionStarted(Claim(r)), "failing")

\* create_sub_agent raised: mark_card_load_failed, whose second call is fail_execution.
LoadFails(r) ==
    LET call == LoadEvent(Claim(r), "card.load_failed") IN
    /\ At(r, {"loading"})
    /\ \/ call /\ Goto(r, "failing")
       \/ Refused(r, "closing")
       \/ Caught(r, call, "failing")

\* The agent gave its final answer: complete_execution.
AgentAnswers(r) ==
    /\ At(r, {"executing"})
    /\ \/ CompleteExecution(Claim(r)) /\ Goto(r, "closing")
       \/ Refused(r, "closing")
       \/ Caught(r, CompleteExecution(Claim(r)), "failing")

\* The agent raised, or used up max_rounds.
AgentFails(r) == At(r, {"executing"}) /\ Goto(r, "failing") /\ UNCHANGED vars

\* fail_execution; from inside the try block it is called again if it raises.
ReportFailure(r) ==
    LET call == FailExecution(Claim(r)) IN
    /\ At(r, {"failing"})
    /\ \/ call /\ Goto(r, "closing")
       \/ Refused(r, "closing")
       \/ Caught(r, call, "failing")
       \/ Escapes(r, call, "closing")

\* Slip: only a completed attempt is unloaded.
UnloadsCompleted(k) ==
    \/ attempt[k].status = "completed" /\ FinishCardUnload(k)
    \/ (attempt[k].status # "completed" \/ ~ Unloadable(k)) /\ UNCHANGED vars

Unloads(k) ==
    \/ FinishCardUnload(k)
    \/ ~ Unloadable(k) /\ UNCHANGED vars

\* The finally block of the execution, which is over with it, cancelled or not.
CloseExecution(r) ==
    LET over == [worker EXCEPT ![r].at = "unloading", ![r].cancelling = FALSE] IN
    /\ At(r, {"closing"})
    /\ \/ Unloads(Claim(r)) /\ worker' = over /\ UNCHANGED errors
       \/ Error(Unloads(Claim(r))) /\ worker' = [over EXCEPT ![r].raised = TRUE]

\* The finally block of execute_claim.
UnloadAgain(r) ==
    /\ At(r, {"unloading"})
    /\ \/ Unloads(Claim(r)) /\ Goto(r, "leaving")
       \/ /\ Error(Unloads(Claim(r)))
          /\ worker' = [worker EXCEPT ![r].at = "leaving", ![r].raised = TRUE,
                                      ![r].isolated = TRUE]

\* What execute_claim raises is caught after a message, and ends the process after
\* a scan; a scan that went well is followed by receive.
LeaveExecution(r) ==
    /\ At(r, {"leaving"})
    /\ UNCHANGED errors
    /\ IF worker[r].scanned /\ worker[r].raised
       THEN Exit(r)
       ELSE /\ DropClaim(Claim(r))
            /\ worker' = [worker EXCEPT
                             ![r].at = IF worker[r].scanned THEN "receiving" ELSE "top",
                             ![r].claim = NoAttempt,
                             ![r].scanned = FALSE,
                             ![r].cancelling = FALSE,
                             ![r].raised = FALSE]

-----------------------------------------------------------------------------
(* The coroutines beside it. *)

\* Slip: the execution is not cancelled, it is left to notice by itself.
NotCancelled(r) == FALSE

\* execution_task.cancel(), if there is one that is not done.
Cancelled(r) == At(r, InExecution)

\* _execution_heartbeat_loop, from the start of the load to the finally block.
Beats(r) == At(r, {"loading", "executing", "failing"})

Renew(r) == Beats(r) /\ RenewLease(Claim(r)) /\ UNCHANGED workerVars

\* The lease could not be renewed: the local attempt is stopped.
LoseLease(r) ==
    /\ Beats(r) /\ ~ worker[r].cancelling
    /\ RejectStale(Claim(r))
    /\ worker' = [worker EXCEPT ![r].cancelling = Cancelled(r)]
    /\ UNCHANGED errors

\* _runtime_control_loop, an execution_cancel that names the active claim:
\* cancel_execution returns later than it commits, or raises and is retried.
ReceiveCancel(r) ==
    /\ At(r, InExecution) /\ ~ worker[r].confirmed
    /\ \/ /\ CancelExecution(Claim(r))
          /\ worker' = [worker EXCEPT ![r].confirmed = TRUE]
          /\ UNCHANGED errors
       \/ RejectStale(Claim(r)) /\ UNCHANGED workerVars
       \/ Error(CancelExecution(Claim(r))) /\ UNCHANGED worker

\* cancel_execution returned True: whatever the process executes now is cancelled.
CancelReturns(r) ==
    /\ worker[r].confirmed
    /\ worker' = [worker EXCEPT ![r].confirmed = FALSE, ![r].cancelling = Cancelled(r)]
    /\ UNCHANGED <<vars, errors>>

\* The end of the handler, if the message says stop_runtime.
ReceiveStop(r) ==
    /\ ~ At(r, {"down"}) /\ ~ worker[r].confirmed
    /\ worker' = [worker EXCEPT ![r].stopping = TRUE]
    /\ UNCHANGED <<vars, errors>>

\* CancelledError at an await of the execution: before the try block it goes to
\* execute_claim at once; in the finally block it is swallowed, or ends the block
\* and takes the place of the exception that led there.
DeliverCancel(r) ==
    LET noticed == [worker EXCEPT ![r].cancelling = FALSE] IN
    /\ worker[r].cancelling
    /\ \/ At(r, {"starting"}) /\ worker' = [noticed EXCEPT ![r].at = "unloading"]
       \/ At(r, {"loading", "executing", "failing"}) /\ worker' = [noticed EXCEPT ![r].at = "closing"]
       \/ At(r, {"closing"}) /\ worker' = noticed
       \/ At(r, {"closing"}) /\ worker' = [noticed EXCEPT ![r].at = "unloading", ![r].raised = FALSE]
    /\ UNCHANGED <<vars, errors>>

-----------------------------------------------------------------------------
\* What a process does on its own, the agent's part excepted.
Proceed(r) ==
    \/ TopOfLoop(r) \/ TakeNothing(r) \/ Execute(r)
    \/ StartLoading(r) \/ StartExecuting(r) \/ LoadFails(r) \/ ReportFailure(r)
    \/ CloseExecution(r) \/ UnloadAgain(r) \/ LeaveExecution(r)

\* The lead, the database clock and the lease scans of any process.
Environment ==
    /\ \/ \E dag \in Dags : PublishDag(dag)
       \/ \E c \in Managed : SetCardStatus(c)
       \/ \E k \in Made : LeaseExpires(k)
       \/ \E S \in SUBSET Reclaimable : ReclaimLeasedTasks(S)
    /\ UNCHANGED workerVars

WorkerNext ==
    \/ \E r \in Runtime :
          \/ StartWorker(r) \/ CrashWorker(r)
          \/ TakeTask(r) \/ TurnRaises(r) \/ ClaimIsLost(r) \/ Proceed(r)
          \/ AgentAnswers(r) \/ AgentFails(r)
          \/ Renew(r) \/ LoseLease(r) \/ ReceiveCancel(r) \/ CancelReturns(r)
          \/ ReceiveStop(r) \/ DeliverCancel(r)
    \/ Environment

WorkerSpec == WorkerInit /\ [][WorkerNext]_allVars

\* The coroutines of a process are scheduled; a loop that goes round and round scans
\* and claims while there is something to claim; the heartbeat repeats; leases expire
\* and are reclaimed as in DagScheduler.  Nothing is assumed of the agent.
FairWorkerSpec ==
    /\ WorkerSpec
    /\ \A r \in Runtime :
          /\ WF_allVars(Proceed(r))
          /\ SF_allVars(TakeTask(r))
          /\ WF_allVars(LoseLease(r))
          /\ WF_allVars(CancelReturns(r))
          /\ WF_allVars(DeliverCancel(r))
    /\ \A k \in ExecId \X (1 .. MaxAttempts) :
          /\ WF_allVars(k \in Made /\ LeaseExpires(k) /\ UNCHANGED workerVars)
          /\ WF_allVars(ScanReclaims(k) /\ UNCHANGED workerVars)

-----------------------------------------------------------------------------
(* What a worker promises. *)

\* Between two claims the row of a process is idle, so that it can claim again, or
\* its lost attempt is still live and the lease will free the row.  Only a process
\* whose last unload raised is cut off.
FreeLoopFreeRow ==
    \A r \in Runtime : At(r, {"top", "scanning", "receiving"}) /\ ~ worker[r].isolated =>
        \/ runtime[r].status = "idle"
        \/ runtime[r].current # NoAttempt /\ Active(runtime[r].current)

\* An agent that works on an attempt that is over is stopped, whatever it does.
StaleWorkStops ==
    \A r \in Runtime : \A k \in ExecId \X (1 .. MaxAttempts) :
        (At(r, {"executing"}) /\ Claim(r) = k /\ ~ Active(k)) ~>
            ~ (At(r, {"executing"}) /\ Claim(r) = k)

\* A process that is asked to stop stops, unless its agent runs for ever.
StopIsObeyed ==
    \A r \in Runtime :
        \/ worker[r].stopping ~> At(r, {"down"})
        \/ <>[]At(r, {"executing"})

\* A task that is ready is over in the end, as long as some process stays up that
\* is not cut off, and unless an agent runs for ever.
TasksSettle ==
    \A t \in Task :
        \/ Ready(t) ~> task[t].status \in EndedTaskStatus
        \/ \A r \in Runtime : []<>(At(r, {"down"}) \/ worker[r].isolated)
        \/ \E r \in Runtime : <>[]At(r, {"executing"})
=============================================================================

---------------------------- MODULE DagScheduler ----------------------------
(***************************************************************************)
(* The scheduler of lib/dag_scheduler.py over the tables of schema.sql:    *)
(* publication of task graphs, claims, the life of an execution attempt,   *)
(* retries, lease recovery and the release of dependent tasks.             *)
(*                                                                         *)
(* Every method of DAGScheduler that writes is one database transaction,   *)
(* and is one action here.  A call is made by a worker process that holds  *)
(* the claim it names; it may be early, late or repeated, so each action   *)
(* may happen whenever a live process holds an attempt.                    *)
(*                                                                         *)
(* Bounds: ExecId is finite, so a claim of a task without an execution is  *)
(* possible only while an unused identifier is left.                       *)
(***************************************************************************)
EXTENDS Integers, FiniteSets

CONSTANTS
    Task, Runtime, ExecId, Card,   \* identifiers of the rows
    NoAttempt, NoRuntime, NoCard,  \* SQL NULL in the columns that refer to rows
    MaxAttempts,                   \* TASK_MAX_ATTEMPTS
    Dags,                          \* the task graphs the lead may publish
    Rerun,                         \* which stored tasks a publication may list
    LateBlockers,                  \* may a publication name a completed blocker?
    Managed,                       \* the cards the operator may change
    Audited                        \* the event types the model keeps

Attempt == ExecId \X (Nat \ {0})

ASSUME NullAssumption ==
    /\ NoAttempt \notin Attempt
    /\ NoRuntime \notin Runtime
    /\ NoCard \notin Card

ASSUME BoundAssumption ==
    /\ IsFiniteSet(Task)
    /\ MaxAttempts \in Nat \ {0}
    /\ Rerun \in {"never", "ended", "any"}
    /\ LateBlockers \in BOOLEAN
    /\ Managed \subseteq Card

ASSUME DagsAssumption ==
    \A dag \in Dags :
        /\ DOMAIN dag \in SUBSET Task
        /\ \A t \in DOMAIN dag :
              /\ dag[t].blockedBy \in SUBSET Task
              /\ dag[t].selector \in Card \cup {NoCard}

VARIABLES
    task,       \* tasks: one row a task, status "absent" before it is published
    deps,       \* task_dependencies: pairs <<task, blocker>>
    attempt,    \* task_executions: a row for every attempt made so far
    runtime,    \* agent_runtimes
    cards,      \* agent_cards: the cards with status 'active'
    events,     \* task_execution_events: the audited types of each attempt
    available,  \* tasks with a task_available event newer than their last claim
    up,         \* the runtimes whose process is running
    held        \* the attempts whose claim a running process has in its memory

vars == <<task, deps, attempt, runtime, cards, events, available, up, held>>

TaskStatus == {"absent", "pending", "in_progress", "completed", "failed", "cancelled"}
ActiveStatus == {"claimed", "running"}
EndedStatus == {"completed", "failed", "expired", "cancelled"}
EndedTaskStatus == {"completed", "failed", "cancelled"}
BusyStatus == {"loading", "running", "unloading"}

Made == DOMAIN attempt
Active(k) == attempt[k].status \in ActiveStatus
Blockers(t) == {b \in Task : <<t, b>> \in deps}
Dependents(t) == {d \in Task : <<d, t>> \in deps}

\* fail_execution and reclaim_leased_tasks: attempt < max_attempts
RetryScheduled(k) == k[2] < MaxAttempts

Init ==
    /\ task = [t \in Task |-> [status |-> "absent", blocked |-> 0,
                               current |-> NoAttempt, owner |-> NoRuntime,
                               selector |-> NoCard]]
    /\ deps = {}
    /\ attempt = [k \in {} |-> {}]
    /\ runtime = [r \in Runtime |-> [status |-> "unregistered", current |-> NoAttempt]]
    /\ cards = Card
    /\ events = [k \in {} |-> {}]
    /\ available = {}
    /\ up = {}
    /\ held = {}

-----------------------------------------------------------------------------
(* What the methods share.                                                 *)
(*                                                                         *)
(* A comment that begins with "Slip" introduces the next definition with a *)
(* mistake a maintainer could make.  No action uses it: it stands for the  *)
(* change that some property below has to notice.                          *)

\* Slip: the attempt number and the status are not compared.
IsCurrentExecution(k) ==
    LET row == attempt[k] IN
    /\ task[row.task].current # NoAttempt
    /\ task[row.task].current[1] = k[1]

\* _is_current_attempt: the row the caller names is the one its task points at.
IsCurrentAttempt(k) ==
    LET row == attempt[k] IN
    /\ task[row.task].current = k
    /\ task[row.task].owner = row.runtime
    /\ Active(k)

\* _record_execution_event, once for each type of evs.
Record(k, evs) == [events EXCEPT ![k] = @ \cup (evs \cap Audited)]

\* Slip: the runtime is called idle at once, before its card is unloaded.
SetRuntimeIdle(k) ==
    [r \in Runtime |-> IF r = attempt[k].runtime /\ runtime[r].current = k
                       THEN [runtime[r] EXCEPT !.status = "idle"]
                       ELSE runtime[r]]

\* _set_runtime_unloading
SetRuntimeUnloading(k) ==
    [r \in Runtime |-> IF r = attempt[k].runtime /\ runtime[r].current = k
                       THEN [runtime[r] EXCEPT !.status = "unloading"]
                       ELSE runtime[r]]

\* Slip: an attempt that was claimed and never started is not closed.
ClosedIfStarted(k, status) ==
    IF attempt[k].status = "running"
    THEN [attempt EXCEPT ![k] = [@ EXCEPT !.status = status, !.lease = "none"]]
    ELSE attempt

\* Slip: the row of an attempt that ends is deleted, its events tell the rest.
ClosedByDeletion(k, status) == [j \in Made \ {k} |-> attempt[j]]

\* An attempt leaves 'claimed' or 'running': its row is closed without a lease.
Closed(k, status) ==
    [attempt EXCEPT ![k] = [@ EXCEPT !.status = status, !.lease = "none"]]

\* Slip: a cancelled task goes back to the board.
ReleasedForRetry(k, status) ==
    [task EXCEPT ![attempt[k].task] =
        [@ EXCEPT !.status = IF status = "cancelled" THEN "pending" ELSE status,
                  !.owner = NoRuntime]]

\* The task row of attempt k after it ended with this task status.
Released(k, status) ==
    [task EXCEPT ![attempt[k].task] = [@ EXCEPT !.status = status, !.owner = NoRuntime]]

\* Slip: a blocker that failed or was cancelled no longer counts.
RemainingUnsettled(rows, t) ==
    {b \in Blockers(t) : rows[b].status \notin EndedTaskStatus}

\* The blockers the recount of _update_downstream_dependencies finds not completed.
Remaining(rows, t) == {b \in Blockers(t) : rows[b].status # "completed"}

Recounted(rows, t) ==
    [d \in Task |-> IF d \in Dependents(t)
                    THEN [rows[d] EXCEPT !.blocked = Cardinality(Remaining(rows, d))]
                    ELSE rows[d]]

\* Slip: the rows are read as they were before the completion.
UnblockedBefore(rows, t) == {d \in Dependents(t) : Remaining(task, d) = {}}

Unblocked(rows, t) == {d \in Dependents(t) : Remaining(rows, d) = {}}

\* _resolve_active_card: the selector's card, or the only one there is.
ResolvedCard(t) ==
    IF task[t].selector # NoCard
    THEN IF task[t].selector \in cards THEN task[t].selector ELSE NoCard
    ELSE IF \E c \in Card : cards = {c} THEN CHOOSE c \in Card : cards = {c} ELSE NoCard

\* Slip: a retry takes any card that is active now.
FreshCard(k) == IF cards = {} THEN NoCard ELSE CHOOSE c \in Card : c \in cards

\* _load_frozen_card: the card of the previous attempt, if it is still active.
FrozenCard(k) == IF attempt[k].card \in cards THEN attempt[k].card ELSE NoCard

-----------------------------------------------------------------------------
(* The lead: publication. *)

MayPublish(t) ==
    \/ task[t].status = "absent"
    \/ Rerun = "ended" /\ task[t].status \in EndedTaskStatus
    \/ Rerun = "any"

\* The foreign key of task_dependencies: some listing of the graph puts every
\* blocker that is not stored yet at or before the task that names it.
Insertable(dag) ==
    \E rank \in [DOMAIN dag -> 1 .. Cardinality(DOMAIN dag)] :
        \A t \in DOMAIN dag : \A b \in dag[t].blockedBy :
            \/ b = t
            \/ task[b].status # "absent"
            \/ b \in DOMAIN dag /\ rank[b] < rank[t]

\* insert_dag_to_db: upsert the rows, add the dependencies, announce the tasks
\* listed without a blocker.  Dependencies of an earlier publication stay.
InsertDag(dag) ==
    /\ \A t \in DOMAIN dag : MayPublish(t)
    /\ Insertable(dag)
    /\ task' = [t \in Task |->
                  IF t \in DOMAIN dag
                  THEN [status |-> "pending", blocked |-> Cardinality(dag[t].blockedBy),
                        current |-> NoAttempt, owner |-> NoRuntime,
                        selector |-> dag[t].selector]
                  ELSE task[t]]
    /\ deps' = deps \cup {p \in Task \X Task : p[1] \in DOMAIN dag /\ p[2] \in dag[p[1]].blockedBy}
    /\ available' = (available \ DOMAIN dag) \cup {t \in DOMAIN dag : dag[t].blockedBy = {}}
    /\ UNCHANGED <<attempt, runtime, cards, events, up, held>>

\* The lead's own rule, where LateBlockers says there is one: it names no blocker of an
\* earlier graph that is completed by now.
PublishDag(dag) ==
    /\ \/ LateBlockers
       \/ \A t \in DOMAIN dag : \A b \in dag[t].blockedBy :
              b \in DOMAIN dag \/ task[b].status # "completed"
    /\ InsertDag(dag)

\* The operator activates or withdraws a card (agent_cards.status).
SetCardStatus(c) ==
    /\ cards' = IF c \in cards THEN cards \ {c} ELSE cards \cup {c}
    /\ UNCHANGED <<task, deps, attempt, runtime, events, available, up, held>>

-----------------------------------------------------------------------------
(* A runtime process: register_runtime, stop_runtime, and a crash. *)

Forget(r) == {k \in held : attempt[k].runtime # r}

RegisterRuntime(r) ==
    /\ r \notin up
    /\ up' = up \cup {r}
    /\ runtime' = [runtime EXCEPT ![r] = [status |-> "idle", current |-> NoAttempt]]
    /\ UNCHANGED <<task, deps, attempt, cards, events, available, held>>

StopRuntime(r) ==
    /\ r \in up
    /\ up' = up \ {r}
    /\ held' = Forget(r)
    /\ runtime' = [runtime EXCEPT ![r].status = "stopped"]
    /\ UNCHANGED <<task, deps, attempt, cards, events, available>>

CrashRuntime(r) ==
    /\ r \in up
    /\ up' = up \ {r}
    /\ held' = Forget(r)
    /\ UNCHANGED <<task, deps, attempt, runtime, cards, events, available>>

-----------------------------------------------------------------------------
(* claim_next_available_task *)

Ready(t) == task[t].status = "pending" /\ task[t].blocked = 0

\* Slip: the runtime's row only has to exist.
MayClaimUnlessStopped(r) == r \in up /\ runtime[r].status # "stopped"

MayClaim(r) == r \in up /\ runtime[r].status = "idle"

Claimed(r, t, k, card) ==
    /\ attempt' = [j \in Made \cup {k} |->
                     IF j = k THEN [task |-> t, runtime |-> r, card |-> card,
                                    status |-> "claimed", lease |-> "live"]
                     ELSE attempt[j]]
    /\ events' = [j \in Made \cup {k} |->
                    IF j = k THEN {"execution.claimed", "card.resolved"} \cap Audited
                    ELSE events[j]]
    /\ task' = [task EXCEPT ![t] = [@ EXCEPT !.status = "in_progress", !.current = k, !.owner = r]]
    /\ runtime' = [runtime EXCEPT ![r] = [status |-> "loading", current |-> k]]
    /\ available' = available \ {t}
    /\ held' = held \cup {k}
    /\ UNCHANGED <<deps, cards, up>>

\* The first claim of an execution: a new identifier and the card resolved now.
ClaimFirstAttempt(r, t, e) ==
    /\ MayClaim(r) /\ Ready(t)
    /\ task[t].current = NoAttempt
    /\ \A k \in Made : k[1] # e
    /\ ResolvedCard(t) # NoCard
    /\ Claimed(r, t, <<e, 1>>, ResolvedCard(t))

\* A retry: the same execution, the next attempt and the frozen card.
ClaimRetry(r, t) ==
    /\ MayClaim(r) /\ Ready(t)
    /\ task[t].current # NoAttempt
    /\ FrozenCard(task[t].current) # NoCard
    /\ Claimed(r, t, <<task[t].current[1], task[t].current[2] + 1>>, FrozenCard(task[t].current))

\* card_resolution_failed: the task fails and nobody gets a claim.
ClaimWithoutCard(r, t) ==
    /\ MayClaim(r) /\ Ready(t)
    /\ IF task[t].current = NoAttempt
       THEN ResolvedCard(t) = NoCard
       ELSE FrozenCard(task[t].current) = NoCard
    /\ task' = [task EXCEPT ![t] = [@ EXCEPT !.status = "failed", !.owner = NoRuntime]]
    /\ available' = available \ {t}
    /\ UNCHANGED <<deps, attempt, runtime, cards, events, up, held>>

-----------------------------------------------------------------------------
(* The life of an attempt. *)

\* _record_stale_update: all that a call on a superseded attempt does.
RejectStale(k) ==
    /\ k \in held
    /\ ~ IsCurrentAttempt(k)
    /\ events' = Record(k, {"execution.stale_update_rejected"})
    /\ UNCHANGED <<task, deps, attempt, runtime, cards, available, up, held>>

\* mark_card_load_started; and the first transaction of mark_card_load_failed,
\* whose second one is FailExecution.  They look whether the attempt is current in one
\* statement and insert the event in the next, when the attempt may have ended
\* (TaskTransactions has the two apart; a call that finds it ended is RejectStale).
RecordLoadEvent(k) ==
    /\ k \in held
    /\ \E type \in {"card.load_started", "card.load_failed"} : events' = Record(k, {type})
    /\ UNCHANGED <<task, deps, attempt, runtime, cards, available, up, held>>

\* mark_execution_started: the runtime's row is set whatever it points at.
MarkExecutionStarted(k) ==
    /\ k \in held
    /\ IsCurrentAttempt(k)
    /\ attempt[k].status = "claimed"
    /\ attempt' = [attempt EXCEPT ![k] = [@ EXCEPT !.status = "running", !.lease = "live"]]
    /\ runtime' = [runtime EXCEPT ![attempt[k].runtime].status = "running"]
    /\ events' = Record(k, {"card.loaded", "execution.started"})
    /\ UNCHANGED <<task, deps, cards, available, up, held>>

RenewLease(k) ==
    /\ k \in held
    /\ IsCurrentAttempt(k)
    /\ attempt' = [attempt EXCEPT ![k].lease = "live"]
    /\ events' = Record(k, {"execution.heartbeat"})
    /\ UNCHANGED <<task, deps, runtime, cards, available, up, held>>

\* Time passes: lease_expires_at < NOW().
LeaseExpires(k) ==
    /\ Active(k)
    /\ attempt' = [attempt EXCEPT ![k].lease = "expired"]
    /\ UNCHANGED <<task, deps, runtime, cards, events, available, up, held>>

CompleteExecution(k) ==
    LET rows == Released(k, "completed") IN
    /\ k \in held
    /\ IsCurrentAttempt(k)
    /\ attempt' = Closed(k, "completed")
    /\ task' = Recounted(rows, attempt[k].task)
    /\ available' = available \cup Unblocked(rows, attempt[k].task)
    /\ runtime' = SetRuntimeUnloading(k)
    /\ events' = Record(k, {"execution.completed", "card.unload_started"})
    /\ UNCHANGED <<deps, cards, up, held>>

FailExecution(k) ==
    /\ k \in held
    /\ IsCurrentAttempt(k)
    /\ attempt' = Closed(k, "failed")
    /\ task' = Released(k, IF RetryScheduled(k) THEN "pending" ELSE "failed")
    /\ available' = available \cup {t \in {attempt[k].task} : RetryScheduled(k)}
    /\ runtime' = SetRuntimeUnloading(k)
    /\ events' = Record(k, {"execution.failed", "card.unload_started"}
                             \cup {x \in {"execution.retried"} : RetryScheduled(k)})
    /\ UNCHANGED <<deps, cards, up, held>>

CancelExecution(k) ==
    /\ k \in held
    /\ IsCurrentAttempt(k)
    /\ attempt' = Closed(k, "cancelled")
    /\ task' = Released(k, "cancelled")
    /\ runtime' = SetRuntimeUnloading(k)
    /\ events' = Record(k, {"execution.cancelled", "card.unload_started"})
    /\ UNCHANGED <<deps, cards, available, up, held>>

\* The attempt ended, and still is its runtime's current one.
Unloadable(k) ==
    LET row == runtime[attempt[k].runtime] IN
    /\ attempt[k].status \in EndedStatus
    /\ row.current = k
    /\ row.status = "unloading"

\* finish_card_unload frees the runtime for the next claim; otherwise a no-op.
FinishCardUnload(k) ==
    /\ k \in held
    /\ Unloadable(k)
    /\ runtime' = [runtime EXCEPT ![attempt[k].runtime] =
                      [status |-> "idle", current |-> NoAttempt]]
    /\ events' = Record(k, {"card.unloaded"})
    /\ UNCHANGED <<task, deps, attempt, cards, available, up, held>>

\* The process is through with a claim, or has lost it in an exception.
DropClaim(k) ==
    /\ k \in held
    /\ held' = held \ {k}
    /\ UNCHANGED <<task, deps, attempt, runtime, cards, events, available, up>>

\* finish_card_unload with an error: the runtime stays where it is.
FailCardUnload(k) ==
    /\ k \in held
    /\ attempt[k].status \in EndedStatus
    /\ events' = Record(k, {"card.unload_failed"})
    /\ UNCHANGED <<task, deps, attempt, runtime, cards, available, up, held>>

-----------------------------------------------------------------------------
(* reclaim_leased_tasks, run by every runtime and by the lead *)

\* Slip: an attempt that never started is overlooked.
ReclaimableRunning ==
    {k \in Made : /\ attempt[k].status = "running"
                  /\ attempt[k].lease = "expired"
                  /\ task[attempt[k].task].current = k}

Reclaimable ==
    {k \in Made : /\ Active(k)
                  /\ attempt[k].lease = "expired"
                  /\ task[attempt[k].task].current = k}

\* One transaction closes every row it could lock: SKIP LOCKED leaves out some.
ReclaimLeasedTasks(S) ==
    /\ S # {} /\ S \subseteq Reclaimable
    /\ attempt' = [k \in Made |-> IF k \in S
                                  THEN [attempt[k] EXCEPT !.status = "expired", !.lease = "none"]
                                  ELSE attempt[k]]
    /\ task' = [t \in Task |->
                  IF task[t].current \in S
                  THEN [task[t] EXCEPT
                          !.status = IF RetryScheduled(task[t].current) THEN "pending" ELSE "failed",
                          !.owner = NoRuntime]
                  ELSE task[t]]
    /\ runtime' = [r \in Runtime |-> IF runtime[r].current \in S
                                     THEN [status |-> "idle", current |-> NoAttempt]
                                     ELSE runtime[r]]
    /\ events' = [k \in Made |-> IF k \in S
                    THEN events[k] \cup (Audited \cap
                           {"execution.expired", "card.unload_started", "card.unloaded"})
                    ELSE events[k]]
    /\ available' = available \cup {t \in Task : task[t].current \in S /\ RetryScheduled(task[t].current)}
    /\ UNCHANGED <<deps, cards, up, held>>

Next ==
    \/ \E dag \in Dags : PublishDag(dag)
    \/ \E c \in Managed : SetCardStatus(c)
    \/ \E r \in Runtime : RegisterRuntime(r) \/ StopRuntime(r) \/ CrashRuntime(r)
    \/ \E r \in Runtime, t \in Task :
          \/ \E e \in ExecId : ClaimFirstAttempt(r, t, e)
          \/ ClaimRetry(r, t)
          \/ ClaimWithoutCard(r, t)
    \/ \E k \in held :
          \/ RejectStale(k) \/ RecordLoadEvent(k) \/ MarkExecutionStarted(k)
          \/ RenewLease(k) \/ CompleteExecution(k) \/ FailExecution(k)
          \/ CancelExecution(k) \/ FinishCardUnload(k) \/ FailCardUnload(k)
          \/ DropClaim(k)
    \/ \E k \in Made : LeaseExpires(k)
    \/ \E S \in SUBSET Reclaimable : ReclaimLeasedTasks(S)

Spec == Init /\ [][Next]_vars

\* The scans of reclaim_leased_tasks repeat (every 20 s in each runtime, every
\* 10 s in the lead) and a row is locked only for the length of a transaction,
\* so no expired attempt is passed over for ever; and time passes.
ScanReclaims(k) == \E S \in SUBSET Reclaimable : k \in S /\ ReclaimLeasedTasks(S)

FairSpec ==
    /\ Spec
    /\ \A k \in ExecId \X (1 .. MaxAttempts) :
          /\ WF_vars(k \in Made /\ LeaseExpires(k))
          /\ WF_vars(ScanReclaims(k))

-----------------------------------------------------------------------------
(* What the scheduler promises. *)

TaskRow == [status : TaskStatus, blocked : Nat, current : Attempt \cup {NoAttempt},
            owner : Runtime \cup {NoRuntime}, selector : Card \cup {NoCard}]
AttemptRow == [task : Task, runtime : Runtime, card : Card,
               status : ActiveStatus \cup EndedStatus, lease : {"live", "expired", "none"}]
RuntimeRow == [status : {"unregistered", "idle", "stopped"} \cup BusyStatus,
               current : Attempt \cup {NoAttempt}]

\* Every column holds a value of its type, and what refers to an attempt refers
\* to a row of task_executions (the foreign keys of schema.sql).
TypeOK ==
    /\ task \in [Task -> TaskRow]
    /\ deps \subseteq Task \X Task
    /\ Made \subseteq Attempt
    /\ attempt \in [Made -> AttemptRow]
    /\ runtime \in [Runtime -> RuntimeRow]
    /\ cards \subseteq Card
    /\ events \in [Made -> SUBSET Audited]
    /\ available \subseteq Task
    /\ up \subseteq Runtime
    /\ held \subseteq Made
    /\ \A t \in Task : task[t].current \in Made \cup {NoAttempt}
    /\ \A r \in Runtime : runtime[r].current \in Made \cup {NoAttempt}

\* An attempt is claimed or running exactly as long as its task is in progress
\* under it and owned by its runtime: there is no second live attempt of a task,
\* no attempt that lost its task, and no task in progress that nobody runs.
AttemptAndTaskAgree ==
    /\ \A k \in Made : Active(k) =>
          IsCurrentAttempt(k) /\ task[attempt[k].task].status = "in_progress"
    /\ \A t \in Task : task[t].status = "in_progress" =>
          /\ task[t].current \in Made
          /\ attempt[task[t].current].task = t
          /\ Active(task[t].current)

\* A task that is not in progress stands where its latest attempt left it:
\* completed or cancelled by it, failed or to be retried because it failed or
\* expired (or because no card could be resolved).
OutcomeOfLatestAttempt ==
    \A t \in Task :
        LET k == task[t].current IN
        /\ task[t].status \in {"completed", "cancelled"} =>
              k \in Made /\ attempt[k].status = task[t].status
        /\ task[t].status \in {"pending", "failed"} /\ k # NoAttempt =>
              attempt[k].status \in {"failed", "expired"}
        /\ task[t].status = "pending" /\ k # NoAttempt => k[2] < MaxAttempts

\* Attempts of one execution are numbered without gaps up to MaxAttempts, belong
\* to one task, run the same card, and a retry exists only after the attempt
\* before it failed or expired: a completed or cancelled execution is not retried.
RetriesContinueTheExecution ==
    \A k \in Made :
        /\ k[2] <= MaxAttempts
        /\ k[2] > 1 => LET before == <<k[1], k[2] - 1>> IN
              /\ before \in Made
              /\ attempt[before].task = attempt[k].task
              /\ attempt[before].card = attempt[k].card
              /\ attempt[before].status \in {"failed", "expired"}

\* The row of a runtime tells what its attempt is doing: loading while the
\* attempt is claimed, running while it runs, unloading once it has ended, and
\* idle without an attempt.  This is what lets an idle runtime claim again.
RuntimeFollowsAttempt ==
    \A r \in Runtime :
        LET k == runtime[r].current IN
        /\ k # NoAttempt => attempt[k].runtime = r
        /\ runtime[r].status = "idle" => k = NoAttempt
        /\ runtime[r].status \in BusyStatus => k # NoAttempt
        /\ runtime[r].status = "loading" => attempt[k].status = "claimed"
        /\ runtime[r].status = "running" => attempt[k].status = "running"
        /\ runtime[r].status = "unloading" => attempt[k].status \in EndedStatus

\* The attempt a task points at is its own, and the last of its execution.
CurrentIsLatest ==
    \A t \in Task :
        LET k == task[t].current IN
        k # NoAttempt => /\ attempt[k].task = t
                         /\ \A j \in Made : j[1] = k[1] => j[2] <= k[2]

\* A running process never holds two live attempts: each Runtime executes one
\* attempt at a time, through expiries, late calls and restarts.
OneLiveAttemptPerProcess ==
    \A j, k \in held :
        Active(j) /\ Active(k) /\ attempt[j].runtime = attempt[k].runtime => j = k

TerminalEvents == {"execution.completed", "execution.failed", "execution.expired",
                   "execution.cancelled"}
TerminalEvent(status) ==
    [completed |-> "execution.completed", failed |-> "execution.failed",
     expired |-> "execution.expired", cancelled |-> "execution.cancelled"][status]

\* The audit trail of an attempt is closed by exactly the event of its outcome;
\* nothing is unloaded, announced as a retry or rejected as stale before that.  Of the
\* load events it says nothing: they may follow the end (RecordLoadEvent).
AuditClosesTheAttempt ==
    \A k \in Made :
        /\ events[k] \cap TerminalEvents =
              IF Active(k) THEN {} ELSE {TerminalEvent(attempt[k].status)} \cap Audited
        /\ events[k] \cap {"card.unload_started", "card.unloaded", "execution.retried",
                         "execution.stale_update_rejected"} # {} =>
              ~ Active(k)
        /\ "execution.started" \in events[k] => attempt[k].status # "claimed"
        /\ "card.unloaded" \in events[k] /\ "card.unload_started" \in Audited =>
              "card.unload_started" \in events[k]

\* Late calls change nothing: once an attempt has ended its row never changes,
\* and no row of task_executions disappears.
EndedAttemptsAreFinal ==
    [][\A k \in Made : /\ k \in Made'
                       /\ ~ Active(k) => attempt'[k] = attempt[k]]_vars

\* A task leaves in_progress only by the end of the attempt it was in progress
\* under, with the matching outcome: a late result never overwrites another attempt.
OnlyCurrentAttemptDecides ==
    [][\A t \in Task :
          LET k == task[t].current IN
          task[t].status = "in_progress" /\ task'[t].status # "in_progress" =>
              /\ attempt'[k].status \in EndedStatus
              /\ task'[t].status \in {"completed", "cancelled"} =>
                    attempt'[k].status = task'[t].status]_vars

OpenBlockers(t) == {b \in Task : <<t, b>> \in deps /\ task[b].status # "completed"}

\* blocked_by_count is the number of blockers still to complete, for every task
\* that waits: no release is lost and none comes early.
BlockedCountsOpenBlockers ==
    \A t \in Task : task[t].status = "pending" =>
        task[t].blocked = Cardinality(OpenBlockers(t))

\* No task is attempted before all of its blockers have completed.
StartedAfterBlockers ==
    \A k \in Made : OpenBlockers(attempt[k].task) = {}

\* Every task that can be claimed has been announced by a task_available event
\* written in the transaction that made it ready.
ReadyTasksAreAnnounced == \A t \in Task : Ready(t) => t \in available

Ended(k) == k \in Made /\ attempt[k].status \in EndedStatus

\* Every attempt ends, unless its runtime keeps renewing the lease.
AttemptsEnd ==
    \A k \in ExecId \X (1 .. MaxAttempts) :
        \/ (k \in Made /\ Active(k)) ~> Ended(k)
        \/ []<><<RenewLease(k)>>_vars

-----------------------------------------------------------------------------
(* The board the scheduler implements. *)

\* The row of a task as the board sees it: how often it was tried is the number
\* of its current attempt; the count of its blockers is not on the board.
BoardState(t) ==
    CASE task[t].status = "pending" -> "waiting"
      [] task[t].status = "in_progress" -> "running"
      [] OTHER -> task[t].status

Board == INSTANCE TaskBoard WITH
    Worker <- Runtime,
    Nobody <- NoRuntime,
    state <- [t \in Task |-> BoardState(t)],
    after <- deps,
    worker <- [t \in Task |-> task[t].owner],
    tries <- [t \in Task |-> IF task[t].current = NoAttempt THEN 0 ELSE task[t].current[2]]

\* Whatever the processes do, and however late they do it, the rows change as a
\* board of tasks may: a task is started when all its blockers are completed,
\* tried at most MaxAttempts times, and ended by whoever works on it.  A stored
\* count, an announcement or a stale attempt never shows.
ImplementsTaskBoard == Board!Spec
=============================================================================

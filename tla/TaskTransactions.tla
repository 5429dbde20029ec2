--------------------------- MODULE TaskTransactions ---------------------------
(***************************************************************************)
(* The transactions of lib/dag_scheduler.py statement by statement, at the *)
(* isolation PostgreSQL gives them (READ COMMITTED): each statement sees   *)
(* what was committed when it began, waits for the row locks of others,    *)
(* and looks at a row again once it has the lock; what a transaction       *)
(* writes is seen when it commits.  DagScheduler takes each of them for    *)
(* one step; here that is a property (CommitsAreAtomic).                   *)
(*                                                                         *)
(* The variables of DagScheduler are the committed rows.  A row a          *)
(* transaction has written it has locked too, so what it will write is     *)
(* worked out at the commit, except for the counts of the dependents.  The *)
(* last statement of a load event or an unload is one step with its        *)
(* commit: nothing is waited for in between.  claim_next_available_task    *)
(* stays one step, and needs the rows it locks to be free: it reads only   *)
(* rows it has locked, and holds nothing while it waits.                   *)
(***************************************************************************)
EXTENDS DagScheduler

CONSTANT Connection    \* the connections of the pool

VARIABLES
    txn,    \* the transaction open on each connection
    late    \* pairs <<task, blocker>> stored when the blocker was completed, or
            \* when a transaction that completes it had read its dependents

txnVars == <<txn, late>>
allVars == <<vars, txnVars>>

NoDag == [t \in {} |-> {}]

\* at: the table whose row is updated next, "attempt", "task" or "runtime"; "reading",
\* "locking", "counting" and "setting" the dependents; "freeing" runtimes; "storing" a
\* task, "linking" it to its blockers; "inserting" an event; "unloading" a runtime;
\* "ready" to commit.
NoTxn == [kind |-> "none", at |-> "none", key |-> NoAttempt, dag |-> NoDag,
          todo |-> {},                    \* what is still to be done in this way
          rows |-> {},                    \* the dependents the SELECT returns
          locks |-> {},                   \* [mode, row]
          counts |-> [t \in {} |-> 0]]    \* blocked_by_count of the dependents

TransactionsInit == Init /\ txn = [x \in Connection |-> NoTxn] /\ late = {}

-----------------------------------------------------------------------------
(* Row locks. *)

Row(table, id) == [table |-> table, id |-> id]
Lock(mode, table, id) == [mode |-> mode, row |-> Row(table, id)]

\* share: FOR KEY SHARE, of a foreign key; write: FOR NO KEY UPDATE, of an UPDATE;
\* update: FOR UPDATE.
Conflict(one, other) ==
    /\ one.row = other.row
    /\ {one.mode, other.mode} \notin {{"share"}, {"share", "write"}}

\* Whether none of these connections holds a lock that conflicts with one of these.
FreeOf(locks, others) ==
    \A y \in others : \A taken \in txn[y].locks : \A lock \in locks : ~ Conflict(lock, taken)

Free(locks, x) == FreeOf(locks, Connection \ {x})
FreeOfAll(locks) == FreeOf(locks, Connection)

Open(x) == txn[x].kind # "none"
At(x, place) == txn[x].at = place
TaskOf(x) == attempt[txn[x].key].task
RuntimeOf(x) == attempt[txn[x].key].runtime
Locked(x, table, id) == \E lock \in txn[x].locks : lock.row = Row(table, id)

Keep == UNCHANGED <<vars, late>>
Step(x, record) == txn' = [txn EXCEPT ![x] = record] /\ Keep
Give(x, locks, record) == Free(locks, x) /\ Step(x, [record EXCEPT !.locks = @ \cup locks])

-----------------------------------------------------------------------------
(* mark_execution_started, renew_lease, and the three ends of an attempt *)

\* Slip: a completion settles the task before it looks at the execution.
TaskFirst(kind) ==
    CASE kind = "load" -> [none |-> "inserting"]
      [] kind = "start" ->
            [none |-> "attempt", attempt |-> "runtime", runtime |-> "ready"]
      [] kind = "complete" ->
            [none |-> "task", task |-> "attempt", attempt |-> "runtime", runtime |-> "reading"]
      [] OTHER ->
            [none |-> "attempt", attempt |-> "task", task |-> "runtime", runtime |-> "ready"]

\* What follows the UPDATE of a table; a call begins with what follows "none".  A load
\* event is inserted, and no table is updated.
Updates(kind) ==
    CASE kind = "load" -> [none |-> "inserting"]
      [] kind = "start" ->
            [none |-> "attempt", attempt |-> "runtime", runtime |-> "ready"]
      [] kind = "complete" ->
            [none |-> "attempt", attempt |-> "task", task |-> "runtime", runtime |-> "reading"]
      [] OTHER ->
            [none |-> "attempt", attempt |-> "task", task |-> "runtime", runtime |-> "ready"]

Tables == {"attempt", "task", "runtime"}

\* The coroutine a call comes from; each makes one call at a time.
Caller(kind) ==
    CASE kind = "renew" -> "heartbeat"
      [] kind = "cancel" -> "control"
      [] OTHER -> "execution"

\* Where no call of the same coroutine is open.
MayCall(x, kind, k) ==
    /\ ~ Open(x) /\ k \in held
    /\ \A y \in Connection : txn[y].key = k => Caller(txn[y].kind) # Caller(kind)

\* The plain SELECT of _is_current_attempt; a call it rejects is RejectStale.
Begin(x, kind, k) ==
    /\ MayCall(x, kind, k)
    /\ IsCurrentAttempt(k)
    /\ Step(x, [NoTxn EXCEPT !.kind = kind, !.at = Updates(kind).none, !.key = k])

\* Slip: what the SELECT saw is taken for granted.
MatchesAnyStatus(kind, k) == TRUE

\* The status in the WHERE clause of the first UPDATE.
Matches(kind, k) == IF kind = "start" THEN attempt[k].status = "claimed" ELSE Active(k)

\* The rows the next UPDATE finds: by key in agent_runtimes for a start or a
\* heartbeat, otherwise only those that still belong to the attempt.
Found(x) ==
    LET k == txn[x].key
        t == TaskOf(x)
        r == RuntimeOf(x) IN
    CASE At(x, "attempt") -> {Row("attempt", k)}
      [] At(x, "task") ->
            {Row("task", i) : i \in {i \in {t} : task[i].current = k /\ task[i].owner = r}}
      [] At(x, "runtime") ->
            {Row("runtime", i) : i \in {i \in {r} :
                txn[x].kind \in {"start", "renew"} \/ runtime[i].current = k}}

\* The next UPDATE; the one of the attempt ends the call when it finds no row.
Update(x) ==
    /\ txn[x].at \in Tables
    /\ IF At(x, "attempt") /\ ~ Matches(txn[x].kind, txn[x].key)
       THEN Step(x, NoTxn)
       ELSE Give(x, [mode : {"write"}, row : Found(x)],
                 [txn[x] EXCEPT !.at = Updates(txn[x].kind)[txn[x].at]])

-----------------------------------------------------------------------------
(* _record_active_execution_event, mark_card_load_failed, finish_card_unload *)

\* The INSERT after the SELECT of Begin.  Of its foreign keys it waits for whoever holds
\* the attempt FOR UPDATE; the runtime only a claim holds so.  The attempt may have ended
\* by then.
CommitLoadEvent(x) ==
    /\ At(x, "inserting")
    /\ Free({Lock("share", "attempt", txn[x].key)}, x)
    /\ RecordLoadEvent(txn[x].key)

\* SELECT FOR UPDATE: the attempt has ended.
BeginUnload(x, k) ==
    /\ MayCall(x, "unload", k)
    /\ attempt[k].status \in EndedStatus
    /\ Free({Lock("update", "attempt", k)}, x)
    /\ Step(x, [NoTxn EXCEPT !.kind = "unload", !.at = "unloading", !.key = k,
                             !.locks = {Lock("update", "attempt", k)}])

\* The UPDATE of the runtime, which has to find its row; or, after an error, the event.
CommitUnload(x) ==
    /\ At(x, "unloading")
    /\ \/ Free({Lock("write", "runtime", RuntimeOf(x))}, x) /\ FinishCardUnload(txn[x].key)
       \/ FailCardUnload(txn[x].key)

-----------------------------------------------------------------------------
(* _update_downstream_dependencies *)

\* The SELECT begins: its snapshot has these dependents.
ReadDependents(x) ==
    LET found == Dependents(TaskOf(x)) IN
    /\ At(x, "reading")
    /\ Step(x, [txn[x] EXCEPT !.at = IF found = {} THEN "ready" ELSE "locking",
                              !.todo = found, !.rows = found])

\* Slip: a SELECT without FOR UPDATE.
Unlocked(t) == {}

\* FOR UPDATE OF t
DependentLock(t) == {Lock("update", "task", t)}

\* In an order of the database's own; the rows are fetched once all of them are locked.
LockDependent(x) ==
    /\ At(x, "locking")
    /\ \E t \in txn[x].todo :
          LET rest == txn[x].todo \ {t} IN
          Give(x, DependentLock(t),
               [txn[x] EXCEPT !.at = IF rest = {} THEN "counting" ELSE "locking",
                              !.todo = IF rest = {} THEN txn[x].rows ELSE rest])

\* The tasks as x sees them: its own has been completed.
Seen(x) == Released(txn[x].key, "completed")

\* SELECT COUNT, which sees what is committed by now ...
CountBlockers(x) ==
    /\ At(x, "counting")
    /\ \E t \in txn[x].todo :
          Step(x, [txn[x] EXCEPT
              !.at = "setting",
              !.counts = [d \in DOMAIN txn[x].counts \cup {t} |->
                            IF d = t THEN Cardinality(Remaining(Seen(x), t))
                            ELSE txn[x].counts[d]]])

\* ... and the UPDATE with the result.
SetCount(x) ==
    /\ At(x, "setting")
    /\ \E t \in txn[x].todo \cap DOMAIN txn[x].counts :
          LET rest == txn[x].todo \ {t} IN
          Give(x, {Lock("write", "task", t)},
               [txn[x] EXCEPT !.at = IF rest = {} THEN "ready" ELSE "counting",
                              !.todo = rest])

-----------------------------------------------------------------------------
(* reclaim_leased_tasks *)

RowsOf(k) == {Lock("update", "attempt", k), Lock("update", "task", attempt[k].task)}

\* FOR UPDATE OF e, t SKIP LOCKED: the expired attempts whose rows are free.
BeginReclaim(x, S) ==
    /\ ~ Open(x)
    /\ S # {} /\ S \subseteq Reclaimable
    /\ Free(UNION {RowsOf(k) : k \in S}, x)
    /\ Step(x, [NoTxn EXCEPT !.kind = "reclaim", !.at = "freeing", !.todo = S,
                             !.locks = UNION {RowsOf(k) : k \in S}])

\* The UPDATE of agent_runtimes for the next attempt, if its runtime still names it.
FreeRuntime(x) ==
    /\ At(x, "freeing")
    /\ \E k \in txn[x].todo :
          LET r == attempt[k].runtime
              rest == txn[x].todo \ {k} IN
          Give(x, {Lock("write", "runtime", i) : i \in {i \in {r} : runtime[i].current = k}},
               [txn[x] EXCEPT !.at = IF rest = {} THEN "ready" ELSE "freeing", !.todo = rest])

-----------------------------------------------------------------------------
(* insert_dag_to_db *)

\* The lead publishes a task once at a time.
BeginPublish(x, dag) ==
    /\ ~ Open(x)
    /\ \A t \in DOMAIN dag : MayPublish(t) /\ \A y \in Connection : t \notin DOMAIN txn[y].dag
    /\ Step(x, [NoTxn EXCEPT !.kind = "publish", !.at = "storing", !.dag = dag,
                             !.todo = DOMAIN dag])

\* The tasks of its graph that x has stored.
Stored(x) == {t \in DOMAIN txn[x].dag : Lock("write", "task", t) \in txn[x].locks}

\* The upsert of the next task, in the order of the list, waits for whoever writes the
\* same row.
StoreTask(x) ==
    /\ At(x, "storing")
    /\ \E t \in txn[x].todo :
          Give(x, {Lock("write", "task", t)}, [txn[x] EXCEPT !.at = "linking"])

\* The blockers of the task x has in hand whose rows it has not locked yet.
Unlinked(x) ==
    {b \in Task : /\ \E t \in txn[x].todo \cap Stored(x) : b \in txn[x].dag[t].blockedBy
                  /\ ~ Locked(x, "task", b)}

\* The foreign key of each dependency that is inserted locks the blocker, which has to be
\* there (or the publication fails and is rolled back).
LinkTask(x) ==
    /\ At(x, "linking")
    /\ \/ \E b \in Unlinked(x) :
             /\ task[b].status # "absent"
             /\ Give(x, {Lock("share", "task", b)}, txn[x])
       \/ LET rest == txn[x].todo \ Stored(x) IN
          /\ Unlinked(x) = {}
          /\ Step(x, [txn[x] EXCEPT !.at = IF rest = {} THEN "ready" ELSE "storing",
                                    !.todo = rest])

-----------------------------------------------------------------------------
(* Commit and rollback *)

Outcome(kind) ==
    [complete |-> "completed", fail |-> "failed", cancel |-> "cancelled"][kind]

TaskOutcome(kind, k) ==
    IF kind = "fail" /\ RetryScheduled(k) THEN "pending" ELSE Outcome(kind)

CommitStart(x) ==
    LET k == txn[x].key IN
    /\ txn[x].kind = "start"
    /\ attempt' = [attempt EXCEPT ![k] = [@ EXCEPT !.status = "running", !.lease = "live"]]
    /\ runtime' = [runtime EXCEPT ![RuntimeOf(x)].status = "running"]
    /\ events' = Record(k, {"card.loaded", "execution.started"})
    /\ UNCHANGED <<task, deps, available, late>>

CommitRenewal(x) ==
    /\ txn[x].kind = "renew"
    /\ attempt' = [attempt EXCEPT ![txn[x].key].lease = "live"]
    /\ events' = Record(txn[x].key, {"execution.heartbeat"})
    /\ UNCHANGED <<task, deps, runtime, available, late>>

Counted(x, rows) ==
    [t \in Task |-> IF t \in DOMAIN txn[x].counts
                    THEN [rows[t] EXCEPT !.blocked = txn[x].counts[t]]
                    ELSE rows[t]]

CommitEnd(x) ==
    LET kind == txn[x].kind
        k == txn[x].key
        retried == kind = "fail" /\ RetryScheduled(k) IN
    /\ kind \in {"complete", "fail", "cancel"}
    /\ attempt' = Closed(k, Outcome(kind))
    /\ task' = Counted(x, IF Locked(x, "task", TaskOf(x))
                          THEN Released(k, TaskOutcome(kind, k)) ELSE task)
    /\ runtime' = IF Locked(x, "runtime", RuntimeOf(x)) THEN SetRuntimeUnloading(k) ELSE runtime
    /\ available' = available \cup {t \in {TaskOf(x)} : retried}
                              \cup {t \in DOMAIN txn[x].counts : txn[x].counts[t] = 0}
    /\ events' = Record(k, {TerminalEvent(Outcome(kind)), "card.unload_started"}
                             \cup {type \in {"execution.retried"} : retried})
    /\ UNCHANGED <<deps, late>>

CommitReclaim(x) ==
    LET S == {k \in Made : Locked(x, "attempt", k)} IN
    /\ txn[x].kind = "reclaim"
    /\ attempt' = [k \in Made |-> IF k \in S THEN Closed(k, "expired")[k] ELSE attempt[k]]
    /\ task' = [t \in Task |-> IF task[t].current \in S
                  THEN LET k == task[t].current IN
                       Released(k, IF RetryScheduled(k) THEN "pending" ELSE "failed")[t]
                  ELSE task[t]]
    /\ runtime' = [r \in Runtime |-> IF Locked(x, "runtime", r)
                                     THEN [status |-> "idle", current |-> NoAttempt]
                                     ELSE runtime[r]]
    /\ available' = available \cup {attempt[k].task : k \in {k \in S : RetryScheduled(k)}}
    /\ events' = [k \in Made |-> IF k \in S
                    THEN Record(k, {"execution.expired", "card.unload_started", "card.unloaded"})[k]
                    ELSE events[k]]
    /\ UNCHANGED <<deps, late>>

\* The tasks completed by now, and those whose completion has read its dependents.
Passed ==
    {t \in Task : task[t].status = "completed"}
        \cup {TaskOf(x) : x \in {x \in Connection :
                 /\ txn[x].kind = "complete"
                 /\ txn[x].at \notin Tables \cup {"reading"}}}

CommitPublication(x) ==
    LET dag == txn[x].dag
        links == {p \in Task \X Task : p[1] \in DOMAIN dag /\ p[2] \in dag[p[1]].blockedBy} IN
    /\ txn[x].kind = "publish"
    /\ task' = [t \in Task |->
                  IF t \in DOMAIN dag
                  THEN [status |-> "pending", blocked |-> Cardinality(dag[t].blockedBy),
                        current |-> NoAttempt, owner |-> NoRuntime,
                        selector |-> dag[t].selector]
                  ELSE task[t]]
    /\ deps' = deps \cup links
    /\ available' = (available \ DOMAIN dag) \cup {t \in DOMAIN dag : dag[t].blockedBy = {}}
    /\ late' = late \cup {p \in links \ deps : p[2] \in Passed}
    /\ UNCHANGED <<attempt, runtime, events>>

Commit(x) ==
    /\ \/ /\ At(x, "ready")
          /\ \/ CommitStart(x) \/ CommitRenewal(x) \/ CommitEnd(x)
             \/ CommitReclaim(x) \/ CommitPublication(x)
       \/ (CommitLoadEvent(x) \/ CommitUnload(x)) /\ UNCHANGED late
    /\ txn' = [txn EXCEPT ![x] = NoTxn]
    /\ UNCHANGED <<cards, up, held>>

\* PostgreSQL ends a deadlock, or the connection is lost: the call raises.
Rollback(x) == Open(x) /\ Step(x, NoTxn)

-----------------------------------------------------------------------------
(* What stays one step. *)

Claim(r, t) ==
    /\ FreeOfAll({Lock("update", "runtime", r), Lock("update", "task", t)})
    /\ (\E e \in ExecId : ClaimFirstAttempt(r, t, e)) \/ ClaimRetry(r, t) \/ ClaimWithoutCard(r, t)
    /\ UNCHANGED txnVars

\* A process that ends loses its connections.
Process(r) ==
    /\ \/ FreeOfAll({Lock("write", "runtime", r)}) /\ (RegisterRuntime(r) \/ StopRuntime(r))
       \/ CrashRuntime(r)
    /\ txn' = [x \in Connection |-> IF txn[x].key \in held' \cup {NoAttempt} THEN txn[x] ELSE NoTxn]
    /\ UNCHANGED late

\* The calls that begin with a plain SELECT; those but the first update the attempt.
CallKind == {"load", "start", "renew", "complete", "fail", "cancel"}

\* An attempt that has ended is never current again: the event of a rejected call needs
\* no second look.
Simple(k) ==
    /\ \/ RejectStale(k)
       \/ (\A x \in Connection : txn[x].key # k) /\ DropClaim(k)
       \/ LeaseExpires(k)
    /\ UNCHANGED txnVars

TransactionStep(x) ==
    \/ \E k \in held : BeginUnload(x, k) \/ \E kind \in CallKind : Begin(x, kind, k)
    \/ Update(x) \/ ReadDependents(x) \/ LockDependent(x)
    \/ CountBlockers(x) \/ SetCount(x)
    \/ \E S \in SUBSET Reclaimable : BeginReclaim(x, S)
    \/ FreeRuntime(x)
    \/ \E dag \in Dags : BeginPublish(x, dag)
    \/ StoreTask(x) \/ LinkTask(x)
    \/ Commit(x) \/ Rollback(x)

TransactionsNext ==
    \/ \E x \in Connection : TransactionStep(x)
    \/ \E r \in Runtime : Process(r) \/ \E t \in Task : Claim(r, t)
    \/ \E k \in Made : Simple(k)
    \/ \E c \in Managed : SetCardStatus(c) /\ UNCHANGED txnVars

TransactionsSpec == TransactionsInit /\ [][TransactionsNext]_allVars

-----------------------------------------------------------------------------
(* What the statements promise. *)

\* As long as no dependency was stored late, every commit is one step of the
\* scheduler, on the rows as they are then: whatever ran between the statements
\* of a transaction, it might as well have run at once.
CommitsAreAtomic == [][late' = {} => Next]_vars

\* The count of a waiting task is never below the number of its open blockers, and
\* exact unless one of its dependencies was stored late: concurrent completions of
\* its blockers neither lose a release nor give one too early.
BlockedIsExactUnlessLate ==
    \A t \in Task : task[t].status = "pending" =>
        LET open == Cardinality(OpenBlockers(t)) IN
        /\ task[t].blocked >= open
        /\ (\A b \in Task : <<t, b>> \notin late) => task[t].blocked = open

\* The locks the next statement of a transaction asks for.
Wanted(x) ==
    CASE txn[x].at \in Tables -> [mode : {"write"}, row : Found(x)]
      [] At(x, "locking") -> UNION {DependentLock(t) : t \in txn[x].todo}
      [] At(x, "setting") -> [mode : {"write"}, row : {Row("task", t) : t \in txn[x].todo}]
      [] At(x, "freeing") ->
            [mode : {"write"}, row : {Row("runtime", i) : i \in {i \in Runtime :
                \E k \in txn[x].todo : attempt[k].runtime = i /\ runtime[i].current = k}}]
      [] At(x, "storing") -> [mode : {"write"}, row : {Row("task", t) : t \in txn[x].todo}]
      [] At(x, "linking") -> [mode : {"share"}, row : {Row("task", b) : b \in Unlinked(x)}]
      [] At(x, "inserting") -> {Lock("share", "attempt", txn[x].key)}
      [] At(x, "unloading") ->
            [mode : {"write"}, row : {Row("runtime", i) : i \in {i \in {RuntimeOf(x)} :
                                        runtime[i].current = txn[x].key}}]
      [] OTHER -> {}

WaitsFor(x, y) ==
    x # y /\ \E wanted \in Wanted(x) : \E lock \in txn[y].locks : Conflict(wanted, lock)

\* Two transactions wait for each other only while both complete a blocker and lock the
\* rows of the dependents they share, or one of them publishes tasks that wait for
\* several of these dependents.
DeadlocksOnlyAmongDependents ==
    \A x, y \in Connection : WaitsFor(x, y) /\ WaitsFor(y, x) =>
        {txn[x].at, txn[y].at} \in {{"locking"}, {"locking", "linking"}}
=============================================================================

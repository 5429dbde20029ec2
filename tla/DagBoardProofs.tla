---------------------------- MODULE DagBoardProofs ----------------------------
(***************************************************************************)
(* The release of dependent tasks, for any task graphs: every ready task   *)
(* is announced, the stored counts are exact, no task starts before its    *)
(* blockers have completed, and the scheduler implements TaskBoard.        *)
(***************************************************************************)
EXTENDS DagSchedulerProofs

-----------------------------------------------------------------------------
(* Announcements.  This holds whatever is published. *)

AnnounceInv == TypeOK /\ ReadyTasksAreAnnounced

\* A step that writes one task row and makes that task available if it becomes ready.
LEMMA OtherTasksAnnounced ==
    ASSUME AnnounceInv, NEW t \in Task,
           \A u \in Task : u # t => task'[u].status = task[u].status /\ task'[u].blocked = task[u].blocked,
           available \ {t} \subseteq available',
           Ready(t)' => t \in available'
    PROVE  (ReadyTasksAreAnnounced)'
<1>1. \A u \in Task : u # t => (Ready(u)' <=> Ready(u))
  BY DEF Ready
<1>. QED
  BY <1>1 DEF AnnounceInv, ReadyTasksAreAnnounced

\* A completion announces every dependent that its recount finds free.
LEMMA CompletionAnnounces ==
    ASSUME AnnounceInv, NEW k \in held, CompleteExecution(k)
    PROVE  (ReadyTasksAreAnnounced)'
<1>. PICK t \in Task : t = attempt[k].task
  BY DEF AnnounceInv, TypeOK, AttemptRow
<1>. DEFINE rows == Released(k, "completed")
<1>1. k \in Made /\ "completed" \in TaskStatus
  BY DEF AnnounceInv, TypeOK, TaskStatus
<1>2. rows \in [Task -> TaskRow]
  BY <1>1, ReleasedRows DEF AnnounceInv
<1>3. \A u \in Task : /\ u # t => rows[u] = task[u]
                      /\ rows[t].status = "completed"
  BY DEF Released, AnnounceInv, TypeOK, TaskRow
<1>4. task' = Recounted(rows, t) /\ available' = available \cup Unblocked(rows, t)
  BY DEF CompleteExecution
<1>. HIDE DEF rows
<1>5. \A u \in Task : task'[u].status = rows[u].status
  BY <1>2, <1>4, RecountedRows
<1>6. \A u \in Task : /\ u \in Dependents(t) => task'[u].blocked = Cardinality(Remaining(rows, u))
                      /\ u \notin Dependents(t) => task'[u] = rows[u]
  BY <1>2, <1>4 DEF Recounted, TaskRow
<1>7. ASSUME NEW u \in Task, Ready(u)' PROVE u \in available'
  <2>1. task'[u].status = "pending" /\ task'[u].blocked = 0 /\ u # t
    BY <1>3, <1>5, <1>7 DEF Ready
  <2>2. CASE u \in Dependents(t)
    <3>1. Cardinality(Remaining(rows, u)) = 0
      BY <1>6, <2>1, <2>2
    <3>2. IsFiniteSet(Remaining(rows, u))
      BY FS_Subset, BoundAssumption DEF Remaining, Blockers
    <3>3. Remaining(rows, u) = {}
      BY <3>1, <3>2, FS_EmptySet
    <3>. QED
      BY <1>4, <2>2, <3>3 DEF Unblocked
  <2>3. CASE u \notin Dependents(t)
    <3>1. Ready(u)
      BY <1>3, <1>6, <2>1, <2>3 DEF Ready
    <3>. QED
      BY <1>4, <3>1 DEF AnnounceInv, ReadyTasksAreAnnounced
  <2>. QED
    BY <2>2, <2>3
<1>. QED
  BY <1>7 DEF ReadyTasksAreAnnounced

\* A publication announces the tasks it lists without a blocker.
LEMMA PublicationAnnounces ==
    ASSUME AnnounceInv, NEW dag \in Dags, PublishDag(dag)
    PROVE  (ReadyTasksAreAnnounced)'
<1>1. ASSUME NEW t \in Task, Ready(t)' PROVE t \in available'
  <2>1. CASE t \in DOMAIN dag
    <3>1. Cardinality(dag[t].blockedBy) = 0
      BY <1>1, <2>1 DEF PublishDag, InsertDag, Ready
    <3>2. IsFiniteSet(dag[t].blockedBy)
      BY <2>1, DagsAssumption, BoundAssumption, FS_Subset
    <3>3. dag[t].blockedBy = {}
      BY <3>1, <3>2, FS_EmptySet
    <3>. QED
      BY <2>1, <3>3 DEF PublishDag, InsertDag
  <2>2. CASE t \notin DOMAIN dag
    <3>1. Ready(t)
      BY <1>1, <2>2 DEF PublishDag, InsertDag, Ready
    <3>. QED
      BY <2>2, <3>1 DEF PublishDag, InsertDag, AnnounceInv, ReadyTasksAreAnnounced
  <2>. QED
    BY <2>1, <2>2
<1>. QED
  BY <1>1 DEF ReadyTasksAreAnnounced

\* A claim takes its task off; a failure puts it back if it is retried.
LEMMA ClaimAnnounces ==
    ASSUME AnnounceInv, NEW r \in Runtime, NEW t \in Task,
           \/ \E e \in ExecId : ClaimFirstAttempt(r, t, e)
           \/ ClaimRetry(r, t)
           \/ ClaimWithoutCard(r, t)
    PROVE  (ReadyTasksAreAnnounced)'
<1>1. CASE \E k, card : Claimed(r, t, k, card)
  <2>1. PICK k, card : Claimed(r, t, k, card)
    BY <1>1
  <2>2. /\ task'[t].status = "in_progress"
        /\ \A u \in Task : u # t => task'[u] = task[u]
        /\ available' = available \ {t}
    BY <2>1 DEF Claimed, AnnounceInv, TypeOK, TaskRow
  <2>. QED
    BY <2>2, OtherTasksAnnounced DEF Ready
<1>2. CASE ClaimWithoutCard(r, t)
  <2>1. /\ task'[t].status = "failed"
        /\ \A u \in Task : u # t => task'[u] = task[u]
        /\ available' = available \ {t}
    BY <1>2 DEF ClaimWithoutCard, AnnounceInv, TypeOK, TaskRow
  <2>. QED
    BY <2>1, OtherTasksAnnounced DEF Ready
<1>. QED
  BY <1>1, <1>2 DEF ClaimFirstAttempt, ClaimRetry

\* So does a reclaim.
LEMMA FailureAnnounces ==
    ASSUME AnnounceInv,
           \/ \E k \in held : FailExecution(k) \/ CancelExecution(k)
           \/ \E S \in SUBSET Reclaimable : ReclaimLeasedTasks(S)
    PROVE  (ReadyTasksAreAnnounced)'
<1>1. CASE \E k \in held : FailExecution(k) \/ CancelExecution(k)
  <2>1. PICK k \in held : FailExecution(k) \/ CancelExecution(k)
    BY <1>1
  <2>2. PICK t \in Task : t = attempt[k].task
    BY DEF AnnounceInv, TypeOK, AttemptRow
  <2>3. PICK left \in TaskStatus :
           /\ task' = Released(k, left)
           /\ left = "pending" => t \in available'
           /\ available \subseteq available'
    BY <2>1, <2>2 DEF FailExecution, CancelExecution, TaskStatus
  <2>4. /\ task'[t].status = left
        /\ \A u \in Task : u # t => task'[u] = task[u]
    BY <2>2, <2>3 DEF Released, AnnounceInv, TypeOK, TaskRow
  <2>. QED
    BY <2>3, <2>4, OtherTasksAnnounced DEF Ready
<1>2. CASE \E S \in SUBSET Reclaimable : ReclaimLeasedTasks(S)
  <2>1. PICK S \in SUBSET Reclaimable : ReclaimLeasedTasks(S)
    BY <1>2
  <2>2. ASSUME NEW t \in Task, Ready(t)' PROVE t \in available'
    <3>1. CASE task[t].current \in S
      <4>0. task'[t].status = IF RetryScheduled(task[t].current) THEN "pending" ELSE "failed"
        <5>1. task[t] \in TaskRow
          BY DEF AnnounceInv, TypeOK
        <5>2. task'[t] = [task[t] EXCEPT
                            !.status = IF RetryScheduled(task[t].current) THEN "pending" ELSE "failed",
                            !.owner = NoRuntime]
          BY <2>1, <3>1 DEF ReclaimLeasedTasks
        <5>. QED
          BY <5>1, <5>2 DEF TaskRow
      <4>1. RetryScheduled(task[t].current)
        BY <2>2, <4>0 DEF Ready
      <4>. QED
        BY <2>1, <3>1, <4>1 DEF ReclaimLeasedTasks
    <3>2. CASE task[t].current \notin S
      <4>1. Ready(t)
        BY <2>1, <2>2, <3>2 DEF ReclaimLeasedTasks, Ready
      <4>. QED
        BY <2>1, <4>1 DEF ReclaimLeasedTasks, AnnounceInv, ReadyTasksAreAnnounced
    <3>. QED
      BY <3>1, <3>2
  <2>. QED
    BY <2>2 DEF ReadyTasksAreAnnounced
<1>. QED
  BY <1>1, <1>2

\* AnnounceInv is inductive.
LEMMA AnnounceNext == AnnounceInv /\ [Next]_vars => AnnounceInv'
<1>. SUFFICES ASSUME AnnounceInv, [Next]_vars PROVE (ReadyTasksAreAnnounced)'
  BY NextType, NextIsLoose DEF AnnounceInv
<1>1. CASE UNCHANGED <<task, available>>
  BY <1>1 DEF AnnounceInv, ReadyTasksAreAnnounced, Ready
<1>2. CASE \/ \E c \in Managed : SetCardStatus(c)
           \/ \E r \in Runtime : RegisterRuntime(r) \/ StopRuntime(r) \/ CrashRuntime(r)
           \/ \E k \in held : \/ RejectStale(k) \/ RecordLoadEvent(k) \/ MarkExecutionStarted(k)
                              \/ RenewLease(k) \/ FinishCardUnload(k) \/ FailCardUnload(k)
                              \/ DropClaim(k)
           \/ \E k \in Made : LeaseExpires(k)
           \/ UNCHANGED vars
  BY <1>1, <1>2 DEF SetCardStatus, RegisterRuntime, StopRuntime, CrashRuntime, RejectStale,
     RecordLoadEvent, MarkExecutionStarted, RenewLease, FinishCardUnload, FailCardUnload,
     DropClaim, LeaseExpires, vars
<1>. QED
  BY <1>2, PublicationAnnounces, ClaimAnnounces, CompletionAnnounces, FailureAnnounces DEF Next

\* A task that can be claimed always has an announcement newer than its last claim,
\* whatever is published, retried, reclaimed or completed at the same time: a
\* runtime that only listens never waits for a task nobody told it of.
THEOREM ReadyAnnounced == Spec => []ReadyTasksAreAnnounced
<1>1. Init => AnnounceInv
  BY InitType DEF AnnounceInv, Init, ReadyTasksAreAnnounced, Ready
<1>2. AnnounceInv => ReadyTasksAreAnnounced
  BY DEF AnnounceInv
<1>. QED
  BY <1>1, <1>2, AnnounceNext, PTL DEF Spec

-----------------------------------------------------------------------------
(* Blocking.  From here on every task is published once: a count is written *)
(* when a task is published and recounted when one of its blockers          *)
(* completes, and is too low in between if a completed blocker comes back.  *)
(* It is too high, until the next recount, if the publication named a       *)
(* blocker that had completed before.                                       *)

CountsCoverBlockers ==
    \A t \in Task : Cardinality(OpenBlockers(t)) <= task[t].blocked

\* A task that was not published has no blockers and no attempts.
AbsentIsBare ==
    \A t \in Task : task[t].status = "absent" =>
        Blockers(t) = {} /\ \A k \in Made : attempt[k].task # t

OwnedInProgress ==
    \A t \in Task : task[t].status # "in_progress" => task[t].owner = NoRuntime

BoardInv ==
    /\ AgreeInv
    /\ CountsCoverBlockers
    /\ AbsentIsBare
    /\ StartedAfterBlockers
    /\ OwnedInProgress

\* What the recount counts are the open blockers.
LEMMA OpenIsRemaining ==
    \A t : OpenBlockers(t) = Remaining(task, t)
BY DEF OpenBlockers, Remaining, Blockers

\* A task has finitely many of them.
LEMMA OpenIsFinite ==
    \A t : IsFiniteSet(OpenBlockers(t))
<1>1. \A t : OpenBlockers(t) \subseteq Task
  BY DEF OpenBlockers
<1>. QED
  BY <1>1, FS_Subset, BoundAssumption

\* A task whose count is zero has no open blocker.
LEMMA ReadyIsOpen ==
    ASSUME BoardInv, NEW t \in Task, Ready(t)
    PROVE  OpenBlockers(t) = {}
<1>1. IsFiniteSet(OpenBlockers(t)) /\ Cardinality(OpenBlockers(t)) \in Nat
  BY OpenIsFinite, FS_CardinalityType
<1>2. Cardinality(OpenBlockers(t)) = 0
  BY <1>1 DEF BoardInv, CountsCoverBlockers, Ready
<1>. QED
  BY <1>1, <1>2, FS_EmptySet

\* A step that leaves the graph and the counts alone and completes nothing.
Quiet ==
    /\ deps' = deps
    /\ \A t \in Task : /\ task'[t].blocked = task[t].blocked
                       /\ task'[t].status = "completed" <=> task[t].status = "completed"
                       /\ task'[t].status = "absent" <=> task[t].status = "absent"
                       /\ task'[t].status # "in_progress" => task'[t].owner = NoRuntime

\* Such a step keeps the invariant if it makes attempts only of tasks without an open
\* blocker.
LEMMA QuietStep ==
    ASSUME BoardInv, (AgreeInv)', Quiet,
           \A k \in Made' : \/ k \in Made /\ attempt'[k].task = attempt[k].task
                            \/ /\ attempt'[k].task \in Task
                               /\ OpenBlockers(attempt'[k].task) = {}
                               /\ task[attempt'[k].task].status # "absent"
    PROVE  BoardInv'
<1>. USE DEF Quiet
<1>1. \A t : OpenBlockers(t)' = OpenBlockers(t)
  BY DEF OpenBlockers
<1>2. \A t : Blockers(t)' = Blockers(t)
  BY DEF Blockers
<1>3. (CountsCoverBlockers)'
  BY <1>1 DEF BoardInv, CountsCoverBlockers
<1>4. (AbsentIsBare)'
  <2>1. ASSUME NEW t \in Task, task'[t].status = "absent", NEW k \in Made'
        PROVE  attempt'[k].task # t
    <3>1. task[t].status = "absent"
      BY <2>1
    <3>. QED
      BY <2>1, <3>1 DEF BoardInv, AbsentIsBare
  <2>2. ASSUME NEW t \in Task, task'[t].status = "absent"
        PROVE  (Blockers(t) = {})'
    BY <1>2, <2>2 DEF BoardInv, AbsentIsBare
  <2>. QED
    BY <2>1, <2>2 DEF AbsentIsBare
<1>5. (StartedAfterBlockers)'
  <2>1. ASSUME NEW k \in Made' PROVE (OpenBlockers(attempt[k].task) = {})'
    <3>1. OpenBlockers(attempt'[k].task) = {}
      BY DEF BoardInv, StartedAfterBlockers
    <3>2. OpenBlockers(attempt[k].task)' = OpenBlockers(attempt'[k].task)
      BY DEF OpenBlockers
    <3>. QED
      BY <3>1, <3>2
  <2>. QED
    BY <2>1 DEF StartedAfterBlockers
<1>6. (OwnedInProgress)'
  BY DEF OwnedInProgress
<1>. QED
  BY <1>3, <1>4, <1>5, <1>6 DEF BoardInv

\* The lead stores new tasks: their counts are those of all blockers they name.
LEMMA PublicationCounts ==
    ASSUME BoardInv, NEW dag \in Dags, InsertDag(dag), Rerun = "never"
    PROVE  /\ DOMAIN dag \subseteq Task
           /\ \A t \in Task : task'[t].status = "completed" <=> task[t].status = "completed"
           /\ \A t \in DOMAIN dag :
                 /\ dag[t].blockedBy \subseteq Task
                 /\ task[t].status = "absent" /\ task'[t].status = "pending"
                 /\ task'[t].owner = NoRuntime
                 /\ task'[t].blocked = Cardinality(dag[t].blockedBy)
                 /\ OpenBlockers(t)' = {b \in dag[t].blockedBy : task[b].status # "completed"}
                 /\ \A k \in Made : attempt[k].task # t
           /\ \A t \in Task \ DOMAIN dag :
                 /\ task'[t] = task[t]
                 /\ OpenBlockers(t)' = OpenBlockers(t) /\ Blockers(t)' = Blockers(t)
<1>1. /\ DOMAIN dag \subseteq Task
      /\ \A t \in DOMAIN dag : dag[t].blockedBy \subseteq Task /\ task[t].status = "absent"
      /\ \A t \in DOMAIN dag : Blockers(t) = {} /\ \A k \in Made : attempt[k].task # t
  BY DagsAssumption DEF InsertDag, MayPublish, BoardInv, AbsentIsBare
<1>2. /\ \A t \in DOMAIN dag : /\ task'[t].status = "pending"
                               /\ task'[t].blocked = Cardinality(dag[t].blockedBy)
                               /\ task'[t].owner = NoRuntime
      /\ \A t \in Task \ DOMAIN dag : task'[t] = task[t]
  BY <1>1 DEF InsertDag
<1>3. \A t, b \in Task : <<t, b>> \in deps' <=>
         <<t, b>> \in deps \/ (t \in DOMAIN dag /\ b \in dag[t].blockedBy)
  BY DEF InsertDag
<1>4. \A b \in Task : task'[b].status = "completed" <=> task[b].status = "completed"
  BY <1>1, <1>2
<1>5. \A t \in DOMAIN dag : OpenBlockers(t)' = {b \in dag[t].blockedBy : task[b].status # "completed"}
  <2>1. \A t \in DOMAIN dag : \A b \in Task : <<t, b>> \notin deps
    BY <1>1 DEF Blockers
  <2>. QED
    BY <1>1, <1>3, <1>4, <2>1 DEF OpenBlockers
<1>6. \A t \in Task \ DOMAIN dag : OpenBlockers(t)' = OpenBlockers(t) /\ Blockers(t)' = Blockers(t)
  BY <1>3, <1>4 DEF OpenBlockers, Blockers
<1>. QED
  BY <1>1, <1>2, <1>4, <1>5, <1>6

\* So a publication leaves no count too low.
LEMMA PublicationBoard ==
    ASSUME BoardInv, (AgreeInv)', NEW dag \in Dags, InsertDag(dag), Rerun = "never"
    PROVE  BoardInv'
<1>1. attempt' = attempt /\ Made' = Made
  BY DEF InsertDag, Made
<1>2. (CountsCoverBlockers)'
  <2>1. ASSUME NEW t \in DOMAIN dag
        PROVE  Cardinality(OpenBlockers(t)') <= Cardinality(dag[t].blockedBy)
    <3>1. OpenBlockers(t)' \subseteq dag[t].blockedBy /\ IsFiniteSet(dag[t].blockedBy)
      BY PublicationCounts, FS_Subset, BoundAssumption
    <3>. QED
      BY <3>1, FS_Subset
  <2>. QED
    BY <2>1, PublicationCounts DEF BoardInv, CountsCoverBlockers
<1>3. (AbsentIsBare)'
  BY <1>1, PublicationCounts DEF BoardInv, AbsentIsBare
<1>4. (StartedAfterBlockers)'
  <2>1. ASSUME NEW k \in Made PROVE (OpenBlockers(attempt[k].task) = {})'
    <3>1. attempt[k].task \in Task \ DOMAIN dag
      BY PublicationCounts DEF BoardInv, AgreeInv, HeadInv, TypeOK, AttemptRow
    <3>2. OpenBlockers(attempt[k].task) = {}
      BY DEF BoardInv, StartedAfterBlockers
    <3>3. PICK t : t = attempt[k].task
      OBVIOUS
    <3>4. OpenBlockers(t)' = OpenBlockers(t)
      BY <3>1, <3>3, PublicationCounts
    <3>5. OpenBlockers(attempt[k].task)' = OpenBlockers(t)'
      BY <1>1, <3>3 DEF OpenBlockers
    <3>. QED
      BY <3>2, <3>3, <3>4, <3>5
  <2>. QED
    BY <1>1, <2>1 DEF StartedAfterBlockers
<1>5. (OwnedInProgress)'
  BY PublicationCounts DEF BoardInv, OwnedInProgress
<1>. QED
  BY <1>2, <1>3, <1>4, <1>5 DEF BoardInv

\* What a completion does to the tasks.
LEMMA CompletedRows ==
    ASSUME AgreeInv, NEW k \in held, Completes(k)
    PROVE  LET t == attempt[k].task IN
           /\ t \in Task /\ task[t].status = "in_progress" /\ task[t].current = k
           /\ task'[t].status = "completed" /\ task'[t].owner = NoRuntime
           /\ \A u \in Task : /\ u # t => /\ task'[u].status = task[u].status
                                          /\ task'[u].owner = task[u].owner
                              /\ task'[u].current = task[u].current
<1>. DEFINE t == attempt[k].task
            rows == Released(k, "completed")
<1>1. k \in Made /\ t \in Task /\ task \in [Task -> TaskRow]
  BY DEF AgreeInv, HeadInv, TypeOK, AttemptRow
<1>2. task[t].status = "in_progress" /\ task[t].current = k
  BY <1>1 DEF AgreeInv, AttemptAndTaskAgree, Completes, IsCurrentAttempt
<1>3. \A u \in Task : rows[u].current = task[u].current
  BY <1>1, ReleasedRows DEF AgreeInv, HeadInv, TaskStatus
<1>4. /\ \A u \in Task : u # t => rows[u] = task[u]
      /\ rows[t].status = "completed" /\ rows[t].owner = NoRuntime
  BY <1>1 DEF Released, TaskRow
<1>5. \A u \in Task : /\ task'[u].status = rows[u].status
                      /\ task'[u].current = rows[u].current
                      /\ task'[u].owner = rows[u].owner
  BY DEF Completes
<1>. QED
  BY <1>1, <1>2, <1>3, <1>4, <1>5

\* It leaves no other task with an open blocker more, and those of its dependents only
\* with one less.
LEMMA CompletedBlockers ==
    ASSUME AgreeInv, NEW k \in held, Completes(k)
    PROVE  /\ \A u : OpenBlockers(u)' \subseteq OpenBlockers(u) /\ Blockers(u)' = Blockers(u)
           /\ \A u \in Task \ Dependents(attempt[k].task) : OpenBlockers(u)' = OpenBlockers(u)
<1>. DEFINE t == attempt[k].task
<1>1. deps' = deps
  BY DEF Completes
<1>2. /\ \A u \in Task : u # t => task'[u].status = task[u].status
      /\ task'[t].status = "completed"
  BY CompletedRows
<1>. QED
  BY <1>1, <1>2 DEF OpenBlockers, Blockers, Dependents

\* A completion takes no count below the blockers that are left.
LEMMA CompletionBoard ==
    ASSUME BoardInv, (AgreeInv)', NEW k \in held, Completes(k), [LooseNext]_vars
    PROVE  BoardInv'
<1>. DEFINE t == attempt[k].task
<1>1. /\ t \in Task /\ task[t].status = "in_progress"
      /\ task'[t].status = "completed" /\ task'[t].owner = NoRuntime
      /\ \A u \in Task : u # t => /\ task'[u].status = task[u].status
                                  /\ task'[u].owner = task[u].owner
  BY CompletedRows DEF BoardInv
<1>2. deps' = deps /\ \A j \in Made' : j \in Made /\ attempt'[j].task = attempt[j].task
  <2>1. k \in Made
    BY DEF BoardInv, AgreeInv, HeadInv, TypeOK
  <2>2. "completed" \in EndedStatus
    BY DEF EndedStatus
  <2>3. Made' = Made
    BY <2>1, <2>2, ClosedRows DEF Completes, BoardInv, AgreeInv, HeadInv, Made
  <2>. QED
    BY <2>3, RowsStay DEF Completes, BoardInv, AgreeInv
<1>. HIDE DEF t
<1>3. \A u : OpenBlockers(u)' \subseteq OpenBlockers(u) /\ Blockers(u)' = Blockers(u)
  BY CompletedBlockers DEF BoardInv
<1>4. (CountsCoverBlockers)'
  <2>1. ASSUME NEW u \in Task
        PROVE  Cardinality(OpenBlockers(u)') <= task'[u].blocked
    <3>1. Cardinality(OpenBlockers(u)') <= Cardinality(OpenBlockers(u))
      BY <1>3, OpenIsFinite, FS_Subset
    <3>2. /\ Cardinality(OpenBlockers(u)') \in Nat /\ Cardinality(OpenBlockers(u)) \in Nat
      BY <1>3, OpenIsFinite, FS_Subset, FS_CardinalityType
    <3>3. task[u].blocked \in Nat /\ task'[u].blocked \in Nat
      BY DEF BoardInv, AgreeInv, HeadInv, TypeOK, TaskRow, Completes
    <3>4. \/ task'[u].blocked = task[u].blocked
          \/ task'[u].blocked >= Cardinality(OpenBlockers(u)')
      BY DEF Completes
    <3>. QED
      BY <3>1, <3>2, <3>3, <3>4 DEF BoardInv, CountsCoverBlockers
  <2>. QED
    BY <2>1 DEF CountsCoverBlockers
<1>5. (AbsentIsBare)'
  BY <1>1, <1>2, <1>3 DEF BoardInv, AbsentIsBare
<1>6. (StartedAfterBlockers)'
  <2>1. ASSUME NEW j \in Made' PROVE (OpenBlockers(attempt[j].task) = {})'
    <3>1. OpenBlockers(attempt[j].task) = {}
      BY <1>2 DEF BoardInv, StartedAfterBlockers
    <3>2. OpenBlockers(attempt[j].task)' \subseteq OpenBlockers(attempt[j].task)
      BY <1>1, <1>2 DEF OpenBlockers
    <3>. QED
      BY <3>1, <3>2
  <2>. QED
    BY <2>1 DEF StartedAfterBlockers
<1>7. (OwnedInProgress)'
  BY <1>1 DEF BoardInv, OwnedInProgress
<1>. QED
  BY <1>4, <1>5, <1>6, <1>7 DEF BoardInv

\* An attempt is made of a task that was ready, so without an open blocker.
LEMMA AttemptsAreOfOpenTasks ==
    ASSUME BoardInv, [LooseNext]_vars
    PROVE  \A k \in Made' : \/ k \in Made /\ attempt'[k].task = attempt[k].task
                            \/ /\ attempt'[k].task \in Task
                               /\ OpenBlockers(attempt'[k].task) = {}
                               /\ task[attempt'[k].task].status # "absent"
<1>1. ASSUME NEW k \in Made, k \in Made'
      PROVE  attempt'[k].task = attempt[k].task
  BY RowsStay DEF BoardInv, AgreeInv
<1>2. ASSUME NEW k \in Made' \ Made
      PROVE  /\ attempt'[k].task \in Task
             /\ OpenBlockers(attempt'[k].task) = {}
             /\ task[attempt'[k].task].status # "absent"
  <2>1. PICK r \in Runtime, t \in Task :
            \/ \E e \in ExecId : ClaimFirstAttempt(r, t, e) /\ k = <<e, 1>>
            \/ /\ ClaimRetry(r, t)
               /\ k = <<task[t].current[1], task[t].current[2] + 1>>
    BY NewRows DEF BoardInv, AgreeInv
  <2>2. Ready(t)
    BY <2>1 DEF ClaimFirstAttempt, ClaimRetry
  <2>3. \E card : Claimed(r, t, k, card)
    BY <2>1 DEF ClaimFirstAttempt, ClaimRetry
  <2>4. attempt'[k].task = t
    BY <2>3 DEF Claimed
  <2>5. task[t].status # "absent"
    BY <2>2 DEF Ready
  <2>. QED
    BY <2>2, <2>4, <2>5, ReadyIsOpen
<1>. QED
  BY <1>1, <1>2

\* A claim starts a ready task, or fails it.
LEMMA ClaimIsQuiet ==
    ASSUME BoardInv, NEW r \in Runtime, NEW t \in Task,
           \/ \E e \in ExecId : ClaimFirstAttempt(r, t, e)
           \/ ClaimRetry(r, t)
           \/ ClaimWithoutCard(r, t)
    PROVE  Quiet
<1>1. Ready(t) /\ deps' = deps
  BY DEF ClaimFirstAttempt, ClaimRetry, ClaimWithoutCard, Claimed
<1>2. PICK row : /\ task' = [task EXCEPT ![t] = row]
                 /\ row.blocked = task[t].blocked
                 /\ \/ row.status = "in_progress"
                    \/ row.status = "failed" /\ row.owner = NoRuntime
  <2>0. task[t] \in TaskRow
    BY DEF BoardInv, AgreeInv, HeadInv, TypeOK
  <2>1. CASE \E k, card : Claimed(r, t, k, card)
    <3>1. PICK k, card : Claimed(r, t, k, card)
      BY <2>1
    <3>. DEFINE row == [task[t] EXCEPT !.status = "in_progress", !.current = k, !.owner = r]
    <3>2. task' = [task EXCEPT ![t] = row]
      BY <3>1 DEF Claimed
    <3>3. row.blocked = task[t].blocked /\ row.status = "in_progress"
      BY <2>0 DEF TaskRow
    <3>. HIDE DEF row
    <3>. QED
      BY <3>2, <3>3
  <2>2. CASE ClaimWithoutCard(r, t)
    <3>. DEFINE row == [task[t] EXCEPT !.status = "failed", !.owner = NoRuntime]
    <3>1. task' = [task EXCEPT ![t] = row]
      BY <2>2 DEF ClaimWithoutCard
    <3>2. row.blocked = task[t].blocked /\ row.status = "failed" /\ row.owner = NoRuntime
      BY <2>0 DEF TaskRow
    <3>. HIDE DEF row
    <3>. QED
      BY <3>1, <3>2
  <2>. QED
    BY <2>1, <2>2 DEF ClaimFirstAttempt, ClaimRetry
<1>3. task'[t] = row /\ \A u \in Task : u # t => task'[u] = task[u]
  BY <1>2 DEF BoardInv, AgreeInv, HeadInv, TypeOK
<1>4. \A u \in Task : /\ task'[u].blocked = task[u].blocked
                      /\ task'[u].status = "completed" <=> task[u].status = "completed"
                      /\ task'[u].status = "absent" <=> task[u].status = "absent"
                      /\ task'[u].status # "in_progress" => task'[u].owner = NoRuntime
  BY <1>1, <1>2, <1>3 DEF Ready, BoardInv, OwnedInProgress
<1>. QED
  BY <1>1, <1>4 DEF Quiet

\* A failure, a cancellation or a reclaim ends work in progress without completing it.
LEMMA GivenUpIsQuiet ==
    ASSUME BoardInv,
           \/ \E k \in held : FailExecution(k) \/ CancelExecution(k)
           \/ \E S \in SUBSET Reclaimable : ReclaimLeasedTasks(S)
    PROVE  Quiet
<1>1. CASE \E k \in held : FailExecution(k) \/ CancelExecution(k)
  <2>1. PICK k \in held : FailExecution(k) \/ CancelExecution(k)
    BY <1>1
  <2>2. PICK t \in Task : t = attempt[k].task
    BY DEF BoardInv, AgreeInv, HeadInv, TypeOK, AttemptRow
  <2>3. task[t].status = "in_progress"
    <3>1. k \in Made /\ Active(k)
      BY <2>1 DEF FailExecution, CancelExecution, IsCurrentAttempt, BoardInv, AgreeInv, HeadInv, TypeOK
    <3>. QED
      BY <2>2, <3>1 DEF BoardInv, AgreeInv, AttemptAndTaskAgree
  <2>4. PICK left \in {"pending", "failed", "cancelled"} : task' = Released(k, left) /\ deps' = deps
    BY <2>1 DEF FailExecution, CancelExecution
  <2>5. /\ task'[t].status = left /\ task'[t].owner = NoRuntime
        /\ task'[t].blocked = task[t].blocked
        /\ \A u \in Task : u # t => task'[u] = task[u]
    BY <2>2, <2>4 DEF Released, BoardInv, AgreeInv, HeadInv, TypeOK, TaskRow
  <2>6. \A u \in Task : /\ task'[u].blocked = task[u].blocked
                        /\ task'[u].status = "completed" <=> task[u].status = "completed"
                        /\ task'[u].status = "absent" <=> task[u].status = "absent"
                        /\ task'[u].status # "in_progress" => task'[u].owner = NoRuntime
    BY <2>3, <2>5 DEF BoardInv, OwnedInProgress
  <2>. QED
    BY <2>4, <2>6 DEF Quiet
<1>2. CASE \E S \in SUBSET Reclaimable : ReclaimLeasedTasks(S)
  <2>1. PICK S \in SUBSET Reclaimable : ReclaimLeasedTasks(S)
    BY <1>2
  <2>2. ASSUME NEW u \in Task
        PROVE  /\ task'[u].blocked = task[u].blocked
               /\ task'[u].status = "completed" <=> task[u].status = "completed"
               /\ task'[u].status = "absent" <=> task[u].status = "absent"
               /\ task'[u].status # "in_progress" => task'[u].owner = NoRuntime
    <3>1. CASE task[u].current \in S
      <4>1. task[u].current \in Made /\ Active(task[u].current)
        BY <2>1, <3>1 DEF Reclaimable
      <4>2. attempt[task[u].current].task = u
        BY <4>1, NullAssumption DEF BoardInv, AgreeInv, HeadInv, TypeOK, CurrentIsLatest
      <4>3. task[u].status = "in_progress"
        BY <4>1, <4>2 DEF BoardInv, AgreeInv, AttemptAndTaskAgree
      <4>4. task'[u] = [task[u] EXCEPT
                          !.status = IF RetryScheduled(task[u].current) THEN "pending" ELSE "failed",
                          !.owner = NoRuntime]
        BY <2>1, <3>1 DEF ReclaimLeasedTasks
      <4>5. task[u] \in TaskRow
        BY DEF BoardInv, AgreeInv, HeadInv, TypeOK
      <4>6. /\ task'[u].status \in {"pending", "failed"}
            /\ task'[u].owner = NoRuntime /\ task'[u].blocked = task[u].blocked
        BY <4>4, <4>5 DEF TaskRow
      <4>. QED
        BY <4>3, <4>6
    <3>2. CASE task[u].current \notin S
      BY <2>1, <3>2 DEF ReclaimLeasedTasks, BoardInv, OwnedInProgress
    <3>. QED
      BY <3>1, <3>2
  <2>3. deps' = deps
    BY <2>1 DEF ReclaimLeasedTasks
  <2>. QED
    BY <2>2, <2>3 DEF Quiet
<1>. QED
  BY <1>1, <1>2

\* So do all steps that neither publish nor complete.
LEMMA OtherIsQuiet ==
    ASSUME BoardInv, OtherNext \/ UNCHANGED vars
    PROVE  Quiet
<1>1. CASE task' = task /\ deps' = deps
  BY <1>1 DEF Quiet, BoardInv, OwnedInProgress
<1>2. CASE \/ \E c \in Managed : SetCardStatus(c)
           \/ \E r \in Runtime : RegisterRuntime(r) \/ StopRuntime(r) \/ CrashRuntime(r)
           \/ \E k \in held : \/ RejectStale(k) \/ RecordLoadEvent(k) \/ MarkExecutionStarted(k)
                              \/ RenewLease(k) \/ FinishCardUnload(k) \/ FailCardUnload(k)
                              \/ DropClaim(k)
           \/ \E k \in Made : LeaseExpires(k)
           \/ UNCHANGED vars
  BY <1>1, <1>2 DEF SetCardStatus, RegisterRuntime, StopRuntime, CrashRuntime, RejectStale,
     RecordLoadEvent, MarkExecutionStarted, RenewLease, FinishCardUnload, FailCardUnload,
     DropClaim, LeaseExpires, vars
<1>. QED
  BY <1>2, ClaimIsQuiet, GivenUpIsQuiet DEF OtherNext

\* The empty board.
LEMMA BoardInit == Init => BoardInv
<1>. SUFFICES ASSUME Init PROVE BoardInv
  OBVIOUS
<1>1. AgreeInv
  BY HeadInvInit DEF Init, AgreeInv, AttemptAndTaskAgree, Made
<1>2. \A t \in Task : OpenBlockers(t) = {} /\ Blockers(t) = {}
  BY DEF Init, OpenBlockers, Blockers
<1>3. \A t \in Task : /\ task[t].status = "absent" /\ task[t].blocked = 0
                      /\ task[t].owner = NoRuntime
  BY DEF Init
<1>4. Made = {}
  BY DEF Init, Made
<1>5. CountsCoverBlockers
  <2>1. Cardinality({}) = 0
    BY FS_EmptySet
  <2>. QED
    BY <1>2, <1>3, <2>1 DEF CountsCoverBlockers
<1>. QED
  BY <1>1, <1>2, <1>3, <1>4, <1>5
     DEF BoardInv, AbsentIsBare, StartedAfterBlockers, OwnedInProgress

\* BoardInv is inductive.
LEMMA BoardNext ==
    ASSUME BoardInv, [LooseNext]_vars, Rerun = "never"
    PROVE  BoardInv'
<1>1. (AgreeInv)'
  BY AgreeNext DEF BoardInv
<1>2. CASE OtherNext \/ UNCHANGED vars
  BY <1>1, <1>2, OtherIsQuiet, AttemptsAreOfOpenTasks, QuietStep
<1>. QED
  BY <1>1, <1>2, PublicationBoard, CompletionBoard DEF LooseNext

ExactCounts == \A t \in Task : task[t].blocked = Cardinality(OpenBlockers(t))

\* A recount sets the counts of the dependents only.
LEMMA RecountedCounts ==
    ASSUME AgreeInv, NEW k \in held, CompleteExecution(k), NEW u \in Task
    PROVE  IF u \in Dependents(attempt[k].task)
           THEN task'[u].blocked = Cardinality(OpenBlockers(u)')
           ELSE task'[u].blocked = task[u].blocked
<1>. DEFINE t == attempt[k].task
            rows == Released(k, "completed")
<1>1. k \in Made /\ t \in Task /\ task \in [Task -> TaskRow] /\ TypeOK
  BY DEF AgreeInv, HeadInv, TypeOK, AttemptRow
<1>2. rows \in [Task -> TaskRow]
  BY <1>1, ReleasedRows DEF TaskStatus
<1>3. rows[u].blocked = task[u].blocked
  BY <1>1 DEF Released, TaskRow
<1>4. task' = Recounted(rows, t) /\ deps' = deps
  BY DEF CompleteExecution
<1>. HIDE DEF rows
<1>5. \A d \in Task : task'[d].status = rows[d].status
  BY <1>2, <1>4, RecountedRows
<1>6. OpenBlockers(u)' = Remaining(rows, u)
  BY <1>4, <1>5 DEF OpenBlockers, Remaining, Blockers
<1>. QED
  BY <1>2, <1>3, <1>4, <1>6 DEF Recounted, TaskRow

\* The counts are exact as long as the lead names no completed blocker.
LEMMA ExactNext ==
    ASSUME BoardInv, ExactCounts, [Next]_vars, Rerun = "never", LateBlockers = FALSE
    PROVE  ExactCounts'
<1>. SUFFICES ASSUME NEW t \in Task
              PROVE  task'[t].blocked = Cardinality(OpenBlockers(t)')
  BY DEF ExactCounts
<1>0. task[t].blocked = Cardinality(OpenBlockers(t))
  BY DEF ExactCounts
<1>1. CASE \E dag \in Dags : PublishDag(dag)
  <2>1. PICK dag \in Dags : PublishDag(dag)
    BY <1>1
  <2>2. InsertDag(dag)
    BY <2>1 DEF PublishDag
  <2>3. CASE t \in DOMAIN dag
    <3>1. \A b \in dag[t].blockedBy : task[b].status # "completed"
      BY <2>1, <2>2, <2>3, PublicationCounts DEF PublishDag
    <3>2. /\ task'[t].blocked = Cardinality(dag[t].blockedBy)
          /\ OpenBlockers(t)' = {b \in dag[t].blockedBy : task[b].status # "completed"}
      BY <2>2, <2>3, PublicationCounts
    <3>3. OpenBlockers(t)' = dag[t].blockedBy
      BY <3>1, <3>2
    <3>. QED
      BY <3>2, <3>3
  <2>4. CASE t \notin DOMAIN dag
    BY <1>0, <2>2, <2>4, PublicationCounts
  <2>. QED
    BY <2>3, <2>4
<1>2. CASE \E k \in held : CompleteExecution(k)
  <2>1. PICK k \in held : CompleteExecution(k)
    BY <1>2
  <2>2. Completes(k)
    BY <2>1, CompleteIsLoose DEF BoardInv, AgreeInv, HeadInv
  <2>. QED
    BY <1>0, <2>1, <2>2, RecountedCounts, CompletedBlockers DEF BoardInv
<1>3. CASE OtherNext \/ UNCHANGED vars
  <2>1. Quiet
    BY <1>3, OtherIsQuiet
  <2>. QED
    BY <1>0, <2>1 DEF Quiet, OpenBlockers
<1>. QED
  BY <1>1, <1>2, <1>3 DEF Next, OtherNext

\* At first no task is blocked.
LEMMA ExactInit == Init => ExactCounts
<1>1. ASSUME Init, NEW t \in Task PROVE OpenBlockers(t) = {} /\ task[t].blocked = 0
  BY <1>1 DEF Init, OpenBlockers
<1>. QED
  BY <1>1, FS_EmptySet DEF ExactCounts

\* The stored count of every task that waits is the number of its blockers still
\* to complete: across publications, and however completions of several blockers
\* follow each other, no release is lost and none comes early.
THEOREM CountsCorrect ==
    ASSUME Rerun = "never", LateBlockers = FALSE
    PROVE  Spec => []BlockedCountsOpenBlockers
<1>1. (BoardInv /\ ExactCounts) /\ [Next]_vars => (BoardInv /\ ExactCounts)'
  BY BoardNext, ExactNext, NextIsLoose DEF BoardInv, AgreeInv, HeadInv
<1>2. BoardInv /\ ExactCounts => BlockedCountsOpenBlockers
  BY DEF ExactCounts, BlockedCountsOpenBlockers
<1>. QED
  BY <1>1, <1>2, BoardInit, ExactInit, PTL DEF Spec

\* No task is attempted before every task it depends on has completed.
THEOREM BlockersComeFirst ==
    ASSUME Rerun = "never"
    PROVE  Spec => []StartedAfterBlockers
<1>1. BoardInv /\ [Next]_vars => BoardInv'
  BY BoardNext, NextIsLoose DEF BoardInv, AgreeInv, HeadInv
<1>2. BoardInv => StartedAfterBlockers
  BY DEF BoardInv
<1>. QED
  BY <1>1, <1>2, BoardInit, PTL DEF Spec

-----------------------------------------------------------------------------
(* The scheduler implements TaskBoard: one lemma for each action of the      *)
(* board, then the simulation of a step.                                     *)

Tries(t) == IF task[t].current = NoAttempt THEN 0 ELSE task[t].current[2]

\* What the board sees of a task depends on its status, its owner and its attempt.
LEMMA BoardRows ==
    /\ \A t \in Task : task'[t].status = task[t].status => BoardState(t)' = BoardState(t)
    /\ \A t \in Task : task'[t].current = task[t].current => Tries(t)' = Tries(t)
BY DEF BoardState, Tries

\* The empty tables are the empty board.
LEMMA BoardStarts == Init => Board!Init
<1>. SUFFICES ASSUME Init PROVE Board!Init
  OBVIOUS
<1>1. \A t \in Task : /\ task[t].status = "absent" /\ task[t].owner = NoRuntime
                      /\ task[t].current = NoAttempt
  BY DEF Init
<1>2. \A t \in Task : BoardState(t) = "absent"
  BY <1>1 DEF BoardState
<1>. QED
  BY <1>1, <1>2 DEF Board!Init, Init

\* A publication puts new tasks on the board.
LEMMA PublicationPutsUp ==
    ASSUME BoardInv, NEW dag \in Dags, PublishDag(dag), Rerun = "never"
    PROVE  Board!PutUp(DOMAIN dag)
<1>1. /\ DOMAIN dag \subseteq Task
      /\ \A t \in DOMAIN dag : task[t].status = "absent" /\ dag[t].blockedBy \subseteq Task
  BY DagsAssumption DEF PublishDag, InsertDag, MayPublish
<1>2. \A t \in DOMAIN dag : /\ task'[t].status = "pending" /\ task'[t].owner = NoRuntime
                            /\ task'[t].current = NoAttempt
                            /\ task[t].owner = NoRuntime
  BY <1>1 DEF PublishDag, InsertDag, BoardInv, OwnedInProgress
<1>3. \A t \in Task : t \notin DOMAIN dag => task'[t] = task[t]
  BY DEF PublishDag, InsertDag
<1>4. \A t \in DOMAIN dag : BoardState(t) # "running" /\ BoardState(t)' = "waiting" /\ Tries(t)' = 0
  BY <1>1, <1>2 DEF BoardState, Tries
<1>5. \A t \in Task : t \notin DOMAIN dag => BoardState(t)' = BoardState(t) /\ Tries(t)' = Tries(t)
  BY <1>3, BoardRows
<1>6. \A t \in Task : task'[t].owner = task[t].owner
  BY <1>2, <1>3
<1>7. deps \subseteq deps' /\ deps' \ deps \subseteq (DOMAIN dag) \X Task
  BY <1>1 DEF PublishDag, InsertDag
<1>. QED
  BY <1>1, <1>4, <1>5, <1>6, <1>7 DEF Board!PutUp, Tries

\* A task that can be claimed can be started.
LEMMA ReadyIsStartable ==
    ASSUME BoardInv, NEW t \in Task, Ready(t)
    PROVE  Board!Startable(t)
<1>1. \A b \in Task : <<t, b>> \in deps => task[b].status = "completed"
  BY ReadyIsOpen DEF OpenBlockers
<1>2. BoardState(t) = "waiting"
  BY DEF Ready, BoardState
<1>3. \A b \in Task : task[b].status = "completed" => BoardState(b) = "completed"
  BY DEF BoardState
<1>. QED
  BY <1>1, <1>2, <1>3 DEF Board!Startable

\* A claim takes the task up, or turns it down.
LEMMA ClaimTakesUp ==
    ASSUME BoardInv, NEW r \in Runtime, NEW t \in Task,
           \/ \E e \in ExecId : ClaimFirstAttempt(r, t, e)
           \/ ClaimRetry(r, t)
    PROVE  Board!TakeUp(t, r)
<1>1. Ready(t)
  BY DEF ClaimFirstAttempt, ClaimRetry
<1>2. PICK k, card : /\ Claimed(r, t, k, card)
                     /\ k \in Attempt /\ k[2] = Tries(t) + 1 /\ Tries(t) < MaxAttempts
  <2>1. CASE \E e \in ExecId : ClaimFirstAttempt(r, t, e)
    <3>1. PICK e \in ExecId : ClaimFirstAttempt(r, t, e)
      BY <2>1
    <3>2. Claimed(r, t, <<e, 1>>, ResolvedCard(t)) /\ Tries(t) = 0
      BY <3>1 DEF ClaimFirstAttempt, Tries
    <3>. QED
      BY <3>2, BoundAssumption DEF Attempt
  <2>2. CASE ClaimRetry(r, t)
    <3>. DEFINE k == task[t].current
    <3>1. k[2] \in Nat \ {0} /\ k[2] < MaxAttempts /\ <<k[1], k[2] + 1>> \in Attempt
      BY <2>2, ClaimsANewRow DEF BoardInv, AgreeInv
    <3>2. Claimed(r, t, <<k[1], k[2] + 1>>, FrozenCard(k)) /\ Tries(t) = k[2]
      BY <2>2 DEF ClaimRetry, Tries
    <3>. HIDE DEF k
    <3>. QED
      BY <3>1, <3>2
  <2>. QED
    BY <2>1, <2>2
<1>3. /\ task'[t].status = "in_progress" /\ task'[t].owner = r /\ task'[t].current = k
      /\ \A u \in Task : u # t => task'[u] = task[u]
      /\ deps' = deps
  BY <1>2 DEF Claimed, BoardInv, AgreeInv, HeadInv, TypeOK, TaskRow
<1>4. BoardState(t)' = "running" /\ Tries(t)' = Tries(t) + 1
  <2>1. k # NoAttempt
    BY <1>2, NullAssumption
  <2>. QED
    BY <1>2, <1>3, <2>1 DEF BoardState, Tries
<1>5. \A u \in Task : u # t => BoardState(u)' = BoardState(u) /\ Tries(u)' = Tries(u)
  BY <1>3, BoardRows
<1>. QED
  BY <1>1, <1>2, <1>3, <1>4, <1>5, ReadyIsStartable DEF Board!TakeUp, Tries

\* A task without a card is turned down.
LEMMA ClaimTurnsDown ==
    ASSUME BoardInv, NEW r \in Runtime, NEW t \in Task, ClaimWithoutCard(r, t)
    PROVE  Board!TurnDown(t)
<1>1. Ready(t) /\ deps' = deps
  BY DEF ClaimWithoutCard
<1>2. /\ task'[t].status = "failed" /\ task'[t].owner = NoRuntime
      /\ task'[t].current = task[t].current
      /\ \A u \in Task : u # t => task'[u] = task[u]
  BY DEF ClaimWithoutCard, BoardInv, AgreeInv, HeadInv, TypeOK, TaskRow
<1>3. task[t].owner = NoRuntime
  BY <1>1 DEF Ready, BoardInv, OwnedInProgress
<1>4. BoardState(t)' = "failed"
  BY <1>2 DEF BoardState
<1>5. \A u \in Task : /\ u # t => BoardState(u)' = BoardState(u)
                      /\ Tries(u)' = Tries(u) /\ task'[u].owner = task[u].owner
  BY <1>2, <1>3, BoardRows
<1>. QED
  BY <1>1, <1>4, <1>5, ReadyIsStartable DEF Board!TurnDown, Tries

\* The attempt a call ends is the current one of a task in progress.
LEMMA EndingTask ==
    ASSUME BoardInv, NEW k \in held, IsCurrentAttempt(k)
    PROVE  LET t == attempt[k].task IN
           /\ t \in Task /\ k \in Made
           /\ task[t].status = "in_progress" /\ task[t].current = k
BY DEF BoardInv, AgreeInv, HeadInv, TypeOK, AttemptRow, AttemptAndTaskAgree, IsCurrentAttempt

\* A completion or a cancellation finishes the task.
LEMMA EndFinishes ==
    ASSUME BoardInv, NEW k \in held, CompleteExecution(k) \/ CancelExecution(k)
    PROVE  \E t \in Task : Board!Finish(t)
<1>. PICK t \in Task : t = attempt[k].task
  BY EndingTask DEF CompleteExecution, CancelExecution
<1>1. /\ k \in Made
      /\ task[t].status = "in_progress" /\ task[t].current = k /\ deps' = deps
  BY EndingTask DEF CompleteExecution, CancelExecution
<1>2. PICK outcome \in {"completed", "cancelled"} :
        /\ task'[t].status = outcome /\ task'[t].owner = NoRuntime
        /\ \A u \in Task : /\ task'[u].current = task[u].current
                           /\ u # t => task'[u].status = task[u].status /\ task'[u].owner = task[u].owner
  <2>1. CASE CompleteExecution(k)
    BY <2>1, CompletedRows, CompleteIsLoose DEF BoardInv, AgreeInv, HeadInv
  <2>2. CASE CancelExecution(k)
    BY <1>1, <2>2 DEF CancelExecution, Released, BoardInv, AgreeInv, HeadInv, TypeOK, TaskRow
  <2>. QED
    BY <2>1, <2>2
<1>3. BoardState(t) = "running" /\ BoardState(t)' = outcome
  BY <1>1, <1>2 DEF BoardState
<1>4. \A u \in Task : /\ u # t => BoardState(u)' = BoardState(u) /\ task'[u].owner = task[u].owner
                      /\ Tries(u)' = Tries(u)
  BY <1>2, BoardRows
<1>5. Board!Finish(t)
  <2>1. [u \in Task |-> BoardState(u)]' =
            [[u \in Task |-> BoardState(u)] EXCEPT ![t] = outcome]
    BY <1>1, <1>3, <1>4
  <2>2. [u \in Task |-> task[u].owner]' = [[u \in Task |-> task[u].owner] EXCEPT ![t] = NoRuntime]
    BY <1>1, <1>2, <1>4
  <2>3. [u \in Task |-> IF task[u].current = NoAttempt THEN 0 ELSE task[u].current[2]]' =
            [u \in Task |-> IF task[u].current = NoAttempt THEN 0 ELSE task[u].current[2]]
    BY <1>4 DEF Tries
  <2>4. [u \in Task |-> BoardState(u)][t] = "running"
    BY <1>1, <1>3
  <2>5. [u \in Task |-> BoardState(u)]' \in
            {[[u \in Task |-> BoardState(u)] EXCEPT ![t] = x] : x \in {"completed", "cancelled"}}
    BY <2>1
  <2>. QED
    BY <1>1, <2>2, <2>3, <2>4, <2>5 DEF Board!Finish
<1>. QED
  BY <1>5

\* A task whose attempt failed or expired is given back.
LEMMA GivenBackRow ==
    ASSUME BoardInv, NEW t \in Task, task[t].status = "in_progress",
           task'[t] = [task[t] EXCEPT
                         !.status = IF RetryScheduled(task[t].current) THEN "pending" ELSE "failed",
                         !.owner = NoRuntime]
    PROVE  /\ BoardState(t) = "running"
           /\ BoardState(t)' = IF Tries(t) < MaxAttempts THEN "waiting" ELSE "failed"
           /\ Tries(t)' = Tries(t)
           /\ task'[t].owner = NoRuntime
<1>1. task[t] \in TaskRow /\ task[t].current \in Made /\ Made \subseteq Attempt
  BY DEF BoardInv, AgreeInv, AttemptAndTaskAgree, HeadInv, TypeOK
<1>2. task[t].current # NoAttempt
  BY <1>1, NullAssumption
<1>3. /\ task'[t].status = IF RetryScheduled(task[t].current) THEN "pending" ELSE "failed"
      /\ task'[t].owner = NoRuntime /\ task'[t].current = task[t].current
  BY <1>1 DEF TaskRow
<1>4. RetryScheduled(task[t].current) <=> Tries(t) < MaxAttempts
  BY <1>2 DEF RetryScheduled, Tries
<1>5. Tries(t)' = Tries(t)
  BY <1>3 DEF Tries
<1>. QED
  BY <1>3, <1>4, <1>5 DEF BoardState

\* A failure gives back one task, a reclaim all those whose attempts it expires.
LEMMA FailureGivesBack ==
    ASSUME BoardInv,
           \/ \E k \in held : FailExecution(k)
           \/ \E S \in SUBSET Reclaimable : ReclaimLeasedTasks(S)
    PROVE  \E S \in SUBSET Task : Board!GiveBack(S)
<1>1. PICK S \in SUBSET Task :
        /\ \A t \in S :
             /\ task[t].status = "in_progress"
             /\ task'[t] = [task[t] EXCEPT
                              !.status = IF RetryScheduled(task[t].current) THEN "pending" ELSE "failed",
                              !.owner = NoRuntime]
        /\ \A t \in Task \ S : task'[t] = task[t]
        /\ deps' = deps
  <2>1. ASSUME NEW k \in held, FailExecution(k)
        PROVE  \E S \in SUBSET Task :
                 /\ \A t \in S :
                      /\ task[t].status = "in_progress"
                      /\ task'[t] = [task[t] EXCEPT
                                       !.status = IF RetryScheduled(task[t].current) THEN "pending" ELSE "failed",
                                       !.owner = NoRuntime]
                 /\ \A t \in Task \ S : task'[t] = task[t]
                 /\ deps' = deps
    <3>1. /\ attempt[k].task \in Task /\ task[attempt[k].task].status = "in_progress"
          /\ task[attempt[k].task].current = k
      BY <2>1, EndingTask DEF FailExecution
    <3>2. {attempt[k].task} \in SUBSET Task
      BY <3>1
    <3>3. task' = [task EXCEPT ![attempt[k].task] =
                      [task[attempt[k].task] EXCEPT
                         !.status = IF RetryScheduled(k) THEN "pending" ELSE "failed",
                         !.owner = NoRuntime]] /\ deps' = deps
      BY <2>1 DEF FailExecution, Released
    <3>4. DOMAIN task = Task
      BY DEF BoardInv, AgreeInv, HeadInv, TypeOK
    <3>. QED
      BY <3>1, <3>2, <3>3, <3>4
  <2>2. ASSUME NEW E \in SUBSET Reclaimable, ReclaimLeasedTasks(E)
        PROVE  \E S \in SUBSET Task :
                 /\ \A t \in S :
                      /\ task[t].status = "in_progress"
                      /\ task'[t] = [task[t] EXCEPT
                                       !.status = IF RetryScheduled(task[t].current) THEN "pending" ELSE "failed",
                                       !.owner = NoRuntime]
                 /\ \A t \in Task \ S : task'[t] = task[t]
                 /\ deps' = deps
    <3>. DEFINE S == {t \in Task : task[t].current \in E}
    <3>1. S \in SUBSET Task
      OBVIOUS
    <3>2. ASSUME NEW t \in S PROVE task[t].status = "in_progress"
      <4>1. task[t].current \in Made /\ Active(task[t].current)
        BY <2>2, <3>2 DEF Reclaimable
      <4>2. attempt[task[t].current].task = t
        BY <4>1, NullAssumption DEF BoardInv, AgreeInv, HeadInv, TypeOK, CurrentIsLatest
      <4>. QED
        BY <4>1, <4>2 DEF BoardInv, AgreeInv, AttemptAndTaskAgree
    <3>3. /\ \A t \in S : task'[t] = [task[t] EXCEPT
                            !.status = IF RetryScheduled(task[t].current) THEN "pending" ELSE "failed",
                            !.owner = NoRuntime]
          /\ \A t \in Task \ S : task'[t] = task[t]
          /\ deps' = deps
      BY <2>2 DEF ReclaimLeasedTasks
    <3>. HIDE DEF S
    <3>. QED
      BY <3>1, <3>2, <3>3
  <2>. QED
    BY <2>1, <2>2
<1>2. \A t \in S : /\ BoardState(t) = "running"
                   /\ BoardState(t)' = IF Tries(t) < MaxAttempts THEN "waiting" ELSE "failed"
                   /\ Tries(t)' = Tries(t)
                   /\ task'[t].owner = NoRuntime
  BY <1>1, GivenBackRow
<1>3. \A t \in Task : t \notin S => /\ BoardState(t)' = BoardState(t) /\ Tries(t)' = Tries(t)
                                    /\ task'[t].owner = task[t].owner
  BY <1>1, BoardRows
<1>4. Board!GiveBack(S)
  BY <1>1, <1>2, <1>3 DEF Board!GiveBack, Tries
<1>. QED
  BY <1>4

\* Every step of the scheduler is a step of the board, or none.
LEMMA BoardSimulation ==
    ASSUME BoardInv, [Next]_vars, Rerun = "never"
    PROVE  [Board!Next]_(Board!boardVars)
<1>1. CASE task' = task /\ deps' = deps
  <2>1. \A t \in Task : BoardState(t)' = BoardState(t) /\ Tries(t)' = Tries(t)
    BY <1>1, BoardRows
  <2>. QED
    BY <1>1, <2>1 DEF Board!boardVars, Tries
<1>2. CASE \E dag \in Dags : PublishDag(dag)
  BY <1>2, PublicationPutsUp, DagsAssumption DEF Board!Next
<1>3. CASE \E r \in Runtime, t \in Task :
              \/ \E e \in ExecId : ClaimFirstAttempt(r, t, e)
              \/ ClaimRetry(r, t)
              \/ ClaimWithoutCard(r, t)
  BY <1>3, ClaimTakesUp, ClaimTurnsDown DEF Board!Next
<1>4. CASE \E k \in held : CompleteExecution(k) \/ CancelExecution(k)
  BY <1>4, EndFinishes DEF Board!Next
<1>5. CASE \/ \E k \in held : FailExecution(k)
           \/ \E S \in SUBSET Reclaimable : ReclaimLeasedTasks(S)
  BY <1>5, FailureGivesBack DEF Board!Next
<1>6. CASE \/ \E c \in Managed : SetCardStatus(c)
           \/ \E r \in Runtime : RegisterRuntime(r) \/ StopRuntime(r) \/ CrashRuntime(r)
           \/ \E k \in held : \/ RejectStale(k) \/ RecordLoadEvent(k) \/ MarkExecutionStarted(k)
                              \/ RenewLease(k) \/ FinishCardUnload(k) \/ FailCardUnload(k)
                              \/ DropClaim(k)
           \/ \E k \in Made : LeaseExpires(k)
           \/ UNCHANGED vars
  BY <1>1, <1>6 DEF SetCardStatus, RegisterRuntime, StopRuntime, CrashRuntime, RejectStale,
     RecordLoadEvent, MarkExecutionStarted, RenewLease, FinishCardUnload, FailCardUnload,
     DropClaim, LeaseExpires, vars
<1>. QED
  BY <1>2, <1>3, <1>4, <1>5, <1>6 DEF Next

\* The scheduler is an implementation of the task board, for all graphs, numbers
\* of runtimes, late calls, crashes and cards: its counts, announcements, leases and
\* stale attempts never let a task do what the board does not allow.
THEOREM BoardImplemented ==
    ASSUME Rerun = "never"
    PROVE  Spec => ImplementsTaskBoard
<1>1. BoardInv /\ [Next]_vars => BoardInv'
  BY BoardNext, NextIsLoose DEF BoardInv, AgreeInv, HeadInv
<1>2. BoardInv /\ [Next]_vars => [Board!Next]_(Board!boardVars)
  BY BoardSimulation
<1>. QED
  BY <1>1, <1>2, BoardInit, BoardStarts, PTL DEF Spec, ImplementsTaskBoard, Board!Spec
=============================================================================

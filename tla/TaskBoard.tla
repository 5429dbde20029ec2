----------------------------- MODULE TaskBoard -----------------------------
(***************************************************************************)
(* What the scheduler is for, without its rows, counters, leases and       *)
(* messages: a board of tasks.  A task waits for the tasks it comes after, *)
(* is worked on by one worker at a time, at most MaxAttempts times, and    *)
(* then is over.  DagScheduler implements this board (ImplementsTaskBoard).*)
(***************************************************************************)
EXTENDS Integers

CONSTANTS Task, Worker, Nobody, MaxAttempts

VARIABLES
    state,    \* where each task stands
    after,    \* pairs <<task, task it comes after>>
    worker,   \* who works on the task
    tries     \* how often it was worked on since it was put on the board

boardVars == <<state, after, worker, tries>>

Over == {"completed", "failed", "cancelled"}

Init ==
    /\ state = [t \in Task |-> "absent"]
    /\ after = {}
    /\ worker = [t \in Task |-> Nobody]
    /\ tries = [t \in Task |-> 0]

\* A set of tasks is put on the board: new ones, or ones nobody works on.
\* Each comes after some tasks from then on.
PutUp(S) ==
    /\ \A t \in S : state[t] # "running"
    /\ after \subseteq after' /\ after' \ after \subseteq S \X Task
    /\ state' = [t \in Task |-> IF t \in S THEN "waiting" ELSE state[t]]
    /\ tries' = [t \in Task |-> IF t \in S THEN 0 ELSE tries[t]]
    /\ UNCHANGED worker

\* Every task this one comes after is completed.
Startable(t) ==
    /\ state[t] = "waiting"
    /\ \A b \in Task : <<t, b>> \in after => state[b] = "completed"

TakeUp(t, w) ==
    /\ Startable(t)
    /\ tries[t] < MaxAttempts
    /\ state' = [state EXCEPT ![t] = "running"]
    /\ worker' = [worker EXCEPT ![t] = w]
    /\ tries' = [tries EXCEPT ![t] = @ + 1]
    /\ UNCHANGED after

\* Nobody can be equipped for it.
TurnDown(t) ==
    /\ Startable(t)
    /\ state' = [state EXCEPT ![t] = "failed"]
    /\ UNCHANGED <<after, worker, tries>>

Finish(t) ==
    /\ state[t] = "running"
    /\ state' \in {[state EXCEPT ![t] = outcome] : outcome \in {"completed", "cancelled"}}
    /\ worker' = [worker EXCEPT ![t] = Nobody]
    /\ UNCHANGED <<after, tries>>

\* The work on some tasks came to nothing: each waits again, or has failed.
GiveBack(S) ==
    /\ \A t \in S : state[t] = "running"
    /\ state' = [t \in Task |-> IF t \notin S THEN state[t]
                                ELSE IF tries[t] < MaxAttempts THEN "waiting" ELSE "failed"]
    /\ worker' = [t \in Task |-> IF t \in S THEN Nobody ELSE worker[t]]
    /\ UNCHANGED <<after, tries>>

Next ==
    \/ \E S \in SUBSET Task : PutUp(S) \/ GiveBack(S)
    \/ \E t \in Task : \/ \E w \in Worker : TakeUp(t, w)
                       \/ TurnDown(t) \/ Finish(t)

Spec == Init /\ [][Next]_boardVars
=============================================================================

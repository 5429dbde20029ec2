------------------------------ MODULE MCWorker ------------------------------
(***************************************************************************)
(* The instance of RuntimeWorker that TLC checks: one process that works   *)
(* on two tasks that do not wait for each other.                           *)
(***************************************************************************)
EXTENDS RuntimeWorker, TLC

CONSTANTS a, b       \* tasks

TwoTasks == { [t \in {a, b} |-> [blockedBy |-> {}, selector |-> NoCard]] }

NoEvents == {}
=============================================================================

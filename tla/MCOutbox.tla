------------------------------ MODULE MCOutbox ------------------------------
(***************************************************************************)
(* The instances of OutboxDelivery that TLC checks.                        *)
(***************************************************************************)
EXTENDS OutboxDelivery, TLC

CONSTANTS wakeup, control,      \* an event of the shared pool, a directed event
          r1, r2                \* two runtimes' consumers

\* The group of task_available is shared by both runtimes.
Shared == [e \in Event |-> {r1, r2}]

\* Every event is directed to one runtime.
Directed == [e \in Event |-> {r1}]
=============================================================================

--------------------------- MODULE MCTransactions ---------------------------
(***************************************************************************)
(* The instance of TaskTransactions that TLC checks.                       *)
(***************************************************************************)
EXTENDS TaskTransactions, TLC

CONSTANTS a, b, c, d       \* tasks

After(blockers) == [blockedBy |-> blockers, selector |-> NoCard]

\* Two tasks and two that wait for both; or one and two that wait for it, and later
\* another one that waits for the two.
SharedDependents ==
    { (a :> After({})) @@ (b :> After({})) @@ (c :> After({a, b})) @@ (d :> After({a, b})),
      (c :> After({})) @@ (a :> After({c})) @@ (b :> After({c})),
      d :> After({a, b}) }

LoadEvents == {"card.load_started"}

Interchangeable ==
    Permutations(Runtime) \cup Permutations(ExecId) \cup Permutations(Connection)
        \cup Permutations({a, b})
=============================================================================

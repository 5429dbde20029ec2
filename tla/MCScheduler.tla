---------------------------- MODULE MCScheduler ----------------------------
(***************************************************************************)
(* The instances of DagScheduler that TLC checks.                          *)
(***************************************************************************)
EXTENDS DagScheduler, TLC

CONSTANTS a, b, c,       \* tasks
          card1          \* a card

\* A row of the published graph: its blockers, and the card chosen by type.
Row(blockers) == [blockedBy |-> blockers, selector |-> NoCard]

SingleDags == { a :> Row({}) }

\* Two tasks side by side, each published by itself, again once it is over.
PairDags == { a :> Row({}), b :> Row({}) }

\* A join of two, a chain, and a task blocked by itself.
JoinDags ==
    { (a :> Row({})) @@ (b :> Row({})) @@ (c :> Row({a, b})),
      (a :> Row({})) @@ (b :> Row({a})),
      c :> Row({a, b}),
      c :> Row({c}) }

\* The events written with the outcome of an attempt.
OutcomeEvents == TerminalEvents \cup {"card.unload_started", "execution.retried"}

NoEvents == {}

Interchangeable == Permutations(Runtime) \cup Permutations(ExecId)
InterchangeableCards == Interchangeable \cup Permutations(Card)
InterchangeableTasks == Interchangeable \cup Permutations({a, b})
=============================================================================

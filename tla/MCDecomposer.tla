---------------------------- MODULE MCDecomposer ----------------------------
(***************************************************************************)
(* The instance of DagDecomposer that TLC checks: every graph of three     *)
(* tasks, and some lists that are not graphs.                              *)
(***************************************************************************)
EXTENDS DagDecomposer

CONSTANTS a, b, c, other    \* task ids

Row(id, blockers) == [id |-> id, blockedBy |-> blockers]
Graph(list) == [kind |-> "graph", rows |-> list]

AllGraphs ==
    {Graph(<<Row(a, x), Row(b, y), Row(c, z)>>) : x, y, z \in SUBSET {a, b, c}}

OddLists ==
    { Graph(<<>>),
      Graph(<<Row(a, {}), Row(a, {b}), Row(b, {a})>>),
      Graph(<<Row(a, {}), Row(b, {other})>>),
      Graph(<<Row(a, {other})>>) }

Unusable ==
    {[kind |-> error, rows |-> <<>>] :
        error \in {"JSONParseError", "SchemaValidationError", "unexpected"}}

AllReplies == AllGraphs \cup OddLists \cup Unusable
=============================================================================

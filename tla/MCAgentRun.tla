----------------------------- MODULE MCAgentRun -----------------------------
(* A small window, so that every step of the compression is taken within a  *)
(* conversation of some ten messages.                                       *)
EXTENDS AgentRun

ScenariosMC == {
    [lines |-> 2, deaths |-> 1, edits |-> 0, rivals |-> 0],
    [lines |-> 1, deaths |-> 0, edits |-> 0, rivals |-> 1],
    [lines |-> 0, deaths |-> 0, edits |-> 5, rivals |-> 0] }
=============================================================================

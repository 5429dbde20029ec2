---------------------------- MODULE DagDecomposer ----------------------------
(***************************************************************************)
(* The dag-decomposer skill: a language model is asked for a task graph    *)
(* (RetryHandler.execute_with_retry), its reply is validated               *)
(* (validate_dag, with the depth-first search of detect_cycles) and the    *)
(* graph is saved (DAGDecomposer.decompose).  The search is one action per *)
(* step of dfs; the order in which it looks at tasks is left open, as it   *)
(* iterates over a set.                                                    *)
(***************************************************************************)
EXTENDS Integers, Sequences, FiniteSets

CONSTANTS
    Replies,      \* what the model may answer: [kind, rows]
    MaxRetries    \* max_retries: how often the model is asked

ASSUME RetryAssumption == MaxRetries \in Nat \ {0}

\* rows is the task list of a reply that parses, each with its id and blockers: as many
\* as the model wrote.
ASSUME ReplyAssumption ==
    \A reply \in Replies :
        /\ reply.kind \in {"graph", "JSONParseError", "SchemaValidationError", "unexpected"}
        /\ IsFiniteSet(DOMAIN reply.rows)
        /\ reply.kind # "graph" => reply.rows = <<>>

VARIABLES
    stage,      \* where decompose stands: "calling" the model, "sleeping", "searching"
                \* for a cycle, "judging", "saving", then "saved", "not_saved" or "failed"
    attempt,    \* the counter of execute_with_retry
    lastError,  \* last_error
    rows,       \* the task list being validated
    errors,     \* what validate_dag has found
    color,      \* the colors of detect_cycles
    path,       \* the nodes on the stack of dfs
    todo,       \* the neighbors each dfs has still to look at
    cycle       \* cycle_path

search == <<color, path, todo, cycle>>
vars == <<stage, attempt, lastError, rows, errors, search>>

Ids == {rows[i].id : i \in DOMAIN rows}
Edge(b, t) == \E i \in DOMAIN rows : rows[i].id = t /\ b \in rows[i].blockedBy
IdsOf(list) == {list[i].id : i \in DOMAIN list}

\* adjacency: the tasks that name a blocker of the list.
Adjacency(list) ==
    [b \in IdsOf(list) |-> {list[i].id : i \in {j \in DOMAIN list : b \in list[j].blockedBy}}]

Init ==
    /\ stage = "calling"
    /\ attempt = 0
    /\ lastError = "none"
    /\ rows = <<>>
    /\ errors = {}
    /\ color = <<>>
    /\ path = <<>>
    /\ todo = <<>>
    /\ cycle = <<>>

-----------------------------------------------------------------------------
(* execute_with_retry *)

\* if attempt < self.max_retries - 1
AttemptsLeft == attempt < MaxRetries - 1

\* An error that is retried: sleep before the next attempt, or give up.
Rejected(error) ==
    /\ lastError' = error
    /\ stage' = IF AttemptsLeft THEN "sleeping" ELSE "failed"
    /\ UNCHANGED attempt

\* Slip: the attempts are not counted.
SameAttempt == attempt

NextAttempt == attempt + 1

\* The exponential delay is over.
Retry ==
    /\ stage = "sleeping"
    /\ stage' = "calling"
    /\ attempt' = NextAttempt
    /\ UNCHANGED <<lastError, rows, errors, search>>

\* The reply does not parse, lacks a field, or has no task.
RejectReply(reply) ==
    /\ stage = "calling"
    /\ reply.kind # "unexpected" /\ reply.rows = <<>>
    /\ Rejected(IF reply.kind = "graph" THEN "SchemaValidationError" ELSE reply.kind)
    /\ UNCHANGED <<rows, errors, search>>

\* The call raises, or the reply has a type that no check expects: no except clause
\* of execute_with_retry matches, and decompose reports the failure at once.
FailUnexpectedly(reply) ==
    /\ stage = "calling"
    /\ reply.kind = "unexpected"
    /\ stage' = "failed"
    /\ lastError' = "unexpected"
    /\ UNCHANGED <<attempt, rows, errors, search>>

-----------------------------------------------------------------------------
(* validate_dag *)

DuplicateIds(list) == {x \in {"duplicate"} : Cardinality(IdsOf(list)) # Len(list)}

\* Slip: a blocker that is not in the list is taken for a stored task.
NoReferenceCheck(list) == {}

\* validate_references
MissingReferences(list) ==
    {x \in {"missing"} : \E i \in DOMAIN list : ~ (list[i].blockedBy \subseteq IdsOf(list))}

\* validate_has_root
NoRoot(list) == {x \in {"rootless"} : \A i \in DOMAIN list : list[i].blockedBy # {}}

ValidateReply(reply) ==
    /\ stage = "calling"
    /\ reply.kind = "graph" /\ reply.rows # <<>>
    /\ stage' = "searching"
    /\ rows' = reply.rows
    /\ errors' = DuplicateIds(reply.rows) \cup MissingReferences(reply.rows) \cup NoRoot(reply.rows)
    /\ color' = [n \in IdsOf(reply.rows) |-> "WHITE"]
    /\ path' = <<>>
    /\ todo' = Adjacency(reply.rows)
    /\ cycle' = <<>>
    /\ UNCHANGED <<attempt, lastError>>

-----------------------------------------------------------------------------
(* detect_cycles *)

Top == path[Len(path)]

Entered == "GRAY"

\* dfs(n, path): from the loop over the tasks, or from the node on top.
Push(n) ==
    /\ color' = [color EXCEPT ![n] = Entered]
    /\ path' = Append(path, n)

SearchFrom(n) ==
    /\ stage = "searching" /\ path = <<>> /\ cycle = <<>>
    /\ color[n] = "WHITE"
    /\ Push(n)
    /\ UNCHANGED <<stage, attempt, lastError, rows, errors, todo, cycle>>

\* path[path.index(neighbor):] + [neighbor], the whole path if it is not there.
CycleTo(n) ==
    LET places == {i \in DOMAIN path : path[i] = n}
        start == IF places = {} THEN 1 ELSE CHOOSE i \in places : TRUE IN
    Append(SubSeq(path, start, Len(path)), n)

\* One neighbor of the node on top.
LookAt(n) ==
    /\ stage = "searching" /\ path # <<>> /\ cycle = <<>>
    /\ n \in todo[Top]
    /\ todo' = [todo EXCEPT ![Top] = @ \ {n}]
    /\ \/ color[n] = "GRAY" /\ cycle' = CycleTo(n) /\ UNCHANGED <<color, path>>
       \/ color[n] = "WHITE" /\ Push(n) /\ UNCHANGED cycle
       \/ color[n] = "BLACK" /\ UNCHANGED <<color, path, cycle>>
    /\ UNCHANGED <<stage, attempt, lastError, rows, errors>>

\* Slip: a node whose search is over keeps its color.
StillGray == "GRAY"

Left == "BLACK"

\* return False, []
Pop ==
    /\ stage = "searching" /\ path # <<>> /\ cycle = <<>>
    /\ todo[Top] = {}
    /\ color' = [color EXCEPT ![Top] = Left]
    /\ path' = SubSeq(path, 1, Len(path) - 1)
    /\ UNCHANGED <<stage, attempt, lastError, rows, errors, todo, cycle>>

EndSearch ==
    /\ stage = "searching"
    /\ \/ cycle # <<>>
       \/ path = <<>> /\ \A n \in Ids : color[n] # "WHITE"
    /\ stage' = "judging"
    /\ errors' = errors \cup {x \in {"cycle"} : cycle # <<>>}
    /\ UNCHANGED <<attempt, lastError, rows, search>>

AcceptGraph ==
    /\ stage = "judging" /\ errors = {}
    /\ stage' = "saving"
    /\ UNCHANGED <<attempt, lastError, rows, errors, search>>

\* An invalid graph is an error that is retried; nothing of it is kept.
RejectGraph ==
    /\ stage = "judging" /\ errors # {}
    /\ Rejected("SchemaValidationError")
    /\ rows' = <<>> /\ errors' = {}
    /\ color' = <<>> /\ path' = <<>> /\ todo' = <<>> /\ cycle' = <<>>

\* insert_dag_to_db, if asked for; what it raises is reported, not raised.
Save ==
    /\ stage = "saving"
    /\ stage' \in {"saved", "not_saved"}
    /\ UNCHANGED <<attempt, lastError, rows, errors, search>>

Next ==
    \/ \E reply \in Replies : RejectReply(reply) \/ FailUnexpectedly(reply) \/ ValidateReply(reply)
    \/ Retry
    \/ \E n \in Ids : SearchFrom(n) \/ LookAt(n)
    \/ Pop \/ EndSearch \/ AcceptGraph \/ RejectGraph \/ Save

Spec == Init /\ [][Next]_vars

\* decompose is one coroutine: its calls return or raise.
FairSpec == Spec /\ WF_vars(Next)

-----------------------------------------------------------------------------
(* What the validation promises. *)

\* A set of tasks in which each waits for another one of them: none can start.
Stuck(S) == S # {} /\ \A t \in S : \E b \in S : Edge(b, t)

\* detect_cycles is right, whatever order it takes: it finds a cycle if and only if
\* some tasks of the list wait for each other, and what it reports is one, from task
\* to dependent, back to the first and without another repetition.
CycleVerdictIsRight ==
    stage = "judging" =>
        /\ cycle # <<>> <=> \E S \in SUBSET Ids : Stuck(S)
        /\ cycle # <<>> =>
              /\ Len(cycle) >= 2
              /\ cycle[1] = cycle[Len(cycle)]
              /\ \A i \in 1 .. Len(cycle) - 1 : Edge(cycle[i], cycle[i + 1])
              /\ \A i, j \in 1 .. Len(cycle) - 1 : cycle[i] = cycle[j] => i = j

Blockers(t) == UNION {rows[i].blockedBy : i \in {j \in DOMAIN rows : rows[j].id = t}}

\* A graph that is accepted can be worked off: as long as not every task is done,
\* one that is not done waits for nothing else.
AcceptedGraphsRun ==
    stage \in {"saving", "saved", "not_saved"} =>
        \A done \in SUBSET Ids : done # Ids =>
            \E t \in Ids \ done : Blockers(t) \subseteq done

\* Every decomposition ends, with a graph or without.
DecompositionEnds == <>(stage \in {"saved", "not_saved", "failed"})
=============================================================================

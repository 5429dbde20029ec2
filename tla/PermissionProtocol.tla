------------------------- MODULE PermissionProtocol -------------------------
(***************************************************************************)
(* The permission of a tool call: a runtime records the request            *)
(* (RocketMQMessageBus.create_permission_request), the lead decides it     *)
(* (decide_permission), and the tool call waits for the answer             *)
(* (PermissionMiddleware).  The tool calls of one execution wait at the    *)
(* same time and share the permission consumer of their runtime, so each   *)
(* may receive the answer to another; they meet in the dictionary          *)
(* _responses of the execution's middleware.                               *)
(*                                                                         *)
(* One runtime, whose executions follow each other.  The way of an answer  *)
(* through outbox and broker is that of OutboxDelivery, here a set of      *)
(* messages on their way.                                                  *)
(*                                                                         *)
(* Bounds: Request is finite; at most MaxDecisions decisions a request and *)
(* MaxExecutions executions.                                               *)
(***************************************************************************)
EXTENDS Integers, FiniteSets

CONSTANTS Request, MaxDecisions, MaxExecutions

ASSUME PermissionAssumption ==
    /\ IsFiniteSet(Request)
    /\ MaxDecisions \in Nat \ {0}
    /\ MaxExecutions \in Nat \ {0}

VARIABLES
    audit,      \* permission_audit_log.decision of each request
    decided,    \* the answers written so far, one event each
    sent,       \* the answers that are on their way to the runtime
    execution,  \* the number of the execution the runtime works on
    call,       \* where the tool call of each request stands
    late,       \* the tool calls that have waited 300 seconds
    batch,      \* what the receive of each tool call returned and is not handled yet
    responses,  \* _responses of the current execution
    shown       \* the answers that were handled while their tool call waited

vars == <<audit, decided, sent, execution, call, late, batch, responses, shown>>

Decision == {"approved", "rejected"}
Answer == [request : Request, decision : Decision, number : 1 .. MaxDecisions]
CallState == {"none", "receiving", "handling", "ran", "denied", "aborted"}

Waiting(q) == call[q] \in {"receiving", "handling"}
AnswersTo(answers, q) == {m \in answers : m.request = q}

Init ==
    /\ audit = [q \in Request |-> "none"]
    /\ decided = {}
    /\ sent = {}
    /\ execution = 1
    /\ call = [q \in Request |-> "none"]
    /\ late = {}
    /\ batch = [q \in Request |-> {}]
    /\ responses = [q \in Request |-> "none"]
    /\ shown = {}

-----------------------------------------------------------------------------
(* The lead. *)

\* create_permission_request: the audit row and its event; then the call waits.
CreateRequest(q) ==
    /\ audit[q] = "none"
    /\ audit' = [audit EXCEPT ![q] = "pending"]
    /\ call' = [call EXCEPT ![q] = "receiving"]
    /\ UNCHANGED <<decided, sent, execution, late, batch, responses, shown>>

\* decide_permission: the audit row, whatever it says by now, and the directed answer.
Decide(q, decision) ==
    LET number == Cardinality(AnswersTo(decided, q)) + 1
        answer == [request |-> q, decision |-> decision, number |-> number] IN
    /\ audit[q] # "none"
    /\ number <= MaxDecisions
    /\ audit' = [audit EXCEPT ![q] = decision]
    /\ decided' = decided \cup {answer}
    /\ sent' = sent \cup {answer}
    /\ UNCHANGED <<execution, call, late, batch, responses, shown>>

-----------------------------------------------------------------------------
(* The tool call: _wait_for_permission_decision. *)

\* The monotonic clock passes the deadline.
DeadlinePasses(q) ==
    /\ Waiting(q)
    /\ late' = late \cup {q}
    /\ UNCHANGED <<audit, decided, sent, execution, call, batch, responses, shown>>

\* What _claim_delivery leaves to be received.
Undelivered(messages) == sent \ messages

\* receive returns what is there for the runtime, or nothing after its timeout.
Receive(q, messages) ==
    /\ call[q] = "receiving"
    /\ messages \subseteq sent
    /\ batch' = [batch EXCEPT ![q] = messages]
    /\ sent' = Undelivered(messages)
    /\ call' = [call EXCEPT ![q] = "handling"]
    /\ UNCHANGED <<audit, decided, execution, late, responses, shown>>

\* Slip: an answer is taken for the one this call waits for.
StoredForTheWaiter(q, m) == [responses EXCEPT ![q] = m.decision]

\* Slip: the answer to another request is acked and forgotten.
StoredIfOwn(q, m) ==
    IF m.request = q THEN [responses EXCEPT ![q] = m.decision] ELSE responses

\* self._responses[response_request_id] = content
Stored(q, m) == [responses EXCEPT ![m.request] = m.decision]

\* One message of the batch, with its ack.
HandleAnswer(q) ==
    /\ call[q] = "handling"
    /\ \E m \in batch[q] :
          /\ responses' = Stored(q, m)
          /\ batch' = [batch EXCEPT ![q] = @ \ {m}]
          /\ shown' = shown \cup {x \in {m} : Waiting(m.request)}
    /\ UNCHANGED <<audit, decided, sent, execution, call, late>>

\* Slip: the clock is looked at only when no answer is stored.
ExpiredWhenQuiet(q) == q \in late /\ \A p \in Request : responses[p] = "none"

\* while time.monotonic() < deadline
Expired(q) == q \in late

Outcome(q) ==
    IF responses[q] = "approved" THEN "ran"
    ELSE IF responses[q] = "rejected" \/ Expired(q) THEN "denied"
    ELSE "receiving"

\* The batch is handled: the own answer is popped, or the deadline ends the wait, or
\* the call receives again.  Only an approval runs the tool.
CheckResponses(q) ==
    /\ call[q] = "handling" /\ batch[q] = {}
    /\ call' = [call EXCEPT ![q] = Outcome(q)]
    /\ responses' = [responses EXCEPT ![q] = "none"]
    /\ UNCHANGED <<audit, decided, sent, execution, late, batch, shown>>

-----------------------------------------------------------------------------
(* The end of an execution, with every tool call that waits. *)

\* Slip: the other calls of an execution that failed go on waiting.
AbortedAlone(q) == [call EXCEPT ![q] = "aborted"]

\* The agent raises; its other calls are cancelled with it.
Aborted(q) == [p \in Request |-> IF Waiting(p) THEN "aborted" ELSE call[p]]

NextExecution ==
    /\ execution < MaxExecutions
    /\ execution' = execution + 1
    /\ batch' = [q \in Request |-> {}]
    /\ responses' = [q \in Request |-> "none"]
    /\ UNCHANGED <<audit, decided, late, shown>>

\* The attempt is cancelled, loses its lease, fails or completes.  Messages that a
\* call had received are in the consumer inbox and come no more.
EndExecution ==
    /\ NextExecution
    /\ call' = [q \in Request |-> IF Waiting(q) THEN "aborted" ELSE call[q]]
    /\ UNCHANGED sent

\* The ack of a stored answer raises, retry is asked for it, and the exception
\* leaves the tool call.  The answer is offered again if the ack had not committed.
AckFails(q) ==
    /\ call[q] = "handling"
    /\ NextExecution
    /\ call' = Aborted(q)
    /\ \E m \in batch[q] : sent' \in {sent, sent \cup {m}}

Next ==
    \/ \E q \in Request :
          \/ CreateRequest(q)
          \/ \E decision \in Decision : Decide(q, decision)
          \/ DeadlinePasses(q)
          \/ \E messages \in SUBSET sent : Receive(q, messages)
          \/ HandleAnswer(q) \/ CheckResponses(q) \/ AckFails(q)
    \/ EndExecution

Spec == Init /\ [][Next]_vars

\* Time passes, receive returns, and the coroutine is scheduled.  Nothing is assumed
\* of the lead, nor that an answer is ever delivered.
FairSpec ==
    /\ Spec
    /\ \A q \in Request :
          /\ WF_vars(DeadlinePasses(q))
          /\ WF_vars(\E messages \in SUBSET sent : Receive(q, messages))
          /\ WF_vars(HandleAnswer(q))
          /\ WF_vars(CheckResponses(q))

-----------------------------------------------------------------------------
(* What the protocol promises. *)

\* A tool runs only on an approval of that very request, whoever received it and
\* whatever was decided about other calls.
RunsOnlyApproved ==
    \A q \in Request : call[q] = "ran" =>
        \E m \in AnswersTo(decided, q) : m.decision = "approved"

\* A tool is refused only because the lead rejected it or was not heard in time.
DeniedForAReason ==
    \A q \in Request : call[q] = "denied" =>
        \/ q \in late
        \/ \E m \in AnswersTo(decided, q) : m.decision = "rejected"

\* An answer that any call of the execution handled in time is the outcome of the
\* call it answers: it is not lost between the coroutines, nor to the deadline.
HandledAnswerCounts ==
    \A q \in Request : AnswersTo(shown, q) # {} /\ call[q] \in {"ran", "denied"} =>
        \E m \in AnswersTo(shown, q) :
            m.decision = IF call[q] = "ran" THEN "approved" ELSE "rejected"

\* No call waits for an answer that was taken from the broker and dropped.
NoAnswerMissed ==
    \A q \in Request : Waiting(q) =>
        \A m \in AnswersTo(decided, q) :
            \/ m \in sent \cup shown
            \/ \E p \in Request : m \in batch[p]

\* A tool call does not wait for ever.
WaitsEnd == \A q \in Request : Waiting(q) ~> ~ Waiting(q)
=============================================================================

--------------------------- MODULE PermissionProofs ---------------------------
(***************************************************************************)
(* The safety of PermissionProtocol for any requests and any bounds: a     *)
(* tool runs on an approval of its own request, is refused for a reason,   *)
(* and an answer that was handled in time is the outcome.                  *)
(***************************************************************************)
EXTENDS PermissionProtocol, TLAPS

\* The types that the argument needs.
Typed ==
    /\ \A m \in decided : m.decision \in Decision
    /\ sent \subseteq decided /\ shown \subseteq decided
    /\ audit \in [Request -> Decision \cup {"none", "pending"}]
    /\ call \in [Request -> CallState]
    /\ batch \in [Request -> SUBSET decided]
    /\ responses \in [Request -> Decision \cup {"none"}]

\* A request that has not been written has no answer.
NothingBeforeRequest ==
    \A q \in Request : audit[q] = "none" => AnswersTo(decided, q) = {}

Given(answers, q, decision) == \E m \in AnswersTo(answers, q) : m.decision = decision

\* A stored response is an answer to that request.
ResponsesAreAnswers ==
    \A q \in Request : responses[q] # "none" => Given(decided, q, responses[q])

\* While a call waits, what was handled for it is stored, and nothing else is.
WaitingRemembers ==
    \A q \in Request : Waiting(q) =>
        IF responses[q] = "none" THEN AnswersTo(shown, q) = {}
        ELSE Given(shown, q, responses[q])

PermissionInv ==
    /\ Typed
    /\ NothingBeforeRequest
    /\ ResponsesAreAnswers
    /\ WaitingRemembers
    /\ RunsOnlyApproved
    /\ DeniedForAReason
    /\ HandledAnswerCounts

USE DEF Decision, CallState, AnswersTo, Given, Waiting

\* Nobody has asked or answered yet.
LEMMA InitHolds == Init => PermissionInv
  BY DEF Init, PermissionInv, Typed, NothingBeforeRequest, ResponsesAreAnswers,
         WaitingRemembers, RunsOnlyApproved, DeniedForAReason, HandledAnswerCounts

\* A request is written.
LEMMA CreateKeeps ==
  ASSUME PermissionInv, NEW q \in Request, CreateRequest(q)
  PROVE  PermissionInv'
<1>1. Typed'
  BY DEF PermissionInv, Typed, CreateRequest
<1>2. NothingBeforeRequest'
  BY DEF PermissionInv, Typed, NothingBeforeRequest, CreateRequest
<1>3. ResponsesAreAnswers'
  BY DEF PermissionInv, Typed, ResponsesAreAnswers, CreateRequest
<1>4. WaitingRemembers'
  <2>1. AnswersTo(decided, q) = {} /\ responses[q] = "none"
    BY DEF PermissionInv, NothingBeforeRequest, ResponsesAreAnswers, Typed, CreateRequest
  <2>2. AnswersTo(shown, q) = {}
    BY <2>1 DEF PermissionInv, Typed
  <2> QED
    BY <2>1, <2>2 DEF PermissionInv, Typed, WaitingRemembers, CreateRequest
<1>5. RunsOnlyApproved'
  BY DEF PermissionInv, Typed, RunsOnlyApproved, ResponsesAreAnswers, CreateRequest
<1>6. DeniedForAReason'
  BY DEF PermissionInv, Typed, DeniedForAReason, ResponsesAreAnswers, CreateRequest
<1>7. HandledAnswerCounts'
  BY DEF PermissionInv, Typed, HandledAnswerCounts, WaitingRemembers, CreateRequest
<1> QED
  BY <1>1, <1>2, <1>3, <1>4, <1>5, <1>6, <1>7 DEF PermissionInv

\* An answer is added; what was answered stays answered.
LEMMA DecideKeeps ==
  ASSUME PermissionInv, NEW q \in Request, NEW decision \in Decision, Decide(q, decision)
  PROVE  PermissionInv'
<1>1. Typed'
  BY DEF PermissionInv, Typed, Decide
<1>2. NothingBeforeRequest'
  BY DEF PermissionInv, Typed, NothingBeforeRequest, Decide
<1>3. ResponsesAreAnswers'
  BY DEF PermissionInv, Typed, ResponsesAreAnswers, Decide
<1>4. WaitingRemembers'
  BY DEF PermissionInv, Typed, WaitingRemembers, Decide
<1>5. RunsOnlyApproved'
  BY DEF PermissionInv, Typed, RunsOnlyApproved, ResponsesAreAnswers, Decide
<1>6. DeniedForAReason'
  BY DEF PermissionInv, Typed, DeniedForAReason, ResponsesAreAnswers, Decide
<1>7. HandledAnswerCounts'
  BY DEF PermissionInv, Typed, HandledAnswerCounts, WaitingRemembers, Decide
<1> QED
  BY <1>1, <1>2, <1>3, <1>4, <1>5, <1>6, <1>7 DEF PermissionInv

\* Time passes.
LEMMA DeadlineKeeps ==
  ASSUME PermissionInv, NEW q \in Request, DeadlinePasses(q)
  PROVE  PermissionInv'
<1>1. Typed'
  BY DEF PermissionInv, Typed, DeadlinePasses
<1>2. NothingBeforeRequest'
  BY DEF PermissionInv, Typed, NothingBeforeRequest, DeadlinePasses
<1>3. ResponsesAreAnswers'
  BY DEF PermissionInv, Typed, ResponsesAreAnswers, DeadlinePasses
<1>4. WaitingRemembers'
  BY DEF PermissionInv, Typed, WaitingRemembers, DeadlinePasses
<1>5. RunsOnlyApproved'
  BY DEF PermissionInv, Typed, RunsOnlyApproved, ResponsesAreAnswers, DeadlinePasses
<1>6. DeniedForAReason'
  BY DEF PermissionInv, Typed, DeniedForAReason, ResponsesAreAnswers, DeadlinePasses
<1>7. HandledAnswerCounts'
  BY DEF PermissionInv, Typed, HandledAnswerCounts, WaitingRemembers, DeadlinePasses
<1> QED
  BY <1>1, <1>2, <1>3, <1>4, <1>5, <1>6, <1>7 DEF PermissionInv

\* A batch is taken from the broker.
LEMMA ReceiveKeeps ==
  ASSUME PermissionInv, NEW q \in Request, NEW messages \in SUBSET sent, Receive(q, messages)
  PROVE  PermissionInv'
<1>1. Typed'
  BY DEF PermissionInv, Typed, Receive, Undelivered
<1>2. NothingBeforeRequest'
  BY DEF PermissionInv, Typed, NothingBeforeRequest, Receive, Undelivered
<1>3. ResponsesAreAnswers'
  BY DEF PermissionInv, Typed, ResponsesAreAnswers, Receive, Undelivered
<1>4. WaitingRemembers'
  BY DEF PermissionInv, Typed, WaitingRemembers, Receive, Undelivered
<1>5. RunsOnlyApproved'
  BY DEF PermissionInv, Typed, RunsOnlyApproved, ResponsesAreAnswers, Receive,
         Undelivered
<1>6. DeniedForAReason'
  BY DEF PermissionInv, Typed, DeniedForAReason, ResponsesAreAnswers, Receive,
         Undelivered
<1>7. HandledAnswerCounts'
  BY DEF PermissionInv, Typed, HandledAnswerCounts, WaitingRemembers, Receive,
         Undelivered
<1> QED
  BY <1>1, <1>2, <1>3, <1>4, <1>5, <1>6, <1>7 DEF PermissionInv

\* A stored answer is the one its own call will look at.
LEMMA HandleKeeps ==
  ASSUME PermissionInv, NEW q \in Request, HandleAnswer(q)
  PROVE  PermissionInv'
<1>1. Typed'
  <2> PICK m \in batch[q] :
         /\ responses' = [responses EXCEPT ![m.request] = m.decision]
         /\ batch' = [batch EXCEPT ![q] = @ \ {m}]
         /\ shown' = shown \cup {x \in {m} : Waiting(m.request)}
    BY DEF HandleAnswer, Stored
  <2>1. m \in decided /\ m.decision \in Decision
    BY DEF PermissionInv, Typed
  <2>2. responses' \in [Request -> Decision \cup {"none"}]
    BY <2>1 DEF PermissionInv, Typed
  <2>3. batch' \in [Request -> SUBSET decided]
    BY DEF PermissionInv, Typed
  <2> QED
    BY <2>1, <2>2, <2>3 DEF PermissionInv, Typed, HandleAnswer
<1>2. NothingBeforeRequest'
  BY DEF PermissionInv, Typed, NothingBeforeRequest, HandleAnswer, Stored
<1>3. ResponsesAreAnswers'
  BY DEF PermissionInv, Typed, ResponsesAreAnswers, HandleAnswer, Stored
<1>4. WaitingRemembers'
  BY DEF PermissionInv, Typed, WaitingRemembers, HandleAnswer, Stored
<1>5. RunsOnlyApproved'
  BY DEF PermissionInv, Typed, RunsOnlyApproved, ResponsesAreAnswers, HandleAnswer,
         Stored
<1>6. DeniedForAReason'
  BY DEF PermissionInv, Typed, DeniedForAReason, ResponsesAreAnswers, HandleAnswer,
         Stored
<1>7. HandledAnswerCounts'
  BY DEF PermissionInv, Typed, HandledAnswerCounts, WaitingRemembers, HandleAnswer,
         Stored
<1> QED
  BY <1>1, <1>2, <1>3, <1>4, <1>5, <1>6, <1>7 DEF PermissionInv

\* The call leaves with the outcome that is stored.
LEMMA CheckKeeps ==
  ASSUME PermissionInv, NEW q \in Request, CheckResponses(q)
  PROVE  PermissionInv'
<1>1. Typed'
  BY DEF PermissionInv, Typed, CheckResponses, Outcome, Expired
<1>2. NothingBeforeRequest'
  BY DEF PermissionInv, Typed, NothingBeforeRequest, CheckResponses, Outcome, Expired
<1>3. ResponsesAreAnswers'
  BY DEF PermissionInv, Typed, ResponsesAreAnswers, CheckResponses, Outcome, Expired
<1>4. WaitingRemembers'
  BY DEF PermissionInv, Typed, WaitingRemembers, CheckResponses, Outcome, Expired
<1>5. RunsOnlyApproved'
  BY DEF PermissionInv, Typed, RunsOnlyApproved, ResponsesAreAnswers, CheckResponses,
         Outcome, Expired
<1>6. DeniedForAReason'
  BY DEF PermissionInv, Typed, DeniedForAReason, ResponsesAreAnswers, CheckResponses,
         Outcome, Expired
<1>7. HandledAnswerCounts'
  BY DEF PermissionInv, Typed, HandledAnswerCounts, WaitingRemembers, CheckResponses,
         Outcome, Expired
<1> QED
  BY <1>1, <1>2, <1>3, <1>4, <1>5, <1>6, <1>7 DEF PermissionInv

\* The calls that wait end without an outcome.
LEMMA EndKeeps ==
  ASSUME PermissionInv, EndExecution
  PROVE  PermissionInv'
<1>1. Typed'
  BY DEF PermissionInv, Typed, EndExecution, NextExecution
<1>2. NothingBeforeRequest'
  BY DEF PermissionInv, Typed, NothingBeforeRequest, EndExecution, NextExecution
<1>3. ResponsesAreAnswers'
  BY DEF PermissionInv, Typed, ResponsesAreAnswers, EndExecution, NextExecution
<1>4. WaitingRemembers'
  BY DEF PermissionInv, Typed, WaitingRemembers, EndExecution, NextExecution
<1>5. RunsOnlyApproved'
  BY DEF PermissionInv, Typed, RunsOnlyApproved, ResponsesAreAnswers, EndExecution,
         NextExecution
<1>6. DeniedForAReason'
  BY DEF PermissionInv, Typed, DeniedForAReason, ResponsesAreAnswers, EndExecution,
         NextExecution
<1>7. HandledAnswerCounts'
  BY DEF PermissionInv, Typed, HandledAnswerCounts, WaitingRemembers, EndExecution,
         NextExecution
<1> QED
  BY <1>1, <1>2, <1>3, <1>4, <1>5, <1>6, <1>7 DEF PermissionInv

\* So they do when an ack raises.
LEMMA AckFailsKeeps ==
  ASSUME PermissionInv, NEW q \in Request, AckFails(q)
  PROVE  PermissionInv'
<1>1. Typed'
  BY DEF PermissionInv, Typed, AckFails, NextExecution, Aborted
<1>2. NothingBeforeRequest'
  BY DEF PermissionInv, Typed, NothingBeforeRequest, AckFails, NextExecution, Aborted
<1>3. ResponsesAreAnswers'
  BY DEF PermissionInv, Typed, ResponsesAreAnswers, AckFails, NextExecution, Aborted
<1>4. WaitingRemembers'
  BY DEF PermissionInv, Typed, WaitingRemembers, AckFails, NextExecution, Aborted
<1>5. RunsOnlyApproved'
  BY DEF PermissionInv, Typed, RunsOnlyApproved, ResponsesAreAnswers, AckFails,
         NextExecution, Aborted
<1>6. DeniedForAReason'
  BY DEF PermissionInv, Typed, DeniedForAReason, ResponsesAreAnswers, AckFails,
         NextExecution, Aborted
<1>7. HandledAnswerCounts'
  BY DEF PermissionInv, Typed, HandledAnswerCounts, WaitingRemembers, AckFails,
         NextExecution, Aborted
<1> QED
  BY <1>1, <1>2, <1>3, <1>4, <1>5, <1>6, <1>7 DEF PermissionInv

\* Every step keeps the invariant.
LEMMA StepKeeps == PermissionInv /\ [Next]_vars => PermissionInv'
<1> SUFFICES ASSUME PermissionInv, [Next]_vars PROVE PermissionInv'
  OBVIOUS
<1>1. CASE \E q \in Request : CreateRequest(q)
  BY <1>1, CreateKeeps
<1>2. CASE \E q \in Request : \E decision \in Decision : Decide(q, decision)
  BY <1>2, DecideKeeps
<1>3. CASE \E q \in Request : DeadlinePasses(q)
  BY <1>3, DeadlineKeeps
<1>4. CASE \E q \in Request : \E messages \in SUBSET sent : Receive(q, messages)
  BY <1>4, ReceiveKeeps
<1>5. CASE \E q \in Request : HandleAnswer(q)
  BY <1>5, HandleKeeps
<1>6. CASE \E q \in Request : CheckResponses(q)
  BY <1>6, CheckKeeps
<1>7. CASE \E q \in Request : AckFails(q)
  BY <1>7, AckFailsKeeps
<1>8. CASE EndExecution
  BY <1>8, EndKeeps
<1>9. CASE UNCHANGED vars
  BY <1>9 DEF vars, PermissionInv, Typed, NothingBeforeRequest, ResponsesAreAnswers,
              WaitingRemembers, RunsOnlyApproved, DeniedForAReason, HandledAnswerCounts
<1> QED
  BY <1>1, <1>2, <1>3, <1>4, <1>5, <1>6, <1>7, <1>8, <1>9 DEF Next

\* PermissionInv holds in every state.
LEMMA InvariantHolds == Spec => []PermissionInv
  BY InitHolds, StepKeeps, PTL DEF Spec

\* PermissionMiddleware lets a tool run only when the lead approved that very request,
\* however many calls share the consumer and however often the lead decides.
THEOREM ApprovedBeforeRun == Spec => []RunsOnlyApproved
<1>1. PermissionInv => RunsOnlyApproved
  BY DEF PermissionInv
<1> QED
  BY <1>1, InvariantHolds, PTL

\* It refuses a tool only when the lead rejected that request or the wait expired.
THEOREM RefusedForAReason == Spec => []DeniedForAReason
<1>1. PermissionInv => DeniedForAReason
  BY DEF PermissionInv
<1> QED
  BY <1>1, InvariantHolds, PTL

\* An answer that some coroutine of the execution handled while its call waited is
\* the outcome of that call.
THEOREM HandledAnswersDecide == Spec => []HandledAnswerCounts
<1>1. PermissionInv => HandledAnswerCounts
  BY DEF PermissionInv
<1> QED
  BY <1>1, InvariantHolds, PTL

-----------------------------------------------------------------------------
(* No answer is taken from the broker and dropped while its call waits.     *)

\* A call stands nowhere before its request, and has a batch only while it handles it.
BatchesAreOpen ==
    \A q \in Request : /\ audit[q] = "none" => call[q] = "none"
                       /\ call[q] # "handling" => batch[q] = {}

AnswersInv == PermissionInv /\ BatchesAreOpen /\ NoAnswerMissed

\* Where an answer may be that its call still waits for.
OnItsWay(m) == m \in sent \cup shown \/ \E p \in Request : m \in batch[p]

\* A step after which an answer is still on its way, or its call waits no more.
LEMMA AnswersStay ==
  ASSUME AnswersInv,
         \A q \in Request : Waiting(q)' =>
            /\ Waiting(q) \/ AnswersTo(decided, q) = {}
            /\ \A m \in AnswersTo(decided, q) : OnItsWay(m) => OnItsWay(m)',
         \A m \in decided' : m \in decided \/ m \in sent'
  PROVE  NoAnswerMissed'
<1>1. ASSUME NEW q \in Request, Waiting(q)', NEW m \in decided', m.request = q
      PROVE  OnItsWay(m)'
  <2>1. CASE m \in decided
    <3>1. m \in AnswersTo(decided, q)
      BY <1>1, <2>1
    <3>2. Waiting(q)
      BY <1>1, <3>1
    <3>3. OnItsWay(m)
      BY <1>1, <3>1, <3>2 DEF AnswersInv, NoAnswerMissed, OnItsWay
    <3> QED
      BY <1>1, <3>1, <3>3
  <2>2. CASE m \in sent'
    BY <2>2 DEF OnItsWay
  <2> QED
    BY <1>1, <2>1, <2>2
<1> QED
  BY <1>1 DEF NoAnswerMissed, OnItsWay

\* The calls of a runtime drop no answer that is waited for.
LEMMA AnswersStep ==
  ASSUME AnswersInv, [Next]_vars
  PROVE  NoAnswerMissed'
<1>1. ASSUME NEW q \in Request, CreateRequest(q)
      PROVE  NoAnswerMissed'
  BY <1>1, AnswersStay DEF AnswersInv, PermissionInv, Typed, NothingBeforeRequest, CreateRequest, OnItsWay
<1>2. ASSUME NEW q \in Request, NEW decision \in Decision, Decide(q, decision)
      PROVE  NoAnswerMissed'
  <2>1. PICK answer : decided' = decided \cup {answer} /\ sent' = sent \cup {answer}
    BY <1>2 DEF Decide
  <2> QED
    BY <1>2, <2>1, AnswersStay DEF Decide, OnItsWay
<1>3. ASSUME NEW q \in Request, DeadlinePasses(q)
      PROVE  NoAnswerMissed'
  BY <1>3, AnswersStay DEF DeadlinePasses, OnItsWay
<1>4. ASSUME NEW q \in Request, NEW messages \in SUBSET sent, Receive(q, messages)
      PROVE  NoAnswerMissed'
  <2>1. batch[q] = {} /\ batch'[q] = messages /\ \A p \in Request : p # q => batch'[p] = batch[p]
    BY <1>4 DEF Receive, AnswersInv, PermissionInv, Typed, BatchesAreOpen
  <2>2. ASSUME NEW m, OnItsWay(m) PROVE OnItsWay(m)'
    <3>1. CASE m \in messages
      BY <2>1, <3>1 DEF OnItsWay
    <3>2. CASE m \in sent \ messages
      BY <1>4, <3>2 DEF Receive, Undelivered, OnItsWay
    <3>3. CASE m \in shown
      BY <1>4, <3>3 DEF Receive, OnItsWay
    <3>4. CASE \E p \in Request : m \in batch[p]
      BY <2>1, <3>4 DEF OnItsWay
    <3> QED
      BY <2>2, <3>1, <3>2, <3>3, <3>4 DEF OnItsWay
  <2>3. \A p \in Request : Waiting(p)' => Waiting(p)
    BY <1>4 DEF Receive, AnswersInv, PermissionInv, Typed
  <2>4. decided' = decided
    BY <1>4 DEF Receive
  <2> QED
    BY <2>2, <2>3, <2>4, AnswersStay
<1>5. ASSUME NEW q \in Request, HandleAnswer(q)
      PROVE  NoAnswerMissed'
  <2>1. PICK m \in batch[q] : /\ batch' = [batch EXCEPT ![q] = @ \ {m}]
                              /\ shown' = shown \cup {x \in {m} : Waiting(m.request)}
    BY <1>5 DEF HandleAnswer
  <2>2. call' = call /\ decided' = decided /\ sent' = sent
    BY <1>5 DEF HandleAnswer
  <2>3. ASSUME NEW p \in Request, Waiting(p), NEW x \in AnswersTo(decided, p), OnItsWay(x)
        PROVE  OnItsWay(x)'
    <3>1. CASE x = m
      BY <2>1, <2>3, <3>1 DEF OnItsWay
    <3>2. CASE x # m
      <4>1. \A u \in Request : x \in batch[u] => x \in batch'[u]
        BY <2>1, <3>2 DEF AnswersInv, PermissionInv, Typed
      <4> QED
        BY <2>1, <2>2, <2>3, <4>1 DEF OnItsWay
    <3> QED
      BY <3>1, <3>2
  <2> QED
    BY <2>2, <2>3, AnswersStay
<1>6. ASSUME NEW q \in Request, CheckResponses(q)
      PROVE  NoAnswerMissed'
  <2>1. \A p \in Request : Waiting(p)' => Waiting(p)
    BY <1>6 DEF CheckResponses, AnswersInv, PermissionInv, Typed
  <2> QED
    BY <1>6, <2>1, AnswersStay DEF CheckResponses, OnItsWay
<1>7. ASSUME EndExecution \/ \E q \in Request : AckFails(q)
      PROVE  NoAnswerMissed'
  <2>1. \A p \in Request : ~ Waiting(p)'
    BY <1>7 DEF EndExecution, AckFails, Aborted
  <2> QED
    BY <2>1 DEF NoAnswerMissed
<1>8. CASE UNCHANGED vars
  BY <1>8 DEF vars, AnswersInv, NoAnswerMissed
<1> QED
  BY <1>1, <1>2, <1>3, <1>4, <1>5, <1>6, <1>7, <1>8 DEF Next

\* Batches open with a receive and are empty when the call goes on.
LEMMA BatchesStep ==
  ASSUME AnswersInv, [Next]_vars
  PROVE  BatchesAreOpen'
<1> USE DEF AnswersInv, PermissionInv, Typed, BatchesAreOpen
<1>1. ASSUME NEW q \in Request, CreateRequest(q) PROVE BatchesAreOpen'
  BY <1>1 DEF CreateRequest
<1>2. ASSUME NEW q \in Request, NEW decision \in Decision, Decide(q, decision) PROVE BatchesAreOpen'
  BY <1>2 DEF Decide
<1>3. ASSUME NEW q \in Request, DeadlinePasses(q) PROVE BatchesAreOpen'
  BY <1>3 DEF DeadlinePasses
<1>4. ASSUME NEW q \in Request, NEW messages \in SUBSET sent, Receive(q, messages) PROVE BatchesAreOpen'
  BY <1>4 DEF Receive
<1>5. ASSUME NEW q \in Request, HandleAnswer(q) PROVE BatchesAreOpen'
  BY <1>5 DEF HandleAnswer
<1>6. ASSUME NEW q \in Request, CheckResponses(q) PROVE BatchesAreOpen'
  BY <1>6 DEF CheckResponses
<1>7. ASSUME EndExecution \/ \E q \in Request : AckFails(q) PROVE BatchesAreOpen'
  BY <1>7 DEF EndExecution, AckFails, NextExecution, Aborted
<1>8. CASE UNCHANGED vars
  BY <1>8 DEF vars
<1> QED
  BY <1>1, <1>2, <1>3, <1>4, <1>5, <1>6, <1>7, <1>8 DEF Next

\* No tool call waits for an answer that some call of the runtime, its own or another,
\* has taken from the broker and dropped: failures of an ack end every call that waits.
THEOREM AnswersReachTheirCalls == Spec => []NoAnswerMissed
<1>1. Init => AnswersInv
  BY InitHolds DEF Init, AnswersInv, BatchesAreOpen, NoAnswerMissed
<1>2. AnswersInv /\ [Next]_vars => AnswersInv'
  BY StepKeeps, AnswersStep, BatchesStep DEF AnswersInv
<1>3. AnswersInv => NoAnswerMissed
  BY DEF AnswersInv
<1> QED
  BY <1>1, <1>2, <1>3, PTL DEF Spec
===============================================================================

----------------------------- MODULE ModelCall -----------------------------
(***************************************************************************)
(* One model call of an agent as middlewares/error_recovery_middleware.py  *)
(* carries it out: the first attempt, the continuation of a truncated      *)
(* answer, and the recovery from a context that is too long, which         *)
(* compresses the context and tries again with retries and a fallback      *)
(* model.  Each action is one request to a model and what came of it.      *)
(*                                                                         *)
(* What a model does is any outcome it can have; that it refuses a context *)
(* in which calls and results do not match is the provider's rule, which   *)
(* reactive_compact takes care to respect.                                 *)
(***************************************************************************)
EXTENDS ContextWindow

CONSTANTS
    MaxRetries,        \* max_retries (5)
    MaxContinuations,  \* max_continuation_attempts (2)
    Threshold,         \* consecutive_529_threshold (3)
    MaxAsked,          \* bound: tools an answer may ask for
    SummarySizes       \* bound: how long a summary may be

ASSUME CallAssumption ==
    /\ MaxRetries \in Nat \ {0} /\ Threshold \in Nat \ {0}
    /\ MaxContinuations \in Nat /\ MaxAsked \in Nat
    /\ SummarySizes \subseteq Nat \ {0}

VARIABLE call
\* stage    where the call is; "answered" and "raised" are its ends
\* context  the messages of the latest request
\* attempt  requests _call_with_retry has made
\* fives    _consecutive_529_count, an attribute of the middleware
\* continued  _continuation_attempts, an attribute of the middleware
\* seen     the failures of the retries of this call
\* answer   what is handed to the agent
\* cause    the failure that ended the call, or left its answer incomplete

Temporary == {"429", "529"}
Failure == Temporary \cup {"overflow", "other"}
NoAnswer == [finish |-> "none", whole |-> FALSE, asks |-> 0]

NoCall == [stage |-> "none", context |-> <<>>, attempt |-> 0, fives |-> 0, continued |-> 0,
           seen |-> <<>>, answer |-> NoAnswer, cause |-> "none"]

\* awrap_model_call resets the counters first.
Begun(context) == [NoCall EXCEPT !.stage = "first", !.context = context]

\* What a model may do with a context.
Refuses(context) == ~ WellFormed(context)

Answered(finish, whole, asks) ==
    [call EXCEPT !.stage = "answered",
                 !.answer = [finish |-> finish, whole |-> whole, asks |-> asks]]

Raised(cause) == [call EXCEPT !.stage = "raised", !.cause = cause]

-----------------------------------------------------------------------------
(* The first attempt: handler(request), the model with its tools. *)

FirstAnswers(asks) ==
    /\ call.stage = "first" /\ ~ Refuses(call.context)
    /\ call' = Answered(IF asks = 0 THEN "stop" ELSE "tool_calls", TRUE, asks)

\* The answer is cut off, with the tool calls it may have begun.
FirstIsCut ==
    /\ call.stage = "first" /\ ~ Refuses(call.context)
    /\ call' = IF call.continued < MaxContinuations
               THEN [call EXCEPT !.stage = "continue", !.continued = @ + 1]
               ELSE Answered("length", FALSE, 0)

FirstFails(failure) ==
    /\ call.stage = "first"
    /\ Refuses(call.context) => failure = "other"
    /\ call' = IF failure = "overflow" THEN [call EXCEPT !.stage = "compact"] ELSE Raised(failure)

-----------------------------------------------------------------------------
(* _handle_truncation: one request for the rest of the text, without tools. *)

\* Slip: an answer whose continuation failed passes for a finished one.
CutAnswer == [Answered("stop", FALSE, 0) EXCEPT !.cause = "continuation"]

\* The continuation failed: the part there is, marked as cut.
PartialAnswer == [Answered("length", FALSE, 0) EXCEPT !.cause = "continuation"]

\* The rest arrives, perhaps cut off itself or without the tool calls the first
\* part had begun: it counts as the end of the answer.
ContinuationAnswers(whole) ==
    /\ call.stage = "continue"
    /\ call' = Answered("stop", whole, 0)

ContinuationFails ==
    /\ call.stage = "continue"
    /\ call' = PartialAnswer

-----------------------------------------------------------------------------
(* _handle_context_exceeded *)

Compacts(size) ==
    /\ call.stage = "compact"
    /\ call' = [call EXCEPT !.stage = "retry", !.context = CutDown(call.context, size)]

SummaryFails ==
    /\ call.stage = "compact"
    /\ call' = Raised("summary")

-----------------------------------------------------------------------------
(* _call_with_retry, with the primary model and without tools. *)

\* A retry that is cut off is not continued.
RetryAnswers(whole) ==
    /\ call.stage = "retry" /\ ~ Refuses(call.context)
    /\ call' = Answered(IF whole THEN "stop" ELSE "length", whole, 0)

\* Slip: the count of 529 is not reset by a failure of another kind.
FivesEver(failure) == call.fives + (IF failure = "529" THEN 1 ELSE 0)

\* A 529 counts, another temporary failure starts the count again.
Fives(failure) == IF failure = "529" THEN call.fives + 1 ELSE 0

\* Slip: the loop ends one attempt early.
OutOfRetriesEarly == call.attempt + 2 >= MaxRetries

\* The attempt that failed was the last of range(max_retries).
OutOfRetries == call.attempt + 1 >= MaxRetries

\* Slip: a context that is still too long is compressed once more.
CompressedAgain(failure) ==
    IF failure = "overflow"
    THEN [Begun(call.context) EXCEPT !.stage = "compact"] ELSE Raised(failure)

\* A failure that is not temporary ends the retries.
GivenUp(failure) == Raised(failure)

AfterFailure(failure) ==
    LET noted == [call EXCEPT !.attempt = @ + 1, !.fives = Fives(failure),
                              !.seen = Append(@, failure)]
    IN IF failure = "529" /\ Fives(failure) >= Threshold
       THEN [noted EXCEPT !.stage = "fallback"]
       ELSE IF OutOfRetries
            THEN [noted EXCEPT !.stage = "raised", !.cause = failure]
            ELSE noted

RetryFails(failure) ==
    /\ call.stage = "retry"
    /\ Refuses(call.context) => failure = "other"
    /\ call' = IF failure \in Temporary THEN AfterFailure(failure) ELSE GivenUp(failure)

FallbackAnswers(whole) ==
    /\ call.stage = "fallback" /\ ~ Refuses(call.context)
    /\ call' = Answered(IF whole THEN "stop" ELSE "length", whole, 0)

FallbackFails ==
    /\ call.stage = "fallback"
    /\ call' = Raised("fallback")

CallStep ==
    \/ \E asks \in 0 .. MaxAsked : FirstAnswers(asks)
    \/ FirstIsCut
    \/ \E failure \in Failure : FirstFails(failure) \/ RetryFails(failure)
    \/ \E whole \in BOOLEAN :
          \/ ContinuationAnswers(whole)
          \/ RetryAnswers(whole)
          \/ FallbackAnswers(whole)
    \/ ContinuationFails
    \/ \E size \in SummarySizes : Compacts(size)
    \/ SummaryFails
    \/ FallbackFails

-----------------------------------------------------------------------------
(* What a model call promises. *)

\* The fallback model is asked only after Threshold failures with 529 in a row
\* within this call: no earlier call and no other failure counts towards it.
FallbackNeedsOutage ==
    call.stage = "fallback" =>
        /\ Len(call.seen) >= Threshold
        /\ \A i \in (Len(call.seen) - Threshold + 1) .. Len(call.seen) : call.seen[i] = "529"

\* A recovery is given up because of a temporary failure only after every retry
\* was made, none of them a third 529 in a row that called for the fallback.
RetriesAreUsedUp ==
    call.stage = "raised" /\ call.cause \in Temporary /\ call.attempt > 0 =>
        Len(call.seen) = MaxRetries

\* An answer that lost a part is marked so, unless a continuation arrived that
\* did not bring the part that was missing.
CutAnswersAreMarked ==
    call.stage = "answered" /\ ~ call.answer.whole =>
        \/ call.answer.finish = "length"
        \/ call.continued > 0 /\ call.cause = "none"

\* The class comment of ErrorRecoveryMiddleware: a temporary failure is retried
\* with exponential backoff.  The first attempt is made outside _call_with_retry,
\* so its failure is raised at once.
TemporaryFailuresAreRetried ==
    call.stage = "raised" /\ call.cause \in Temporary => Len(call.seen) = MaxRetries
=============================================================================

---------------------------- MODULE ContextWindow ----------------------------
(***************************************************************************)
(* What middlewares/context_compression_middleware.py computes on a list   *)
(* of messages, and how the list it returns enters the stored conversation.*)
(*                                                                         *)
(* A message keeps its kind, its size in tokens, the number of tools it    *)
(* asks for, and its identifier: its place in the stored conversation, or  *)
(* 0 for a message the middleware has just made.  Texts are left out.      *)
(***************************************************************************)
EXTENDS Integers, SequencesExt

CONSTANTS
    MaxMessages,       \* max_message_count (50)
    MaxTokens,         \* max_tokens (128000)
    MaxResult,         \* tool_result_size_threshold
    KeepResults,       \* recent_tool_results_keep (3)
    KeepAfterSummary,  \* messages kept beside an automatic summary (10)
    KeepAtWorst        \* messages kept by the last resort (5)

ASSUME WindowAssumption ==
    /\ MaxMessages \in Nat /\ MaxMessages >= 2
    /\ {MaxTokens, MaxResult, KeepResults, KeepAfterSummary, KeepAtWorst} \subseteq Nat \ {0}

Kind == {"human", "answer", "calls", "result", "note"}

Message(kind, size, asks) == [kind |-> kind, size |-> size, asks |-> asks, id |-> 0]

\* A HumanMessage the middleware writes: a summary or a remark on what it left out.
Note(size) == Message("note", size, 0)

\* _estimate_tokens
Tokens(ms) == FoldSeq(LAMBDA m, total : total + m.size, 0, ms)

LastOf(ms, n) == IF Len(ms) > n THEN SubSeq(ms, Len(ms) - n + 1, Len(ms)) ELSE ms

Results(ms) == {i \in DOMAIN ms : ms[i].kind = "result"}

\* _tool_result_budget: the text of a huge result is replaced in place by a
\* preview, in the stored message too.
Budgeted(ms) ==
    [i \in DOMAIN ms |-> IF i \in Results(ms) /\ ms[i].size > MaxResult
                         THEN [ms[i] EXCEPT !.size = 1] ELSE ms[i]]

\* _snip_compact
Snipped(ms) ==
    LET half == MaxMessages \div 2 IN
    IF Len(ms) <= MaxMessages THEN ms
    ELSE SubSeq(ms, 1, half) \o <<Note(1)>> \o LastOf(ms, half)

\* _micro_compact: a placeholder stands for each result but the last ones.
WithRecentResults(ms) ==
    [i \in DOMAIN ms |->
        IF i \in Results(ms) /\ Cardinality({j \in Results(ms) : j >= i}) > KeepResults
        THEN Note(1) ELSE ms[i]]

\* _auto_compact with a summary of this size: it has to fit.
Summarised(ms, size) == <<Note(size)>> \o LastOf(ms, KeepAfterSummary)

\* Slip: the tail is cut wherever it falls.
TailFromAnywhere(ms) == IF Len(ms) > KeepAtWorst THEN Len(ms) - KeepAtWorst + 1 ELSE 1

\* Where the tail of reactive_compact begins: one message earlier when it would
\* begin with a tool result right behind the message that asked for it.
TailStart(ms) ==
    LET first == IF Len(ms) > KeepAtWorst THEN Len(ms) - KeepAtWorst + 1 ELSE 1 IN
    IF first > 1 /\ ms[first].kind = "result" /\ ms[first - 1].kind = "calls"
    THEN first - 1 ELSE first

\* reactive_compact with a summary of this size
CutDown(ms, size) == <<Note(size)>> \o SubSeq(ms, TailStart(ms), Len(ms))

\* The messages a middleware returns are merged into the stored conversation: a
\* message that is stored already replaces itself, a new one goes to the end,
\* and what is not returned stays (the add_messages reducer of the agent state).
Kept(stored, ms) ==
    [i \in DOMAIN stored |-> IF \E j \in DOMAIN ms : ms[j].id = i
                             THEN ms[CHOOSE j \in DOMAIN ms : ms[j].id = i]
                             ELSE stored[i]]

\* Where the new messages are, and those messages in the order they have.
NewAt(ms) == {j \in DOMAIN ms : ms[j].id = 0}
NewOnes(ms) ==
    [i \in 1 .. Cardinality(NewAt(ms)) |->
        ms[CHOOSE j \in NewAt(ms) : Cardinality({k \in NewAt(ms) : k <= j}) = i]]

Merged(stored, ms) ==
    Kept(stored, ms) \o
        [i \in DOMAIN NewOnes(ms) |-> [NewOnes(ms)[i] EXCEPT !.id = Len(stored) + i]]

\* Every tool result follows the message that asked for it, and every tool that
\* was asked for has its result: what a model accepts as its context.
WellFormed(ms) ==
    \A i \in DOMAIN ms :
        /\ ms[i].kind = "result" =>
              \E j \in 1 .. (i - 1) : /\ ms[j].kind = "calls"
                                      /\ \A k \in (j + 1) .. i : ms[k].kind = "result"
        /\ ms[i].kind = "calls" =>
              /\ i + ms[i].asks <= Len(ms)
              /\ \A k \in (i + 1) .. (i + ms[i].asks) : ms[k].kind = "result"
=============================================================================

------------------------------ MODULE AgentRun ------------------------------
(***************************************************************************)
(* An agent at work: the loop that create_agent builds from the model, the *)
(* tools and the middlewares, run by cli.py for the lead and by            *)
(* lib/sub_agent.py for the attempt of a task.                             *)
(*                                                                         *)
(* A round compresses the stored conversation, calls the model on all of   *)
(* it, and runs the tools the answer asks for; an answer that asks for     *)
(* none ends the run.  The lead then saves memories and waits for the next *)
(* line of its user; the process ends when anything raises.  Its           *)
(* conversation is kept by thread, and a new process may take it up.       *)
(*                                                                         *)
(* Bounds: Scenarios splits the effort of a behaviour between lines of the *)
(* user, deaths of the lead's process, edits of the skill directory and    *)
(* savings of other sessions.                                              *)
(***************************************************************************)
EXTENDS ModelCall, SkillCache, MemoryStore

CONSTANTS
    Lead,        \* the session of this lead
    Huge,        \* the size of a tool result above MaxResult
    MaxRounds,   \* LangGraph's recursion limit, in rounds
    Scenarios    \* bound: how often what may happen in a behaviour

ASSUME RunAssumption ==
    /\ Lead \in Session
    /\ Huge \in Nat /\ Huge > MaxResult
    /\ MaxRounds \in Nat \ {0}

VARIABLES
    role,      \* "lead" or "task"
    stage,     \* where the run is
    rounds,    \* model calls of this run
    stored,    \* the conversation of the thread
    left       \* what the bounds still allow

vars == <<role, stage, rounds, stored, left, call, skillVars, memoryVars>>
beside == <<skillVars, memoryVars>>

Init ==
    /\ role \in {"lead", "task"} /\ stage = "waiting" /\ rounds = 0
    /\ stored = <<>> /\ left \in Scenarios
    /\ call = NoCall /\ SkillInit /\ MemoryInit

Within(bound) ==
    /\ left[bound] > 0
    /\ left' = [left EXCEPT ![bound] = @ - 1]

\* What raises ends the lead's process, and fails the attempt of a task.
Failed == IF role = "lead" THEN "dead" ELSE "failed"

-----------------------------------------------------------------------------
\* A line of the user, or the description of the claimed task.
Ask ==
    /\ stage = "waiting" /\ Within("lines")
    /\ stored' = Merged(stored, <<Message("human", 1, 0)>>)
    /\ stage' = "before" /\ rounds' = 0
    /\ UNCHANGED <<role, call, beside>>

\* The list after _auto_compact: some summary fits, or none does.
AfterSummary(ms) ==
    IF Tokens(ms) <= MaxTokens THEN {ms}
    ELSE {ms} \cup {m \in {Summarised(ms, size) : size \in SummarySizes} : Tokens(m) <= MaxTokens}

\* The list after reactive_compact, the last resort.
AfterLastResort(ms) ==
    IF Tokens(ms) <= MaxTokens THEN {ms} ELSE {CutDown(ms, size) : size \in SummarySizes}

Trimmed == WithRecentResults(Snipped(Budgeted(stored)))

\* abefore_model, and the model call it prepares.
BeforeModel ==
    /\ stage = "before" /\ rounds < MaxRounds
    /\ \E ms \in UNION {AfterLastResort(m) : m \in AfterSummary(Trimmed)} :
          stored' = Merged(Budgeted(stored), ms)
    /\ call' = Begun(stored')
    /\ stage' = "model" /\ rounds' = rounds + 1
    /\ UNCHANGED <<role, left, beside>>

\* The summary of the last resort is not guarded; nor is the recursion limit.
BeforeModelFails ==
    /\ stage = "before"
    /\ rounds = MaxRounds \/ \E ms \in AfterSummary(Trimmed) : Tokens(ms) > MaxTokens
    /\ stage' = Failed
    /\ UNCHANGED <<role, rounds, stored, left, call, beside>>

-----------------------------------------------------------------------------
(* The model call and what follows it. *)

CallModel ==
    /\ stage = "model" /\ CallStep
    /\ UNCHANGED <<role, stage, rounds, stored, left, beside>>

TakeAnswer ==
    /\ stage = "model" /\ call.stage = "answered"
    /\ stored' = Merged(stored, <<IF call.answer.asks = 0 THEN Message("answer", 1, 0)
                                  ELSE Message("calls", 1, call.answer.asks)>>)
    /\ stage' = IF call.answer.asks > 0 THEN "tools"
                ELSE IF role = "lead" THEN "after" ELSE "completed"
    /\ call' = NoCall
    /\ UNCHANGED <<role, rounds, left, beside>>

CallRaises ==
    /\ stage = "model" /\ call.stage = "raised"
    /\ stage' = Failed /\ call' = NoCall
    /\ UNCHANGED <<role, rounds, stored, left, beside>>

\* Every tool has run: its results, in order.  One of them may be huge.
RunTools ==
    /\ stage = "tools"
    /\ \E large \in 0 .. stored[Len(stored)].asks :
          stored' = Merged(stored, [i \in 1 .. stored[Len(stored)].asks |->
                        Message("result", IF i = large THEN Huge ELSE 1, 0)])
    /\ stage' = "before"
    /\ UNCHANGED <<role, rounds, left, call, beside>>

\* A tool or its permission check raises: no result of the round is stored.
ToolRaises ==
    /\ stage = "tools"
    /\ stage' = Failed
    /\ UNCHANGED <<role, rounds, stored, left, call, beside>>

-----------------------------------------------------------------------------
(* aafter_model: memories are extracted from a final answer, one by one. *)

AfterModel ==
    /\ stage = "after"
    /\ \E keys \in SUBSET Key : Extract(Lead, keys)
    /\ stage' = "saving"
    /\ UNCHANGED <<role, rounds, stored, left, call, skillVars>>

SaveMemory ==
    /\ stage = "saving"
    /\ \E k \in Key : LookUp(Lead, k) \/ Save(Lead, k)
    /\ UNCHANGED <<role, stage, rounds, stored, left, call, skillVars>>

\* An error of the extraction or of the store is not caught either.
AfterModelFails ==
    /\ stage \in {"after", "saving"}
    /\ GiveUpSaving(Lead)
    /\ stage' = Failed
    /\ UNCHANGED <<role, rounds, stored, left, call, skillVars>>

\* The answer has been shown: the prompt of the lead.
EndRun ==
    /\ stage = "saving" /\ ~ Saving(Lead)
    /\ stage' = "waiting"
    /\ UNCHANGED <<role, rounds, stored, left, call, beside>>

-----------------------------------------------------------------------------
(* The lead's process and its threads. *)

\* The process is killed; the thread keeps what its checkpoints hold.
Die ==
    /\ role = "lead" /\ stage # "dead" /\ Within("deaths")
    /\ GiveUpSaving(Lead)
    /\ stage' = "dead" /\ call' = NoCall
    /\ UNCHANGED <<role, rounds, stored, skillVars>>

\* A new process, on the thread the user names or on a new one.
Restart ==
    /\ stage = "dead"
    /\ stored' \in {stored, <<>>}
    /\ stage' = "waiting"
    /\ EmptyCache
    /\ UNCHANGED <<role, rounds, left, call, memoryVars>>

\* 'reset' names the new thread after the address of a temporary object, which
\* may be the address it had before.
Reset ==
    /\ role = "lead" /\ stage = "waiting"
    /\ stored' \in {stored, <<>>}
    /\ UNCHANGED <<role, stage, rounds, left, call, beside>>

-----------------------------------------------------------------------------
(* What happens beside the run. *)

\* Any process changes the skill directory.
EditSkills ==
    /\ Within("edits") /\ EditDirectory
    /\ UNCHANGED <<role, stage, rounds, stored, call, memoryVars>>

\* Whoever asks for a skill or for the system prompt refreshes the cache first.
RefreshSkills ==
    /\ stage # "dead" /\ Refresh
    /\ UNCHANGED <<role, stage, rounds, stored, left, call, memoryVars>>

\* Another session extracts and saves its memories.
RivalExtracts(s) ==
    /\ s # Lead /\ Within("rivals")
    /\ \E keys \in SUBSET Key \ {{}} : Extract(s, keys)
    /\ UNCHANGED <<role, stage, rounds, stored, call, skillVars>>

RivalSaves(s) ==
    /\ s # Lead /\ Saving(s)
    /\ GiveUpSaving(s) \/ \E k \in Key : LookUp(s, k) \/ Save(s, k)
    /\ UNCHANGED <<role, stage, rounds, stored, left, call, skillVars>>

RunStep ==
    \/ BeforeModel \/ BeforeModelFails \/ CallModel \/ TakeAnswer \/ CallRaises
    \/ RunTools \/ ToolRaises \/ AfterModel \/ SaveMemory \/ AfterModelFails \/ EndRun

Next ==
    \/ Ask \/ RunStep \/ Die \/ Restart \/ Reset
    \/ EditSkills \/ RefreshSkills
    \/ \E s \in Session : RivalExtracts(s) \/ RivalSaves(s)

Spec == Init /\ [][Next]_vars

\* A run is a coroutine that awaits models, tools and the store: each answers or
\* fails in the end (models and tools have timeouts), and the loop goes on.
FairSpec == Spec /\ WF_vars(RunStep)

-----------------------------------------------------------------------------
\* A request whose calls and results do not match, which a provider refuses, is
\* sent in two cases only: on a thread of the lead whose run broke off between a
\* call and its results, and by a recovery that cut through the results of
\* several calls made at once.
RequestsAreWellFormed ==
    call.stage # "none" /\ ~ WellFormed(call.context) =>
        \/ /\ role = "lead"
           /\ \E i \in 2 .. Len(stored) :
                 stored[i].kind = "human" /\ stored[i - 1].kind = "calls"
        \/ /\ call.stage # "first"
           /\ \E i \in DOMAIN stored : stored[i].asks > 1

\* Every run comes to an end, with an answer or with an error, however often the
\* model is cut off, overflows or fails: no recovery goes round in a circle.
RunsEnd == stage = "before" ~> stage \in {"waiting", "completed", "failed", "dead"}
=============================================================================

--------------------------- MODULE OutboxDelivery ---------------------------
(***************************************************************************)
(* How an event that was committed to message_outbox reaches its handler:  *)
(* OutboxDispatcher, the broker, and the receive, ack and retry calls of   *)
(* RocketMQMessageBus around a consumer's handler (lib/message_hub.py).    *)
(*                                                                         *)
(* A dispatcher's batch is one transaction, taken apart here because its   *)
(* messages reach the broker before it commits.  A consumer is one of the  *)
(* loops that receive, handle and ack (control and inbox loop, work loop   *)
(* of a runtime; the lead).  Every event has one consumer group; its       *)
(* messages are offered to the group's consumers only.                     *)
(*                                                                         *)
(* Bounds: a dispatcher's loop ends at most MaxDeaths times, and consumers *)
(* give up what they received at most MaxAbandons times.                   *)
(***************************************************************************)
EXTENDS Integers, FiniteSets, Sequences

CONSTANTS
    Event, Dispatcher, Consumer,
    NoConsumer,
    Group,          \* the consumers of each event's group
    MaxRetries,     \* MESSAGE_OUTBOX_MAX_RETRIES
    BatchSize,      \* the dispatcher's batch_size
    MaxMessages,    \* the subscription's max_messages
    Prompt,         \* is every message settled within receipt_timeout?
    MaxDeaths, MaxAbandons

ASSUME NullAssumption == NoConsumer \notin Consumer

ASSUME OutboxAssumption ==
    /\ Group \in [Event -> SUBSET Consumer]
    /\ MaxRetries \in Nat \ {0}
    /\ BatchSize \in Nat \ {0}
    /\ MaxMessages \in Nat \ {0}
    /\ Prompt \in BOOLEAN
    /\ MaxDeaths \in Nat
    /\ MaxAbandons \in Nat

VARIABLES
    outbox,     \* message_outbox: status and retry_count, "none" before the insert
    batch,      \* a dispatcher's open transaction: its locked rows, and what to write
    alive,      \* the dispatchers whose loop runs
    deaths,     \* how often a dispatcher's loop has ended
    copies,     \* the messages the broker accepted, in order
    inbox,      \* message_consumer_inbox, "none" for no row
    popped,     \* the messages a consumer has popped and not examined yet
    receipts,   \* the messages a consumer has claimed, and how far each one is:
                \* "received", "handled", "recorded" as consumed, "returned" for retry
    abandons,   \* how often a consumer gave up what it had received
    handled     \* the events each consumer's handler has dealt with

vars == <<outbox, batch, alive, deaths, copies, inbox, popped, receipts, abandons, handled>>
dispatcherVars == <<outbox, batch, alive, deaths>>
consumerVars == <<inbox, popped, receipts, abandons, handled>>

Nothing == [x \in {} |-> {}]

Init ==
    /\ outbox = [e \in Event |-> [status |-> "none", retries |-> 0]]
    /\ batch = [d \in Dispatcher |-> Nothing]
    /\ alive = Dispatcher
    /\ deaths = 0
    /\ copies = <<>>
    /\ inbox = [c \in Consumer |-> [e \in Event |-> "none"]]
    /\ popped = [c \in Consumer |-> {}]
    /\ receipts = [c \in Consumer |-> Nothing]
    /\ abandons = 0
    /\ handled = [c \in Consumer |-> {}]

-----------------------------------------------------------------------------
(* The dispatcher. *)

\* enqueue_outbox_event, in the transaction of the change it tells of.
Enqueue(e) ==
    /\ outbox[e].status = "none"
    /\ outbox' = [outbox EXCEPT ![e].status = "pending"]
    /\ UNCHANGED <<batch, alive, deaths, copies, consumerVars>>

\* Slip: the rows are read without a lock.
SelectableUnlocked == {e \in Event : outbox[e].status = "pending"}

\* Slip: a row that failed once is never due again.
SelectableOnce ==
    {e \in Event : /\ outbox[e].status = "pending" /\ outbox[e].retries = 0
                   /\ \A d \in Dispatcher : e \notin DOMAIN batch[d]}

\* The rows that FOR UPDATE SKIP LOCKED can return.  A row is due some time after
\* its last failure, so any of them may be left out.
Selectable ==
    {e \in Event : /\ outbox[e].status = "pending"
                   /\ \A d \in Dispatcher : e \notin DOMAIN batch[d]}

SelectBatch(d, S) ==
    /\ d \in alive /\ DOMAIN batch[d] = {}
    /\ S # {} /\ S \subseteq Selectable /\ Cardinality(S) <= BatchSize
    /\ batch' = [batch EXCEPT ![d] = [e \in S |-> "locked"]]
    /\ UNCHANGED <<outbox, alive, deaths, copies, consumerVars>>

Sent(e) == Append(copies, [event |-> e, at |-> "visible", reader |-> NoConsumer])

\* publish_outbox_record returns: the broker has the message.
Publish(d, e) ==
    /\ e \in DOMAIN batch[d] /\ batch[d][e] = "locked"
    /\ copies' = Sent(e)
    /\ batch' = [batch EXCEPT ![d][e] = "published"]
    /\ UNCHANGED <<outbox, alive, deaths, consumerVars>>

\* publish_outbox_record raises: the broker may have the message nevertheless.
PublishFails(d, e) ==
    /\ e \in DOMAIN batch[d] /\ batch[d][e] = "locked"
    /\ copies' \in {copies, Sent(e)}
    /\ batch' = [batch EXCEPT ![d][e] = "raised"]
    /\ UNCHANGED <<outbox, alive, deaths, consumerVars>>

\* The UPDATE of a row after its message was sent, or after the attempt raised.
Settled(row, outcome) ==
    IF outcome = "published"
    THEN [row EXCEPT !.status = "published"]
    ELSE [status |-> IF row.retries + 1 >= MaxRetries THEN "failed" ELSE "pending",
          retries |-> row.retries + 1]

CommitBatch(d) ==
    /\ DOMAIN batch[d] # {}
    /\ \A e \in DOMAIN batch[d] : batch[d][e] # "locked"
    /\ outbox' = [e \in Event |-> IF e \in DOMAIN batch[d]
                                  THEN Settled(outbox[e], batch[d][e])
                                  ELSE outbox[e]]
    /\ batch' = [batch EXCEPT ![d] = Nothing]
    /\ UNCHANGED <<alive, deaths, copies, consumerVars>>

\* The process crashes, or the database raises: run() has no handler, so its loop
\* is over.  The transaction is rolled back, the messages stay with the broker.
DispatcherEnds(d) ==
    /\ d \in alive /\ deaths < MaxDeaths
    /\ alive' = alive \ {d}
    /\ deaths' = deaths + 1
    /\ batch' = [batch EXCEPT ![d] = Nothing]
    /\ UNCHANGED <<outbox, copies, consumerVars>>

\* The process that owns the dispatcher is started again.
StartDispatcher(d) ==
    /\ d \notin alive
    /\ alive' = alive \cup {d}
    /\ UNCHANGED <<outbox, batch, deaths, copies, consumerVars>>

-----------------------------------------------------------------------------
(* A consumer. *)

EventOf(k) == copies[k].event
Idle(c) == popped[c] = {} /\ DOMAIN receipts[c] = {}

\* The receipt handle of message k is still valid for consumer c.
Holds(c, k) == copies[k].at = "hidden" /\ copies[k].reader = c

Forgotten(c, k) == [receipts EXCEPT ![c] = [j \in DOMAIN receipts[c] \ {k} |-> receipts[c][j]]]

Acked(k) == [copies EXCEPT ![k] = [@ EXCEPT !.at = "acked", !.reader = NoConsumer]]
Shown(k) == [copies EXCEPT ![k] = [@ EXCEPT !.at = "visible", !.reader = NoConsumer]]

\* Slip: the broker takes a message as consumed when it hands it out.
PoppedAndAcked(c, S) ==
    [k \in DOMAIN copies |-> IF k \in S THEN [copies[k] EXCEPT !.at = "acked", !.reader = c]
                             ELSE copies[k]]

\* The POP call hides the messages from the group for receipt_timeout seconds.
Hidden(c, S) ==
    [k \in DOMAIN copies |-> IF k \in S THEN [copies[k] EXCEPT !.at = "hidden", !.reader = c]
                             ELSE copies[k]]

\* Messages of one event are alike: the older ones are taken first.
Offered(c, k) == copies[k].at = "visible" /\ c \in Group[EventOf(k)]

Pop(c, S) ==
    /\ Idle(c)
    /\ S # {} /\ Cardinality(S) <= MaxMessages
    /\ \A k \in S : /\ Offered(c, k)
                   /\ \A j \in 1 .. k : EventOf(j) = EventOf(k) /\ Offered(c, j) => j \in S
    /\ popped' = [popped EXCEPT ![c] = S]
    /\ copies' = Hidden(c, S)
    /\ UNCHANGED <<dispatcherVars, inbox, receipts, abandons, handled>>

\* The INSERT ... ON CONFLICT DO NOTHING of _claim_delivery returns a row.
Claimable(c, e) == inbox[c][e] = "none"

\* _claim_delivery inserts the inbox row: this message is the one to be handled.
ClaimDelivery(c, k) ==
    /\ k \in popped[c]
    /\ Claimable(c, EventOf(k))
    /\ inbox' = [inbox EXCEPT ![c][EventOf(k)] = "processing"]
    /\ popped' = [popped EXCEPT ![c] = @ \ {k}]
    /\ receipts' = [receipts EXCEPT ![c] = [j \in DOMAIN @ \cup {k} |->
                                               IF j = k THEN "received" ELSE @[j]]]
    /\ UNCHANGED <<dispatcherVars, copies, abandons, handled>>

\* _claim_delivery found a row: the message is acked without being handled.
DropDuplicate(c, k) ==
    /\ k \in popped[c]
    /\ ~ Claimable(c, EventOf(k))
    /\ Holds(c, k)
    /\ copies' = Acked(k)
    /\ popped' = [popped EXCEPT ![c] = @ \ {k}]
    /\ UNCHANGED <<dispatcherVars, inbox, receipts, abandons, handled>>

\* The loop handles what receive returned one message after the other.
Turn(c, k) ==
    /\ popped[c] = {}
    /\ k \in DOMAIN receipts[c]
    /\ \A j \in DOMAIN receipts[c] \ {k} : receipts[c][j] = "received"

HandleMessage(c, k) ==
    /\ Turn(c, k) /\ receipts[c][k] = "received"
    /\ handled' = [handled EXCEPT ![c] = @ \cup {EventOf(k)}]
    /\ receipts' = [receipts EXCEPT ![c][k] = "handled"]
    /\ UNCHANGED <<dispatcherVars, copies, inbox, popped, abandons>>

\* ack: first the inbox row, in a transaction of its own, then the broker.
RecordConsumed(c, k) ==
    /\ Turn(c, k) /\ receipts[c][k] = "handled"
    /\ inbox' = [inbox EXCEPT ![c][EventOf(k)] = "consumed"]
    /\ receipts' = [receipts EXCEPT ![c][k] = "recorded"]
    /\ UNCHANGED <<dispatcherVars, copies, popped, abandons, handled>>

AckMessage(c, k) ==
    /\ Turn(c, k) /\ receipts[c][k] = "recorded"
    /\ Holds(c, k)
    /\ copies' = Acked(k)
    /\ receipts' = Forgotten(c, k)
    /\ UNCHANGED <<dispatcherVars, inbox, popped, abandons, handled>>

\* Slip: the row is deleted whatever its result.
Reopened(c, k) == [inbox EXCEPT ![c][EventOf(k)] = "none"]

\* Slip: the row stays.
NotReturned(c, k) == inbox

\* The DELETE of retry: only a row that is still in 'processing'.
Returned(c, k) ==
    [inbox EXCEPT ![c][EventOf(k)] = IF @ = "processing" THEN "none" ELSE @]

\* The handler raised, or one of the two steps of ack did: retry, again in two steps.
RequestRetry(c, k) ==
    /\ Turn(c, k) /\ receipts[c][k] \in {"received", "handled", "recorded"}
    /\ inbox' = Returned(c, k)
    /\ receipts' = [receipts EXCEPT ![c][k] = "returned"]
    /\ UNCHANGED <<dispatcherVars, copies, popped, abandons, handled>>

ReturnMessage(c, k) ==
    /\ Turn(c, k) /\ receipts[c][k] = "returned"
    /\ Holds(c, k)
    /\ copies' = Shown(k)
    /\ receipts' = Forgotten(c, k)
    /\ UNCHANGED <<dispatcherVars, inbox, popped, abandons, handled>>

\* The process crashes (and comes back under its name), or receive or retry raises
\* out of the loop over the messages: what was popped or claimed is forgotten.
Abandon(c) ==
    /\ ~ Idle(c) /\ abandons < MaxAbandons
    /\ popped' = [popped EXCEPT ![c] = {}]
    /\ receipts' = [receipts EXCEPT ![c] = Nothing]
    /\ abandons' = abandons + 1
    /\ UNCHANGED <<dispatcherVars, copies, inbox, handled>>

AtWork(c) == popped[c] \cup DOMAIN receipts[c]

\* receipt_timeout passes: the broker offers the message again.
ShowAgain(k) ==
    /\ copies[k].at = "hidden"
    /\ Prompt => k \notin AtWork(copies[k].reader)
    /\ copies' = Shown(k)
    /\ UNCHANGED <<dispatcherVars, consumerVars>>

DispatcherStep(d) ==
    \/ \E S \in SUBSET Selectable : SelectBatch(d, S)
    \/ \E e \in DOMAIN batch[d] : Publish(d, e) \/ PublishFails(d, e)
    \/ CommitBatch(d)

WorkOn(c, k) ==
    \/ ClaimDelivery(c, k) \/ DropDuplicate(c, k)
    \/ HandleMessage(c, k) \/ RecordConsumed(c, k) \/ AckMessage(c, k)
    \/ RequestRetry(c, k) \/ ReturnMessage(c, k)

ConsumerStep(c) ==
    \/ \E S \in SUBSET DOMAIN copies : Pop(c, S)
    \/ \E k \in AtWork(c) : WorkOn(c, k)

Next ==
    \/ \E e \in Event : Enqueue(e)
    \/ \E d \in Dispatcher : DispatcherStep(d) \/ DispatcherEnds(d) \/ StartDispatcher(d)
    \/ \E c \in Consumer : ConsumerStep(c) \/ Abandon(c)
    \/ \E k \in DOMAIN copies : ShowAgain(k)

Spec == Init /\ [][Next]_vars

\* A dispatcher that runs goes through the rows in order and commits, so a due row
\* is selected in the end; consumers poll for ever, and the broker offers the
\* messages of a group in order.
FairSpec ==
    /\ Spec
    /\ \A d \in Dispatcher :
          /\ \A e \in Event :
                /\ WF_vars(\E S \in SUBSET Selectable : e \in S /\ SelectBatch(d, S))
                /\ WF_vars(Publish(d, e) \/ PublishFails(d, e))
          /\ WF_vars(CommitBatch(d))
    /\ \A k \in 1 .. Cardinality(Event) * (MaxRetries + MaxDeaths) :
          /\ SF_vars(\E c \in Consumer, S \in SUBSET DOMAIN copies : k \in S /\ Pop(c, S))
          /\ \A c \in Consumer : WF_vars(WorkOn(c, k))

-----------------------------------------------------------------------------
(* What the delivery promises. *)

CopiesOf(e) == {k \in DOMAIN copies : copies[k].event = e}

\* Duplicates come from failures alone: besides its first message an event has at
\* most one for each recorded failure, each open attempt and each dead dispatcher.
DuplicatesComeFromFailures ==
    \A e \in Event :
        Cardinality(CopiesOf(e)) <= outbox[e].retries + deaths + 1

\* An event once recorded as consumed is never handed to that consumer's handler
\* again, whatever the broker redelivers and whichever step of the ack failed.
ConsumedIsFinal ==
    [][\A c \in Consumer, e \in Event : inbox[c][e] = "consumed" =>
          /\ inbox'[c][e] = "consumed"
          /\ \A k \in DOMAIN receipts'[c] :
                copies'[k].event = e => receipts'[c][k] \in {"recorded", "returned"}]_vars

\* An event whose messages are all acked was handled, or an inbox row left in
\* 'processing' tells which consumer dropped it.
LossIsOnRecord ==
    \A e \in Event :
        CopiesOf(e) # {} /\ (\A k \in CopiesOf(e) : copies[k].at = "acked") =>
            \E c \in Group[e] : e \in handled[c] \/ inbox[c][e] = "processing"

\* The broker gives up the last message of an event only after a consumer handled it.
NothingIsLost ==
    \A e \in Event :
        CopiesOf(e) # {} /\ (\A k \in CopiesOf(e) : copies[k].at = "acked") =>
            \E c \in Group[e] : e \in handled[c]

\* As long as one dispatcher runs, every event is published or given up after
\* MaxRetries attempts.
PendingIsSettled ==
    \A e \in Event :
        (\E d \in Dispatcher : <>[](d \in alive)) =>
            (outbox[e].status = "pending" ~> outbox[e].status \in {"published", "failed"})

\* A published event is handled, unless its handler keeps failing, by consumers that do
\* not crash in between: a crash between the claim of a delivery and its end loses the
\* event for good (NothingIsLost).
PublishedIsHandled ==
    \A e \in Event :
        \/ outbox[e].status = "published" ~> \E c \in Group[e] : e \in handled[c]
        \/ []<><<\E c \in Consumer : \E k \in DOMAIN receipts[c] :
                    EventOf(k) = e /\ RequestRetry(c, k)>>_vars
=============================================================================

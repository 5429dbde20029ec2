----------------------------- MODULE OutboxProofs -----------------------------
(***************************************************************************)
(* What OutboxDelivery promises for any number of events, dispatchers,     *)
(* consumers, failures and redeliveries, whether or not messages are       *)
(* settled within receipt_timeout.                                         *)
(***************************************************************************)
EXTENDS OutboxDelivery, FiniteSetTheorems, SequenceTheorems, TLAPS

-----------------------------------------------------------------------------
(* The messages. *)

CopyRow == [event : Event, at : {"visible", "hidden", "acked"}, reader : Consumer \cup {NoConsumer}]

\* Rewriting the rows of the messages leaves a sequence of messages.
LEMMA Rewritten ==
  ASSUME copies \in Seq(CopyRow), NEW rows \in [DOMAIN copies -> CopyRow]
  PROVE  rows \in Seq(CopyRow) /\ DOMAIN rows = DOMAIN copies
<1>1. Len(copies) \in Nat /\ DOMAIN copies = 1 .. Len(copies)
  BY LenProperties
<1>2. rows \in [1 .. Len(copies) -> CopyRow]
  BY <1>1
<1> QED
  BY <1>1, <1>2

\* What the broker does to a message keeps the event it carries.
LEMMA HiddenRows ==
  ASSUME copies \in Seq(CopyRow), NEW c \in Consumer, NEW S
  PROVE  /\ Hidden(c, S) \in Seq(CopyRow) /\ DOMAIN Hidden(c, S) = DOMAIN copies
         /\ \A j \in DOMAIN copies : Hidden(c, S)[j].event = copies[j].event
<1>1. \A j \in DOMAIN copies : copies[j] \in CopyRow
  BY LenProperties, ElementOfSeq
<1>2. \A j \in DOMAIN copies :
        /\ [copies[j] EXCEPT !.at = "hidden", !.reader = c] \in CopyRow
        /\ [copies[j] EXCEPT !.at = "hidden", !.reader = c].event = copies[j].event
  BY <1>1 DEF CopyRow
<1>3. /\ Hidden(c, S) \in [DOMAIN copies -> CopyRow]
      /\ \A j \in DOMAIN copies : Hidden(c, S)[j].event = copies[j].event
  BY <1>1, <1>2 DEF Hidden
<1> QED
  BY <1>3, Rewritten

\* An ack or a return changes one message, not its event.
LEMMA SettledRows ==
  ASSUME copies \in Seq(CopyRow), NEW k \in DOMAIN copies,
         NEW rows \in {Acked(k), Shown(k)}
  PROVE  /\ rows \in Seq(CopyRow) /\ DOMAIN rows = DOMAIN copies
         /\ \A j \in DOMAIN copies : rows[j].event = copies[j].event
<1>1. copies \in [DOMAIN copies -> CopyRow] /\ copies[k] \in CopyRow
  BY LenProperties, ElementOfSeq
<1>2. PICK row \in CopyRow : rows = [copies EXCEPT ![k] = row] /\ row.event = copies[k].event
  <2>1. \A at \in {"acked", "visible"} :
          /\ [copies[k] EXCEPT !.at = at, !.reader = NoConsumer] \in CopyRow
          /\ [copies[k] EXCEPT !.at = at, !.reader = NoConsumer].event = copies[k].event
    BY <1>1 DEF CopyRow
  <2> QED
    BY <2>1 DEF Acked, Shown
<1>3. rows \in [DOMAIN copies -> CopyRow] /\ \A j \in DOMAIN copies : rows[j].event = copies[j].event
  BY <1>1, <1>2
<1> QED
  BY <1>3, Rewritten

\* A published message is one more, and the last.
LEMMA SentRows ==
  ASSUME copies \in Seq(CopyRow), NEW e \in Event
  PROVE  /\ Sent(e) \in Seq(CopyRow)
         /\ \E k : /\ k \notin DOMAIN copies /\ DOMAIN Sent(e) = DOMAIN copies \cup {k}
                   /\ \A j \in DOMAIN copies : Sent(e)[j] = copies[j]
                   /\ Sent(e)[k] = [event |-> e, at |-> "visible", reader |-> NoConsumer]
<1>1. Len(copies) \in Nat /\ DOMAIN copies = 1 .. Len(copies)
  BY LenProperties
<1>2. [event |-> e, at |-> "visible", reader |-> NoConsumer] \in CopyRow
  BY DEF CopyRow
<1> DEFINE k == Len(copies) + 1
<1>3. /\ Sent(e) \in Seq(CopyRow)
      /\ k \notin DOMAIN copies /\ DOMAIN Sent(e) = DOMAIN copies \cup {k}
      /\ \A j \in DOMAIN copies : Sent(e)[j] = copies[j]
      /\ Sent(e)[k] = [event |-> e, at |-> "visible", reader |-> NoConsumer]
  BY <1>1, <1>2 DEF Sent
<1> HIDE DEF k
<1> QED
  BY <1>3

\* The messages of an event are finitely many.
LEMMA CopiesFinite ==
  ASSUME copies \in Seq(CopyRow), NEW e
  PROVE  IsFiniteSet(CopiesOf(e)) /\ Cardinality(CopiesOf(e)) \in Nat
<1>1. Len(copies) \in Nat /\ DOMAIN copies = 1 .. Len(copies)
  BY LenProperties
<1>2. IsFiniteSet(DOMAIN copies)
  BY <1>1, FS_Interval
<1>3. CopiesOf(e) \in SUBSET DOMAIN copies
  BY DEF CopiesOf
<1> QED
  BY <1>2, <1>3, FS_Subset, FS_CardinalityType

-----------------------------------------------------------------------------
(* Types. *)

DispatchTyped ==
    /\ outbox \in [Event -> [status : {"none", "pending", "published", "failed"}, retries : Nat]]
    /\ deaths \in Nat
    /\ copies \in Seq(CopyRow)
    /\ DOMAIN batch = Dispatcher
    /\ \A d \in Dispatcher : DOMAIN batch[d] \subseteq Event

Stage == {"received", "handled", "recorded", "returned"}

\* What a consumer works on are messages of its group.
ConsumerTyped ==
    /\ inbox \in [Consumer -> [Event -> {"none", "processing", "consumed"}]]
    /\ handled \in [Consumer -> SUBSET Event]
    /\ popped \in [Consumer -> SUBSET DOMAIN copies]
    /\ DOMAIN receipts = Consumer
    /\ \A c \in Consumer :
          /\ DOMAIN receipts[c] \subseteq DOMAIN copies
          /\ \A k \in DOMAIN receipts[c] : receipts[c][k] \in Stage
          /\ \A k \in AtWork(c) : c \in Group[EventOf(k)]

Typed == DispatchTyped /\ ConsumerTyped

\* A message carries an event.
LEMMA EventsOfCopies ==
  ASSUME copies \in Seq(CopyRow)
  PROVE  \A k \in DOMAIN copies : EventOf(k) \in Event /\ copies[k] \in CopyRow
<1>1. \A k \in DOMAIN copies : copies[k] \in CopyRow
  BY LenProperties, ElementOfSeq
<1> QED
  BY <1>1 DEF EventOf, CopyRow

\* A step that keeps the messages and what they carry keeps what consumers work on.
LEMMA WorkKept ==
  ASSUME Typed, DOMAIN copies \subseteq DOMAIN copies',
         \A k \in DOMAIN copies : copies'[k].event = copies[k].event,
         UNCHANGED consumerVars
  PROVE  ConsumerTyped'
<1>1. \A c \in Consumer : AtWork(c)' = AtWork(c) /\ AtWork(c) \subseteq DOMAIN copies
  BY DEF Typed, ConsumerTyped, AtWork, consumerVars
<1>2. \A c \in Consumer : \A k \in AtWork(c) : EventOf(k)' = EventOf(k)
  BY <1>1 DEF EventOf
<1> QED
  BY <1>1, <1>2 DEF Typed, ConsumerTyped, consumerVars

\* A step of one consumer that keeps the messages and adds nothing of another group to its work.
LEMMA WorkOfOne ==
  ASSUME Typed, NEW c \in Consumer, UNCHANGED dispatcherVars,
         copies' \in Seq(CopyRow), DOMAIN copies' = DOMAIN copies,
         \A k \in DOMAIN copies : copies'[k].event = copies[k].event,
         inbox' \in [Consumer -> [Event -> {"none", "processing", "consumed"}]],
         handled' \in [Consumer -> SUBSET Event],
         popped' \in [Consumer -> SUBSET DOMAIN copies],
         DOMAIN receipts' = Consumer,
         \A x \in Consumer \ {c} : popped'[x] = popped[x] /\ receipts'[x] = receipts[x],
         \A k \in DOMAIN receipts'[c] : receipts'[c][k] \in Stage,
         \A k \in popped'[c] \cup DOMAIN receipts'[c] : k \in DOMAIN copies /\ c \in Group[copies[k].event]
  PROVE  Typed'
<1>1. DispatchTyped'
  BY DEF Typed, DispatchTyped, dispatcherVars
<1>2. ASSUME NEW x \in Consumer
      PROVE  /\ DOMAIN receipts'[x] \subseteq DOMAIN copies
             /\ \A k \in DOMAIN receipts'[x] : receipts'[x][k] \in Stage
             /\ \A k \in popped'[x] \cup DOMAIN receipts'[x] :
                   k \in DOMAIN copies /\ x \in Group[copies[k].event]
  <2>1. CASE x = c
    BY <2>1
  <2>2. CASE x # c
    BY <2>2 DEF Typed, ConsumerTyped, AtWork, EventOf
  <2> QED
    BY <2>1, <2>2
<1>3. ConsumerTyped'
  BY <1>2 DEF ConsumerTyped, AtWork, EventOf
<1> QED
  BY <1>1, <1>3 DEF Typed

\* The broker's and the dispatchers' steps keep the types.
LEMMA DispatchType ==
  ASSUME Typed,
         \/ \E e \in Event : Enqueue(e)
         \/ \E d \in Dispatcher : DispatcherStep(d) \/ DispatcherEnds(d) \/ StartDispatcher(d)
         \/ \E k \in DOMAIN copies : ShowAgain(k)
  PROVE  Typed'
<1> USE DEF Typed
<1>1. ASSUME NEW e \in Event, Enqueue(e) PROVE Typed'
  BY <1>1, WorkKept DEF Enqueue, DispatchTyped
<1>2. ASSUME NEW d \in Dispatcher, NEW S, SelectBatch(d, S) PROVE Typed'
  <2>1. DispatchTyped'
    BY <1>2 DEF SelectBatch, DispatchTyped, Selectable
  <2> QED
    BY <1>2, <2>1, WorkKept DEF SelectBatch
<1>3. ASSUME NEW d \in Dispatcher, NEW e \in DOMAIN batch[d], Publish(d, e) \/ PublishFails(d, e) PROVE Typed'
  <2>1. e \in Event
    BY DEF DispatchTyped
  <2>2. /\ copies' \in Seq(CopyRow) /\ DOMAIN copies \subseteq DOMAIN copies'
        /\ \A k \in DOMAIN copies : copies'[k].event = copies[k].event
    <3>1. copies' = copies \/ copies' = Sent(e)
      BY <1>3 DEF Publish, PublishFails
    <3>2. copies \in Seq(CopyRow)
      BY DEF DispatchTyped
    <3> QED
      BY <2>1, <3>1, <3>2, SentRows
  <2>3. DispatchTyped'
    BY <1>3, <2>2 DEF Publish, PublishFails, DispatchTyped
  <2> QED
    BY <1>3, <2>2, <2>3, WorkKept DEF Publish, PublishFails
<1>4. ASSUME NEW d \in Dispatcher, CommitBatch(d) PROVE Typed'
  <2>1. \A e \in Event : \A x : Settled(outbox[e], x) \in
            [status : {"none", "pending", "published", "failed"}, retries : Nat]
    BY DEF DispatchTyped, Settled
  <2>2. DispatchTyped'
    BY <1>4, <2>1 DEF CommitBatch, DispatchTyped, Nothing
  <2> QED
    BY <1>4, <2>2, WorkKept DEF CommitBatch
<1>5. ASSUME NEW d \in Dispatcher, DispatcherEnds(d) \/ StartDispatcher(d) PROVE Typed'
  BY <1>5, WorkKept DEF DispatcherEnds, StartDispatcher, DispatchTyped, Nothing
<1>6. ASSUME NEW k \in DOMAIN copies, ShowAgain(k) PROVE Typed'
  <2>1. /\ copies' \in Seq(CopyRow) /\ DOMAIN copies' = DOMAIN copies
        /\ \A j \in DOMAIN copies : copies'[j].event = copies[j].event
    BY <1>6, SettledRows DEF ShowAgain, DispatchTyped
  <2>2. DispatchTyped'
    BY <1>6, <2>1 DEF ShowAgain, DispatchTyped, dispatcherVars
  <2> QED
    BY <1>6, <2>1, <2>2, WorkKept DEF ShowAgain
<1> QED
  BY <1>1, <1>2, <1>3, <1>4, <1>5, <1>6 DEF DispatcherStep

\* So do the steps of a consumer.
LEMMA ConsumerType ==
  ASSUME Typed, NEW c \in Consumer, ConsumerStep(c) \/ Abandon(c)
  PROVE  Typed'
<1> USE DEF Typed, DispatchTyped, ConsumerTyped
<1>0. /\ \A k \in DOMAIN copies : EventOf(k) \in Event
      /\ AtWork(c) \subseteq DOMAIN copies
      /\ \A k \in AtWork(c) : c \in Group[copies[k].event]
  BY EventsOfCopies DEF AtWork, EventOf
<1>1. ASSUME NEW S \in SUBSET DOMAIN copies, Pop(c, S) PROVE Typed'
  <2>1. \A k \in S : c \in Group[copies[k].event]
    BY <1>1 DEF Pop, Offered, EventOf
  <2>2. /\ popped' \in [Consumer -> SUBSET DOMAIN copies]
        /\ popped'[c] = S /\ DOMAIN receipts'[c] = {}
    BY <1>1 DEF Pop, Idle
  <2>3. \A x \in Consumer \ {c} : popped'[x] = popped[x] /\ receipts'[x] = receipts[x]
    BY <1>1 DEF Pop
  <2>4. /\ copies' \in Seq(CopyRow) /\ DOMAIN copies' = DOMAIN copies
        /\ \A k \in DOMAIN copies : copies'[k].event = copies[k].event
    BY <1>1, HiddenRows DEF Pop
  <2> QED
    BY <1>1, <2>1, <2>2, <2>3, <2>4, WorkOfOne DEF Pop
<1>2. ASSUME NEW k \in AtWork(c), ClaimDelivery(c, k) PROVE Typed'
  <2>1. /\ DOMAIN receipts'[c] = DOMAIN receipts[c] \cup {k}
        /\ \A j \in DOMAIN receipts'[c] : receipts'[c][j] \in Stage
        /\ DOMAIN receipts' = Consumer
    BY <1>2 DEF ClaimDelivery, Stage
  <2>2. \A x \in Consumer \ {c} : popped'[x] = popped[x] /\ receipts'[x] = receipts[x]
    BY <1>2 DEF ClaimDelivery
  <2>3. popped' \in [Consumer -> SUBSET DOMAIN copies] /\ popped'[c] \subseteq AtWork(c)
    BY <1>2 DEF ClaimDelivery, AtWork
  <2>4. inbox' \in [Consumer -> [Event -> {"none", "processing", "consumed"}]]
    BY <1>0, <1>2 DEF ClaimDelivery
  <2>5. \A j \in popped'[c] \cup DOMAIN receipts'[c] : j \in AtWork(c)
    BY <2>1, <2>3 DEF AtWork
  <2> QED
    <3>1. UNCHANGED <<dispatcherVars, copies, handled>>
      BY <1>2 DEF ClaimDelivery
    <3> QED
      BY <1>0, <2>1, <2>2, <2>3, <2>4, <2>5, <3>1, WorkOfOne
<1>3. ASSUME NEW k \in AtWork(c), DropDuplicate(c, k) PROVE Typed'
  <2>1. /\ copies' \in Seq(CopyRow) /\ DOMAIN copies' = DOMAIN copies
        /\ \A j \in DOMAIN copies : copies'[j].event = copies[j].event
    BY <1>0, <1>3, SettledRows DEF DropDuplicate
  <2>2. popped' \in [Consumer -> SUBSET DOMAIN copies] /\ popped'[c] \subseteq AtWork(c)
    BY <1>3 DEF DropDuplicate, AtWork
  <2>3. \A x \in Consumer \ {c} : popped'[x] = popped[x] /\ receipts'[x] = receipts[x]
    BY <1>3 DEF DropDuplicate
  <2>4. \A j \in popped'[c] \cup DOMAIN receipts'[c] : j \in AtWork(c)
    BY <1>3, <2>2 DEF DropDuplicate, AtWork
  <2> QED
    BY <1>0, <1>3, <2>1, <2>2, <2>3, <2>4, WorkOfOne DEF DropDuplicate
<1>4. ASSUME NEW k \in AtWork(c), HandleMessage(c, k) \/ RecordConsumed(c, k) \/ RequestRetry(c, k)
      PROVE Typed'
  <2>1. PICK stage \in Stage : receipts' = [receipts EXCEPT ![c][k] = stage]
    BY <1>4 DEF HandleMessage, RecordConsumed, RequestRetry, Stage
  <2>2. k \in DOMAIN receipts[c]
    BY <1>4 DEF HandleMessage, RecordConsumed, RequestRetry, Turn
  <2>3. /\ DOMAIN receipts' = Consumer /\ DOMAIN receipts'[c] = DOMAIN receipts[c]
        /\ \A j \in DOMAIN receipts'[c] : receipts'[c][j] \in Stage
        /\ \A x \in Consumer \ {c} : receipts'[x] = receipts[x]
    BY <2>1, <2>2
  <2>4. /\ inbox' \in [Consumer -> [Event -> {"none", "processing", "consumed"}]]
        /\ handled' \in [Consumer -> SUBSET Event]
    <3>1. EventOf(k) \in Event
      BY <1>0
    <3>2. CASE HandleMessage(c, k)
      BY <3>1, <3>2 DEF HandleMessage
    <3>3. CASE RecordConsumed(c, k)
      BY <3>1, <3>3 DEF RecordConsumed
    <3>4. CASE RequestRetry(c, k)
      BY <3>1, <3>4 DEF RequestRetry, Returned
    <3> QED
      BY <1>4, <3>2, <3>3, <3>4
  <2>5. \A j \in popped[c] \cup DOMAIN receipts'[c] : j \in AtWork(c)
    BY <2>3 DEF AtWork
  <2>6. UNCHANGED <<dispatcherVars, copies, popped>>
    BY <1>4 DEF HandleMessage, RecordConsumed, RequestRetry
  <2> QED
    BY <1>0, <2>3, <2>4, <2>5, <2>6, WorkOfOne
<1>5. ASSUME NEW k \in AtWork(c), AckMessage(c, k) \/ ReturnMessage(c, k) PROVE Typed'
  <2>1. receipts' = Forgotten(c, k) /\ UNCHANGED <<dispatcherVars, inbox, popped, handled>>
    BY <1>5 DEF AckMessage, ReturnMessage
  <2>2. /\ DOMAIN receipts' = Consumer /\ DOMAIN receipts'[c] = DOMAIN receipts[c] \ {k}
        /\ \A j \in DOMAIN receipts'[c] : receipts'[c][j] \in Stage
        /\ \A x \in Consumer \ {c} : receipts'[x] = receipts[x]
    BY <2>1 DEF Forgotten
  <2>3. \A j \in popped[c] \cup DOMAIN receipts'[c] : j \in AtWork(c)
    BY <2>2 DEF AtWork
  <2>4. /\ copies' \in Seq(CopyRow) /\ DOMAIN copies' = DOMAIN copies
        /\ \A j \in DOMAIN copies : copies'[j].event = copies[j].event
    <3>1. (copies' = Acked(k) \/ copies' = Shown(k)) /\ k \in DOMAIN copies
      BY <1>0, <1>5 DEF AckMessage, ReturnMessage
    <3> QED
      BY <3>1, SettledRows
  <2> QED
    BY <1>0, <2>1, <2>2, <2>3, <2>4, WorkOfOne
<1>6. ASSUME Abandon(c) PROVE Typed'
  <2>1. /\ DOMAIN receipts' = Consumer /\ DOMAIN receipts'[c] = {} /\ popped'[c] = {}
        /\ popped' \in [Consumer -> SUBSET DOMAIN copies]
        /\ \A x \in Consumer \ {c} : popped'[x] = popped[x] /\ receipts'[x] = receipts[x]
    BY <1>6 DEF Abandon, Nothing
  <2> QED
    BY <1>6, <2>1, WorkOfOne DEF Abandon
<1> QED
  BY <1>1, <1>2, <1>3, <1>4, <1>5, <1>6 DEF ConsumerStep, WorkOn

\* The types hold.
LEMMA TypedInit == Init => Typed
<1>1. ASSUME Init PROVE copies \in Seq(CopyRow) /\ DOMAIN copies = {}
  BY <1>1 DEF Init
<1> QED
  BY <1>1 DEF Init, Typed, DispatchTyped, ConsumerTyped, Nothing, AtWork

\* ... and every step keeps them.
LEMMA TypedNext == Typed /\ [Next]_vars => Typed'
<1>1. ASSUME Typed, UNCHANGED vars PROVE Typed'
  BY <1>1 DEF vars, Typed, DispatchTyped, ConsumerTyped, AtWork, EventOf
<1> QED
  BY <1>1, DispatchType, ConsumerType DEF Next

-----------------------------------------------------------------------------
(* How many messages an event can have.                                     *)

\* A locked row is pending, and locked by one dispatcher only.
LocksHold ==
    \A d \in Dispatcher : \A e \in DOMAIN batch[d] :
        /\ outbox[e].status = "pending"
        /\ \A x \in Dispatcher : e \in DOMAIN batch[x] => x = d

\* An open transaction has sent the event, or tried to.
Tried(e) == \E d \in Dispatcher : e \in DOMAIN batch[d] /\ batch[d][e] # "locked"

\* One message for each failure on record and each transaction that was lost, and
\* one for the attempt that is open or that succeeded.
Allowed(e) ==
    outbox[e].retries + deaths + IF Tried(e) \/ outbox[e].status = "published" THEN 1 ELSE 0

Counted == \A e \in Event : Cardinality(CopiesOf(e)) <= Allowed(e)

CountInv == Typed /\ LocksHold /\ Counted

\* A step of the broker or of a consumer sends nothing.
LEMMA NothingSent ==
  ASSUME Typed,
         \/ \E c \in Consumer : ConsumerStep(c) \/ Abandon(c)
         \/ \E k \in DOMAIN copies : ShowAgain(k)
  PROVE  /\ DOMAIN copies' = DOMAIN copies
         /\ \A k \in DOMAIN copies : copies'[k].event = copies[k].event
         /\ \A e : CopiesOf(e)' = CopiesOf(e)
         /\ UNCHANGED dispatcherVars
<1> USE DEF Typed, DispatchTyped
<1>0. \A c \in Consumer : AtWork(c) \subseteq DOMAIN copies
  BY DEF ConsumerTyped, AtWork
<1>1. ASSUME NEW c \in Consumer, NEW S, Pop(c, S)
      PROVE  /\ DOMAIN copies' = DOMAIN copies /\ \A k \in DOMAIN copies : copies'[k].event = copies[k].event
             /\ UNCHANGED dispatcherVars
  BY <1>1, HiddenRows DEF Pop
<1>2. ASSUME NEW c \in Consumer, NEW k \in AtWork(c), WorkOn(c, k)
      PROVE  /\ DOMAIN copies' = DOMAIN copies /\ \A j \in DOMAIN copies : copies'[j].event = copies[j].event
             /\ UNCHANGED dispatcherVars
  <2>1. k \in DOMAIN copies
    BY <1>0
  <2>2. (copies' = copies \/ copies' \in {Acked(k), Shown(k)}) /\ UNCHANGED dispatcherVars
    BY <1>2 DEF WorkOn, ClaimDelivery, DropDuplicate, HandleMessage, RecordConsumed, AckMessage,
                RequestRetry, ReturnMessage
  <2> QED
    BY <2>1, <2>2, SettledRows
<1>3. ASSUME NEW c \in Consumer, Abandon(c) PROVE copies' = copies /\ UNCHANGED dispatcherVars
  BY <1>3 DEF Abandon
<1>4. ASSUME NEW k \in DOMAIN copies, ShowAgain(k)
      PROVE  /\ DOMAIN copies' = DOMAIN copies /\ \A j \in DOMAIN copies : copies'[j].event = copies[j].event
             /\ UNCHANGED dispatcherVars
  BY <1>4, SettledRows DEF ShowAgain
<1>6. DOMAIN copies' = DOMAIN copies /\ \A k \in DOMAIN copies : copies'[k].event = copies[k].event
  BY <1>1, <1>2, <1>3, <1>4 DEF ConsumerStep
<1>7. UNCHANGED dispatcherVars
  BY <1>1, <1>2, <1>3, <1>4 DEF ConsumerStep
<1> QED
  BY <1>6, <1>7 DEF CopiesOf

\* The locks hold: a row is locked while it is pending, and settled by who locked it.
LEMMA LocksNext ==
  ASSUME CountInv, [Next]_vars
  PROVE  LocksHold'
<1> USE DEF CountInv, Typed, DispatchTyped, LocksHold
<1>1. ASSUME NEW e \in Event, Enqueue(e) PROVE LocksHold'
  BY <1>1 DEF Enqueue
<1>2. ASSUME NEW d \in Dispatcher, NEW S, SelectBatch(d, S) PROVE LocksHold'
  BY <1>2 DEF SelectBatch, Selectable
<1>3. ASSUME NEW d \in Dispatcher, NEW e \in DOMAIN batch[d], Publish(d, e) \/ PublishFails(d, e)
      PROVE LocksHold'
  <2>1. \A x \in Dispatcher : DOMAIN batch'[x] = DOMAIN batch[x]
    BY <1>3 DEF Publish, PublishFails
  <2>2. outbox' = outbox
    BY <1>3 DEF Publish, PublishFails
  <2> QED
    BY <2>1, <2>2
<1>4. ASSUME NEW d \in Dispatcher, CommitBatch(d) PROVE LocksHold'
  <2>1. \A x \in Dispatcher : DOMAIN batch'[x] = IF x = d THEN {} ELSE DOMAIN batch[x]
    BY <1>4 DEF CommitBatch, Nothing
  <2>2. \A x \in Dispatcher \ {d} : \A e \in DOMAIN batch[x] : outbox'[e] = outbox[e]
    BY <1>4 DEF CommitBatch
  <2>3. ASSUME NEW x \in Dispatcher, NEW e \in DOMAIN batch'[x]
        PROVE  /\ outbox'[e].status = "pending"
               /\ \A y \in Dispatcher : e \in DOMAIN batch'[y] => y = x
    <3>1. x # d /\ e \in DOMAIN batch[x]
      BY <2>1, <2>3
    <3> QED
      BY <2>1, <2>2, <3>1
  <2> QED
    BY <2>3
<1>5. ASSUME NEW d \in Dispatcher, DispatcherEnds(d) \/ StartDispatcher(d) PROVE LocksHold'
  <2>1. \A x \in Dispatcher : DOMAIN batch'[x] \subseteq DOMAIN batch[x]
    BY <1>5 DEF DispatcherEnds, StartDispatcher, Nothing
  <2>2. outbox' = outbox
    BY <1>5 DEF DispatcherEnds, StartDispatcher
  <2> QED
    BY <2>1, <2>2
<1>6. ASSUME UNCHANGED dispatcherVars PROVE LocksHold'
  BY <1>6 DEF dispatcherVars
<1> QED
  BY <1>1, <1>2, <1>3, <1>4, <1>5, <1>6, NothingSent DEF Next, DispatcherStep, vars, dispatcherVars

\* A message is sent only by an attempt that ends on record.
LEMMA CountNext ==
  ASSUME CountInv, [Next]_vars
  PROVE  Counted'
<1> USE DEF CountInv, Typed, DispatchTyped
<1>0. \A e \in Event : Cardinality(CopiesOf(e)) \in Nat
  BY CopiesFinite
<1>1. ASSUME NEW e \in Event, Enqueue(e) PROVE Counted'
  BY <1>1 DEF Enqueue, Counted, Allowed, Tried, CopiesOf
<1>2. ASSUME NEW d \in Dispatcher, NEW S, SelectBatch(d, S) PROVE Counted'
  <2>1. \A e \in Event : Tried(e) => Tried(e)'
    BY <1>2 DEF SelectBatch, Tried
  <2>2. UNCHANGED <<outbox, deaths>> /\ \A e : CopiesOf(e)' = CopiesOf(e)
    BY <1>2 DEF SelectBatch, CopiesOf
  <2>3. \A e \in Event : outbox[e].retries \in Nat
    OBVIOUS
  <2> QED
    BY <1>0, <2>1, <2>2, <2>3 DEF Counted, Allowed
<1>3. ASSUME NEW d \in Dispatcher, NEW e \in DOMAIN batch[d], Publish(d, e) \/ PublishFails(d, e)
      PROVE Counted'
  <2>1. e \in Event /\ batch[d][e] = "locked" /\ UNCHANGED <<outbox, deaths>>
    BY <1>3 DEF Publish, PublishFails
  <2>2. PICK result \in {"published", "raised"} : batch' = [batch EXCEPT ![d][e] = result]
    BY <1>3 DEF Publish, PublishFails
  <2>3. ~ Tried(e) /\ outbox[e].status = "pending"
    BY <2>1 DEF Tried, LocksHold
  <2>4. Tried(e)' /\ \A x \in Event : x # e => (Tried(x)' <=> Tried(x))
    BY <2>2 DEF Tried
  <2>5. Cardinality(CopiesOf(e)') \in {Cardinality(CopiesOf(e)), Cardinality(CopiesOf(e)) + 1}
    <3>1. CASE copies' = copies
      BY <3>1 DEF CopiesOf
    <3>2. CASE copies' = Sent(e)
      <4>1. PICK k : /\ k \notin DOMAIN copies /\ DOMAIN copies' = DOMAIN copies \cup {k}
                     /\ \A j \in DOMAIN copies : copies'[j] = copies[j]
                     /\ copies'[k].event = e
        <5>1. PICK k : /\ k \notin DOMAIN copies /\ DOMAIN Sent(e) = DOMAIN copies \cup {k}
                       /\ \A j \in DOMAIN copies : Sent(e)[j] = copies[j]
                       /\ Sent(e)[k] = [event |-> e, at |-> "visible", reader |-> NoConsumer]
          BY <2>1, SentRows
        <5>2. Sent(e)[k].event = e
          BY <5>1
        <5> QED
          BY <3>2, <5>1, <5>2
      <4>2. CopiesOf(e)' = CopiesOf(e) \cup {k}
        BY <4>1 DEF CopiesOf
      <4>3. IsFiniteSet(CopiesOf(e))
        BY CopiesFinite
      <4> QED
        BY <4>2, <4>3, FS_AddElement
    <3> QED
      BY <1>3, <3>1, <3>2 DEF Publish, PublishFails
  <2>6. \A x \in Event : x # e => CopiesOf(x)' = CopiesOf(x)
    <3>1. CASE copies' = copies
      BY <3>1 DEF CopiesOf
    <3>2. CASE copies' = Sent(e)
      <4>1. PICK k : /\ k \notin DOMAIN copies /\ DOMAIN copies' = DOMAIN copies \cup {k}
                     /\ \A j \in DOMAIN copies : copies'[j] = copies[j]
                     /\ copies'[k].event = e
        <5>1. PICK k : /\ k \notin DOMAIN copies /\ DOMAIN Sent(e) = DOMAIN copies \cup {k}
                       /\ \A j \in DOMAIN copies : Sent(e)[j] = copies[j]
                       /\ Sent(e)[k] = [event |-> e, at |-> "visible", reader |-> NoConsumer]
          BY <2>1, SentRows
        <5>2. Sent(e)[k].event = e
          BY <5>1
        <5> QED
          BY <3>2, <5>1, <5>2
      <4> QED
        BY <4>1 DEF CopiesOf
    <3> QED
      BY <1>3, <3>1, <3>2 DEF Publish, PublishFails
  <2>7. ASSUME NEW x \in Event PROVE (Cardinality(CopiesOf(x)) <= Allowed(x))'
    <3>1. CASE x = e
      <4>1. Cardinality(CopiesOf(e)) <= outbox[e].retries + deaths
        BY <2>1, <2>3 DEF Counted, Allowed
      <4>2. Allowed(e)' = outbox[e].retries + deaths + 1
        BY <2>1, <2>4 DEF Allowed
      <4> QED
        BY <1>0, <2>1, <2>5, <3>1, <4>1, <4>2
    <3>2. CASE x # e
      BY <2>1, <2>4, <2>6, <3>2 DEF Counted, Allowed
    <3> QED
      BY <3>1, <3>2
  <2> QED
    BY <2>7 DEF Counted
<1>4. ASSUME NEW d \in Dispatcher, CommitBatch(d) PROVE Counted'
  <2>1. ASSUME NEW e \in Event PROVE Allowed(e) <= Allowed(e)'
    <3>1. CASE e \in DOMAIN batch[d]
      <4>1. outbox'[e] = Settled(outbox[e], batch[d][e]) /\ deaths' = deaths
        BY <1>4, <3>1 DEF CommitBatch
      <4>2. Tried(e) /\ outbox[e].status = "pending"
        BY <1>4, <3>1 DEF CommitBatch, Tried, LocksHold
      <4>3. Allowed(e) = outbox[e].retries + deaths + 1
        BY <4>2 DEF Allowed
      <4>4. CASE batch[d][e] = "published"
        <5>1. outbox'[e].status = "published" /\ outbox'[e].retries = outbox[e].retries
          BY <4>1, <4>4 DEF Settled
        <5> QED
          BY <4>1, <4>3, <5>1 DEF Allowed
      <4>5. CASE batch[d][e] # "published"
        <5>1. outbox'[e].retries = outbox[e].retries + 1
          BY <4>1, <4>5 DEF Settled
        <5> QED
          BY <4>1, <4>3, <5>1 DEF Allowed
      <4> QED
        BY <4>4, <4>5
    <3>2. CASE e \notin DOMAIN batch[d]
      <4>1. outbox'[e] = outbox[e] /\ deaths' = deaths
        BY <1>4, <3>2 DEF CommitBatch
      <4>2. Tried(e) => Tried(e)'
        BY <1>4, <3>2 DEF CommitBatch, Tried
      <4> QED
        BY <4>1, <4>2 DEF Allowed
    <3> QED
      BY <3>1, <3>2
  <2>2. \A e \in Event : CopiesOf(e)' = CopiesOf(e) /\ Allowed(e) \in Nat /\ Allowed(e)' \in Nat
    BY <1>4, TypedNext DEF CommitBatch, CopiesOf, Allowed
  <2> QED
    BY <1>0, <2>1, <2>2 DEF Counted
<1>5. ASSUME NEW d \in Dispatcher, DispatcherEnds(d) PROVE Counted'
  <2>1. ASSUME NEW e \in Event PROVE (Cardinality(CopiesOf(e)) <= Allowed(e))'
    <3>1. CopiesOf(e)' = CopiesOf(e) /\ outbox' = outbox /\ deaths' = deaths + 1
      BY <1>5 DEF DispatcherEnds, CopiesOf
    <3> QED
      BY <1>0, <3>1 DEF Counted, Allowed
  <2> QED
    BY <2>1 DEF Counted
<1>6. ASSUME UNCHANGED <<outbox, batch, deaths>>, \A e : CopiesOf(e)' = CopiesOf(e) PROVE Counted'
  BY <1>6 DEF Counted, Allowed, Tried
<1>7. ASSUME NEW d \in Dispatcher, StartDispatcher(d) PROVE Counted'
  BY <1>6, <1>7 DEF StartDispatcher, CopiesOf
<1>8. ASSUME UNCHANGED vars PROVE Counted'
  BY <1>6, <1>8 DEF vars, CopiesOf
<1> QED
  BY <1>1, <1>2, <1>3, <1>4, <1>5, <1>6, <1>7, <1>8, NothingSent DEF Next, DispatcherStep, dispatcherVars

\* However dispatchers crash, are doubled or fail to learn that the broker accepted a
\* message: besides its first message, an event has at most one for each failure on
\* record and each dispatcher that died.
THEOREM DuplicatesBounded == Spec => []DuplicatesComeFromFailures
<1>1. Init => CountInv
  <2> SUFFICES ASSUME Init PROVE CountInv
    OBVIOUS
  <2>1. Typed
    BY TypedInit
  <2>2. LocksHold
    BY DEF Init, LocksHold, Nothing
  <2>3. \A e \in Event : CopiesOf(e) = {} /\ Allowed(e) \in Nat
    BY <2>1 DEF Init, CopiesOf, Allowed, Typed, DispatchTyped
  <2>4. Counted
    BY <2>3, FS_EmptySet DEF Counted
  <2> QED
    BY <2>1, <2>2, <2>4 DEF CountInv
<1>2. CountInv /\ [Next]_vars => CountInv'
  BY TypedNext, LocksNext, CountNext DEF CountInv
<1>3. CountInv => DuplicatesComeFromFailures
  <2> SUFFICES ASSUME CountInv, NEW e \in Event
               PROVE  Cardinality(CopiesOf(e)) <= outbox[e].retries + deaths + 1
    BY DEF DuplicatesComeFromFailures
  <2>1. Cardinality(CopiesOf(e)) \in Nat /\ outbox[e].retries \in Nat /\ deaths \in Nat
    BY CopiesFinite DEF CountInv, Typed, DispatchTyped
  <2> QED
    BY <2>1 DEF CountInv, Counted, Allowed
<1> QED
  BY <1>1, <1>2, <1>3, PTL DEF Spec

-----------------------------------------------------------------------------
(* What a consumer holds.                                                   *)

\* The receipts of a consumer in step with its inbox and its handler: one for an
\* event, taken up after the last message of the batch was examined.
Orderly(c) ==
    /\ popped[c] # {} => \A k \in DOMAIN receipts[c] : receipts[c][k] = "received"
    /\ \A j, k \in DOMAIN receipts[c] : EventOf(j) = EventOf(k) => j = k
    /\ \A k \in DOMAIN receipts[c] :
          /\ inbox[c][EventOf(k)] = "none" => receipts[c][k] = "returned"
          /\ inbox[c][EventOf(k)] = "consumed" => receipts[c][k] \in {"recorded", "returned"}
          /\ receipts[c][k] \in {"handled", "recorded"} => EventOf(k) \in handled[c]
    /\ \A e \in Event : inbox[c][e] = "consumed" => e \in handled[c]

ConsumerInv == Typed /\ \A c \in Consumer : Orderly(c)

\* Messages stay, and carry the same event.
LEMMA EventsKept ==
  ASSUME Typed, [Next]_vars
  PROVE  DOMAIN copies \subseteq DOMAIN copies' /\ \A k \in DOMAIN copies : EventOf(k)' = EventOf(k)
<1> USE DEF Typed, DispatchTyped
<1>1. ASSUME NEW d \in Dispatcher, NEW e \in DOMAIN batch[d], Publish(d, e) \/ PublishFails(d, e)
      PROVE  DOMAIN copies \subseteq DOMAIN copies' /\ \A k \in DOMAIN copies : copies'[k] = copies[k]
  <2>1. e \in Event
    OBVIOUS
  <2>2. copies' = copies \/ copies' = Sent(e)
    BY <1>1 DEF Publish, PublishFails
  <2> QED
    BY <2>1, <2>2, SentRows
<1>2. ASSUME UNCHANGED copies
      PROVE  DOMAIN copies \subseteq DOMAIN copies' /\ \A k \in DOMAIN copies : copies'[k] = copies[k]
  BY <1>2
<1>3. DOMAIN copies \subseteq DOMAIN copies' /\ \A k \in DOMAIN copies : copies'[k].event = copies[k].event
  BY <1>1, <1>2, NothingSent DEF Next, DispatcherStep, vars, Enqueue, SelectBatch, CommitBatch,
     DispatcherEnds, StartDispatcher
<1> QED
  BY <1>3 DEF EventOf

\* A consumer that does nothing stays as it is.
LEMMA OthersOrderly ==
  ASSUME ConsumerInv, [Next]_vars, NEW c \in Consumer,
         inbox'[c] = inbox[c], handled'[c] = handled[c],
         popped'[c] = popped[c], receipts'[c] = receipts[c]
  PROVE  Orderly(c)'
<1>1. \A k \in DOMAIN receipts[c] : EventOf(k)' = EventOf(k)
  BY EventsKept DEF ConsumerInv, Typed, ConsumerTyped
<1> QED
  BY <1>1 DEF ConsumerInv, Orderly

\* The step of a consumer keeps its own order.
LEMMA WorkOrderly ==
  ASSUME ConsumerInv, [Next]_vars, NEW c \in Consumer, NEW k \in AtWork(c), WorkOn(c, k)
  PROVE  Orderly(c)'
<1> USE DEF ConsumerInv, Typed, ConsumerTyped
<1>0. /\ \A j \in AtWork(c) : EventOf(j)' = EventOf(j)
      /\ EventOf(k) \in Event /\ DOMAIN receipts[c] \subseteq AtWork(c)
  BY EventsKept, EventsOfCopies DEF AtWork, DispatchTyped
<1>1. CASE ClaimDelivery(c, k)
  <2>1. /\ k \in popped[c] /\ inbox[c][EventOf(k)] = "none"
        /\ popped'[c] = popped[c] \ {k} /\ handled' = handled
    BY <1>1 DEF ClaimDelivery, Claimable
  <2>2. /\ DOMAIN receipts'[c] = DOMAIN receipts[c] \cup {k}
        /\ \A j \in DOMAIN receipts'[c] : receipts'[c][j] = IF j = k THEN "received" ELSE receipts[c][j]
    BY <1>1 DEF ClaimDelivery
  <2>3. \A e \in Event : inbox'[c][e] = IF e = EventOf(k) THEN "processing" ELSE inbox[c][e]
    BY <1>1 DEF ClaimDelivery
  <2>4. \A j \in DOMAIN receipts[c] : receipts[c][j] = "received" /\ EventOf(j) # EventOf(k)
    BY <2>1 DEF Orderly
  <2>5. \A j \in DOMAIN receipts[c] : EventOf(j) \in Event
    BY EventsOfCopies DEF DispatchTyped
  <2> QED
    BY <1>0, <2>1, <2>2, <2>3, <2>4, <2>5 DEF Orderly
<1>2. CASE DropDuplicate(c, k)
  <2>1. popped'[c] = popped[c] \ {k} /\ UNCHANGED <<inbox, receipts, handled>> /\ popped[c] # {}
    BY <1>2 DEF DropDuplicate
  <2> QED
    BY <1>0, <2>1 DEF Orderly
<1>3. CASE HandleMessage(c, k) \/ RecordConsumed(c, k) \/ RequestRetry(c, k)
  <2>1. k \in DOMAIN receipts[c] /\ popped[c] = {} /\ popped' = popped
    BY <1>3 DEF HandleMessage, RecordConsumed, RequestRetry, Turn
  <2>2. \A j \in DOMAIN receipts[c] : EventOf(j) \in Event /\ (j # k => EventOf(j) # EventOf(k))
    BY <2>1, EventsOfCopies DEF DispatchTyped, Orderly
  <2>3. CASE HandleMessage(c, k)
    <3>1. /\ handled'[c] = handled[c] \cup {EventOf(k)} /\ inbox' = inbox
          /\ DOMAIN receipts'[c] = DOMAIN receipts[c]
          /\ \A j \in DOMAIN receipts[c] : receipts'[c][j] = IF j = k THEN "handled" ELSE receipts[c][j]
          /\ receipts[c][k] = "received"
      BY <2>1, <2>3 DEF HandleMessage
    <3> QED
      BY <1>0, <2>1, <2>2, <3>1 DEF Orderly
  <2>4. CASE RecordConsumed(c, k)
    <3>1. /\ handled' = handled /\ receipts[c][k] = "handled"
          /\ \A e \in Event : inbox'[c][e] = IF e = EventOf(k) THEN "consumed" ELSE inbox[c][e]
          /\ DOMAIN receipts'[c] = DOMAIN receipts[c]
          /\ \A j \in DOMAIN receipts[c] : receipts'[c][j] = IF j = k THEN "recorded" ELSE receipts[c][j]
      BY <1>0, <2>1, <2>4 DEF RecordConsumed
    <3>2. EventOf(k) \in handled[c]
      BY <2>1, <3>1 DEF Orderly
    <3>3. \A j \in DOMAIN receipts[c] : EventOf(j)' = EventOf(j)
      BY <1>0
    <3>4. \A e \in Event : inbox'[c][e] = "consumed" => e \in handled'[c]
      BY <3>1, <3>2 DEF Orderly
    <3>5. ASSUME NEW j \in DOMAIN receipts[c]
          PROVE  /\ inbox'[c][EventOf(j)] = "none" => receipts'[c][j] = "returned"
                 /\ inbox'[c][EventOf(j)] = "consumed" => receipts'[c][j] \in {"recorded", "returned"}
                 /\ receipts'[c][j] \in {"handled", "recorded"} => EventOf(j) \in handled'[c]
      <4>1. CASE j = k
        BY <2>2, <3>1, <3>2, <4>1
      <4>2. CASE j # k
        BY <2>2, <3>1, <4>2 DEF Orderly
      <4> QED
        BY <4>1, <4>2
    <3> QED
      BY <2>1, <3>1, <3>3, <3>4, <3>5 DEF Orderly
  <2>5. CASE RequestRetry(c, k)
    <3>1. /\ handled' = handled
          /\ \A e \in Event : inbox'[c][e] = IF e = EventOf(k) /\ inbox[c][e] = "processing"
                                             THEN "none" ELSE inbox[c][e]
          /\ DOMAIN receipts'[c] = DOMAIN receipts[c]
          /\ \A j \in DOMAIN receipts[c] : receipts'[c][j] = IF j = k THEN "returned" ELSE receipts[c][j]
      BY <1>0, <2>1, <2>5 DEF RequestRetry, Returned
    <3> QED
      BY <1>0, <2>1, <2>2, <3>1 DEF Orderly
  <2> QED
    BY <1>3, <2>3, <2>4, <2>5
<1>4. CASE AckMessage(c, k) \/ ReturnMessage(c, k)
  <2>1. /\ DOMAIN receipts'[c] = DOMAIN receipts[c] \ {k}
        /\ \A j \in DOMAIN receipts'[c] : receipts'[c][j] = receipts[c][j]
        /\ popped[c] = {} /\ UNCHANGED <<inbox, popped, handled>>
    BY <1>4 DEF AckMessage, ReturnMessage, Forgotten, Turn
  <2> QED
    BY <1>0, <2>1 DEF Orderly
<1> QED
  BY <1>1, <1>2, <1>3, <1>4 DEF WorkOn

\* Every consumer stays orderly.
LEMMA ConsumerNext ==
  ASSUME ConsumerInv, [Next]_vars
  PROVE  ConsumerInv'
<1> USE DEF ConsumerInv, Typed, ConsumerTyped
<1>1. Typed'
  BY TypedNext
<1>2. ASSUME UNCHANGED consumerVars, NEW c \in Consumer PROVE Orderly(c)'
  BY <1>2, OthersOrderly DEF consumerVars
<1>3. ASSUME NEW x \in Consumer, NEW k \in AtWork(x), WorkOn(x, k), NEW c \in Consumer PROVE Orderly(c)'
  <2>1. CASE c = x
    BY <1>3, <2>1, WorkOrderly
  <2>2. CASE c # x
    <3>1. inbox'[c] = inbox[c] /\ handled'[c] = handled[c]
          /\ popped'[c] = popped[c] /\ receipts'[c] = receipts[c]
      BY <1>3, <2>2 DEF WorkOn, ClaimDelivery, DropDuplicate, HandleMessage, RecordConsumed,
         AckMessage, RequestRetry, ReturnMessage, Forgotten, Returned
    <3> QED
      BY <3>1, OthersOrderly
  <2> QED
    BY <2>1, <2>2
<1>4. ASSUME NEW x \in Consumer, Abandon(x) \/ (\E S \in SUBSET DOMAIN copies : Pop(x, S)),
             NEW c \in Consumer
      PROVE  Orderly(c)'
  <2>1. CASE c = x
    <3>1. DOMAIN receipts'[c] = {} /\ UNCHANGED <<inbox, handled>>
      BY <1>4, <2>1 DEF Abandon, Pop, Idle, Nothing
    <3> QED
      BY <3>1 DEF Orderly
  <2>2. CASE c # x
    <3>1. inbox'[c] = inbox[c] /\ handled'[c] = handled[c]
          /\ popped'[c] = popped[c] /\ receipts'[c] = receipts[c]
      BY <1>4, <2>2 DEF Abandon, Pop
    <3> QED
      BY <3>1, OthersOrderly
  <2> QED
    BY <2>1, <2>2
<1>5. CASE UNCHANGED consumerVars
  BY <1>1, <1>2, <1>5
<1>6. CASE \E x \in Consumer : ConsumerStep(x) \/ Abandon(x)
  BY <1>1, <1>3, <1>4, <1>6 DEF ConsumerStep
<1> QED
  BY <1>5, <1>6 DEF Next, DispatcherStep, vars, Enqueue, SelectBatch, Publish, PublishFails,
     CommitBatch, DispatcherEnds, StartDispatcher, ShowAgain, consumerVars

\* Nothing has been received.
LEMMA ConsumerInit == Init => ConsumerInv
<1> SUFFICES ASSUME Init PROVE ConsumerInv
  OBVIOUS
<1>1. Typed
  BY TypedInit
<1>2. \A c \in Consumer : /\ DOMAIN receipts[c] = {} /\ popped[c] = {}
                          /\ \A e \in Event : inbox[c][e] = "none"
  BY DEF Init, Nothing
<1> QED
  BY <1>1, <1>2 DEF ConsumerInv, Orderly

\* Nobody takes back what was recorded as consumed.
LEMMA ConsumedStays ==
  ASSUME ConsumerInv, [Next]_vars, NEW c \in Consumer, NEW e \in Event, inbox[c][e] = "consumed"
  PROVE  inbox'[c][e] = "consumed"
<1> USE DEF ConsumerInv, Typed, ConsumerTyped
<1>1. ASSUME UNCHANGED inbox PROVE inbox'[c][e] = "consumed"
  BY <1>1
<1>2. ASSUME NEW x \in Consumer, NEW k \in AtWork(x), ClaimDelivery(x, k) PROVE inbox'[c][e] = "consumed"
  BY <1>2 DEF ClaimDelivery, Claimable
<1>3. ASSUME NEW x \in Consumer, NEW k \in AtWork(x), RecordConsumed(x, k) \/ RequestRetry(x, k)
      PROVE  inbox'[c][e] = "consumed"
  BY <1>3 DEF RecordConsumed, RequestRetry, Returned
<1> QED
  BY <1>1, <1>2, <1>3 DEF Next, DispatcherStep, ConsumerStep, WorkOn, vars, consumerVars, Enqueue,
     SelectBatch, Publish, PublishFails, CommitBatch, DispatcherEnds, StartDispatcher, ShowAgain, Pop,
     DropDuplicate, HandleMessage, AckMessage, ReturnMessage, Abandon

\* An event recorded as consumed is never handed to the handler of that consumer
\* again, whatever is redelivered, and whichever step of an ack or of a retry fails.
THEOREM ConsumedOnce == Spec => ConsumedIsFinal
<1>1. ASSUME ConsumerInv, ConsumerInv', [Next]_vars, NEW c \in Consumer, NEW e \in Event,
             inbox[c][e] = "consumed"
      PROVE  /\ inbox'[c][e] = "consumed"
             /\ \A k \in DOMAIN receipts'[c] :
                   copies'[k].event = e => receipts'[c][k] \in {"recorded", "returned"}
  <2>1. inbox'[c][e] = "consumed"
    BY <1>1, ConsumedStays
  <2>2. Orderly(c)'
    BY <1>1 DEF ConsumerInv
  <2> QED
    BY <2>1, <2>2 DEF Orderly, EventOf
<1>2. ConsumerInv /\ ConsumerInv' /\ [Next]_vars =>
        [\A c \in Consumer, e \in Event : inbox[c][e] = "consumed" =>
           /\ inbox'[c][e] = "consumed"
           /\ \A k \in DOMAIN receipts'[c] :
                copies'[k].event = e => receipts'[c][k] \in {"recorded", "returned"}]_vars
  BY <1>1
<1>3. ConsumerInv /\ [Next]_vars => ConsumerInv'
  BY ConsumerNext
<1> QED
  BY <1>2, <1>3, ConsumerInit, PTL DEF Spec, ConsumedIsFinal

-----------------------------------------------------------------------------
(* Losses.  A message may be acked as a duplicate on the strength of an      *)
(* inbox row that a retry deletes later, so that a message is acked says     *)
(* nothing of the event.  The invariant names a message that is safe: one    *)
(* that no consumer is about to drop, nor will be after its next claim.      *)

\* What consumer c has popped of event e may be dropped: the inbox has a row, or will
\* have one for a message that c has lost to the broker.
AtRisk(c, e) ==
    \/ inbox[c][e] # "none"
    \/ \E k \in popped[c] : EventOf(k) = e /\ ~ Holds(c, k)

Safe(k, e) ==
    /\ copies[k].at # "acked"
    /\ \A c \in Consumer : k \in popped[c] /\ Holds(c, k) => ~ AtRisk(c, e)

\* A consumer has handled the event, or left a row in 'processing' for good.
Secured(e) ==
    \E c \in Group[e] :
        \/ e \in handled[c]
        \/ inbox[c][e] = "processing" /\ \A k \in DOMAIN receipts[c] : EventOf(k) # e

NotLost(e) == CopiesOf(e) = {} \/ Secured(e) \/ \E k \in CopiesOf(e) : Safe(k, e)

LossInv == ConsumerInv /\ \A e \in Event : NotLost(e)

\* A step after which the event is still secured, and a safe message still safe.
LEMMA StaysNotLost ==
  ASSUME LossInv, [Next]_vars, NEW e \in Event,
         CopiesOf(e)' = CopiesOf(e),
         Secured(e) => Secured(e)',
         \A k \in CopiesOf(e) : Safe(k, e) => Secured(e)' \/ \E j \in CopiesOf(e) : Safe(j, e)'
  PROVE  NotLost(e)'
BY DEF LossInv, NotLost

\* A message stays safe if it is left alone and no consumer that holds it comes into danger.
LEMMA StaysSafe ==
  ASSUME NEW e, NEW k, Safe(k, e), copies'[k] = copies[k],
         \A c \in Consumer : k \in popped'[c] /\ Holds(c, k) =>
            k \in popped[c] /\ (AtRisk(c, e)' => AtRisk(c, e))
  PROVE  Safe(k, e)'
<1>1. \A c : Holds(c, k)' <=> Holds(c, k)
  BY DEF Holds
<1> QED
  BY <1>1 DEF Safe

\* An event stays secured if the inbox row and the receipts that secure it stay.
LEMMA StaysSecured ==
  ASSUME LossInv, [Next]_vars, NEW e \in Event,
         \A c \in Consumer :
            /\ e \in handled[c] => e \in handled'[c]
            /\ inbox[c][e] = "processing" /\ (\A k \in DOMAIN receipts[c] : EventOf(k) # e) =>
                  /\ inbox'[c][e] = "processing"
                  /\ \A k \in DOMAIN receipts'[c] :
                        k \in DOMAIN receipts[c] \/ (k \in DOMAIN copies /\ EventOf(k) # e)
  PROVE  Secured(e) => Secured(e)'
<1>1. Group[e] \subseteq Consumer
  BY OutboxAssumption
<1>2. /\ \A k \in DOMAIN copies : EventOf(k)' = EventOf(k)
      /\ \A c \in Consumer : DOMAIN receipts[c] \subseteq DOMAIN copies
  BY EventsKept DEF LossInv, ConsumerInv, Typed, ConsumerTyped
<1> QED
  BY <1>1, <1>2 DEF Secured

\* A consumer comes into no danger if its inbox row stays and it loses no message.
LEMMA StaysFree ==
  ASSUME LossInv, [Next]_vars, NEW e \in Event, NEW c \in Consumer,
         inbox'[c][e] = inbox[c][e], popped'[c] \subseteq popped[c],
         \A k \in popped'[c] : EventOf(k) = e /\ Holds(c, k) => copies'[k] = copies[k]
  PROVE  AtRisk(c, e)' => AtRisk(c, e)
<1>1. \A k \in popped'[c] : k \in popped[c] /\ EventOf(k)' = EventOf(k)
  BY EventsKept DEF LossInv, ConsumerInv, Typed, ConsumerTyped
<1>2. \A k : copies'[k] = copies[k] => (Holds(c, k)' <=> Holds(c, k))
  BY DEF Holds
<1> QED
  BY <1>1, <1>2 DEF AtRisk

\* A step that touches the messages of one event only loses no other event.
LEMMA OthersNotLost ==
  ASSUME LossInv, [Next]_vars, NEW e \in Event, UNCHANGED <<inbox, popped, handled>>,
         CopiesOf(e)' = CopiesOf(e), \A k \in CopiesOf(e) : copies'[k] = copies[k],
         \A c \in Consumer : DOMAIN receipts'[c] \subseteq DOMAIN receipts[c]
  PROVE  NotLost(e)'
<1>1. Secured(e) => Secured(e)'
  BY StaysSecured
<1>2. \A c \in Consumer : popped[c] \subseteq DOMAIN copies
  BY DEF LossInv, ConsumerInv, Typed, ConsumerTyped
<1>3. \A k \in DOMAIN copies : EventOf(k) = e => k \in CopiesOf(e)
  BY DEF CopiesOf, EventOf
<1>4. \A c \in Consumer : AtRisk(c, e)' => AtRisk(c, e)
  BY <1>2, <1>3, StaysFree
<1>5. ASSUME NEW k \in CopiesOf(e), Safe(k, e) PROVE Safe(k, e)'
  BY <1>4, <1>5, StaysSafe
<1> QED
  BY <1>1, <1>5, StaysNotLost

\* A dispatcher sends messages that are safe, and leaves the others alone.
LEMMA LossSent ==
  ASSUME LossInv, [Next]_vars, NEW e \in Event, UNCHANGED consumerVars,
         copies' = copies \/ \E x \in Event : copies' = Sent(x)
  PROVE  NotLost(e)'
<1> USE DEF LossInv, ConsumerInv, Typed, DispatchTyped, ConsumerTyped
<1>1. CASE copies' = copies
  <2>1. CopiesOf(e)' = CopiesOf(e) /\ \A k \in CopiesOf(e) : copies'[k] = copies[k]
    BY <1>1 DEF CopiesOf
  <2> QED
    BY <2>1, OthersNotLost DEF consumerVars
<1>2. ASSUME NEW x \in Event, copies' = Sent(x) PROVE NotLost(e)'
  <2>1. PICK k : /\ k \notin DOMAIN copies /\ DOMAIN Sent(x) = DOMAIN copies \cup {k}
                 /\ \A j \in DOMAIN copies : Sent(x)[j] = copies[j]
                 /\ Sent(x)[k] = [event |-> x, at |-> "visible", reader |-> NoConsumer]
    BY SentRows
  <2>2. /\ DOMAIN copies' = DOMAIN copies \cup {k}
        /\ \A j \in DOMAIN copies : copies'[j] = copies[j]
        /\ copies'[k].event = x /\ copies'[k].at = "visible"
    <3>1. Sent(x)[k].event = x /\ Sent(x)[k].at = "visible"
      BY <2>1
    <3> QED
      BY <1>2, <2>1, <3>1
  <2>3. CASE x = e
    <3>1. k \in CopiesOf(e)'
      BY <2>2, <2>3 DEF CopiesOf
    <3>2. Safe(k, e)'
      BY <2>2 DEF Safe, Holds
    <3> QED
      BY <3>1, <3>2 DEF NotLost
  <2>4. CASE x # e
    <3>1. CopiesOf(e)' = CopiesOf(e) /\ \A j \in CopiesOf(e) : copies'[j] = copies[j]
      BY <2>2, <2>4 DEF CopiesOf
    <3> QED
      BY <3>1, OthersNotLost DEF consumerVars
  <2> QED
    BY <2>3, <2>4
<1> QED
  BY <1>1, <1>2

\* A message that the broker offers again is safe.
LEMMA LossShown ==
  ASSUME LossInv, [Next]_vars, NEW e \in Event, NEW k \in DOMAIN copies,
         \/ ShowAgain(k)
         \/ \E c \in Consumer : ReturnMessage(c, k) /\ ConsumerStep(c)
  PROVE  NotLost(e)'
<1> USE DEF LossInv, ConsumerInv, Typed, DispatchTyped, ConsumerTyped
<1>1. CopiesOf(e)' = CopiesOf(e)
  BY NothingSent
<1>2. copies' = Shown(k) /\ UNCHANGED <<inbox, popped, handled>>
  BY DEF ShowAgain, ReturnMessage, consumerVars
<1>3. \A c \in Consumer : DOMAIN receipts'[c] \subseteq DOMAIN receipts[c]
  <2>1. CASE ShowAgain(k)
    <3>1. receipts' = receipts
      BY <2>1 DEF ShowAgain, consumerVars
    <3> QED
      BY <3>1
  <2>2. ASSUME NEW c \in Consumer, ReturnMessage(c, k), NEW d \in Consumer
        PROVE  DOMAIN receipts'[d] \subseteq DOMAIN receipts[d]
    <3>1. receipts' = Forgotten(c, k) /\ DOMAIN receipts = Consumer
      BY <2>2 DEF ReturnMessage
    <3>2. receipts'[d] = receipts[d] \/ receipts'[d] = [j \in DOMAIN receipts[d] \ {k} |-> receipts[d][j]]
      BY <3>1 DEF Forgotten
    <3> QED
      BY <3>2
  <2> QED
    BY <2>1, <2>2
<1>4. copies[k] \in CopyRow
  BY EventsOfCopies
<1>5. CASE k \in CopiesOf(e)
  <2>1. copies'[k].at = "visible"
    BY <1>2, <1>4 DEF Shown, CopyRow
  <2>2. Safe(k, e)'
    BY <2>1 DEF Safe, Holds
  <2> QED
    BY <1>1, <1>5, <2>2 DEF NotLost
<1>6. CASE k \notin CopiesOf(e)
  <2>1. \A j \in CopiesOf(e) : copies'[j] = copies[j]
    BY <1>2, <1>6 DEF Shown, CopiesOf
  <2> QED
    BY <1>1, <1>2, <1>3, <2>1, OthersNotLost
<1> QED
  BY <1>5, <1>6

\* What is popped was visible, and safe with nobody in danger; either it stays so, or the
\* consumer has the event on its record.
LEMMA LossPopped ==
  ASSUME LossInv, [Next]_vars, NEW e \in Event, NEW c \in Consumer,
         NEW S \in SUBSET DOMAIN copies, Pop(c, S)
  PROVE  NotLost(e)'
<1> USE DEF LossInv, ConsumerInv, Typed, DispatchTyped, ConsumerTyped
<1>1. CopiesOf(e)' = CopiesOf(e)
  BY NothingSent DEF ConsumerStep
<1>2. /\ popped[c] = {} /\ DOMAIN receipts[c] = {} /\ popped' = [popped EXCEPT ![c] = S]
      /\ UNCHANGED <<inbox, receipts, handled>> /\ copies' = Hidden(c, S)
      /\ \A k \in S : copies[k].at = "visible" /\ c \in Group[EventOf(k)]
  BY DEF Pop, Idle, Offered
<1>3. /\ \A k \in DOMAIN copies \ S : copies'[k] = copies[k]
      /\ \A k \in S : copies'[k].at = "hidden" /\ copies'[k].reader = c
  <2>1. \A k \in S : copies[k] \in CopyRow
    BY EventsOfCopies
  <2>2. \A k \in S : /\ [copies[k] EXCEPT !.at = "hidden", !.reader = c].at = "hidden"
                     /\ [copies[k] EXCEPT !.at = "hidden", !.reader = c].reader = c
    BY <2>1 DEF CopyRow
  <2> QED
    BY <1>2, <2>2 DEF Hidden
<1>4. Secured(e) => Secured(e)'
  BY <1>2, StaysSecured
<1>5. ASSUME NEW x \in Consumer \ {c} PROVE AtRisk(x, e)' => AtRisk(x, e)
  BY <1>2, <1>3, StaysFree DEF Holds
<1>6. ASSUME NEW y \in CopiesOf(e), Safe(y, e) PROVE Safe(y, e)' \/ Secured(e)'
  <2>1. y \in DOMAIN copies /\ EventOf(y) = e
    BY DEF CopiesOf, EventOf
  <2>2. CASE y \notin S
    <3>1. copies'[y] = copies[y] /\ \A x \in Consumer : y \in popped'[x] => x # c /\ y \in popped[x]
      BY <1>2, <1>3, <2>1, <2>2
    <3> QED
      BY <1>5, <1>6, <3>1, StaysSafe
  <2>3. CASE y \in S /\ inbox[c][e] = "none"
    <3>1. ~ AtRisk(c, e)'
      BY <1>2, <1>3, <2>3 DEF AtRisk, Holds
    <3>2. copies'[y].at = "hidden" /\ \A x \in Consumer : Holds(x, y)' => x = c
      BY <1>3, <2>3 DEF Holds
    <3> QED
      BY <3>1, <3>2 DEF Safe
  <2>4. CASE y \in S /\ inbox[c][e] = "processing"
    <3>1. c \in Group[e] /\ Secured(e)
      BY <1>2, <2>1, <2>4 DEF Secured
    <3> QED
      BY <1>4, <3>1
  <2>5. CASE y \in S /\ inbox[c][e] = "consumed"
    <3>1. c \in Group[e] /\ e \in handled[c]
      BY <1>2, <2>1, <2>5 DEF Orderly
    <3> QED
      BY <1>4, <3>1 DEF Secured
  <2> QED
    BY <2>2, <2>3, <2>4, <2>5
<1> QED
  BY <1>1, <1>4, <1>6, StaysNotLost

\* The claim of a message is the record of the others that the consumer popped: if it
\* had a safe one among them, the claimed message is safe now.
LEMMA LossClaimed ==
  ASSUME LossInv, [Next]_vars, NEW e \in Event, NEW c \in Consumer,
         NEW k \in AtWork(c), ClaimDelivery(c, k)
  PROVE  NotLost(e)'
<1> USE DEF LossInv, ConsumerInv, Typed, DispatchTyped, ConsumerTyped
<1>1. CopiesOf(e)' = CopiesOf(e)
  BY NothingSent DEF ConsumerStep, WorkOn
<1>2. /\ k \in popped[c] /\ k \in DOMAIN copies
      /\ \E x \in Event : /\ x = EventOf(k) /\ inbox[c][x] = "none"
                          /\ inbox' = [inbox EXCEPT ![c][x] = "processing"]
      /\ popped' = [popped EXCEPT ![c] = @ \ {k}]
      /\ UNCHANGED <<copies, handled>>
  BY EventsOfCopies DEF ClaimDelivery, Claimable
<1>3. PICK x \in Event : /\ x = EventOf(k) /\ inbox[c][x] = "none"
                         /\ inbox' = [inbox EXCEPT ![c][x] = "processing"]
  BY <1>2
<1>4. DOMAIN receipts'[c] = DOMAIN receipts[c] \cup {k} /\ \A d \in Consumer \ {c} : receipts'[d] = receipts[d]
  BY DEF ClaimDelivery
<1>5. Secured(e) => Secured(e)'
  <2>1. \A d \in Consumer : inbox[d][e] = "processing" =>
            /\ inbox'[d][e] = "processing"
            /\ \A j \in DOMAIN receipts'[d] :
                  j \in DOMAIN receipts[d] \/ (j \in DOMAIN copies /\ EventOf(j) # e)
    BY <1>2, <1>3, <1>4
  <2> QED
    BY <1>2, <2>1, StaysSecured
<1>6. ASSUME NEW d \in Consumer, d # c \/ x # e PROVE AtRisk(d, e)' => AtRisk(d, e)
  <2>1. inbox'[d][e] = inbox[d][e] /\ popped'[d] \subseteq popped[d]
    BY <1>2, <1>3, <1>6
  <2> QED
    BY <1>2, <2>1, StaysFree
<1>7. ASSUME NEW y \in CopiesOf(e), Safe(y, e) PROVE \E j \in CopiesOf(e) : Safe(j, e)'
  <2>1. CASE x = e /\ y \in popped[c] /\ Holds(c, y)
    <3>1. k \in CopiesOf(e) /\ Holds(c, k)
      BY <1>2, <1>3, <1>7, <2>1 DEF Safe, AtRisk, CopiesOf, EventOf
    <3>2. copies'[k].at = "hidden" /\ \A d \in Consumer : Holds(d, k)' => d = c
      BY <1>2, <3>1 DEF Holds
    <3>3. k \notin popped'[c]
      BY <1>2
    <3>4. Safe(k, e)'
      BY <3>2, <3>3 DEF Safe
    <3> QED
      BY <3>1, <3>4
  <2>2. CASE x # e \/ ~ (y \in popped[c] /\ Holds(c, y))
    <3>1. \A d \in Consumer : y \in popped'[d] /\ Holds(d, y) =>
             y \in popped[d] /\ (AtRisk(d, e)' => AtRisk(d, e))
      BY <1>2, <1>6, <2>2
    <3> QED
      BY <1>2, <1>7, <3>1, StaysSafe
  <2> QED
    BY <2>1, <2>2
<1> QED
  BY <1>1, <1>5, <1>7, StaysNotLost

\* A message dropped as a duplicate was not safe.
LEMMA LossDropped ==
  ASSUME LossInv, [Next]_vars, NEW e \in Event, NEW c \in Consumer,
         NEW k \in AtWork(c), DropDuplicate(c, k)
  PROVE  NotLost(e)'
<1> USE DEF LossInv, ConsumerInv, Typed, DispatchTyped, ConsumerTyped
<1>1. CopiesOf(e)' = CopiesOf(e)
  BY NothingSent DEF ConsumerStep, WorkOn
<1>2. /\ k \in popped[c] /\ k \in DOMAIN copies /\ inbox[c][EventOf(k)] # "none" /\ Holds(c, k)
      /\ popped' = [popped EXCEPT ![c] = @ \ {k}]
      /\ UNCHANGED <<inbox, receipts, handled>>
  BY DEF DropDuplicate, Claimable
<1>3. \A j \in DOMAIN copies \ {k} : copies'[j] = copies[j]
  BY DEF DropDuplicate, Acked
<1>4. Secured(e) => Secured(e)'
  BY <1>2, StaysSecured
<1>5. ASSUME NEW x \in Consumer PROVE AtRisk(x, e)' => AtRisk(x, e)
  <2>1. /\ popped'[x] \subseteq popped[x] /\ inbox'[x][e] = inbox[x][e]
        /\ \A j \in popped'[x] : Holds(x, j) => j # k
    BY <1>2 DEF Holds
  <2> QED
    BY <1>3, <2>1, StaysFree
<1>6. ASSUME NEW y \in CopiesOf(e), Safe(y, e) PROVE Safe(y, e)'
  <2>1. y # k /\ y \in DOMAIN copies
    BY <1>2, <1>6 DEF Safe, AtRisk, CopiesOf, EventOf
  <2>2. \A x \in Consumer : y \in popped'[x] => y \in popped[x]
    BY <1>2
  <2> QED
    BY <1>3, <1>5, <1>6, <2>1, <2>2, StaysSafe
<1> QED
  BY <1>1, <1>4, <1>6, StaysNotLost

\* While a consumer handles what it has claimed it has nothing to drop.
LEMMA LossHandled ==
  ASSUME LossInv, [Next]_vars, NEW e \in Event, NEW c \in Consumer, NEW k \in AtWork(c),
         HandleMessage(c, k) \/ RecordConsumed(c, k) \/ RequestRetry(c, k)
  PROVE  NotLost(e)'
<1> USE DEF LossInv, ConsumerInv, Typed, DispatchTyped, ConsumerTyped
<1>1. CopiesOf(e)' = CopiesOf(e)
  BY NothingSent DEF ConsumerStep, WorkOn
<1>2. /\ UNCHANGED <<copies, popped>> /\ popped[c] = {} /\ k \in DOMAIN receipts[c]
      /\ \A x \in Consumer \ {c} : inbox'[x] = inbox[x]
      /\ \A x \in Consumer : handled[x] \subseteq handled'[x] /\ DOMAIN receipts'[x] = DOMAIN receipts[x]
  <2>1. UNCHANGED <<copies, popped>> /\ popped[c] = {} /\ k \in DOMAIN receipts[c]
    BY DEF HandleMessage, RecordConsumed, RequestRetry, Turn
  <2>2. \A x \in Consumer \ {c} : inbox'[x] = inbox[x]
    BY DEF HandleMessage, RecordConsumed, RequestRetry, Returned
  <2>3. \A x \in Consumer : handled[x] \subseteq handled'[x]
    BY DEF HandleMessage, RecordConsumed, RequestRetry
  <2>4. PICK stage : receipts' = [receipts EXCEPT ![c][k] = stage]
    BY DEF HandleMessage, RecordConsumed, RequestRetry
  <2>5. \A x \in Consumer : DOMAIN receipts'[x] = DOMAIN receipts[x]
    BY <2>4
  <2> QED
    BY <2>1, <2>2, <2>3, <2>5
<1>3. EventOf(k) # e => inbox'[c][e] = inbox[c][e]
  BY DEF HandleMessage, RecordConsumed, RequestRetry, Returned
<1>4. Secured(e) => Secured(e)'
  BY <1>2, <1>3, StaysSecured
<1>5. ASSUME NEW x \in Consumer \ {c} PROVE AtRisk(x, e)' => AtRisk(x, e)
  BY <1>2, StaysFree
<1>6. ASSUME NEW y \in CopiesOf(e), Safe(y, e) PROVE Safe(y, e)'
  BY <1>2, <1>5, <1>6, StaysSafe
<1> QED
  BY <1>1, <1>4, <1>6, StaysNotLost

\* An event is acked for what it is after it was handled.
LEMMA LossAcked ==
  ASSUME LossInv, [Next]_vars, NEW e \in Event, NEW c \in Consumer,
         NEW k \in AtWork(c), AckMessage(c, k)
  PROVE  NotLost(e)'
<1> USE DEF LossInv, ConsumerInv, Typed, DispatchTyped, ConsumerTyped
<1>1. CopiesOf(e)' = CopiesOf(e)
  BY NothingSent DEF ConsumerStep, WorkOn
<1>2. /\ k \in DOMAIN receipts[c] /\ k \in DOMAIN copies /\ receipts[c][k] = "recorded"
      /\ UNCHANGED <<inbox, popped, handled>>
      /\ \A j \in DOMAIN copies \ {k} : copies'[j] = copies[j]
      /\ \A x \in Consumer : DOMAIN receipts'[x] \subseteq DOMAIN receipts[x]
  BY DEF AckMessage, Turn, Forgotten, Acked
<1>3. CASE EventOf(k) = e
  <2>1. e \in handled[c] /\ c \in Group[e]
    BY <1>2, <1>3 DEF Orderly
  <2> QED
    BY <1>2, <2>1 DEF NotLost, Secured
<1>4. CASE EventOf(k) # e
  <2>1. \A j \in CopiesOf(e) : copies'[j] = copies[j]
    BY <1>2, <1>4 DEF CopiesOf, EventOf
  <2> QED
    BY <1>1, <1>2, <2>1, OthersNotLost
<1> QED
  BY <1>3, <1>4

\* A consumer that forgets its messages drops none of them.
LEMMA LossAbandoned ==
  ASSUME LossInv, [Next]_vars, NEW e \in Event, NEW c \in Consumer, Abandon(c)
  PROVE  NotLost(e)'
<1> USE DEF LossInv, ConsumerInv, Typed, DispatchTyped, ConsumerTyped
<1>1. /\ UNCHANGED <<copies, inbox, handled>>
      /\ \A x \in Consumer : /\ popped'[x] \subseteq popped[x]
                             /\ DOMAIN receipts'[x] \subseteq DOMAIN receipts[x]
  BY DEF Abandon, Nothing
<1>2. CopiesOf(e)' = CopiesOf(e)
  BY NothingSent
<1>3. Secured(e) => Secured(e)'
  BY <1>1, StaysSecured
<1>4. ASSUME NEW x \in Consumer PROVE AtRisk(x, e)' => AtRisk(x, e)
  BY <1>1, StaysFree
<1>5. ASSUME NEW y \in CopiesOf(e), Safe(y, e) PROVE Safe(y, e)'
  BY <1>1, <1>4, <1>5, StaysSafe
<1> QED
  BY <1>2, <1>3, <1>5, StaysNotLost

\* No step loses an event.
LEMMA LossNext ==
  ASSUME LossInv, [Next]_vars
  PROVE  LossInv'
<1>1. ConsumerInv'
  BY ConsumerNext DEF LossInv
<1>2. ASSUME NEW e \in Event PROVE NotLost(e)'
  <2>1. ASSUME UNCHANGED vars \/ \E x \in Event : Enqueue(x) PROVE NotLost(e)'
    BY <2>1, LossSent DEF vars, consumerVars, Enqueue
  <2>2. ASSUME NEW d \in Dispatcher, DispatcherStep(d) \/ DispatcherEnds(d) \/ StartDispatcher(d)
        PROVE  NotLost(e)'
    <3>1. DOMAIN batch[d] \subseteq Event
      BY DEF LossInv, ConsumerInv, Typed, DispatchTyped
    <3>2. UNCHANGED consumerVars /\ (copies' = copies \/ \E x \in Event : copies' = Sent(x))
      BY <2>2, <3>1 DEF DispatcherStep, SelectBatch, Publish, PublishFails, CommitBatch,
         DispatcherEnds, StartDispatcher
    <3> QED
      BY <3>2, LossSent
  <2>3. ASSUME NEW c \in Consumer, ConsumerStep(c) PROVE NotLost(e)'
    <3>1. AtWork(c) \subseteq DOMAIN copies
      BY DEF LossInv, ConsumerInv, Typed, ConsumerTyped, AtWork
    <3>2. ASSUME NEW k \in AtWork(c), WorkOn(c, k) PROVE NotLost(e)'
      <4>1. k \in DOMAIN copies
        BY <3>1
      <4> QED
        BY <2>3, <3>2, <4>1, LossClaimed, LossDropped, LossHandled, LossAcked, LossShown DEF WorkOn
    <3> QED
      BY <2>3, <3>2, LossPopped DEF ConsumerStep
  <2> QED
    BY <2>1, <2>2, <2>3, LossShown, LossAbandoned DEF Next
<1> QED
  BY <1>1, <1>2 DEF LossInv

\* When the broker has let go of every message of an event, the event was handled, or an
\* inbox row left in 'processing' tells which consumer of its group dropped it: for any
\* group, also if messages come back while they are handled.
THEOREM LossRecorded == Spec => []LossIsOnRecord
<1>1. Init => LossInv
  BY ConsumerInit DEF LossInv, NotLost, CopiesOf, Init
<1>2. LossInv /\ [Next]_vars => LossInv'
  BY LossNext
<1>3. LossInv => LossIsOnRecord
  BY DEF LossInv, NotLost, LossIsOnRecord, Safe, Secured
<1> QED
  BY <1>1, <1>2, <1>3, PTL DEF Spec
=============================================================================

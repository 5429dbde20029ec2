-------------------------- MODULE TransactionProofs --------------------------
(***************************************************************************)
(* The transactions of TaskTransactions are steps of DagScheduler: what a  *)
(* transaction has read still holds when it commits, because of the rows   *)
(* it has locked, for any number of connections, tasks and runtimes.       *)
(***************************************************************************)
EXTENDS TaskTransactions, DagBoardProofs

-----------------------------------------------------------------------------
(* The invariant.  It says of the record T of each transaction what T holds *)
(* at each statement, and what T may rely on because of it.                 *)

Has(T, table, id) == \E lock \in T.locks : lock.row = Row(table, id)
Holds(T, mode, table, id) == Lock(mode, table, id) \in T.locks

EndKind == {"complete", "fail", "cancel"}
CallPlaces == Tables \cup {"reading", "locking", "counting", "setting", "ready"}

\* The calls that update the attempt first, and all calls.
UpdateKind == CallKind \ {"load"}
AnyCall == CallKind \cup {"unload"}

\* Such a call locks the attempt first, so it stays live; then its task, its runtime, and
\* tasks that have been stored.
CallOk(T) ==
    /\ T.key \in held
    /\ T.at \in CallPlaces
    /\ T.at \in {"reading", "locking", "counting", "setting"} => T.kind = "complete"
    /\ T.kind = "start" => T.at # "task"
    /\ T.at # "attempt" => Holds(T, "write", "attempt", T.key) /\ Matches(T.kind, T.key)
    /\ T.kind \in EndKind /\ T.at \notin {"attempt", "task"} =>
          Holds(T, "write", "task", attempt[T.key].task)
    /\ T.kind \in EndKind /\ T.at \notin Tables =>
          Holds(T, "write", "runtime", attempt[T.key].runtime)
    /\ T.at = "attempt" => T.locks = {}
    /\ T.at = "task" => \A lock \in T.locks : lock.row = Row("attempt", T.key)
    /\ \A r \in Runtime : Has(T, "runtime", r) => r = attempt[T.key].runtime
    /\ \A t \in Task : Has(T, "task", t) => task[t].status # "absent"
    /\ T.kind # "complete" => DOMAIN T.counts = {}

\* A load event holds nothing; an unload has locked an attempt that has ended.
LoadOk(T) == T.key \in held /\ T.at = "inserting" /\ T.locks = {}
UnloadOk(T) ==
    /\ T.key \in held
    /\ T.at = "unloading"
    /\ T.locks = {Lock("update", "attempt", T.key)}

\* No dependency of t was stored late.
NothingLate(t) == \A b \in Task : <<t, b>> \notin late

\* The open blockers of d once T has completed its task.
StillOpen(T, d) == Remaining(Released(T.key, "completed"), d)

\* A completion has the dependents it will release, all of them locked before it
\* counts, and their counts are right but for what was stored late.
CompletionOk(T) ==
    LET after == T.at \in {"counting", "setting", "ready"}
        t == attempt[T.key].task IN
    /\ after \/ DOMAIN T.counts = {}
    /\ after \/ T.at = "locking" =>
          /\ T.todo \cup T.rows \subseteq Dependents(t)
          /\ \A d \in Dependents(t) \ T.rows : <<d, t>> \in late
    /\ T.at = "locking" => \A d \in T.rows \ T.todo : Holds(T, "update", "task", d)
    /\ after => /\ \A d \in T.rows : Holds(T, "update", "task", d)
                /\ T.rows = T.todo \cup DOMAIN T.counts
    /\ T.at = "ready" => T.todo = {}
    /\ \A d \in DOMAIN T.counts :
          /\ T.counts[d] \in Nat
          /\ T.counts[d] >= Cardinality(StillOpen(T, d))
          /\ NothingLate(d) => T.counts[d] = Cardinality(StillOpen(T, d))

Reclaimed(T) == {k \in Made : Has(T, "attempt", k)}

\* A reclaim has the expired attempts it found, and the runtimes it has seen to.
ReclaimOk(T) ==
    /\ T.at \in {"freeing", "ready"}
    /\ \A lock \in T.locks : lock.row.table = "attempt" => lock.row.id \in Made
    /\ Reclaimed(T) # {} /\ Reclaimed(T) \subseteq Reclaimable
    /\ T.todo \subseteq Reclaimed(T)
    /\ \A t \in Task : Has(T, "task", t) => task[t].status # "absent"
    /\ \A r \in Runtime : Has(T, "runtime", r) => runtime[r].current \in Reclaimed(T)
    /\ \A k \in Reclaimed(T) :
          \/ k \in T.todo
          \/ Has(T, "runtime", attempt[k].runtime)
          \/ runtime[attempt[k].runtime].current # k
    /\ T.at = "ready" => T.todo = {}

StoredBy(T) == {t \in DOMAIN T.dag : Holds(T, "write", "task", t)}

\* An order of these tasks in which T could insert them.
Insertion(T, done) ==
    \E rank \in [done -> 1 .. Cardinality(done)] :
        \A t \in done : \A b \in T.dag[t].blockedBy :
            \/ b = t
            \/ task[b].status # "absent"
            \/ b \in done /\ rank[b] < rank[t]

\* A publication has stored the tasks it is through with, and found their blockers.
PublicationOk(T) ==
    LET done == DOMAIN T.dag \ T.todo IN
    /\ T.at \in {"storing", "linking", "ready"}
    /\ T.dag \in Dags
    /\ T.todo \subseteq DOMAIN T.dag /\ done \subseteq StoredBy(T)
    /\ T.at = "storing" => T.todo \cap StoredBy(T) = {}
    /\ T.at = "linking" => \A t, u \in T.todo \cap StoredBy(T) : t = u
    /\ T.at = "ready" => T.todo = {}
    /\ \A t \in DOMAIN T.dag : task[t].status = "absent"
    /\ \A b \in Task : Has(T, "task", b) => task[b].status # "absent" \/ b \in StoredBy(T)
    /\ \A lock \in T.locks : lock.row.table = "task" /\ lock.mode \in {"share", "write"}
    /\ Insertion(T, done)

\* A lock on the row of an attempt or of a runtime is never shared.
ModesOk(T) == \A lock \in T.locks : lock.row.table # "task" => lock.mode # "share"

RecordOk(T) ==
    T = [kind |-> T.kind, at |-> T.at, key |-> T.key, dag |-> T.dag, todo |-> T.todo,
         rows |-> T.rows, locks |-> T.locks, counts |-> T.counts]

TxnOk(T) ==
    /\ RecordOk(T)
    /\ ModesOk(T)
    /\ T.kind \in AnyCall \cup {"none", "reclaim", "publish"}
    /\ T.kind = "none" => T = NoTxn
    /\ T.kind \in UpdateKind => CallOk(T)
    /\ T.kind = "load" => LoadOk(T)
    /\ T.kind = "unload" => UnloadOk(T)
    /\ T.kind = "complete" => CompletionOk(T)
    /\ T.kind = "reclaim" => ReclaimOk(T)
    /\ T.kind = "publish" => PublicationOk(T)

LocksExclude ==
    \A x, y \in Connection : x # y =>
        \A one \in txn[x].locks, other \in txn[y].locks : ~ Conflict(one, other)

GraphsDiffer ==
    \A x, y \in Connection : x # y => DOMAIN txn[x].dag \cap DOMAIN txn[y].dag = {}

Records == {txn[x] : x \in Connection}

\* A count is exact if nothing was stored late.
ExactUnlessLate ==
    \A t \in Task : NothingLate(t) => task[t].blocked = Cardinality(OpenBlockers(t))

CommitInv ==
    /\ BoardInv
    /\ ExactUnlessLate
    /\ RuntimeInv
    /\ DOMAIN txn = Connection
    /\ \A T \in Records : TxnOk(T)
    /\ LocksExclude
    /\ GraphsDiffer

-----------------------------------------------------------------------------
(* Records and locks. *)

\* The record of a transaction, field by field.
Txn(kind, at, key, dag, todo, rows, locks, counts) ==
    [kind |-> kind, at |-> at, key |-> key, dag |-> dag, todo |-> todo,
     rows |-> rows, locks |-> locks, counts |-> counts]

\* The fields of a record.
LEMMA TxnFields ==
    ASSUME NEW kind, NEW at, NEW key, NEW dag, NEW todo, NEW rows, NEW locks, NEW counts,
           NEW U, U = Txn(kind, at, key, dag, todo, rows, locks, counts)
    PROVE  /\ RecordOk(U)
           /\ U.kind = kind /\ U.at = at /\ U.key = key /\ U.dag = dag
           /\ U.todo = todo /\ U.rows = rows /\ U.locks = locks /\ U.counts = counts
BY DEF Txn, RecordOk

\* The fields of a record, by name.
LEMMA Named ==
    ASSUME NEW T, RecordOk(T)
    PROVE  \E kind, at, key, dag, todo, rows, locks, counts :
              /\ T = Txn(kind, at, key, dag, todo, rows, locks, counts)
              /\ T.kind = kind /\ T.at = at /\ T.key = key /\ T.dag = dag
              /\ T.todo = todo /\ T.rows = rows /\ T.locks = locks /\ T.counts = counts
<1>1. PICK kind, at, key, dag, todo, rows, locks, counts :
          T = Txn(kind, at, key, dag, todo, rows, locks, counts)
  BY Zenon DEF RecordOk, Txn
<1>. QED
  BY <1>1, TxnFields

\* The records that the statements leave and that transactions begin with.
LockedAt(T, at, locks) == [[T EXCEPT !.at = at] EXCEPT !.locks = @ \cup locks]
LockedOf(T, at, todo, locks) == [[T EXCEPT !.at = at, !.todo = todo] EXCEPT !.locks = @ \cup locks]
LockedIn(T, locks) == [T EXCEPT !.locks = @ \cup locks]
MovedTo(T, at, todo) == [T EXCEPT !.at = at, !.todo = todo]
ReadAt(T, at, todo, rows) == [T EXCEPT !.at = at, !.todo = todo, !.rows = rows]
CountedAt(T, at, counts) == [T EXCEPT !.at = at, !.counts = counts]
NewCall(kind, at, key) == [NoTxn EXCEPT !.kind = kind, !.at = at, !.key = key]
NewUnload(at, key, locks) ==
    [NoTxn EXCEPT !.kind = "unload", !.at = at, !.key = key, !.locks = locks]
NewReclaim(at, todo, locks) ==
    [NoTxn EXCEPT !.kind = "reclaim", !.at = at, !.todo = todo, !.locks = locks]
NewPublication(at, dag, todo) ==
    [NoTxn EXCEPT !.kind = "publish", !.at = at, !.dag = dag, !.todo = todo]

\* Field by field.
LEMMA LockedAtIs ==
    ASSUME NEW T, RecordOk(T), NEW at, NEW locks
    PROVE  LockedAt(T, at, locks)
             = Txn(T.kind, at, T.key, T.dag, T.todo, T.rows, T.locks \cup locks, T.counts)
<1>1. PICK kind, a, key, dag, d, r, l, c :
          /\ T = Txn(kind, a, key, dag, d, r, l, c)
          /\ T.kind = kind /\ T.at = a /\ T.key = key /\ T.dag = dag
          /\ T.todo = d /\ T.rows = r /\ T.locks = l /\ T.counts = c
  BY Named
<1>2. PICK A : A = [T EXCEPT !.at = at]
  OBVIOUS
<1>3. A = Txn(kind, at, key, dag, d, r, l, c)
  BY <1>1, <1>2 DEF Txn
<1>4. A.locks = l
  BY <1>3, TxnFields
<1>5. PICK more : more = l \cup locks
  OBVIOUS
<1>6. PICK B : B = [A EXCEPT !.locks = more]
  OBVIOUS
<1>7. B = Txn(kind, at, key, dag, d, r, more, c)
  BY <1>3, <1>6 DEF Txn
<1>8. LockedAt(T, at, locks) = B
  BY <1>1, <1>2, <1>4, <1>5, <1>6 DEF LockedAt
<1>. QED
  BY <1>1, <1>5, <1>7, <1>8

\* Likewise with the next things to do, ...
LEMMA LockedOfIs ==
    ASSUME NEW T, RecordOk(T), NEW at, NEW todo, NEW locks
    PROVE  LockedOf(T, at, todo, locks)
             = Txn(T.kind, at, T.key, T.dag, todo, T.rows, T.locks \cup locks, T.counts)
<1>1. PICK kind, a, key, dag, d, r, l, c :
          /\ T = Txn(kind, a, key, dag, d, r, l, c)
          /\ T.kind = kind /\ T.at = a /\ T.key = key /\ T.dag = dag
          /\ T.todo = d /\ T.rows = r /\ T.locks = l /\ T.counts = c
  BY Named
<1>2. PICK A : A = [T EXCEPT !.at = at]
  OBVIOUS
<1>3. A = Txn(kind, at, key, dag, d, r, l, c)
  BY <1>1, <1>2 DEF Txn
<1>4. PICK B : B = [A EXCEPT !.todo = todo]
  OBVIOUS
<1>5. B = Txn(kind, at, key, dag, todo, r, l, c)
  BY <1>3, <1>4 DEF Txn
<1>6. B.locks = l
  BY <1>5, TxnFields
<1>7. PICK more : more = l \cup locks
  OBVIOUS
<1>8. PICK C : C = [B EXCEPT !.locks = more]
  OBVIOUS
<1>9. C = Txn(kind, at, key, dag, todo, r, more, c)
  BY <1>5, <1>8 DEF Txn
<1>10. LockedOf(T, at, todo, locks) = C
  BY <1>1, <1>2, <1>4, <1>6, <1>7, <1>8 DEF LockedOf
<1>. QED
  BY <1>1, <1>7, <1>9, <1>10

\* ... with more locks only, ...
LEMMA LockedInIs ==
    ASSUME NEW T, RecordOk(T), NEW locks
    PROVE  LockedIn(T, locks)
             = Txn(T.kind, T.at, T.key, T.dag, T.todo, T.rows, T.locks \cup locks, T.counts)
<1>1. PICK kind, a, key, dag, d, r, l, c :
          /\ T = Txn(kind, a, key, dag, d, r, l, c)
          /\ T.kind = kind /\ T.at = a /\ T.key = key /\ T.dag = dag
          /\ T.todo = d /\ T.rows = r /\ T.locks = l /\ T.counts = c
  BY Named
<1>2. PICK more : more = l \cup locks
  OBVIOUS
<1>3. PICK A : A = [T EXCEPT !.locks = more]
  OBVIOUS
<1>4. A = Txn(kind, a, key, dag, d, r, more, c)
  BY <1>1, <1>3 DEF Txn
<1>5. LockedIn(T, locks) = A
  BY <1>1, <1>2, <1>3 DEF LockedIn
<1>. QED
  BY <1>1, <1>2, <1>4, <1>5

\* ... with no lock, ...
LEMMA MovedToIs ==
    ASSUME NEW T, RecordOk(T), NEW at, NEW todo
    PROVE  MovedTo(T, at, todo)
             = Txn(T.kind, at, T.key, T.dag, todo, T.rows, T.locks, T.counts)
<1>1. PICK kind, a, key, dag, d, r, l, c :
          /\ T = Txn(kind, a, key, dag, d, r, l, c)
          /\ T.kind = kind /\ T.at = a /\ T.key = key /\ T.dag = dag
          /\ T.todo = d /\ T.rows = r /\ T.locks = l /\ T.counts = c
  BY Named
<1>2. PICK A : A = [T EXCEPT !.at = at]
  OBVIOUS
<1>3. A = Txn(kind, at, key, dag, d, r, l, c)
  BY <1>1, <1>2 DEF Txn
<1>4. PICK B : B = [A EXCEPT !.todo = todo]
  OBVIOUS
<1>5. B = Txn(kind, at, key, dag, todo, r, l, c)
  BY <1>3, <1>4 DEF Txn
<1>6. MovedTo(T, at, todo) = B
  BY <1>1, <1>2, <1>4 DEF MovedTo
<1>. QED
  BY <1>1, <1>5, <1>6

\* ... with the rows of a SELECT, ...
LEMMA ReadAtIs ==
    ASSUME NEW T, RecordOk(T), NEW at, NEW todo, NEW rows
    PROVE  ReadAt(T, at, todo, rows)
             = Txn(T.kind, at, T.key, T.dag, todo, rows, T.locks, T.counts)
<1>1. PICK kind, a, key, dag, d, r, l, c :
          /\ T = Txn(kind, a, key, dag, d, r, l, c)
          /\ T.kind = kind /\ T.at = a /\ T.key = key /\ T.dag = dag
          /\ T.todo = d /\ T.rows = r /\ T.locks = l /\ T.counts = c
  BY Named
<1>2. PICK A : A = [T EXCEPT !.at = at]
  OBVIOUS
<1>3. A = Txn(kind, at, key, dag, d, r, l, c)
  BY <1>1, <1>2 DEF Txn
<1>4. PICK B : B = [A EXCEPT !.todo = todo]
  OBVIOUS
<1>5. B = Txn(kind, at, key, dag, todo, r, l, c)
  BY <1>3, <1>4 DEF Txn
<1>6. PICK C : C = [B EXCEPT !.rows = rows]
  OBVIOUS
<1>7. C = Txn(kind, at, key, dag, todo, rows, l, c)
  BY <1>5, <1>6 DEF Txn
<1>8. ReadAt(T, at, todo, rows) = C
  BY <1>1, <1>2, <1>4, <1>6 DEF ReadAt
<1>. QED
  BY <1>1, <1>7, <1>8

\* ... and with a count.
LEMMA CountedAtIs ==
    ASSUME NEW T, RecordOk(T), NEW at, NEW counts
    PROVE  CountedAt(T, at, counts)
             = Txn(T.kind, at, T.key, T.dag, T.todo, T.rows, T.locks, counts)
<1>1. PICK kind, a, key, dag, d, r, l, c :
          /\ T = Txn(kind, a, key, dag, d, r, l, c)
          /\ T.kind = kind /\ T.at = a /\ T.key = key /\ T.dag = dag
          /\ T.todo = d /\ T.rows = r /\ T.locks = l /\ T.counts = c
  BY Named
<1>2. PICK A : A = [T EXCEPT !.at = at]
  OBVIOUS
<1>3. A = Txn(kind, at, key, dag, d, r, l, c)
  BY <1>1, <1>2 DEF Txn
<1>4. PICK B : B = [A EXCEPT !.counts = counts]
  OBVIOUS
<1>5. B = Txn(kind, at, key, dag, d, r, l, counts)
  BY <1>3, <1>4 DEF Txn
<1>6. CountedAt(T, at, counts) = B
  BY <1>1, <1>2, <1>4 DEF CountedAt
<1>. QED
  BY <1>1, <1>5, <1>6

\* No transaction.
LEMMA Nothing ==
    /\ TxnOk(NoTxn)
    /\ NoTxn = Txn("none", "none", NoAttempt, NoDag, {}, {}, {}, NoTxn.counts)
    /\ NoTxn.kind = "none" /\ NoTxn.at = "none" /\ NoTxn.key = NoAttempt /\ NoTxn.dag = NoDag
    /\ NoTxn.todo = {} /\ NoTxn.rows = {} /\ NoTxn.locks = {}
    /\ DOMAIN NoTxn.counts = {} /\ DOMAIN NoTxn.dag = {}
<1>1. /\ NoTxn = Txn("none", "none", NoAttempt, NoDag, {}, {}, {}, NoTxn.counts)
      /\ NoTxn.kind = "none" /\ NoTxn.at = "none" /\ NoTxn.key = NoAttempt /\ NoTxn.dag = NoDag
      /\ NoTxn.todo = {} /\ NoTxn.rows = {} /\ NoTxn.locks = {}
      /\ DOMAIN NoTxn.counts = {} /\ DOMAIN NoTxn.dag = {}
  BY DEF NoTxn, NoDag, Txn
<1>2. RecordOk(NoTxn)
  BY <1>1, TxnFields
<1>. QED
  BY <1>1, <1>2 DEF TxnOk, ModesOk, CallKind, UpdateKind, AnyCall

\* A transaction that begins.
LEMMA Fresh ==
    ASSUME NEW kind, NEW at, NEW key, NEW dag, NEW todo, NEW locks
    PROVE  /\ NewCall(kind, at, key) = Txn(kind, at, key, NoDag, {}, {}, {}, NoTxn.counts)
           /\ NewUnload(at, key, locks)
                = Txn("unload", at, key, NoDag, {}, {}, locks, NoTxn.counts)
           /\ NewReclaim(at, todo, locks)
                = Txn("reclaim", at, NoAttempt, NoDag, todo, {}, locks, NoTxn.counts)
           /\ NewPublication(at, dag, todo)
                = Txn("publish", at, NoAttempt, dag, todo, {}, {}, NoTxn.counts)
<1>. PICK counts : counts = NoTxn.counts
  OBVIOUS
<1>1. NoTxn = Txn("none", "none", NoAttempt, NoDag, {}, {}, {}, counts)
  BY Nothing
<1>2. NewCall(kind, at, key) = Txn(kind, at, key, NoDag, {}, {}, {}, counts)
  <2>1. PICK A : A = [NoTxn EXCEPT !.kind = kind]
    OBVIOUS
  <2>2. A = Txn(kind, "none", NoAttempt, NoDag, {}, {}, {}, counts)
    BY <1>1, <2>1 DEF Txn
  <2>3. PICK B : B = [A EXCEPT !.at = at]
    OBVIOUS
  <2>4. B = Txn(kind, at, NoAttempt, NoDag, {}, {}, {}, counts)
    BY <2>2, <2>3 DEF Txn
  <2>5. [B EXCEPT !.key = key] = Txn(kind, at, key, NoDag, {}, {}, {}, counts)
    BY <2>4 DEF Txn
  <2>. QED
    BY <2>1, <2>3, <2>5 DEF NewCall
<1>3. /\ NewReclaim(at, todo, locks) = Txn("reclaim", at, NoAttempt, NoDag, todo, {}, locks, counts)
      /\ NewPublication(at, dag, todo) = Txn("publish", at, NoAttempt, dag, todo, {}, {}, counts)
  <2>1. PICK A, B : A = [NoTxn EXCEPT !.kind = "reclaim"] /\ B = [NoTxn EXCEPT !.kind = "publish"]
    OBVIOUS
  <2>2. /\ A = Txn("reclaim", "none", NoAttempt, NoDag, {}, {}, {}, counts)
        /\ B = Txn("publish", "none", NoAttempt, NoDag, {}, {}, {}, counts)
    BY <1>1, <2>1 DEF Txn
  <2>3. PICK C, D : C = [A EXCEPT !.at = at] /\ D = [B EXCEPT !.at = at]
    OBVIOUS
  <2>4. /\ C = Txn("reclaim", at, NoAttempt, NoDag, {}, {}, {}, counts)
        /\ D = Txn("publish", at, NoAttempt, NoDag, {}, {}, {}, counts)
    BY <2>2, <2>3 DEF Txn
  <2>5. PICK E, F : E = [C EXCEPT !.todo = todo] /\ F = [D EXCEPT !.dag = dag]
    OBVIOUS
  <2>6. /\ E = Txn("reclaim", at, NoAttempt, NoDag, todo, {}, {}, counts)
        /\ F = Txn("publish", at, NoAttempt, dag, {}, {}, {}, counts)
    BY <2>4, <2>5 DEF Txn
  <2>7. [E EXCEPT !.locks = locks] = Txn("reclaim", at, NoAttempt, NoDag, todo, {}, locks, counts)
    BY <2>6 DEF Txn
  <2>8. [F EXCEPT !.todo = todo] = Txn("publish", at, NoAttempt, dag, todo, {}, {}, counts)
    BY <2>6 DEF Txn
  <2>9. NewReclaim(at, todo, locks) = [E EXCEPT !.locks = locks]
    BY <2>1, <2>3, <2>5 DEF NewReclaim
  <2>10. NewPublication(at, dag, todo) = [F EXCEPT !.todo = todo]
    BY <2>1, <2>3, <2>5 DEF NewPublication
  <2>. QED
    BY <2>7, <2>8, <2>9, <2>10
<1>4. NewUnload(at, key, locks) = Txn("unload", at, key, NoDag, {}, {}, locks, counts)
  <2>1. PICK A : A = [NoTxn EXCEPT !.kind = "unload"]
    OBVIOUS
  <2>2. A = Txn("unload", "none", NoAttempt, NoDag, {}, {}, {}, counts)
    BY <1>1, <2>1 DEF Txn
  <2>3. PICK B : B = [A EXCEPT !.at = at]
    OBVIOUS
  <2>4. B = Txn("unload", at, NoAttempt, NoDag, {}, {}, {}, counts)
    BY <2>2, <2>3 DEF Txn
  <2>5. PICK C : C = [B EXCEPT !.key = key]
    OBVIOUS
  <2>6. C = Txn("unload", at, key, NoDag, {}, {}, {}, counts)
    BY <2>4, <2>5 DEF Txn
  <2>7. [C EXCEPT !.locks = locks] = Txn("unload", at, key, NoDag, {}, {}, locks, counts)
    BY <2>6 DEF Txn
  <2>. QED
    BY <2>1, <2>3, <2>5, <2>7 DEF NewUnload
<1>. QED
  BY <1>2, <1>3, <1>4

\* Locks that conflict: on the row of an attempt or of a runtime any two, and
\* FOR UPDATE with any other.
LEMMA Conflicts ==
    ASSUME NEW one, NEW other, one.row = other.row,
           \/ one.mode # "share" /\ other.mode # "share"
           \/ one.mode = "update" \/ other.mode = "update"
    PROVE  Conflict(one, other)
BY DEF Conflict

\* One side.
LEMMA ConflictIsMutual ==
    ASSUME NEW one, NEW other
    PROVE  Conflict(one, other) <=> Conflict(other, one)
<1>1. {one.mode, other.mode} = {other.mode, one.mode}
  OBVIOUS
<1>. QED
  BY <1>1 DEF Conflict

\* The statement a transaction is at tells what it is.
LEMMA KindOfPlace ==
    ASSUME NEW T, TxnOk(T)
    PROVE  /\ T.at \in Tables => T.kind \in UpdateKind
           /\ T.at \in {"reading", "locking", "counting", "setting"} => T.kind = "complete"
           /\ T.at = "freeing" => T.kind = "reclaim"
           /\ T.at \in {"storing", "linking"} => T.kind = "publish"
           /\ T.at = "inserting" => T.kind = "load"
           /\ T.at = "unloading" => T.kind = "unload"
           /\ T.at = "ready" => T.kind # "none"
<1>1. T.kind = "none" => T.at = "none"
  BY Nothing DEF TxnOk
<1>2. T.kind \in UpdateKind => /\ T.at \in CallPlaces
                               /\ T.at \in {"reading", "locking", "counting", "setting"} =>
                                     T.kind = "complete"
  BY DEF TxnOk, CallOk
<1>3. T.kind = "reclaim" => T.at \in {"freeing", "ready"}
  BY DEF TxnOk, ReclaimOk
<1>4. T.kind = "publish" => T.at \in {"storing", "linking", "ready"}
  BY DEF TxnOk, PublicationOk
<1>5. T.kind \in AnyCall \cup {"none", "reclaim", "publish"}
  BY DEF TxnOk
<1>6. T.kind = "load" => T.at = "inserting"
  BY DEF TxnOk, LoadOk
<1>7. T.kind = "unload" => T.at = "unloading"
  BY DEF TxnOk, UnloadOk
<1>. QED
  BY <1>1, <1>2, <1>3, <1>4, <1>5, <1>6, <1>7 DEF CallPlaces, Tables, CallKind, UpdateKind, AnyCall

-----------------------------------------------------------------------------
(* Statements.  Each changes the record of its transaction only, and leaves *)
(* it as the invariant says.                                                *)

\* The record of x becomes U, with locks that nobody else has.
Local(x, U) ==
    /\ Step(x, U)
    /\ TxnOk(U)
    /\ \A lock \in U.locks : lock \in txn[x].locks \/ Free({lock}, x)
    /\ \A y \in Connection \ {x} : DOMAIN U.dag \cap DOMAIN txn[y].dag = {}

\* A transaction that is rolled back, or whose first UPDATE found no row.
LEMMA Ends ==
    ASSUME NEW x \in Connection, Step(x, NoTxn)
    PROVE  Local(x, NoTxn)
BY Nothing DEF Local

\* A statement that locks rows.
LEMMA Gives ==
    ASSUME CommitInv, NEW x \in Connection, NEW T, T = txn[x], NEW locks, NEW R, NEW U,
           Give(x, locks, R), U = [R EXCEPT !.locks = @ \cup locks],
           U.locks = T.locks \cup locks, U.dag = T.dag, TxnOk(U)
    PROVE  Local(x, U)
<1>1. Step(x, U) /\ Free(locks, x)
  BY DEF Give
<1>2. \A lock \in locks : Free({lock}, x)
  BY <1>1 DEF Free, FreeOf
<1>3. \A y \in Connection \ {x} : DOMAIN U.dag \cap DOMAIN txn[y].dag = {}
  BY DEF CommitInv, GraphsDiffer
<1>. QED
  BY <1>1, <1>2, <1>3 DEF Local

\* A statement that locks none.
LEMMA Moves ==
    ASSUME CommitInv, NEW x \in Connection, NEW T, T = txn[x], NEW U,
           Step(x, U), U.locks = T.locks, U.dag = T.dag, TxnOk(U)
    PROVE  Local(x, U)
<1>1. \A y \in Connection \ {x} : DOMAIN U.dag \cap DOMAIN txn[y].dag = {}
  BY DEF CommitInv, GraphsDiffer
<1>. QED
  BY <1>1 DEF Local

\* A call has passed the plain SELECT.
LEMMA BeginLocal ==
    ASSUME NEW x \in Connection, NEW kind \in UpdateKind, NEW k \in held, Begin(x, kind, k)
    PROVE  \E U : Local(x, U)
<1>. PICK U : U = Txn(kind, "attempt", k, NoDag, {}, {}, {}, NoTxn.counts)
  OBVIOUS
<1>1. NewCall(kind, Updates(kind).none, k) = U
  <2>1. Updates(kind).none = "attempt"
    BY DEF Updates, UpdateKind, CallKind
  <2>. QED
    BY <2>1, Fresh
<1>2. Step(x, U)
  BY <1>1 DEF Begin, NewCall
<1>3. /\ RecordOk(U)
      /\ U.kind = kind /\ U.at = "attempt" /\ U.key = k /\ U.dag = NoDag /\ U.locks = {}
      /\ DOMAIN U.counts = {}
  BY TxnFields, Nothing
<1>4. CallOk(U)
  <2>1. \A table, id : ~ Has(U, table, id)
    BY <1>3 DEF Has
  <2>. QED
    BY <1>3, <2>1 DEF CallOk, CallPlaces, Tables
<1>5. CompletionOk(U)
  BY <1>3 DEF CompletionOk
<1>6. TxnOk(U)
  BY <1>3, <1>4, <1>5 DEF TxnOk, ModesOk, CallKind, UpdateKind, AnyCall
<1>. QED
  BY <1>2, <1>3, <1>6, Nothing DEF Local

\* So has a load event.
LEMMA BeginLoadLocal ==
    ASSUME NEW x \in Connection, NEW k \in held, Begin(x, "load", k)
    PROVE  \E U : Local(x, U)
<1>. PICK U : U = Txn("load", "inserting", k, NoDag, {}, {}, {}, NoTxn.counts)
  OBVIOUS
<1>1. NewCall("load", Updates("load").none, k) = U
  <2>1. Updates("load").none = "inserting"
    BY DEF Updates
  <2>. QED
    BY <2>1, Fresh
<1>2. Step(x, U)
  BY <1>1 DEF Begin, NewCall
<1>3. /\ RecordOk(U)
      /\ U.kind = "load" /\ U.at = "inserting" /\ U.key = k /\ U.dag = NoDag /\ U.locks = {}
  BY TxnFields
<1>4. TxnOk(U)
  BY <1>3 DEF TxnOk, ModesOk, LoadOk, CallKind, UpdateKind, AnyCall
<1>. QED
  BY <1>2, <1>3, <1>4, Nothing DEF Local

\* An unload has locked the row of an attempt that has ended.
LEMMA BeginUnloadLocal ==
    ASSUME NEW x \in Connection, NEW k \in held, BeginUnload(x, k)
    PROVE  \E U : Local(x, U)
<1>. PICK locks : locks = {Lock("update", "attempt", k)}
  OBVIOUS
<1>. PICK U : U = Txn("unload", "unloading", k, NoDag, {}, {}, locks, NoTxn.counts)
  OBVIOUS
<1>1. NewUnload("unloading", k, locks) = U
  BY Fresh
<1>2. Step(x, U) /\ Free(locks, x)
  BY <1>1 DEF BeginUnload, NewUnload
<1>3. /\ RecordOk(U)
      /\ U.kind = "unload" /\ U.at = "unloading" /\ U.key = k /\ U.dag = NoDag /\ U.locks = locks
  BY TxnFields
<1>4. ModesOk(U) /\ UnloadOk(U)
  BY <1>3 DEF ModesOk, UnloadOk, Lock
<1>5. TxnOk(U)
  BY <1>3, <1>4 DEF TxnOk, CallKind, UpdateKind, AnyCall
<1>. QED
  BY <1>2, <1>3, <1>5, Nothing DEF Local

\* What a live attempt under a call is: the current one of its task and its runtime.
LEMMA LiveRows ==
    ASSUME BoardInv, RuntimeInv, NEW k \in held, Active(k)
    PROVE  /\ k \in Made /\ k # NoAttempt
           /\ attempt[k].task \in Task /\ attempt[k].runtime \in Runtime
           /\ task[attempt[k].task].current = k
           /\ task[attempt[k].task].owner = attempt[k].runtime
           /\ task[attempt[k].task].status = "in_progress"
           /\ runtime[attempt[k].runtime].current = k
           /\ IsCurrentAttempt(k)
<1>1. k \in Made /\ k \in Attempt /\ attempt[k].task \in Task /\ attempt[k].runtime \in Runtime
  BY DEF RuntimeInv, HeadInv, TypeOK, AttemptRow
<1>2. IsCurrentAttempt(k) /\ task[attempt[k].task].status = "in_progress"
  BY <1>1 DEF BoardInv, AgreeInv, AttemptAndTaskAgree
<1>3. runtime[attempt[k].runtime].current = k
  BY DEF RuntimeInv, HeldIsCurrent
<1>. QED
  BY <1>1, <1>2, <1>3, NullAssumption DEF IsCurrentAttempt

\* Each UPDATE locks the row it writes, and finds it as long as the attempt is live.
LEMMA UpdateLocal ==
    ASSUME CommitInv, NEW x \in Connection, Update(x)
    PROVE  \E U : Local(x, U)
<1>. PICK T : T = txn[x]
  OBVIOUS
<1>1. TxnOk(T) /\ T.at \in Tables /\ BoardInv /\ RuntimeInv
  BY DEF CommitInv, Records, Update
<1>2. RecordOk(T) /\ ModesOk(T) /\ T.kind \in UpdateKind /\ CallOk(T)
      /\ (T.kind = "complete" => CompletionOk(T))
  BY <1>1, KindOfPlace DEF TxnOk
<1>3. CASE At(x, "attempt") /\ ~ Matches(T.kind, T.key)
  <2>1. Step(x, NoTxn)
    BY <1>3 DEF Update
  <2>. QED
    BY <2>1, Ends
<1>4. CASE ~ (At(x, "attempt") /\ ~ Matches(T.kind, T.key))
  <2>. DEFINE at == Updates(T.kind)[T.at]
              locks == [mode : {"write"}, row : Found(x)]
  <2>0. PICK U : U = LockedAt(T, at, locks)
    OBVIOUS
  <2>1. U = Txn(T.kind, at, T.key, T.dag, T.todo, T.rows, T.locks \cup locks, T.counts)
    BY <1>2, <2>0, LockedAtIs
  <2>2. /\ RecordOk(U)
        /\ U.kind = T.kind /\ U.at = at /\ U.key = T.key /\ U.dag = T.dag
        /\ U.locks = T.locks \cup locks /\ U.counts = T.counts
    BY <2>1, TxnFields
  <2>3. Give(x, locks, [T EXCEPT !.at = at])
    BY <1>4 DEF Update
  <2>4. Matches(T.kind, T.key) /\ T.key \in held
    BY <1>2, <1>4 DEF CallOk, At
  <2>5. Active(T.key)
    BY <2>4 DEF Matches, Active, ActiveStatus
  <2>. PICK t, r : t = attempt[T.key].task /\ r = attempt[T.key].runtime
    OBVIOUS
  <2>6. /\ t \in Task /\ r \in Runtime
        /\ task[t].current = T.key /\ task[t].owner = r /\ runtime[r].current = T.key
    BY <1>1, <2>4, <2>5, LiveRows
  <2>7. /\ T.at = "attempt" => Found(x) = {Row("attempt", T.key)}
        /\ T.at = "task" => Found(x) = {Row("task", t)}
        /\ T.at = "runtime" => Found(x) = {Row("runtime", r)}
    <3>1. CASE T.at = "attempt"
      BY <3>1 DEF Found, At
    <3>2. CASE T.at = "task"
      <4>1. {i \in {t} : task[i].current = T.key /\ task[i].owner = r} = {t}
        BY <2>6
      <4>. QED
        BY <3>2, <4>1 DEF Found, At, TaskOf, RuntimeOf
    <3>3. CASE T.at = "runtime"
      <4>1. {i \in {r} : T.kind \in {"start", "renew"} \/ runtime[i].current = T.key} = {r}
        BY <2>6
      <4>. QED
        BY <3>3, <4>1 DEF Found, At, RuntimeOf
    <3>. QED
      BY <3>1, <3>2, <3>3
  <2>8. \A row \in Found(x) : [mode |-> "write", row |-> row] \in locks
    OBVIOUS
  <2>9. /\ T.at = "attempt" => Lock("write", "attempt", T.key) \in locks
        /\ T.at = "task" => Lock("write", "task", t) \in locks
        /\ T.at = "runtime" => Lock("write", "runtime", r) \in locks
        /\ \A lock \in locks : lock.mode = "write"
    BY <2>7, <2>8 DEF Lock
  <2>10. /\ at \in CallPlaces \ {"attempt"}
         /\ at \in {"reading", "locking", "counting", "setting"} => T.kind = "complete"
         /\ at \notin {"locking", "counting", "setting"}
         /\ T.kind = "complete" => at # "ready"
         /\ T.at = "attempt" => at = IF T.kind = "start" THEN "runtime" ELSE "task"
         /\ T.at = "task" => at = "runtime"
         /\ T.at = "runtime" => at \notin Tables
    <3>0. T.kind = "start" => T.at # "task"
      BY <1>2 DEF CallOk
    <3>1. CASE T.kind = "start"
      <4>1. at = IF T.at = "attempt" THEN "runtime" ELSE "ready"
        BY <1>1, <3>0, <3>1 DEF Updates, Tables
      <4>. QED
        BY <1>1, <3>0, <3>1, <4>1 DEF CallPlaces, Tables
    <3>2. CASE T.kind = "complete"
      <4>1. at = CASE T.at = "attempt" -> "task" [] T.at = "task" -> "runtime" [] OTHER -> "reading"
        BY <1>1, <3>2 DEF Updates, Tables
      <4>. QED
        BY <1>1, <3>2, <4>1 DEF CallPlaces, Tables
    <3>3. CASE T.kind \notin {"start", "complete"}
      <4>1. at = CASE T.at = "attempt" -> "task" [] T.at = "task" -> "runtime" [] OTHER -> "ready"
        BY <1>1, <1>2, <3>3 DEF Updates, Tables, UpdateKind
      <4>. QED
        BY <1>1, <3>3, <4>1 DEF CallPlaces, Tables
    <3>. QED
      BY <3>1, <3>2, <3>3
  <2>14. \A lock \in locks : lock.row \in Found(x)
    OBVIOUS
  <2>. HIDE DEF at, locks
  <2>11. CallOk(U)
    <3>1. /\ T.at = "attempt" => \A lock \in U.locks : lock.row = Row("attempt", T.key)
          /\ \A i \in Runtime : Has(U, "runtime", i) => i = r
          /\ \A i \in Task : Has(U, "task", i) => task[i].status # "absent"
      <4>1. T.at = "attempt" => \A lock \in U.locks : lock.row = Row("attempt", T.key)
        BY <1>2, <2>2, <2>7, <2>14 DEF CallOk
      <4>2. ASSUME NEW table \in {"runtime", "task"}, NEW i, Has(U, table, i), ~ Has(T, table, i)
            PROVE  IF table = "runtime" THEN i = r ELSE i = t
        <5>1. PICK lock \in locks : lock.row = Row(table, i)
          BY <2>2, <4>2 DEF Has
        <5>2. Row(table, i) \in {Row("attempt", T.key), Row("task", t), Row("runtime", r)}
          BY <1>1, <2>7, <2>14, <5>1 DEF Tables
        <5>. QED
          BY <5>2 DEF Row
      <4>3. task[t].status # "absent"
        BY <1>1, <2>4, <2>5, LiveRows
      <4>. QED
        BY <1>2, <4>1, <4>2, <4>3 DEF CallOk
    <3>. QED
      BY <1>1, <1>2, <2>2, <2>4, <2>9, <2>10, <3>1 DEF CallOk, Holds, EndKind, Tables
  <2>12. T.kind = "complete" => CompletionOk(U)
    BY <1>1, <1>2, <2>2, <2>10 DEF CompletionOk, Tables
  <2>13. TxnOk(U)
    BY <1>2, <2>2, <2>9, <2>11, <2>12 DEF TxnOk, ModesOk, CallKind, UpdateKind, AnyCall
  <2>. QED
    BY <2>0, <2>2, <2>3, <2>13, Gives DEF LockedAt
<1>. QED
  BY <1>3, <1>4

\* A completion that goes on has the same claim and the rows it had locked.
LEMMA GoesOn ==
    ASSUME NEW T, TxnOk(T), T.kind = "complete", T.at \notin Tables,
           NEW U, RecordOk(U), U.kind = T.kind, U.key = T.key,
           U.at \in {"locking", "counting", "setting", "ready"},
           T.locks \subseteq U.locks,
           \A lock \in U.locks \ T.locks :
              lock.mode # "share" /\ \E t : lock.row = Row("task", t) /\ task[t].status # "absent",
           CompletionOk(U)
    PROVE  TxnOk(U)
<1>1. CallOk(T) /\ ModesOk(T)
  BY DEF TxnOk, CallKind, UpdateKind, AnyCall
<1>2. /\ \A r \in Runtime : Has(U, "runtime", r) => r = attempt[U.key].runtime
      /\ \A t \in Task : Has(U, "task", t) => task[t].status # "absent"
  <2>1. ASSUME NEW table, NEW id, Has(U, table, id), ~ Has(T, table, id)
        PROVE  table = "task" /\ task[id].status # "absent"
    <3>1. PICK t : Row(table, id) = Row("task", t) /\ task[t].status # "absent"
      BY <2>1 DEF Has
    <3>. QED
      BY <3>1 DEF Row
  <2>. QED
    BY <1>1, <2>1 DEF CallOk
<1>3. CallOk(U)
  BY <1>1, <1>2 DEF CallOk, CallPlaces, Tables, Holds, EndKind
<1>. QED
  BY <1>1, <1>3 DEF TxnOk, ModesOk, CallKind, UpdateKind, AnyCall

\* Who depends on a task has been stored.
LEMMA DependentsAreStored ==
    ASSUME BoardInv, NEW u \in Task, NEW d \in Dependents(u)
    PROVE  d \in Task /\ task[d].status # "absent"
<1>1. d \in Task /\ u \in Blockers(d)
  BY DEF Dependents, Blockers
<1>. QED
  BY <1>1 DEF BoardInv, AbsentIsBare

\* The task of a completion that has locked its attempt.
LEMMA CompletedTask ==
    ASSUME BoardInv, RuntimeInv, NEW T, TxnOk(T), T.kind = "complete", T.at # "attempt"
    PROVE  /\ T.key \in held /\ Active(T.key)
           /\ attempt[T.key].task \in Task
           /\ task[attempt[T.key].task].status = "in_progress"
<1>1. T.key \in held /\ Matches(T.kind, T.key)
  BY DEF TxnOk, CallOk, CallKind, UpdateKind, AnyCall
<1>2. Active(T.key)
  BY <1>1 DEF Matches, Active, ActiveStatus
<1>. QED
  BY <1>1, <1>2, LiveRows

\* The snapshot has all dependents there are.
LEMMA ReadLocal ==
    ASSUME CommitInv, NEW x \in Connection, ReadDependents(x)
    PROVE  \E U : Local(x, U)
<1>. PICK T : T = txn[x]
  OBVIOUS
<1>. PICK found : found = Dependents(attempt[T.key].task)
  OBVIOUS
<1>. PICK at : at = IF found = {} THEN "ready" ELSE "locking"
  OBVIOUS
<1>1. TxnOk(T) /\ T.at = "reading" /\ RecordOk(T)
  BY DEF CommitInv, Records, TxnOk, ReadDependents, At
<1>2. T.kind = "complete" /\ CompletionOk(T)
  BY <1>1, KindOfPlace DEF TxnOk
<1>. PICK rows : rows = found
  OBVIOUS
<1>3. PICK U : U = ReadAt(T, at, found, rows)
  OBVIOUS
<1>4. U = Txn(T.kind, at, T.key, T.dag, found, rows, T.locks, T.counts)
  BY <1>1, <1>3, ReadAtIs
<1>5. /\ RecordOk(U)
      /\ U.kind = T.kind /\ U.at = at /\ U.key = T.key /\ U.dag = T.dag
      /\ U.todo = found /\ U.rows = rows /\ U.locks = T.locks /\ U.counts = T.counts
  BY <1>4 DEF Txn, RecordOk
<1>6. Step(x, U)
  BY <1>3 DEF ReadDependents, ReadAt, TaskOf
<1>7. DOMAIN T.counts = {}
  BY <1>1, <1>2 DEF CompletionOk
<1>8. CompletionOk(U)
  BY <1>5, <1>7 DEF CompletionOk
<1>9. TxnOk(U)
  BY <1>1, <1>2, <1>5, <1>8, GoesOn DEF Tables
<1>. QED
  BY <1>5, <1>6, <1>9, Moves

\* A dependent's row is locked before it counts.
LEMMA LockLocal ==
    ASSUME CommitInv, NEW x \in Connection, LockDependent(x)
    PROVE  \E U : Local(x, U)
<1>. PICK T : T = txn[x]
  OBVIOUS
<1>1. TxnOk(T) /\ T.at = "locking" /\ RecordOk(T)
  BY DEF CommitInv, Records, TxnOk, LockDependent, At
<1>2. T.kind = "complete" /\ CompletionOk(T)
  BY <1>1, KindOfPlace DEF TxnOk
<1>3. PICK t \in T.todo :
         Give(x, DependentLock(t),
              [T EXCEPT !.at = IF T.todo \ {t} = {} THEN "counting" ELSE "locking",
                        !.todo = IF T.todo \ {t} = {} THEN T.rows ELSE T.todo \ {t}])
  BY DEF LockDependent
<1>. PICK rest : rest = T.todo \ {t}
  OBVIOUS
<1>. PICK at, todo : /\ at = IF rest = {} THEN "counting" ELSE "locking"
                     /\ todo = IF rest = {} THEN T.rows ELSE rest
  OBVIOUS
<1>. PICK locks : locks = DependentLock(t)
  OBVIOUS
<1>4. PICK U : U = LockedOf(T, at, todo, locks)
  OBVIOUS
<1>5. U = Txn(T.kind, at, T.key, T.dag, todo, T.rows, T.locks \cup locks, T.counts)
  BY <1>1, <1>4, LockedOfIs
<1>6. /\ RecordOk(U)
      /\ U.kind = T.kind /\ U.at = at /\ U.key = T.key /\ U.dag = T.dag
      /\ U.todo = todo /\ U.rows = T.rows /\ U.locks = T.locks \cup locks /\ U.counts = T.counts
  BY <1>5, TxnFields
<1>7. locks = {Lock("update", "task", t)} /\ \A lock \in locks : lock.mode # "share"
  BY DEF DependentLock, Lock
<1>8. /\ DOMAIN T.counts = {}
      /\ T.todo \cup T.rows \subseteq Dependents(attempt[T.key].task)
      /\ \A d \in Dependents(attempt[T.key].task) \ T.rows : <<d, attempt[T.key].task>> \in late
      /\ \A d \in T.rows \ rest : Holds(U, "update", "task", d)
  BY <1>1, <1>2, <1>6, <1>7 DEF CompletionOk, Holds
<1>9. CompletionOk(U)
  BY <1>6, <1>8 DEF CompletionOk
<1>10. task[t].status # "absent" /\ \A lock \in locks : lock.row = Row("task", t)
  BY <1>1, <1>2, <1>7, <1>8, CompletedTask, DependentsAreStored DEF CommitInv, Lock
<1>11. TxnOk(U)
  BY <1>1, <1>2, <1>6, <1>7, <1>9, <1>10, GoesOn DEF Tables
<1>. QED
  BY <1>3, <1>4, <1>6, <1>11, Gives, Zenon DEF LockedOf

\* The count is right when it is taken.
LEMMA CountLocal ==
    ASSUME CommitInv, NEW x \in Connection, CountBlockers(x)
    PROVE  \E U : Local(x, U)
<1>. PICK T : T = txn[x]
  OBVIOUS
<1>1. TxnOk(T) /\ T.at = "counting" /\ RecordOk(T)
  BY DEF CommitInv, Records, TxnOk, CountBlockers, At
<1>2. T.kind = "complete" /\ CompletionOk(T)
  BY <1>1, KindOfPlace DEF TxnOk
<1>3. PICK t \in T.todo :
         Step(x, [T EXCEPT !.at = "setting",
                           !.counts = [d \in DOMAIN T.counts \cup {t} |->
                                         IF d = t THEN Cardinality(Remaining(Seen(x), t))
                                         ELSE T.counts[d]]])
  BY DEF CountBlockers
<1>. PICK counts : counts = [d \in DOMAIN T.counts \cup {t} |->
                               IF d = t THEN Cardinality(Remaining(Seen(x), t)) ELSE T.counts[d]]
  OBVIOUS
<1>4. PICK U : U = CountedAt(T, "setting", counts)
  OBVIOUS
<1>5. U = Txn(T.kind, "setting", T.key, T.dag, T.todo, T.rows, T.locks, counts)
  BY <1>1, <1>4, CountedAtIs
<1>6. /\ RecordOk(U)
      /\ U.kind = T.kind /\ U.at = "setting" /\ U.key = T.key /\ U.dag = T.dag
      /\ U.todo = T.todo /\ U.rows = T.rows /\ U.locks = T.locks /\ U.counts = counts
  BY <1>5, TxnFields
<1>7. Step(x, U)
  BY <1>3, <1>4 DEF CountedAt
<1>8. \A d \in DOMAIN counts :
         /\ counts[d] \in Nat
         /\ counts[d] >= Cardinality(StillOpen(T, d))
         /\ NothingLate(d) => counts[d] = Cardinality(StillOpen(T, d))
  <2>1. \A d : Cardinality(StillOpen(T, d)) \in Nat
    BY RemainingIsFinite DEF StillOpen
  <2>2. Remaining(Seen(x), t) = StillOpen(T, t)
    BY DEF StillOpen, Seen
  <2>. QED
    BY <1>2, <2>1, <2>2 DEF CompletionOk
<1>9. T.rows = T.todo \cup DOMAIN counts
  BY <1>1, <1>2 DEF CompletionOk
<1>10. CompletionOk(U)
  BY <1>1, <1>2, <1>6, <1>8, <1>9, Zenon DEF CompletionOk, StillOpen, Holds
<1>11. TxnOk(U)
  BY <1>1, <1>2, <1>6, <1>10, GoesOn DEF Tables
<1>. QED
  BY <1>6, <1>7, <1>11, Moves

\* The row is locked already, and the count is done with.
LEMMA SetLocal ==
    ASSUME CommitInv, NEW x \in Connection, SetCount(x)
    PROVE  \E U : Local(x, U)
<1>. PICK T : T = txn[x]
  OBVIOUS
<1>1. TxnOk(T) /\ T.at = "setting" /\ RecordOk(T)
  BY DEF CommitInv, Records, TxnOk, SetCount, At
<1>2. T.kind = "complete" /\ CompletionOk(T)
  BY <1>1, KindOfPlace DEF TxnOk
<1>3. PICK t \in T.todo \cap DOMAIN T.counts :
         Give(x, {Lock("write", "task", t)},
              [T EXCEPT !.at = IF T.todo \ {t} = {} THEN "ready" ELSE "counting",
                        !.todo = T.todo \ {t}])
  BY DEF SetCount
<1>. PICK rest, at, locks :
        /\ rest = T.todo \ {t}
        /\ at = IF rest = {} THEN "ready" ELSE "counting"
        /\ locks = {Lock("write", "task", t)}
  OBVIOUS
<1>0. Give(x, locks, [T EXCEPT !.at = at, !.todo = rest])
  BY <1>3
<1>4. PICK U : U = LockedOf(T, at, rest, locks)
  OBVIOUS
<1>5. U = Txn(T.kind, at, T.key, T.dag, rest, T.rows, T.locks \cup locks, T.counts)
  BY <1>1, <1>4, LockedOfIs
<1>6. /\ RecordOk(U)
      /\ U.kind = T.kind /\ U.at = at /\ U.key = T.key /\ U.dag = T.dag
      /\ U.todo = rest /\ U.rows = T.rows /\ U.locks = T.locks \cup locks /\ U.counts = T.counts
  BY <1>5, TxnFields
<1>7. \A lock \in locks : lock.mode # "share" /\ lock.row = Row("task", t)
  BY DEF Lock
<1>8. T.rows = rest \cup DOMAIN T.counts
  BY <1>1, <1>2, <1>3 DEF CompletionOk
<1>9. CompletionOk(U)
  BY <1>1, <1>2, <1>6, <1>8 DEF CompletionOk, Holds, StillOpen
<1>10. task[t].status # "absent"
  <2>1. t \in Dependents(attempt[T.key].task)
    BY <1>1, <1>2, <1>3 DEF CompletionOk
  <2>. QED
    BY <1>1, <1>2, <2>1, CompletedTask, DependentsAreStored DEF CommitInv
<1>11. TxnOk(U)
  BY <1>1, <1>2, <1>6, <1>7, <1>9, <1>10, GoesOn DEF Tables
<1>. QED
  BY <1>0, <1>4, <1>6, <1>11, Gives DEF LockedOf

\* The expired attempts whose rows were free.
LEMMA ReclaimLocal ==
    ASSUME CommitInv, NEW x \in Connection, NEW S \in SUBSET Reclaimable, BeginReclaim(x, S)
    PROVE  \E U : Local(x, U)
<1>. PICK locks : locks = UNION {RowsOf(k) : k \in S}
  OBVIOUS
<1>. PICK U : U = Txn("reclaim", "freeing", NoAttempt, NoDag, S, {}, locks, NoTxn.counts)
  OBVIOUS
<1>1. NewReclaim("freeing", S, locks) = U
  BY Fresh
<1>2. Step(x, U) /\ Free(locks, x) /\ S # {}
  BY <1>1 DEF BeginReclaim, NewReclaim
<1>3. /\ RecordOk(U)
      /\ U.kind = "reclaim" /\ U.at = "freeing" /\ U.dag = NoDag /\ U.todo = S /\ U.locks = locks
  BY TxnFields
<1>4. \A lock \in locks : \E k \in S :
         \/ lock = Lock("update", "attempt", k)
         \/ lock = Lock("update", "task", attempt[k].task)
  BY DEF RowsOf
<1>5. \A k \in S : Lock("update", "attempt", k) \in locks /\ k \in Made
  BY DEF RowsOf, Reclaimable
<1>6. \A lock \in locks : /\ lock.mode = "update"
                          /\ lock.row.table \in {"attempt", "task"}
                          /\ lock.row.table = "attempt" => lock.row.id \in S
  BY <1>4 DEF Lock, Row
<1>7. Reclaimed(U) = S
  <2>1. \A k : Row("attempt", k).table = "attempt" /\ Row("attempt", k).id = k
    BY DEF Row
  <2>2. \A k : Lock("update", "attempt", k).row = Row("attempt", k)
    BY DEF Lock
  <2>3. ASSUME NEW k, Has(U, "attempt", k) PROVE k \in S
    BY <1>3, <1>6, <2>1, <2>3 DEF Has
  <2>4. ASSUME NEW k \in S PROVE Has(U, "attempt", k)
    BY <1>3, <1>5, <2>2 DEF Has
  <2>. QED
    BY <1>5, <2>3, <2>4 DEF Reclaimed
<1>8. \A r : ~ Has(U, "runtime", r)
  BY <1>3, <1>6 DEF Has, Row
<1>13. ASSUME NEW t \in Task, Has(U, "task", t) PROVE task[t].status # "absent"
  <2>1. PICK k \in S : Row("task", t) \in {Row("attempt", k), Row("task", attempt[k].task)}
    BY <1>3, <1>4, <1>13 DEF Has, Lock
  <2>2. k \in Made /\ attempt[k].task = t
    BY <1>5, <2>1 DEF Row
  <2>. QED
    BY <2>2 DEF CommitInv, BoardInv, AbsentIsBare
<1>9. ReclaimOk(U)
  BY <1>2, <1>3, <1>5, <1>6, <1>7, <1>8, <1>13 DEF ReclaimOk
<1>10. TxnOk(U)
  BY <1>3, <1>6, <1>9 DEF TxnOk, ModesOk, CallKind, UpdateKind, AnyCall
<1>11. \A lock \in locks : Free({lock}, x)
  BY <1>2 DEF Free, FreeOf
<1>12. Local(x, U)
  BY <1>2, <1>3, <1>10, <1>11, Nothing DEF Local
<1>. QED
  BY <1>12

\* The runtime of an attempt is seen to: it is locked if it still is on the attempt.
LEMMA FreeLocal ==
    ASSUME CommitInv, NEW x \in Connection, FreeRuntime(x)
    PROVE  \E U : Local(x, U)
<1>. PICK T : T = txn[x]
  OBVIOUS
<1>1. TxnOk(T) /\ T.at = "freeing" /\ RecordOk(T) /\ ModesOk(T)
  BY DEF CommitInv, Records, TxnOk, FreeRuntime, At
<1>2. T.kind = "reclaim" /\ ReclaimOk(T)
  BY <1>1, KindOfPlace DEF TxnOk
<1>3. PICK k \in T.todo :
         Give(x, {Lock("write", "runtime", i) : i \in {i \in {attempt[k].runtime} : runtime[i].current = k}},
              [T EXCEPT !.at = IF T.todo \ {k} = {} THEN "ready" ELSE "freeing",
                        !.todo = T.todo \ {k}])
  BY DEF FreeRuntime
<1>. PICK rest, at, locks, found :
        /\ rest = T.todo \ {k}
        /\ at = IF rest = {} THEN "ready" ELSE "freeing"
        /\ found = {i \in {attempt[k].runtime} : runtime[i].current = k}
        /\ locks = {Lock("write", "runtime", i) : i \in found}
  OBVIOUS
<1>4. Give(x, locks, [T EXCEPT !.at = at, !.todo = rest])
  BY <1>3
<1>5. PICK U : U = LockedOf(T, at, rest, locks)
  OBVIOUS
<1>6. U = Txn(T.kind, at, T.key, T.dag, rest, T.rows, T.locks \cup locks, T.counts)
  BY <1>1, <1>5, LockedOfIs
<1>7. /\ RecordOk(U)
      /\ U.kind = T.kind /\ U.at = at /\ U.key = T.key /\ U.dag = T.dag
      /\ U.todo = rest /\ U.rows = T.rows /\ U.locks = T.locks \cup locks /\ U.counts = T.counts
  BY <1>6, TxnFields
<1>8. \A lock \in locks : /\ lock.mode = "write"
                          /\ \E i \in found : lock.row = Row("runtime", i)
  BY DEF Lock
<1>9. \A i : Row("runtime", i).table = "runtime" /\ Row("runtime", i).id = i
  BY DEF Row
<1>10. \A j : Has(U, "attempt", j) <=> Has(T, "attempt", j)
  <2>1. \A i, j : Row("runtime", i) # Row("attempt", j)
    BY DEF Row
  <2>. QED
    BY <1>7, <1>8, <2>1 DEF Has
<1>11. Reclaimed(U) = Reclaimed(T)
  BY <1>10 DEF Reclaimed
<1>12. \A r : Has(U, "runtime", r) => Has(T, "runtime", r) \/ r \in found
  BY <1>7, <1>8, <1>9 DEF Has
<1>13. \A r : Has(T, "runtime", r) \/ r \in found => Has(U, "runtime", r)
  <2>1. \A r \in found : Lock("write", "runtime", r) \in locks /\ Lock("write", "runtime", r).row = Row("runtime", r)
    BY DEF Lock
  <2>. QED
    BY <1>7, <2>1 DEF Has
<1>14. ASSUME NEW r \in Runtime, Has(U, "runtime", r) PROVE runtime[r].current \in Reclaimed(U)
  <2>1. CASE Has(T, "runtime", r)
    BY <1>2, <1>11, <2>1 DEF ReclaimOk
  <2>2. CASE r \in found
    <3>1. r = attempt[k].runtime /\ runtime[r].current = k
      BY <2>2
    <3>2. k \in Reclaimed(T)
      BY <1>2, <1>3 DEF ReclaimOk
    <3>. QED
      BY <1>11, <3>1, <3>2
  <2>. QED
    BY <1>12, <1>14, <2>1, <2>2
<1>15. ASSUME NEW j \in Reclaimed(U)
       PROVE  \/ j \in U.todo
              \/ Has(U, "runtime", attempt[j].runtime)
              \/ runtime[attempt[j].runtime].current # j
  <2>1. CASE j = k
    BY <1>13, <2>1
  <2>2. CASE j # k
    BY <1>2, <1>7, <1>11, <1>13, <2>2 DEF ReclaimOk
  <2>. QED
    BY <2>1, <2>2
<1>16. \A lock \in U.locks : lock.row.table = "attempt" => lock.row.id \in Made
  BY <1>2, <1>7, <1>8, <1>9 DEF ReclaimOk
<1>17. U.todo \subseteq Reclaimed(U)
  BY <1>2, <1>7, <1>11 DEF ReclaimOk
<1>20. \A t : Has(U, "task", t) => Has(T, "task", t)
  <2>1. \A i, t : Row("runtime", i) # Row("task", t)
    BY DEF Row
  <2>. QED
    BY <1>7, <1>8, <2>1 DEF Has
<1>18. ReclaimOk(U)
  BY <1>2, <1>17, <1>7, <1>11, <1>14, <1>15, <1>16, <1>20 DEF ReclaimOk
<1>19. TxnOk(U)
  BY <1>1, <1>2, <1>7, <1>8, <1>18 DEF TxnOk, ModesOk, CallKind, UpdateKind, AnyCall
<1>. QED
  BY <1>4, <1>5, <1>7, <1>19, Gives DEF LockedOf

\* The tasks have not been published before.
LEMMA PublishLocal ==
    ASSUME CommitInv, Rerun = "never", NEW x \in Connection, NEW dag \in Dags, BeginPublish(x, dag)
    PROVE  \E U : Local(x, U)
<1>. PICK todo : todo = DOMAIN dag
  OBVIOUS
<1>. PICK U : U = Txn("publish", "storing", NoAttempt, dag, todo, {}, {}, NoTxn.counts)
  OBVIOUS
<1>1. NewPublication("storing", dag, todo) = U
  BY Fresh
<1>2. Step(x, U)
  BY <1>1 DEF BeginPublish, NewPublication
<1>3. /\ RecordOk(U)
      /\ U.kind = "publish" /\ U.at = "storing" /\ U.dag = dag /\ U.todo = todo /\ U.locks = {}
  BY TxnFields
<1>4. \A t \in DOMAIN dag : /\ task[t].status = "absent"
                            /\ \A y \in Connection : t \notin DOMAIN txn[y].dag
  BY DEF BeginPublish, MayPublish
<1>5. Insertion(U, {})
  <2>1. [t \in {} |-> 1] \in [{} -> 1 .. Cardinality({})]
    OBVIOUS
  <2>. QED
    BY <2>1 DEF Insertion
<1>6. DOMAIN U.dag \ U.todo = {} /\ StoredBy(U) = {} /\ \A b : ~ Has(U, "task", b)
  BY <1>3 DEF StoredBy, Holds, Has
<1>7. PublicationOk(U)
  BY <1>3, <1>4, <1>5, <1>6 DEF PublicationOk
<1>8. TxnOk(U)
  BY <1>3, <1>7 DEF TxnOk, ModesOk, CallKind, UpdateKind, AnyCall
<1>9. Local(x, U)
  BY <1>2, <1>3, <1>4, <1>8 DEF Local
<1>. QED
  BY <1>9

\* The locks of a publication and the tasks it has stored.
LEMMA PublicationLocks ==
    ASSUME NEW T, NEW U, U.dag = T.dag, NEW mode, NEW t,
           U.locks = T.locks \cup {Lock(mode, "task", t)}
    PROVE  /\ \A u : Holds(U, "write", "task", u)
                       <=> Holds(T, "write", "task", u) \/ (mode = "write" /\ u = t)
           /\ \A u : Has(U, "task", u) <=> Has(T, "task", u) \/ u = t
<1>1. \A u : Lock("write", "task", u) = Lock(mode, "task", t) <=> mode = "write" /\ u = t
  BY DEF Lock, Row
<1>2. \A u : Lock(mode, "task", t).row = Row("task", u) <=> u = t
  BY DEF Lock, Row
<1>. QED
  BY <1>1, <1>2 DEF Holds, Has

\* The next task, not stored yet.
LEMMA StoreLocal ==
    ASSUME CommitInv, NEW x \in Connection, StoreTask(x)
    PROVE  \E U : Local(x, U)
<1>. PICK T : T = txn[x]
  OBVIOUS
<1>1. TxnOk(T) /\ T.at = "storing" /\ RecordOk(T) /\ ModesOk(T)
  BY DEF CommitInv, Records, TxnOk, StoreTask, At
<1>2. T.kind = "publish" /\ PublicationOk(T)
  BY <1>1, KindOfPlace DEF TxnOk
<1>3. PICK t \in T.todo : Give(x, {Lock("write", "task", t)}, [T EXCEPT !.at = "linking"])
  BY DEF StoreTask
<1>. PICK locks : locks = {Lock("write", "task", t)}
  OBVIOUS
<1>4. PICK U : U = LockedAt(T, "linking", locks)
  OBVIOUS
<1>5. U = Txn(T.kind, "linking", T.key, T.dag, T.todo, T.rows, T.locks \cup locks, T.counts)
  BY <1>1, <1>4, LockedAtIs
<1>6. /\ RecordOk(U)
      /\ U.kind = T.kind /\ U.at = "linking" /\ U.dag = T.dag
      /\ U.todo = T.todo /\ U.locks = T.locks \cup locks
  BY <1>5, TxnFields
<1>7. \A u : /\ Holds(U, "write", "task", u) <=> Holds(T, "write", "task", u) \/ u = t
             /\ Has(U, "task", u) <=> (Has(T, "task", u) \/ u = t)
  BY <1>6, PublicationLocks
<1>8. T.todo \subseteq DOMAIN T.dag /\ StoredBy(U) = StoredBy(T) \cup {t}
  BY <1>2, <1>3, <1>6, <1>7 DEF StoredBy, PublicationOk
<1>9. \A done : Insertion(T, done) => Insertion(U, done)
  BY <1>6 DEF Insertion
<1>10. \A u, v \in U.todo \cap StoredBy(U) : u = v
  BY <1>1, <1>2, <1>6, <1>8 DEF PublicationOk
<1>12. \A lock \in locks : lock.mode = "write" /\ lock.row.table = "task"
  BY DEF Lock, Row
<1>11. PublicationOk(U)
  BY <1>2, <1>6, <1>7, <1>8, <1>9, <1>10, <1>12 DEF PublicationOk
<1>13. TxnOk(U)
  BY <1>1, <1>2, <1>6, <1>11, <1>12 DEF TxnOk, ModesOk, CallKind, UpdateKind, AnyCall
<1>. QED
  BY <1>3, <1>4, <1>6, <1>13, Gives DEF LockedAt

\* A task whose blockers are all there can be inserted after the others.
LEMMA InsertionGrows ==
    ASSUME NEW T, NEW done \in SUBSET Task, NEW t \in Task \ done, Insertion(T, done),
           \A b \in T.dag[t].blockedBy : b = t \/ task[b].status # "absent" \/ b \in done
    PROVE  Insertion(T, done \cup {t})
<1>. PICK n : n = Cardinality(done)
  OBVIOUS
<1>1. IsFiniteSet(done) /\ n \in Nat /\ Cardinality(done \cup {t}) = n + 1
  BY FS_Subset, FS_CardinalityType, FS_AddElement, BoundAssumption
<1>2. PICK rank \in [done -> 1 .. n] :
         \A u \in done : \A b \in T.dag[u].blockedBy :
            b = u \/ task[b].status # "absent" \/ (b \in done /\ rank[b] < rank[u])
  BY DEF Insertion
<1>3. PICK more : more = [u \in done \cup {t} |-> IF u = t THEN n + 1 ELSE rank[u]]
  OBVIOUS
<1>4. more \in [done \cup {t} -> 1 .. n + 1]
  BY <1>1, <1>2, <1>3
<1>5. more[t] = n + 1 /\ \A u \in done : more[u] = rank[u] /\ rank[u] < n + 1
  BY <1>1, <1>2, <1>3
<1>6. \A u \in done \cup {t} : \A b \in T.dag[u].blockedBy :
         b = u \/ task[b].status # "absent" \/ (b \in done \cup {t} /\ more[b] < more[u])
  BY <1>2, <1>5
<1>. QED
  BY <1>1, <1>4, <1>6 DEF Insertion

\* Its blockers, one after the other; then the next task.
LEMMA LinkLocal ==
    ASSUME CommitInv, NEW x \in Connection, LinkTask(x)
    PROVE  \E U : Local(x, U)
<1>. PICK T : T = txn[x]
  OBVIOUS
<1>1. TxnOk(T) /\ T.at = "linking" /\ RecordOk(T) /\ ModesOk(T)
  BY DEF CommitInv, Records, TxnOk, LinkTask, At
<1>2. T.kind = "publish" /\ PublicationOk(T)
  BY <1>1, KindOfPlace DEF TxnOk
<1>3. ASSUME NEW b \in Task, task[b].status # "absent", Give(x, {Lock("share", "task", b)}, T)
      PROVE  \E U : Local(x, U)
  <2>. PICK locks : locks = {Lock("share", "task", b)}
    OBVIOUS
  <2>1. PICK U : U = LockedIn(T, locks)
    OBVIOUS
  <2>2. U = Txn(T.kind, T.at, T.key, T.dag, T.todo, T.rows, T.locks \cup locks, T.counts)
    BY <1>1, <2>1, LockedInIs
  <2>3. /\ RecordOk(U)
        /\ U.kind = T.kind /\ U.at = T.at /\ U.dag = T.dag
        /\ U.todo = T.todo /\ U.locks = T.locks \cup locks
    BY <2>2, TxnFields
  <2>4. \A u : /\ Holds(U, "write", "task", u) <=> Holds(T, "write", "task", u)
               /\ Has(U, "task", u) <=> (Has(T, "task", u) \/ u = b)
    BY <2>3, PublicationLocks
  <2>5. StoredBy(U) = StoredBy(T)
    BY <2>3, <2>4 DEF StoredBy
  <2>6. \A done : Insertion(T, done) => Insertion(U, done)
    BY <2>3 DEF Insertion
  <2>8. \A lock \in locks : lock.row.table = "task" /\ lock.mode = "share"
    BY DEF Lock, Row
  <2>7. PublicationOk(U)
    BY <1>1, <1>2, <1>3, <2>3, <2>4, <2>5, <2>6, <2>8 DEF PublicationOk
  <2>9. TxnOk(U)
    BY <1>1, <1>2, <2>3, <2>7, <2>8 DEF TxnOk, ModesOk, CallKind, UpdateKind, AnyCall
  <2>. QED
    BY <1>3, <2>1, <2>3, <2>9, Gives DEF LockedIn
<1>. PICK rest, at, done, through :
        /\ rest = T.todo \ StoredBy(T)
        /\ at = IF rest = {} THEN "ready" ELSE "storing"
        /\ done = DOMAIN T.dag \ T.todo
        /\ through = DOMAIN T.dag \ rest
  OBVIOUS
<1>4. ASSUME Unlinked(x) = {}, Step(x, [T EXCEPT !.at = at, !.todo = rest])
      PROVE  \E U : Local(x, U)
  <2>1. PICK U : U = MovedTo(T, at, rest)
    OBVIOUS
  <2>2. U = Txn(T.kind, at, T.key, T.dag, rest, T.rows, T.locks, T.counts)
    BY <1>1, <2>1, MovedToIs
  <2>3. /\ RecordOk(U)
        /\ U.kind = T.kind /\ U.at = at /\ U.dag = T.dag
        /\ U.todo = rest /\ U.locks = T.locks
    BY <2>2, TxnFields
  <2>4. Step(x, U)
    BY <1>4, <2>1 DEF MovedTo
  <2>5. StoredBy(U) = StoredBy(T) /\ \A u : Has(U, "task", u) <=> Has(T, "task", u)
    BY <2>3 DEF StoredBy, Holds, Has
  <2>6. done \subseteq StoredBy(T) /\ T.todo \subseteq DOMAIN T.dag /\ Insertion(T, done)
    BY <1>2 DEF PublicationOk
  <2>7. Insertion(T, through)
    <3>1. CASE T.todo \cap StoredBy(T) = {}
      <4>1. through = done
        BY <2>6, <3>1
      <4>. QED
        BY <2>6, <4>1
    <3>2. CASE T.todo \cap StoredBy(T) # {}
      <4>1. PICK t : t \in T.todo \cap StoredBy(T)
        BY <3>2
      <4>2. \A u \in T.todo \cap StoredBy(T) : u = t
        BY <1>1, <1>2, <4>1 DEF PublicationOk
      <4>3. through = done \cup {t} /\ t \notin done /\ StoredBy(T) \subseteq through
        BY <2>6, <4>1, <4>2 DEF StoredBy
      <4>4. /\ done \in SUBSET Task /\ t \in Task
            /\ T.dag[t].blockedBy \subseteq Task
        BY <1>2, <2>6, <4>1, DagsAssumption DEF PublicationOk
      <4>5. ASSUME NEW b \in T.dag[t].blockedBy
            PROVE  b = t \/ task[b].status # "absent" \/ b \in done
        <5>1. t \in T.todo \cap Stored(x)
          BY <4>1 DEF Stored, StoredBy, Holds
        <5>2. Locked(x, "task", b)
          BY <1>4, <4>4, <5>1 DEF Unlinked
        <5>3. Has(T, "task", b)
          BY <5>2 DEF Locked, Has
        <5>4. task[b].status # "absent" \/ b \in StoredBy(T)
          BY <1>2, <4>4, <5>3 DEF PublicationOk
        <5>. QED
          BY <4>3, <5>4
      <4>6. t \in Task \ done /\ Insertion(T, done)
        BY <2>6, <4>3, <4>4
      <4>7. Insertion(T, done \cup {t})
        BY <4>4, <4>5, <4>6, InsertionGrows, Zenon
      <4>. QED
        BY <4>3, <4>7, Zenon
    <3>. QED
      BY <3>1, <3>2
  <2>8. Insertion(U, through)
    BY <2>3, <2>7, Zenon DEF Insertion
  <2>9. through \subseteq StoredBy(T) /\ rest \subseteq DOMAIN T.dag
    BY <2>6
  <2>10. PublicationOk(U)
    BY <1>2, <2>3, <2>5, <2>8, <2>9 DEF PublicationOk
  <2>11. TxnOk(U)
    BY <1>1, <1>2, <2>3, <2>10 DEF TxnOk, ModesOk, CallKind, UpdateKind, AnyCall
  <2>. QED
    BY <2>3, <2>4, <2>11, Moves
<1>5. Stored(x) = StoredBy(T)
  BY DEF Stored, StoredBy, Holds
<1>6. CASE \E b \in Unlinked(x) : task[b].status # "absent" /\ Give(x, {Lock("share", "task", b)}, T)
  <2>1. PICK b \in Unlinked(x) : task[b].status # "absent" /\ Give(x, {Lock("share", "task", b)}, T)
    BY <1>6
  <2>2. b \in Task
    BY DEF Unlinked
  <2>. QED
    BY <1>3, <2>1, <2>2
<1>7. CASE Unlinked(x) = {} /\ Step(x, [T EXCEPT !.at = at, !.todo = rest])
  BY <1>4, <1>7
<1>. QED
  BY <1>5, <1>6, <1>7 DEF LinkTask

-----------------------------------------------------------------------------
(* What a transaction relies on stays as it is, whatever the others do.     *)

\* A step leaves alone what T has locked and what T has read, but for what is late.
Undisturbed(T) ==
    /\ T.kind \in AnyCall => T.key \in held'
    /\ \A k \in Made : Has(T, "attempt", k) =>
          /\ attempt'[k].status = attempt[k].status
          /\ attempt[k].lease = "expired" => attempt'[k].lease = "expired"
    /\ \A r \in Runtime : Has(T, "runtime", r) => runtime'[r].current = runtime[r].current
    /\ T.kind = "complete" /\ T.at \notin Tables \cup {"reading"} =>
          \A d \in Task :
             /\ <<d, attempt[T.key].task>> \in deps' \ deps => <<d, attempt[T.key].task>> \in late'
             /\ Holds(T, "update", "task", d) =>
                   \A b \in Blockers(d) \ {attempt[T.key].task} :
                      task'[b].status = "completed" =>
                         task[b].status = "completed" \/ <<d, b>> \in late'
    /\ T.kind = "publish" => \A t \in DOMAIN T.dag : task'[t].status = "absent"

\* Every task is published once: a stored task stays, with its blockers, and so
\* does a completion.
LEMMA TasksStay ==
    ASSUME BoardInv, [LooseNext]_vars, Rerun = "never"
    PROVE  /\ deps \subseteq deps'
           /\ \A t \in Task : /\ task[t].status # "absent" =>
                                    task'[t].status # "absent" /\ Blockers(t)' = Blockers(t)
                              /\ task[t].status = "completed" => task'[t].status = "completed"
<1>0. task \in [Task -> TaskRow] /\ \A k \in held : k \in Made /\ attempt[k].task \in Task
  BY DEF BoardInv, AgreeInv, HeadInv, TypeOK, AttemptRow
<1>1. CASE \E dag \in Dags : InsertDag(dag)
  <2>1. PICK dag \in Dags : InsertDag(dag)
    BY <1>1
  <2>2. \A t \in DOMAIN dag : task[t].status = "absent"
    BY <2>1 DEF InsertDag, MayPublish
  <2>3. \A t \in Task \ DOMAIN dag : task'[t] = task[t] /\ Blockers(t)' = Blockers(t)
    BY <2>1 DEF InsertDag, Blockers
  <2>4. deps \subseteq deps'
    BY <2>1 DEF InsertDag
  <2>. QED
    BY <2>2, <2>3, <2>4
<1>2. ASSUME deps' = deps,
             \A t \in Task : \/ task'[t].status = task[t].status
                             \/ /\ task'[t].status # "absent"
                                /\ task[t].status # "completed"
      PROVE  /\ deps \subseteq deps'
             /\ \A t \in Task : /\ task[t].status # "absent" =>
                                      task'[t].status # "absent" /\ Blockers(t)' = Blockers(t)
                                /\ task[t].status = "completed" => task'[t].status = "completed"
  <2>1. \A t \in Task : Blockers(t)' = Blockers(t)
    BY <1>2 DEF Blockers
  <2>. QED
    BY <1>2, <2>1
<1>3. CASE task' = task /\ deps' = deps
  BY <1>2, <1>3
<1>4. CASE \E r \in Runtime, t \in Task :
             \/ \E e \in ExecId : ClaimFirstAttempt(r, t, e)
             \/ ClaimRetry(r, t)
             \/ ClaimWithoutCard(r, t)
  <2>1. PICK t \in Task : /\ deps' = deps /\ task[t].status = "pending"
                          /\ task'[t].status \in {"in_progress", "failed"}
                          /\ \A u \in Task \ {t} : task'[u] = task[u]
    <3>1. PICK r \in Runtime, t \in Task :
              \/ \E e \in ExecId : ClaimFirstAttempt(r, t, e)
              \/ ClaimRetry(r, t)
              \/ ClaimWithoutCard(r, t)
      BY <1>4
    <3>2. task[t].status = "pending"
      BY <3>1 DEF ClaimFirstAttempt, ClaimRetry, ClaimWithoutCard, Ready
    <3>3. CASE \E k, card : Claimed(r, t, k, card)
      BY <1>0, <3>2, <3>3 DEF Claimed, TaskRow
    <3>4. CASE ClaimWithoutCard(r, t)
      BY <1>0, <3>2, <3>4 DEF ClaimWithoutCard, TaskRow
    <3>. QED
      BY <3>1, <3>3, <3>4 DEF ClaimFirstAttempt, ClaimRetry
  <2>. QED
    BY <1>2, <2>1
<1>5. CASE \E k \in held : Completes(k)
  <2>1. PICK k \in held : Completes(k)
    BY <1>5
  <2>2. deps' = deps
    BY <2>1 DEF Completes
  <2>. QED
    BY <1>2, <2>1, <2>2, CompletedRows DEF BoardInv
<1>6. CASE \E k \in held : FailExecution(k) \/ CancelExecution(k)
  <2>1. PICK k \in held, status \in {"pending", "failed", "cancelled"} :
           deps' = deps /\ task' = Released(k, status) /\ IsCurrentAttempt(k)
    BY <1>6 DEF FailExecution, CancelExecution
  <2>2. task[attempt[k].task].status = "in_progress"
    BY <1>0, <2>1 DEF IsCurrentAttempt, BoardInv, AgreeInv, AttemptAndTaskAgree
  <2>3. /\ task'[attempt[k].task].status = status
        /\ \A t \in Task \ {attempt[k].task} : task'[t] = task[t]
    BY <1>0, <2>1 DEF Released, TaskRow
  <2>. QED
    BY <1>2, <2>1, <2>2, <2>3
<1>7. CASE \E S \in SUBSET Reclaimable : ReclaimLeasedTasks(S)
  <2>1. PICK S \in SUBSET Reclaimable : ReclaimLeasedTasks(S)
    BY <1>7
  <2>2. ASSUME NEW t \in Task, task[t].current \in S PROVE task[t].status = "in_progress"
    <3>. PICK k \in S : k = task[t].current
      BY <2>2
    <3>1. k \in Made /\ Active(k) /\ k # NoAttempt
      BY NullAssumption DEF Reclaimable, BoardInv, AgreeInv, HeadInv, TypeOK
    <3>2. attempt[k].task = t
      BY <3>1 DEF BoardInv, AgreeInv, HeadInv, CurrentIsLatest
    <3>. QED
      BY <3>1, <3>2 DEF BoardInv, AgreeInv, AttemptAndTaskAgree
  <2>3. \A t \in Task : \/ task'[t] = task[t]
                        \/ task'[t].status \in {"pending", "failed"} /\ task[t].current \in S
    BY <1>0, <2>1 DEF ReclaimLeasedTasks, TaskRow
  <2>4. deps' = deps
    BY <2>1 DEF ReclaimLeasedTasks
  <2>. QED
    BY <1>2, <2>2, <2>3, <2>4
<1>8. CASE \/ \E c \in Managed : SetCardStatus(c)
           \/ \E r \in Runtime : RegisterRuntime(r) \/ StopRuntime(r) \/ CrashRuntime(r)
           \/ \E k \in held : \/ RejectStale(k) \/ RecordLoadEvent(k) \/ MarkExecutionStarted(k)
                              \/ RenewLease(k) \/ FinishCardUnload(k) \/ FailCardUnload(k)
                              \/ DropClaim(k)
           \/ \E k \in Made : LeaseExpires(k)
           \/ UNCHANGED vars
  <2>1. task' = task /\ deps' = deps
    BY <1>8 DEF SetCardStatus, RegisterRuntime, StopRuntime, CrashRuntime, RejectStale,
       RecordLoadEvent, MarkExecutionStarted, RenewLease, FinishCardUnload, FailCardUnload,
       DropClaim, LeaseExpires, vars
  <2>. QED
    BY <1>3, <2>1
<1>. QED
  BY <1>1, <1>4, <1>5, <1>6, <1>7, <1>8 DEF LooseNext, OtherNext

\* A runtime takes on new attempts only.
LEMMA RuntimesMoveOn ==
    ASSUME RuntimeInv, [LooseNext]_vars, NEW r \in Runtime
    PROVE  \/ runtime'[r].current = runtime[r].current
           \/ runtime'[r].current \notin Made
<1>0. runtime \in [Runtime -> RuntimeRow] /\ NoAttempt \notin Made
  BY NullAssumption DEF RuntimeInv, HeadInv, TypeOK
<1>1. CASE \E s \in Runtime, t \in Task :
             \/ \E e \in ExecId : ClaimFirstAttempt(s, t, e)
             \/ ClaimRetry(s, t)
  <2>1. PICK s \in Runtime, t \in Task : \E k, card : Claimed(s, t, k, card) /\ k \notin Made
    <3>1. PICK s \in Runtime, t \in Task :
              \/ \E e \in ExecId : ClaimFirstAttempt(s, t, e)
              \/ ClaimRetry(s, t)
      BY <1>1
    <3>2. CASE \E e \in ExecId : ClaimFirstAttempt(s, t, e)
      <4>1. PICK e \in ExecId : ClaimFirstAttempt(s, t, e)
        BY <3>2
      <4>2. <<e, 1>> \notin Made
        BY <4>1, ClaimsANewRow DEF RuntimeInv
      <4>. QED
        BY <4>1, <4>2 DEF ClaimFirstAttempt
    <3>3. CASE ClaimRetry(s, t)
      BY <3>3, ClaimsANewRow DEF ClaimRetry, RuntimeInv
    <3>. QED
      BY <3>1, <3>2, <3>3
  <2>. QED
    BY <1>0, <2>1 DEF Claimed
<1>2. CASE \E s \in Runtime : RegisterRuntime(s) \/ StopRuntime(s)
  <2>1. PICK s \in Runtime : RegisterRuntime(s) \/ StopRuntime(s)
    BY <1>2
  <2>2. runtime'[s].current \in {NoAttempt, runtime[s].current}
    BY <1>0, <2>1 DEF RegisterRuntime, StopRuntime, RuntimeRow
  <2>3. r # s => runtime'[r] = runtime[r]
    BY <1>0, <2>1 DEF RegisterRuntime, StopRuntime
  <2>. QED
    BY <1>0, <2>2, <2>3
<1>3. CASE \E k \in held : \/ Completes(k) \/ FailExecution(k) \/ CancelExecution(k)
                           \/ MarkExecutionStarted(k) \/ FinishCardUnload(k)
  <2>1. PICK k \in held : \/ Completes(k) \/ FailExecution(k) \/ CancelExecution(k)
                           \/ MarkExecutionStarted(k) \/ FinishCardUnload(k)
    BY <1>3
  <2>2. CASE MarkExecutionStarted(k) \/ FinishCardUnload(k)
    <3>. PICK s : s = attempt[k].runtime
      OBVIOUS
    <3>1. \/ runtime' = [runtime EXCEPT ![s].status = "running"]
          \/ runtime' = [runtime EXCEPT ![s] = [status |-> "idle", current |-> NoAttempt]]
      BY <2>2 DEF MarkExecutionStarted, FinishCardUnload
    <3>2. runtime'[r].current \in {NoAttempt, runtime[r].current}
      BY <1>0, <3>1 DEF RuntimeRow
    <3>. QED
      BY <1>0, <3>2
  <2>3. CASE runtime' = SetRuntimeUnloading(k)
    BY <1>0, <2>3, UnloadingRows DEF RuntimeInv, HeadInv
  <2>. QED
    BY <2>1, <2>2, <2>3 DEF Completes, FailExecution, CancelExecution
<1>4. CASE \E S \in SUBSET Reclaimable : ReclaimLeasedTasks(S)
  <2>1. PICK S \in SUBSET Reclaimable : ReclaimLeasedTasks(S)
    BY <1>4
  <2>2. runtime' = [s \in Runtime |-> IF runtime[s].current \in S
                                     THEN [status |-> "idle", current |-> NoAttempt]
                                     ELSE runtime[s]]
    BY <2>1 DEF ReclaimLeasedTasks
  <2>. QED
    BY <1>0, <2>2
<1>5. CASE \/ \E dag \in Dags : InsertDag(dag)
           \/ \E c \in Managed : SetCardStatus(c)
           \/ \E s \in Runtime : CrashRuntime(s)
           \/ \E s \in Runtime, t \in Task : ClaimWithoutCard(s, t)
           \/ \E k \in held : \/ RejectStale(k) \/ RecordLoadEvent(k)
                              \/ RenewLease(k) \/ FailCardUnload(k)
                              \/ DropClaim(k)
           \/ \E k \in Made : LeaseExpires(k)
           \/ UNCHANGED vars
  BY <1>5 DEF InsertDag, SetCardStatus, CrashRuntime, ClaimWithoutCard, RejectStale,
     RecordLoadEvent, RenewLease, FailCardUnload, DropClaim, LeaseExpires, vars
<1>. QED
  BY <1>1, <1>2, <1>3, <1>4, <1>5 DEF LooseNext, OtherNext

\* A lock is a lock on its row.
LEMMA HoldsHas ==
    ASSUME NEW T, NEW mode, NEW table, NEW id, Holds(T, mode, table, id)
    PROVE  Has(T, table, id)
BY DEF Holds, Has, Lock

\* A call keeps the claim and the status of the attempt it has locked.
LEMMA CallStays ==
    ASSUME BoardInv, RuntimeInv, [LooseNext]_vars, Rerun = "never",
           NEW T, T.kind \in AnyCall, CallOk(T), Undisturbed(T)
    PROVE  CallOk(T)'
<1>. PICK k : k = T.key
  OBVIOUS
<1>1. k \in Made /\ k \in held'
  BY DEF CallOk, Undisturbed, RuntimeInv, HeadInv, TypeOK
<1>2. attempt'[k].task = attempt[k].task /\ attempt'[k].runtime = attempt[k].runtime
  BY <1>1, RowsStay DEF RuntimeInv
<1>3. ASSUME T.at # "attempt" PROVE Matches(T.kind, k)'
  <2>1. Has(T, "attempt", k) /\ Matches(T.kind, k)
    BY <1>3, HoldsHas DEF CallOk
  <2>2. attempt'[k].status = attempt[k].status
    BY <1>1, <2>1 DEF Undisturbed
  <2>. QED
    BY <2>1, <2>2 DEF Matches, Active
<1>4. \A t \in Task : task[t].status # "absent" => task'[t].status # "absent"
  BY TasksStay
<1>. QED
  BY <1>1, <1>2, <1>3, <1>4 DEF CallOk, Holds, Has

\* The open blockers after a completion: those that are open now but for its own task.
LEMMA StillOpenIs ==
    ASSUME BoardInv, RuntimeInv, NEW T, T.key \in held, NEW d
    PROVE  StillOpen(T, d) = {b \in Blockers(d) \ {attempt[T.key].task} : task[b].status # "completed"}
<1>. PICK t \in Task : t = attempt[T.key].task
  BY DEF RuntimeInv, HeadInv, TypeOK, AttemptRow
<1>. PICK rows : rows = Released(T.key, "completed")
  OBVIOUS
<1>1. /\ rows[t].status = "completed"
      /\ \A b \in Task \ {t} : rows[b] = task[b]
  BY DEF Released, RuntimeInv, HeadInv, TypeOK, TaskRow
<1>2. Blockers(d) \subseteq Task
  BY DEF Blockers
<1>3. Remaining(rows, d) = {b \in Blockers(d) \ {t} : task[b].status # "completed"}
  BY <1>1, <1>2 DEF Remaining
<1>. QED
  BY <1>3 DEF StillOpen

\* A completion's dependents are all there are still, and their counts are right.
LEMMA CompletionStays ==
    ASSUME BoardInv, BoardInv', RuntimeInv, RuntimeInv', [LooseNext]_vars, Rerun = "never",
           late \subseteq late',
           NEW T, T.kind = "complete", CallOk(T), CompletionOk(T), Undisturbed(T)
    PROVE  CompletionOk(T)'
<1>. PICK k, t : k = T.key /\ t = attempt[k].task
  OBVIOUS
<1>1. k \in held /\ k \in held' /\ t \in Task /\ attempt'[k].task = t
  <2>1. k \in Made /\ k \in held /\ k \in held'
    BY DEF CallOk, Undisturbed, CallKind, AnyCall, RuntimeInv, HeadInv, TypeOK
  <2>2. t \in Task
    BY <2>1 DEF RuntimeInv, HeadInv, TypeOK, AttemptRow
  <2>. QED
    BY <2>1, <2>2, RowsStay DEF RuntimeInv
<1>2. CASE T.at \in Tables \cup {"reading"}
  <2>1. T.at \notin {"locking", "counting", "setting", "ready"}
    BY <1>2 DEF Tables
  <2>. QED
    BY <2>1 DEF CompletionOk
<1>3. CASE T.at \notin Tables \cup {"reading"}
  <2>1. T.at \in {"locking", "counting", "setting", "ready"}
    BY <1>3 DEF CallOk, CallPlaces
  <2>2. /\ T.todo \cup T.rows \subseteq Dependents(t)
        /\ \A d \in Dependents(t) \ T.rows : <<d, t>> \in late
    BY <2>1 DEF CompletionOk
  <2>3. \A d \in Task : /\ <<d, t>> \in deps' \ deps => <<d, t>> \in late'
                        /\ Holds(T, "update", "task", d) =>
                              \A b \in Blockers(d) \ {t} :
                                 task'[b].status = "completed" =>
                                    task[b].status = "completed" \/ <<d, b>> \in late'
    BY <1>3 DEF Undisturbed
  <2>4. /\ Dependents(t) \subseteq Dependents(t)'
        /\ \A d \in Dependents(t)' \ T.rows : <<d, t>> \in late'
    <3>1. Dependents(t) \subseteq Dependents(t)'
      BY TasksStay DEF Dependents
    <3>2. ASSUME NEW d \in Dependents(t)', d \notin T.rows PROVE <<d, t>> \in late'
      <4>1. CASE d \in Dependents(t)
        BY <2>2, <3>2, <4>1
      <4>2. CASE d \notin Dependents(t)
        BY <2>3, <4>2 DEF Dependents
      <4>. QED
        BY <4>1, <4>2
    <3>. QED
      BY <3>1, <3>2
  <2>5. ASSUME NEW d \in DOMAIN T.counts
        PROVE  /\ StillOpen(T, d)' \subseteq StillOpen(T, d)
               /\ NothingLate(d)' => StillOpen(T, d)' = StillOpen(T, d) /\ NothingLate(d)
    <3>1. d \in T.rows /\ Holds(T, "update", "task", d)
      BY <2>1, <2>5 DEF CompletionOk
    <3>2. d \in Task /\ t \in Blockers(d)
      BY <1>1, <2>2, <3>1 DEF Dependents, Blockers
    <3>3. task[d].status # "absent"
      BY <3>2 DEF BoardInv, AbsentIsBare
    <3>4. Blockers(d)' = Blockers(d) /\ Blockers(d) \subseteq Task
      BY <3>2, <3>3, TasksStay DEF Blockers
    <3>5. \A b \in Blockers(d) \ {t} :
             /\ task[b].status = "completed" => task'[b].status = "completed"
             /\ NothingLate(d)' /\ task'[b].status = "completed" => task[b].status = "completed"
      BY <2>3, <3>1, <3>2, <3>4, TasksStay DEF NothingLate
    <3>6. StillOpen(T, d) = {b \in Blockers(d) \ {t} : task[b].status # "completed"}
      BY <1>1, StillOpenIs
    <3>7. StillOpen(T, d)' = {b \in Blockers(d)' \ {t} : task'[b].status # "completed"}
      <4>1. PICK rows : rows = [task' EXCEPT ![t] = [@ EXCEPT !.status = "completed", !.owner = NoRuntime]]
        OBVIOUS
      <4>2. StillOpen(T, d)' = {b \in Blockers(d)' : rows[b].status # "completed"}
        BY <1>1, <4>1 DEF StillOpen, Remaining, Released, Blockers
      <4>3. task' \in [Task -> TaskRow]
        BY DEF BoardInv, AgreeInv, HeadInv, TypeOK
      <4>4. rows[t].status = "completed" /\ \A b \in Task \ {t} : rows[b] = task'[b]
        BY <1>1, <4>1, <4>3 DEF TaskRow
      <4>. QED
        BY <3>4, <4>2, <4>4
    <3>8. StillOpen(T, d)' \subseteq StillOpen(T, d)
      BY <3>4, <3>5, <3>6, <3>7
    <3>9. NothingLate(d)' => StillOpen(T, d)' = StillOpen(T, d)
      BY <3>4, <3>5, <3>6, <3>7
    <3>. QED
      BY <3>8, <3>9 DEF NothingLate
  <2>6. \A d \in DOMAIN T.counts :
           /\ T.counts[d] >= Cardinality(StillOpen(T, d)')
           /\ NothingLate(d)' => T.counts[d] = Cardinality(StillOpen(T, d)')
    <3>. SUFFICES ASSUME NEW d \in DOMAIN T.counts
                  PROVE  /\ T.counts[d] >= Cardinality(StillOpen(T, d)')
                         /\ NothingLate(d)' => T.counts[d] = Cardinality(StillOpen(T, d)')
      OBVIOUS
    <3>1. IsFiniteSet(StillOpen(T, d))
      BY FS_Subset, BoundAssumption DEF StillOpen, Remaining, Blockers
    <3>2. /\ Cardinality(StillOpen(T, d)') <= Cardinality(StillOpen(T, d))
          /\ Cardinality(StillOpen(T, d)) \in Nat /\ Cardinality(StillOpen(T, d)') \in Nat
      BY <2>5, <3>1, FS_Subset, FS_CardinalityType
    <3>3. /\ T.counts[d] \in Nat /\ T.counts[d] >= Cardinality(StillOpen(T, d))
          /\ NothingLate(d) => T.counts[d] = Cardinality(StillOpen(T, d))
      BY DEF CompletionOk
    <3>. QED
      BY <2>5, <3>2, <3>3
  <2>7. /\ T.todo \cup T.rows \subseteq Dependents(attempt[T.key].task)'
        /\ \A d \in Dependents(attempt[T.key].task)' \ T.rows :
              <<d, attempt'[T.key].task>> \in late'
    BY <1>1, <2>2, <2>4 DEF Dependents
  <2>. QED
    BY <2>1, <2>6, <2>7 DEF CompletionOk, Holds
<1>. QED
  BY <1>2, <1>3

\* What a reclaim has found expired is expired still.
LEMMA ReclaimStays ==
    ASSUME BoardInv, BoardInv', RuntimeInv, [LooseNext]_vars, Rerun = "never",
           NEW T, ReclaimOk(T), Undisturbed(T)
    PROVE  ReclaimOk(T)'
<1>1. \A k \in Made : /\ k \in Made' /\ attempt'[k].task = attempt[k].task
                      /\ attempt'[k].runtime = attempt[k].runtime
  BY RowsStay DEF RuntimeInv
<1>2. \A k : Has(T, "attempt", k) => k \in Made
  BY DEF ReclaimOk, Has, Row
<1>3. Reclaimed(T)' = Reclaimed(T)
  BY <1>1, <1>2 DEF Reclaimed, Has
<1>4. Reclaimed(T) \subseteq Reclaimable'
  <2>. SUFFICES ASSUME NEW k \in Reclaimed(T) PROVE k \in Reclaimable'
    OBVIOUS
  <2>1. k \in Made /\ Has(T, "attempt", k) /\ k \in Reclaimable
    BY DEF Reclaimed, ReclaimOk
  <2>2. Active(k)' /\ attempt'[k].lease = "expired"
    BY <2>1 DEF Reclaimable, Active, Undisturbed
  <2>3. k \in Made' /\ IsCurrentAttempt(k)'
    BY <1>1, <2>1, <2>2 DEF BoardInv, AgreeInv, AttemptAndTaskAgree
  <2>. QED
    BY <2>2, <2>3 DEF Reclaimable, IsCurrentAttempt
<1>5. ASSUME NEW r \in Runtime, Has(T, "runtime", r) PROVE runtime'[r].current \in Reclaimed(T)
  BY <1>5 DEF ReclaimOk, Undisturbed
<1>6. ASSUME NEW k \in Reclaimed(T)
      PROVE  \/ k \in T.todo
             \/ Has(T, "runtime", attempt'[k].runtime)
             \/ runtime'[attempt'[k].runtime].current # k
  <2>1. k \in Made /\ attempt[k].runtime \in Runtime
    BY DEF Reclaimed, RuntimeInv, HeadInv, TypeOK, AttemptRow
  <2>2. \/ k \in T.todo
        \/ Has(T, "runtime", attempt[k].runtime)
        \/ runtime[attempt[k].runtime].current # k
    BY DEF ReclaimOk
  <2>. QED
    BY <1>1, <2>1, <2>2, RuntimesMoveOn
<1>7. \A t \in Task : Has(T, "task", t) => task'[t].status # "absent"
  BY TasksStay DEF ReclaimOk
<1>. QED
  BY <1>1, <1>3, <1>4, <1>5, <1>6, <1>7 DEF ReclaimOk, Has

\* The blockers a publication has found are there still.
LEMMA PublicationStays ==
    ASSUME BoardInv, [LooseNext]_vars, Rerun = "never",
           NEW T, T.kind = "publish", PublicationOk(T), Undisturbed(T)
    PROVE  PublicationOk(T)'
<1>1. \A b \in Task : task[b].status # "absent" => task'[b].status # "absent"
  BY TasksStay
<1>2. \A t \in DOMAIN T.dag : task'[t].status = "absent"
  BY DEF Undisturbed
<1>. PICK done : done = DOMAIN T.dag \ T.todo
  OBVIOUS
<1>3. Insertion(T, done)'
  <2>1. T.dag \in Dags /\ done \subseteq DOMAIN T.dag
    BY DEF PublicationOk
  <2>2. \A t \in done : T.dag[t].blockedBy \subseteq Task
    BY <2>1, DagsAssumption
  <2>3. Insertion(T, done)
    BY DEF PublicationOk
  <2>. QED
    BY <1>1, <2>2, <2>3 DEF Insertion
<1>. QED
  BY <1>1, <1>2, <1>3 DEF PublicationOk, StoredBy, Holds, Has

\* Together, for any transaction.
LEMMA TxnStays ==
    ASSUME BoardInv, BoardInv', RuntimeInv, RuntimeInv', [LooseNext]_vars, Rerun = "never",
           late \subseteq late',
           NEW T, TxnOk(T), Undisturbed(T)
    PROVE  TxnOk(T)'
<1>1. T.kind \in UpdateKind => CallOk(T)'
  BY CallStays DEF TxnOk, UpdateKind, AnyCall
<1>2. T.kind = "complete" => CompletionOk(T)'
  BY CompletionStays DEF TxnOk, CallKind, UpdateKind
<1>3. T.kind = "reclaim" => ReclaimOk(T)'
  BY ReclaimStays DEF TxnOk
<1>4. T.kind = "publish" => PublicationOk(T)'
  BY PublicationStays DEF TxnOk
<1>5. /\ T.kind = "load" => LoadOk(T)'
      /\ T.kind = "unload" => UnloadOk(T)'
  BY DEF TxnOk, LoadOk, UnloadOk, Undisturbed, AnyCall, CallKind
<1>. QED
  BY <1>1, <1>2, <1>3, <1>4, <1>5 DEF TxnOk, ModesOk, RecordOk

\* Whoever makes a call has the claim.
LEMMA CallsHeld ==
    ASSUME NEW T, TxnOk(T), T.kind \in AnyCall
    PROVE  T.key \in held
BY DEF TxnOk, CallOk, LoadOk, UnloadOk, UpdateKind, AnyCall

\* A step that changes no row of the tables disturbs nobody.
LEMMA NothingDisturbed ==
    ASSUME UNCHANGED vars, NEW T, TxnOk(T)
    PROVE  Undisturbed(T)
<1>1. UNCHANGED <<task, deps, attempt, runtime, held>>
  BY DEF vars
<1>2. T.kind \in AnyCall => T.key \in held
  BY CallsHeld
<1>3. T.kind = "publish" => \A t \in DOMAIN T.dag : task[t].status = "absent"
  BY DEF TxnOk, PublicationOk
<1>. QED
  BY <1>1, <1>2, <1>3 DEF Undisturbed, Blockers

\* A statement keeps the invariant.
LEMMA LocalStep ==
    ASSUME CommitInv, Rerun = "never", NEW x \in Connection, NEW U, Local(x, U)
    PROVE  CommitInv'
<1>1. UNCHANGED vars /\ txn' = [txn EXCEPT ![x] = U] /\ TxnOk(U) /\ late' = late
  BY DEF Local, Step, Keep
<1>2. BoardInv /\ RuntimeInv /\ BoardInv' /\ RuntimeInv'
  BY <1>1, BoardNext, RuntimeInvNext DEF CommitInv
<1>3. DOMAIN txn' = Connection /\ txn'[x] = U /\ \A y \in Connection \ {x} : txn'[y] = txn[y]
  BY <1>1 DEF CommitInv
<1>4. ASSUME NEW T \in Records' PROVE TxnOk(T)'
  <2>1. TxnOk(T)
    BY <1>1, <1>3 DEF Records, CommitInv
  <2>. QED
    BY <1>1, <1>2, <2>1, NothingDisturbed, TxnStays
<1>5. ASSUME NEW y \in Connection \ {x}, NEW one \in U.locks, NEW other \in txn[y].locks
      PROVE  ~ Conflict(one, other) /\ ~ Conflict(other, one)
  <2>1. CASE one \in txn[x].locks
    BY <2>1, ConflictIsMutual DEF CommitInv, LocksExclude
  <2>2. CASE Free({one}, x)
    BY <2>2, ConflictIsMutual DEF Free, FreeOf
  <2>. QED
    BY <2>1, <2>2 DEF Local
<1>6. (LocksExclude)'
  <2>. SUFFICES ASSUME NEW y \in Connection, NEW z \in Connection, y # z,
                       NEW one \in txn'[y].locks, NEW other \in txn'[z].locks
                PROVE  ~ Conflict(one, other)
    BY DEF LocksExclude, Conflict
  <2>1. CASE y # x /\ z # x
    BY <1>3, <2>1 DEF CommitInv, LocksExclude
  <2>2. CASE y = x
    BY <1>3, <1>5, <2>2
  <2>3. CASE z = x
    BY <1>3, <1>5, <2>3
  <2>. QED
    BY <2>1, <2>2, <2>3
<1>7. (GraphsDiffer)'
  <2>1. \A y \in Connection \ {x} : DOMAIN U.dag \cap DOMAIN txn[y].dag = {}
    BY DEF Local
  <2>. QED
    BY <1>3, <2>1 DEF CommitInv, GraphsDiffer
<1>8. (ExactUnlessLate)'
  BY <1>1 DEF vars, CommitInv, ExactUnlessLate, NothingLate, OpenBlockers, Blockers
<1>. QED
  BY <1>2, <1>3, <1>4, <1>6, <1>7, <1>8 DEF CommitInv

\* So does a step of the scheduler that disturbs none of the transactions, but may
\* end some of them.
LEMMA SchedulerStep ==
    ASSUME CommitInv, Rerun = "never", [LooseNext]_vars, DOMAIN txn' = Connection,
           late \subseteq late', (ExactUnlessLate)',
           \A x \in Connection : \/ txn'[x] = NoTxn
                                 \/ txn'[x] = txn[x] /\ Undisturbed(txn[x])
    PROVE  CommitInv'
<1>1. BoardInv /\ RuntimeInv /\ BoardInv' /\ RuntimeInv'
  BY BoardNext, RuntimeInvNext DEF CommitInv
<1>2. ASSUME NEW T \in Records' PROVE TxnOk(T)'
  <2>1. PICK x \in Connection : T = txn'[x]
    BY DEF Records
  <2>2. CASE T = NoTxn
    <3>1. Undisturbed(T)
      BY <2>2, Nothing DEF Undisturbed, Has, Holds, CallKind, AnyCall
    <3>. QED
      BY <1>1, <2>2, <3>1, Nothing, TxnStays
  <2>3. CASE T = txn[x] /\ Undisturbed(T)
    <3>1. TxnOk(T)
      BY <2>3 DEF CommitInv, Records
    <3>. QED
      BY <1>1, <2>3, <3>1, TxnStays
  <2>. QED
    BY <2>1, <2>2, <2>3
<1>3. \A x \in Connection : \/ txn'[x].locks = {} /\ DOMAIN txn'[x].dag = {}
                            \/ txn'[x] = txn[x]
  BY Nothing
<1>4. (LocksExclude)'
  <2>. SUFFICES ASSUME NEW y \in Connection, NEW z \in Connection, y # z,
                       NEW one \in txn'[y].locks, NEW other \in txn'[z].locks
                PROVE  ~ Conflict(one, other)
    BY DEF LocksExclude, Conflict
  <2>. QED
    BY <1>3 DEF CommitInv, LocksExclude
<1>5. (GraphsDiffer)'
  BY <1>3 DEF CommitInv, GraphsDiffer
<1>. QED
  BY <1>1, <1>2, <1>4, <1>5 DEF CommitInv

\* Every statement but the commit changes its own record only.
LEMMA StatementStep ==
    ASSUME CommitInv, Rerun = "never", NEW x \in Connection, TransactionStep(x), ~ Commit(x)
    PROVE  CommitInv' /\ UNCHANGED vars
<1>0. ASSUME NEW k \in held, NEW kind \in CallKind, Begin(x, kind, k) PROVE \E U : Local(x, U)
  BY <1>0, BeginLocal, BeginLoadLocal DEF UpdateKind
<1>1. PICK U : Local(x, U)
  BY <1>0, BeginUnloadLocal, UpdateLocal, ReadLocal, LockLocal, CountLocal, SetLocal, ReclaimLocal,
     FreeLocal, PublishLocal, StoreLocal, LinkLocal, Ends DEF TransactionStep, Rollback
<1>2. CommitInv'
  BY <1>1, LocalStep
<1>. QED
  BY <1>1, <1>2 DEF Local, Step, Keep

-----------------------------------------------------------------------------
(* What stays one step disturbs no transaction: it needs the rows it writes *)
(* to be free, or does not write what a transaction relies on.              *)

\* A step that neither publishes nor completes leaves exact counts exact.
LEMMA QuietIsExact ==
    ASSUME BoardInv, ExactUnlessLate, OtherNext \/ UNCHANGED vars, late \subseteq late'
    PROVE  (ExactUnlessLate)'
<1>1. /\ deps' = deps
      /\ \A t \in Task : /\ task'[t].blocked = task[t].blocked
                         /\ task'[t].status = "completed" <=> task[t].status = "completed"
  BY OtherIsQuiet DEF Quiet
<1>2. \A t \in Task : OpenBlockers(t)' = OpenBlockers(t)
  BY <1>1 DEF OpenBlockers, Blockers
<1>3. \A t \in Task : NothingLate(t)' => NothingLate(t)
  BY DEF NothingLate
<1>. QED
  BY <1>1, <1>2, <1>3 DEF ExactUnlessLate

\* A step that completes nothing and adds no dependency disturbs a transaction only
\* if it takes its claim, or writes an attempt or the attempt of a runtime it has locked.
LEMMA QuietSteps ==
    ASSUME NEW T, TxnOk(T),
           T.kind \in AnyCall => T.key \in held',
           \A k \in Made : Has(T, "attempt", k) =>
              /\ attempt'[k].status = attempt[k].status
              /\ attempt[k].lease = "expired" => attempt'[k].lease = "expired",
           \A r \in Runtime : Has(T, "runtime", r) => runtime'[r].current = runtime[r].current,
           deps' = deps,
           \A t \in Task : /\ task'[t].status = "completed" => task[t].status = "completed"
                           /\ task[t].status = "absent" => task'[t].status = "absent"
    PROVE  Undisturbed(T)
<1>1. T.kind = "publish" => \A t \in DOMAIN T.dag : t \in Task /\ task[t].status = "absent"
  BY DagsAssumption DEF TxnOk, PublicationOk
<1>2. \A d : Blockers(d) \subseteq Task
  BY DEF Blockers
<1>. QED
  BY <1>1, <1>2 DEF Undisturbed

\* A row that is free for an UPDATE is not locked by anybody.
LEMMA FreeRows ==
    ASSUME CommitInv, NEW T \in Records, NEW table \in {"attempt", "runtime"}, NEW id,
           NEW mode \in {"update", "write"}, NEW locks,
           Lock(mode, table, id) \in locks, FreeOfAll(locks)
    PROVE  ~ Has(T, table, id)
<1>1. ASSUME NEW taken \in T.locks, taken.row = Row(table, id) PROVE FALSE
  <2>1. PICK x \in Connection : T = txn[x]
    BY DEF Records
  <2>2. ~ Conflict(Lock(mode, table, id), taken)
    BY <2>1 DEF FreeOfAll, FreeOf
  <2>3. Lock(mode, table, id).row = taken.row /\ Lock(mode, table, id).mode = mode
    BY <1>1 DEF Lock
  <2>4. taken.mode # "share"
    <3>1. ModesOk(T)
      BY DEF CommitInv, TxnOk
    <3>2. taken.row.table # "task"
      BY <1>1 DEF Row
    <3>. QED
      BY <3>1, <3>2 DEF ModesOk
  <2>. QED
    BY <2>2, <2>3, <2>4, Conflicts
<1>. QED
  BY <1>1 DEF Has

\* A claim.
LEMMA ClaimDisturbs ==
    ASSUME CommitInv, NEW r \in Runtime, NEW t \in Task, Claim(r, t), NEW T \in Records
    PROVE  Undisturbed(T)
<1>1. TxnOk(T) /\ ~ Has(T, "runtime", r)
  <2>1. PICK locks : /\ FreeOfAll(locks)
                     /\ Lock("update", "runtime", r) \in locks
    BY DEF Claim
  <2>. QED
    BY <2>1, FreeRows DEF CommitInv
<1>2. /\ T.kind \in AnyCall => T.key \in held
      /\ task \in [Task -> TaskRow] /\ runtime \in [Runtime -> RuntimeRow] /\ HeadInv
  BY <1>1, CallsHeld DEF CommitInv, RuntimeInv, HeadInv, TypeOK
<1>3. task[t].status = "pending"
  BY DEF Claim, ClaimFirstAttempt, ClaimRetry, ClaimWithoutCard, Ready
<1>4. CASE \E k, card : Claimed(r, t, k, card) /\ k \notin Made
  <2>1. PICK k, card : Claimed(r, t, k, card) /\ k \notin Made
    BY <1>4
  <2>2. /\ \A j \in Made : attempt'[j] = attempt[j]
        /\ \A s \in Runtime \ {r} : runtime'[s] = runtime[s]
        /\ \A u \in Task \ {t} : task'[u] = task[u]
        /\ task'[t].status = "in_progress"
        /\ deps' = deps /\ held \subseteq held'
    BY <1>2, <2>1 DEF Claimed, TaskRow
  <2>. QED
    BY <1>1, <1>2, <1>3, <2>2, QuietSteps
<1>5. CASE ClaimWithoutCard(r, t)
  <2>1. /\ UNCHANGED <<attempt, runtime, deps, held>>
        /\ \A u \in Task \ {t} : task'[u] = task[u]
        /\ task'[t].status = "failed"
    BY <1>2, <1>5 DEF ClaimWithoutCard, TaskRow
  <2>. QED
    BY <1>1, <1>2, <1>3, <2>1, QuietSteps
<1>6. ASSUME NEW e \in ExecId, ClaimFirstAttempt(r, t, e)
      PROVE  \E k, card : Claimed(r, t, k, card) /\ k \notin Made
  <2>1. <<e, 1>> \notin Made
    BY <1>2, <1>6, ClaimsANewRow
  <2>. QED
    BY <1>6, <2>1 DEF ClaimFirstAttempt
<1>7. ASSUME ClaimRetry(r, t)
      PROVE  \E k, card : Claimed(r, t, k, card) /\ k \notin Made
  BY <1>2, <1>7, ClaimsANewRow DEF ClaimRetry
<1>. QED
  BY <1>4, <1>5, <1>6, <1>7 DEF Claim

\* The start, the stop and the crash of a process, unless it ends the transaction.
LEMMA ProcessDisturbs ==
    ASSUME CommitInv, NEW r \in Runtime, Process(r),
           NEW T \in Records, T.key \in held' \cup {NoAttempt}
    PROVE  Undisturbed(T)
<1>1. TxnOk(T)
  BY DEF CommitInv
<1>2. runtime \in [Runtime -> RuntimeRow] /\ NoAttempt \notin held
  BY NullAssumption DEF CommitInv, RuntimeInv, HeadInv, TypeOK
<1>3. T.kind \in AnyCall => T.key \in held'
  BY <1>1, <1>2, CallsHeld
<1>4. UNCHANGED <<attempt, task, deps>>
  BY DEF Process, RegisterRuntime, StopRuntime, CrashRuntime
<1>5. CASE RegisterRuntime(r) /\ FreeOfAll({Lock("write", "runtime", r)})
  <2>1. ~ Has(T, "runtime", r)
    BY <1>5, FreeRows
  <2>2. \A s \in Runtime \ {r} : runtime'[s] = runtime[s]
    BY <1>2, <1>5 DEF RegisterRuntime
  <2>. QED
    BY <1>1, <1>3, <1>4, <2>1, <2>2, QuietSteps
<1>6. CASE StopRuntime(r) \/ CrashRuntime(r)
  <2>1. \A s \in Runtime : runtime'[s].current = runtime[s].current
    BY <1>2, <1>6 DEF StopRuntime, CrashRuntime, RuntimeRow
  <2>. QED
    BY <1>1, <1>3, <1>4, <2>1, QuietSteps
<1>. QED
  BY <1>5, <1>6 DEF Process

\* The passing of time, what a late call records, the loss of a claim, and the cards.
LEMMA SimpleDisturbs ==
    ASSUME CommitInv, NEW T \in Records,
           (\E k \in Made : Simple(k)) \/ (\E c \in Managed : SetCardStatus(c))
    PROVE  Undisturbed(T)
<1>1. TxnOk(T)
  BY DEF CommitInv
<1>2. /\ T.kind \in AnyCall => T.key \in held
      /\ attempt \in [Made -> AttemptRow]
  BY <1>1, CallsHeld DEF CommitInv, RuntimeInv, HeadInv, TypeOK
<1>3. UNCHANGED <<task, deps, runtime>>
  BY DEF Simple, RejectStale, DropClaim, LeaseExpires, SetCardStatus
<1>4. CASE held' = held
  <2>1. \A k \in Made : /\ attempt'[k].status = attempt[k].status
                        /\ attempt[k].lease = "expired" => attempt'[k].lease = "expired"
    <3>1. CASE attempt' = attempt
      BY <3>1
    <3>2. CASE \E k \in Made : LeaseExpires(k)
      <4>1. PICK k \in Made : attempt' = [attempt EXCEPT ![k].lease = "expired"]
        BY <3>2 DEF LeaseExpires
      <4>. QED
        BY <1>2, <4>1 DEF AttemptRow
    <3>3. CASE \E k \in Made : DropClaim(k)
      BY <3>3 DEF DropClaim
    <3>. QED
      BY <3>1, <3>2, <3>3 DEF Simple, RejectStale, SetCardStatus
  <2>. QED
    BY <1>1, <1>2, <1>3, <1>4, <2>1, QuietSteps
<1>5. CASE \E k \in Made : DropClaim(k) /\ \A x \in Connection : txn[x].key # k
  <2>1. attempt' = attempt /\ (T.kind \in AnyCall => T.key \in held')
    BY <1>2, <1>5 DEF DropClaim, Records
  <2>. QED
    BY <1>1, <1>3, <2>1, QuietSteps
<1>. QED
  BY <1>4, <1>5 DEF Simple, RejectStale, LeaseExpires, SetCardStatus

-----------------------------------------------------------------------------
(* Commits.  Each is the step of the scheduler it stands for, on the rows as *)
(* they are, and disturbs no other transaction.                              *)

\* No other transaction holds a lock on a row of an attempt or a runtime that x has
\* locked, or FOR UPDATE one on a task that x has locked so.
LEMMA Excluded ==
    ASSUME CommitInv, NEW x \in Connection, NEW y \in Connection \ {x}, NEW id
    PROVE  /\ \A table \in {"attempt", "runtime"} :
                 Has(txn[x], table, id) => ~ Has(txn[y], table, id)
           /\ Holds(txn[x], "update", "task", id) => ~ Holds(txn[y], "update", "task", id)
<1>1. \A one \in txn[x].locks, other \in txn[y].locks : ~ Conflict(one, other)
  BY DEF CommitInv, LocksExclude
<1>2. ModesOk(txn[x]) /\ ModesOk(txn[y])
  BY DEF CommitInv, Records, TxnOk
<1>3. ASSUME NEW table \in {"attempt", "runtime"}, Has(txn[x], table, id), Has(txn[y], table, id)
      PROVE  FALSE
  <2>1. PICK one \in txn[x].locks, other \in txn[y].locks :
            one.row = Row(table, id) /\ other.row = Row(table, id)
    BY <1>3 DEF Has
  <2>2. Row(table, id).table # "task"
    BY DEF Row
  <2>3. one.mode # "share" /\ other.mode # "share"
    BY <1>2, <2>1, <2>2 DEF ModesOk
  <2>. QED
    BY <1>1, <2>1, <2>3, Conflicts
<1>4. ASSUME Holds(txn[x], "update", "task", id), Holds(txn[y], "update", "task", id)
      PROVE  FALSE
  <2>1. PICK lock : lock = Lock("update", "task", id)
    OBVIOUS
  <2>2. lock.mode = "update"
    BY <2>1 DEF Lock
  <2>3. Conflict(lock, lock)
    BY <2>2, Conflicts
  <2>. QED
    BY <1>1, <1>4, <2>1, <2>3 DEF Holds
<1>. QED
  BY <1>3, <1>4

\* Who has locked the row of a runtime has locked the attempt it is on.
LEMMA RuntimeHolder ==
    ASSUME CommitInv, NEW V \in Records, NEW r \in Runtime, Has(V, "runtime", r)
    PROVE  Has(V, "attempt", runtime[r].current)
<1>1. TxnOk(V) /\ BoardInv /\ RuntimeInv
  BY DEF CommitInv
<1>2. V.kind # "none"
  BY <1>1, Nothing DEF TxnOk, Has
<1>3. V.kind # "publish"
  BY <1>1 DEF TxnOk, PublicationOk, Has, Row
<1>4. CASE V.kind = "reclaim"
  BY <1>1, <1>4 DEF TxnOk, ReclaimOk, Reclaimed
<1>5. CASE V.kind \in UpdateKind
  <2>1. CallOk(V) /\ r = attempt[V.key].runtime /\ V.key \in held
    BY <1>1, <1>5 DEF TxnOk, CallOk
  <2>2. V.at # "attempt"
    BY <2>1 DEF CallOk, Has
  <2>3. Has(V, "attempt", V.key) /\ Active(V.key)
    BY <2>1, <2>2, HoldsHas DEF CallOk, Matches, Active, ActiveStatus
  <2>. QED
    BY <1>1, <2>1, <2>3, LiveRows
<1>6. V.kind \notin {"load", "unload"}
  <2>1. Lock("update", "attempt", V.key).row # Row("runtime", r)
    BY DEF Lock, Row
  <2>. QED
    BY <1>1, <2>1 DEF TxnOk, LoadOk, UnloadOk, Has
<1>. QED
  BY <1>1, <1>2, <1>3, <1>4, <1>5, <1>6 DEF TxnOk, CallKind, UpdateKind, AnyCall

\* What a call has when it is ready to commit.
LEMMA ReadyCall ==
    ASSUME CommitInv, NEW x \in Connection, NEW T, T = txn[x],
           T.at = "ready", T.kind \in UpdateKind
    PROVE  /\ T.key \in held /\ T.key \in Made /\ Active(T.key) /\ Matches(T.kind, T.key)
           /\ IsCurrentAttempt(T.key)
           /\ attempt[T.key].task \in Task /\ attempt[T.key].runtime \in Runtime
           /\ task[attempt[T.key].task].status = "in_progress"
           /\ Has(T, "attempt", T.key)
           /\ T.kind \in EndKind =>
                 /\ Locked(x, "task", attempt[T.key].task)
                 /\ Locked(x, "runtime", attempt[T.key].runtime)
           /\ T.kind # "complete" => DOMAIN T.counts = {}
<1>1. CallOk(T) /\ BoardInv /\ RuntimeInv
  BY DEF CommitInv, Records, TxnOk
<1>2. T.key \in held /\ Matches(T.kind, T.key) /\ Has(T, "attempt", T.key)
  BY <1>1, HoldsHas DEF CallOk
<1>3. Active(T.key)
  BY <1>2 DEF Matches, Active, ActiveStatus
<1>4. T.kind \in EndKind => /\ Has(T, "task", attempt[T.key].task)
                            /\ Has(T, "runtime", attempt[T.key].runtime)
  BY <1>1, HoldsHas DEF CallOk, Tables
<1>5. T.kind # "complete" => DOMAIN T.counts = {}
  BY <1>1 DEF CallOk
<1>. QED
  BY <1>1, <1>2, <1>3, <1>4, <1>5, LiveRows DEF Has, Locked

\* The row of its attempt is the only one a call writes there.
LEMMA OwnAttempt ==
    ASSUME CommitInv, NEW x \in Connection, NEW y \in Connection \ {x},
           Has(txn[x], "attempt", txn[x].key),
           \A k \in Made \ {txn[x].key} : attempt'[k] = attempt[k]
    PROVE  \A k \in Made : Has(txn[y], "attempt", k) => attempt'[k] = attempt[k]
BY Excluded

\* mark_execution_started and renew_lease
LEMMA CallCommits ==
    ASSUME CommitInv, NEW x \in Connection, At(x, "ready"), CommitStart(x) \/ CommitRenewal(x),
           UNCHANGED <<cards, up, held>>
    PROVE  /\ OtherNext
           /\ \A y \in Connection \ {x} : Undisturbed(txn[y])
<1>. PICK T, k : T = txn[x] /\ k = T.key
  OBVIOUS
<1>1. T.at = "ready" /\ T.kind \in {"start", "renew"}
  BY DEF At, CommitStart, CommitRenewal
<1>2. /\ k \in held /\ k \in Made /\ IsCurrentAttempt(k) /\ Matches(T.kind, k) /\ Has(T, "attempt", k)
      /\ attempt[k].runtime \in Runtime
  BY <1>1, ReadyCall DEF CallKind, UpdateKind
<1>3. MarkExecutionStarted(k) \/ RenewLease(k)
  <2>1. CASE CommitStart(x)
    BY <1>2, <2>1 DEF CommitStart, MarkExecutionStarted, Matches, RuntimeOf
  <2>2. CASE CommitRenewal(x)
    BY <1>2, <2>2 DEF CommitRenewal, RenewLease
  <2>. QED
    BY <2>1, <2>2
<1>4. OtherNext
  BY <1>2, <1>3 DEF OtherNext
<1>5. ASSUME NEW y \in Connection \ {x} PROVE Undisturbed(txn[y])
  <2>1. TxnOk(txn[y])
    BY DEF CommitInv, Records
  <2>2. /\ attempt \in [Made -> AttemptRow] /\ runtime \in [Runtime -> RuntimeRow]
        /\ UNCHANGED <<task, deps, held>>
    BY <1>3 DEF CommitInv, RuntimeInv, HeadInv, TypeOK, MarkExecutionStarted, RenewLease
  <2>3. \A j \in Made \ {k} : attempt'[j] = attempt[j]
    BY <1>3, <2>2 DEF MarkExecutionStarted, RenewLease
  <2>4. \A r \in Runtime : runtime'[r].current = runtime[r].current
    BY <1>3, <2>2 DEF MarkExecutionStarted, RenewLease, RuntimeRow
  <2>5. txn[y].kind \in AnyCall => txn[y].key \in held
    BY <2>1, CallsHeld
  <2>6. \A j \in Made : Has(txn[y], "attempt", j) => attempt'[j] = attempt[j]
    BY <1>2, <2>3, OwnAttempt
  <2>. QED
    BY <2>1, <2>2, <2>4, <2>5, <2>6, QuietSteps
<1>. QED
  BY <1>4, <1>5

\* Without counts the dependents stay as they are.
LEMMA NothingCounted ==
    ASSUME NEW x, DOMAIN txn[x].counts = {}, NEW rows \in [Task -> TaskRow]
    PROVE  Counted(x, rows) = rows
BY DEF Counted

\* fail_execution and cancel_execution
LEMMA FailureCommits ==
    ASSUME CommitInv, NEW x \in Connection, At(x, "ready"), CommitEnd(x),
           txn[x].kind \in {"fail", "cancel"}, UNCHANGED <<cards, up, held>>
    PROVE  /\ OtherNext
           /\ \A y \in Connection \ {x} : Undisturbed(txn[y])
<1>. PICK T, k, t : T = txn[x] /\ k = T.key /\ t = attempt[k].task
  OBVIOUS
<1>1. /\ k \in held /\ k \in Made /\ IsCurrentAttempt(k) /\ Has(T, "attempt", k)
      /\ t \in Task /\ task[t].status = "in_progress"
      /\ Locked(x, "task", t) /\ Locked(x, "runtime", attempt[k].runtime)
      /\ DOMAIN T.counts = {}
  BY ReadyCall DEF At, CallKind, UpdateKind, EndKind
<1>. PICK outcome : outcome = TaskOutcome(T.kind, k)
  OBVIOUS
<1>2. /\ outcome = IF T.kind = "cancel" THEN "cancelled"
                   ELSE IF RetryScheduled(k) THEN "pending" ELSE "failed"
      /\ Outcome(T.kind) = IF T.kind = "cancel" THEN "cancelled" ELSE "failed"
      /\ outcome \in TaskStatus
  BY DEF TaskOutcome, Outcome, TaskStatus
<1>3. TypeOK
  BY DEF CommitInv, RuntimeInv, HeadInv
<1>4. Released(k, outcome) \in [Task -> TaskRow]
  BY <1>1, <1>2, <1>3, ReleasedRows
<1>5. Counted(x, Released(k, outcome)) = Released(k, outcome)
  BY <1>1, <1>4, NothingCounted
<1>6. /\ attempt' = Closed(k, Outcome(T.kind))
      /\ task' = Released(k, outcome)
      /\ runtime' = SetRuntimeUnloading(k)
      /\ deps' = deps
  BY <1>1, <1>5 DEF CommitEnd, TaskOf, RuntimeOf
<1>7. FailExecution(k) \/ CancelExecution(k)
  <2>1. CASE T.kind = "fail"
    <3>1. /\ available' = available \cup {u \in {t} : RetryScheduled(k)}
          /\ events' = Record(k, {"execution.failed", "card.unload_started"}
                                    \cup {type \in {"execution.retried"} : RetryScheduled(k)})
      <4>1. Outcome("fail") = "failed" /\ TerminalEvent("failed") = "execution.failed"
        BY DEF Outcome, TerminalEvent
      <4>2. {u \in DOMAIN T.counts : T.counts[u] = 0} = {}
        BY <1>1
      <4>. QED
        BY <2>1, <4>1, <4>2 DEF CommitEnd, TaskOf
    <3>. QED
      BY <1>1, <1>2, <1>6, <2>1, <3>1 DEF FailExecution
  <2>2. CASE T.kind = "cancel"
    <3>1. available' = available /\ events' = Record(k, {"execution.cancelled", "card.unload_started"})
      <4>1. Outcome("cancel") = "cancelled" /\ TerminalEvent("cancelled") = "execution.cancelled"
        BY DEF Outcome, TerminalEvent
      <4>2. {u \in DOMAIN T.counts : T.counts[u] = 0} = {}
        BY <1>1
      <4>. QED
        BY <2>2, <4>1, <4>2 DEF CommitEnd, TaskOf
    <3>. QED
      BY <1>1, <1>2, <1>6, <2>2, <3>1 DEF CancelExecution
  <2>. QED
    BY <2>1, <2>2
<1>8. OtherNext
  BY <1>1, <1>7 DEF OtherNext
<1>9. ASSUME NEW y \in Connection \ {x} PROVE Undisturbed(txn[y])
  <2>1. TxnOk(txn[y])
    BY DEF CommitInv, Records
  <2>2. txn[y].kind \in AnyCall => txn[y].key \in held'
    BY <2>1, CallsHeld
  <2>3. \A j \in Made \ {k} : attempt'[j] = attempt[j]
    BY <1>3, <1>6 DEF Closed, TypeOK
  <2>4. \A j \in Made : Has(txn[y], "attempt", j) => attempt'[j] = attempt[j]
    BY <1>1, <2>3, OwnAttempt
  <2>5. \A r \in Runtime : runtime'[r].current = runtime[r].current
    BY <1>3, <1>6, UnloadingRows
  <2>6. task'[t].status = outcome /\ \A u \in Task \ {t} : task'[u] = task[u]
    BY <1>1, <1>3, <1>6 DEF Released, TypeOK, TaskRow
  <2>7. outcome # "completed"
    BY <1>2
  <2>8. \A u \in Task : /\ task'[u].status = "completed" => task[u].status = "completed"
                        /\ task[u].status = "absent" => task'[u].status = "absent"
    BY <1>1, <2>6, <2>7
  <2>9. /\ \A j \in Made : Has(txn[y], "attempt", j) =>
              /\ attempt'[j].status = attempt[j].status
              /\ attempt[j].lease = "expired" => attempt'[j].lease = "expired"
        /\ \A r \in Runtime : Has(txn[y], "runtime", r) => runtime'[r].current = runtime[r].current
    BY <2>4, <2>5
  <2>10. deps' = deps
    BY <1>6
  <2>. QED
    BY <2>1, <2>2, <2>8, <2>9, <2>10, QuietSteps
<1>. QED
  BY <1>8, <1>9

\* complete_execution: the counts it has taken are those of a recount now, but for the
\* dependents stored late.
LEMMA CompletionCommits ==
    ASSUME CommitInv, NEW x \in Connection, At(x, "ready"), CommitEnd(x),
           txn[x].kind = "complete", UNCHANGED <<cards, up, held>>
    PROVE  /\ \E k \in held : Completes(k)
           /\ late = {} => Next
           /\ (ExactUnlessLate)'
           /\ \A y \in Connection \ {x} : Undisturbed(txn[y])
<1>. PICK T, k, t : T = txn[x] /\ k = T.key /\ t = attempt[k].task
  OBVIOUS
<1>. PICK rows : rows = Released(k, "completed")
  OBVIOUS
<1>1. /\ k \in held /\ k \in Made /\ IsCurrentAttempt(k) /\ Has(T, "attempt", k)
      /\ t \in Task /\ task[t].status = "in_progress"
      /\ Locked(x, "task", t) /\ Locked(x, "runtime", attempt[k].runtime)
  BY ReadyCall DEF At, CallKind, UpdateKind, EndKind
<1>2. T.at = "ready" /\ CompletionOk(T) /\ BoardInv /\ RuntimeInv /\ TypeOK /\ AgreeInv
  BY DEF CommitInv, Records, TxnOk, At, BoardInv, RuntimeInv, HeadInv
<1>3. /\ DOMAIN T.counts = T.rows /\ T.rows \subseteq Dependents(t)
      /\ \A d \in Dependents(t) \ T.rows : <<d, t>> \in late
      /\ \A d \in T.rows :
            /\ T.counts[d] \in Nat
            /\ T.counts[d] >= Cardinality(Remaining(rows, d))
            /\ NothingLate(d) => T.counts[d] = Cardinality(Remaining(rows, d))
            /\ Holds(T, "update", "task", d)
  BY <1>2 DEF CompletionOk, StillOpen
<1>4. Outcome("complete") = "completed" /\ TaskOutcome("complete", k) = "completed"
      /\ TerminalEvent("completed") = "execution.completed"
  BY DEF Outcome, TaskOutcome, TerminalEvent
<1>5. /\ attempt' = Closed(k, "completed")
      /\ task' = Counted(x, rows)
      /\ runtime' = SetRuntimeUnloading(k)
      /\ available' = available \cup {d \in T.rows : T.counts[d] = 0}
      /\ events' = Record(k, {"execution.completed", "card.unload_started"})
      /\ deps' = deps /\ late' = late
  BY <1>1, <1>3, <1>4 DEF CommitEnd, TaskOf, RuntimeOf
<1>6. /\ rows \in [Task -> TaskRow] /\ T.rows \subseteq Task
      /\ \A u \in Task : rows[u].blocked = task[u].blocked
  <2>1. rows \in [Task -> TaskRow]
    BY <1>1, <1>2, ReleasedRows DEF TaskStatus
  <2>2. T.rows \subseteq Task
    BY <1>3 DEF Dependents
  <2>3. \A u \in Task : rows[u].blocked = task[u].blocked
    BY <1>1, <1>2 DEF Released, TypeOK, TaskRow
  <2>. QED
    BY <2>1, <2>2, <2>3
<1>7. /\ task' \in [Task -> TaskRow]
      /\ \A u \in Task : /\ task'[u].status = rows[u].status
                         /\ task'[u].current = rows[u].current
                         /\ task'[u].owner = rows[u].owner
                         /\ task'[u].blocked = IF u \in T.rows THEN T.counts[u] ELSE task[u].blocked
  <2>1. task' = [u \in Task |-> IF u \in T.rows THEN [rows[u] EXCEPT !.blocked = T.counts[u]]
                                ELSE rows[u]]
    BY <1>3, <1>5 DEF Counted
  <2>. QED
    BY <1>3, <1>6, <2>1 DEF TaskRow
<1>8. \A u \in Task : OpenBlockers(u)' = Remaining(rows, u)
  BY <1>5, <1>7 DEF OpenBlockers, Remaining, Blockers
<1>9. Completes(k)
  <2>1. available' \subseteq Task
    BY <1>2, <1>5, <1>6 DEF TypeOK
  <2>2. \A u \in Task : \/ task'[u].blocked = task[u].blocked
                         \/ task'[u].blocked >= Cardinality(OpenBlockers(u)')
    BY <1>3, <1>7, <1>8
  <2>3. \A u \in Task : /\ task'[u].status = Released(k, "completed")[u].status
                         /\ task'[u].current = Released(k, "completed")[u].current
                         /\ task'[u].owner = Released(k, "completed")[u].owner
    BY <1>7
  <2>. QED
    BY <1>1, <1>5, <1>7, <2>1, <2>2, <2>3, Zenon DEF Completes
<1>10. ASSUME late = {} PROVE Next
  <2>1. T.rows = Dependents(t) /\ \A d \in T.rows : T.counts[d] = Cardinality(Remaining(rows, d))
    BY <1>3, <1>10 DEF NothingLate
  <2>2. Counted(x, rows) = Recounted(rows, t)
    BY <1>3, <2>1 DEF Counted, Recounted
  <2>3. {d \in Dependents(t) : T.counts[d] = 0} = Unblocked(rows, t)
    <3>1. ASSUME NEW d \in Dependents(t) PROVE T.counts[d] = 0 <=> Remaining(rows, d) = {}
      <4>1. IsFiniteSet(Remaining(rows, d))
        BY FS_Subset, BoundAssumption DEF Remaining, Blockers
      <4>. QED
        BY <2>1, <4>1, FS_EmptySet
    <3>. QED
      BY <3>1 DEF Unblocked
  <2>4. CompleteExecution(k)
    BY <1>1, <1>5, <2>1, <2>2, <2>3 DEF CompleteExecution
  <2>. QED
    BY <1>1, <2>4 DEF Next
<1>11. ASSUME NEW u \in Task, NothingLate(u)'
       PROVE  task'[u].blocked = Cardinality(OpenBlockers(u)')
  <2>1. NothingLate(u)
    BY <1>5, <1>11 DEF NothingLate
  <2>2. CASE u \in T.rows
    BY <1>3, <1>7, <1>8, <2>1, <2>2
  <2>3. CASE u \notin T.rows
    <3>1. u \notin Dependents(t)
      BY <1>1, <1>3, <2>1, <2>3 DEF NothingLate
    <3>2. OpenBlockers(u)' = OpenBlockers(u)
      BY <1>1, <1>2, <1>9, <3>1, CompletedBlockers
    <3>3. task[u].blocked = Cardinality(OpenBlockers(u))
      BY <2>1 DEF CommitInv, ExactUnlessLate
    <3>. QED
      BY <1>7, <2>3, <3>2, <3>3
  <2>. QED
    BY <2>2, <2>3
<1>12. (ExactUnlessLate)'
  BY <1>11 DEF ExactUnlessLate
<1>13. ASSUME NEW y \in Connection \ {x} PROVE Undisturbed(txn[y])
  <2>. PICK V : V = txn[y]
    OBVIOUS
  <2>1. TxnOk(V)
    BY DEF CommitInv, Records
  <2>2. V.kind \in AnyCall => V.key \in held'
    BY <2>1, CallsHeld
  <2>3. \A j \in Made \ {k} : attempt'[j] = attempt[j]
    BY <1>2, <1>5 DEF Closed, TypeOK
  <2>4. \A j \in Made : Has(V, "attempt", j) => attempt'[j] = attempt[j]
    BY <1>1, <2>3, OwnAttempt
  <2>5. \A r \in Runtime : runtime'[r].current = runtime[r].current
    BY <1>2, <1>5, UnloadingRows
  <2>6. \A u \in Task \ {t} : task'[u].status = task[u].status
    BY <1>1, <1>2, <1>9, CompletedRows
  <2>7. ASSUME NEW d \in Task, Holds(V, "update", "task", d), NEW b \in Blockers(d), b = t
        PROVE  <<d, b>> \in late'
    <3>1. d \in Dependents(t)
      BY <2>7 DEF Blockers, Dependents
    <3>2. d \notin T.rows
      BY <1>3, <2>7, Excluded
    <3>. QED
      BY <1>3, <1>5, <2>7, <3>1, <3>2
  <2>8. V.kind = "publish" => \A u \in DOMAIN V.dag : u \in Task /\ u # t /\ task[u].status = "absent"
    BY <1>1, <2>1, DagsAssumption DEF TxnOk, PublicationOk
  <2>9. \A d : Blockers(d) \subseteq Task
    BY DEF Blockers
  <2>. QED
    BY <1>5, <2>2, <2>4, <2>5, <2>6, <2>7, <2>8, <2>9 DEF Undisturbed
<1>. QED
  BY <1>1, <1>9, <1>10, <1>12, <1>13

\* reclaim_leased_tasks: the attempts it has locked are still expired, and the runtimes
\* it has locked are those that still are on them.
LEMMA ReclaimCommits ==
    ASSUME CommitInv, NEW x \in Connection, At(x, "ready"), CommitReclaim(x),
           UNCHANGED <<cards, up, held>>
    PROVE  /\ OtherNext
           /\ \A y \in Connection \ {x} : Undisturbed(txn[y])
<1>. PICK T, S : T = txn[x] /\ S = Reclaimed(T)
  OBVIOUS
<1>1. T.at = "ready" /\ ReclaimOk(T) /\ BoardInv /\ RuntimeInv
  BY DEF CommitInv, Records, TxnOk, At, CommitReclaim
<1>2. S # {} /\ S \subseteq Reclaimable /\ S \subseteq Made
  BY <1>1 DEF ReclaimOk, Reclaimed
<1>3. TypeOK /\ CurrentIsLatest /\ NoAttempt \notin Made
  BY <1>1, NullAssumption DEF RuntimeInv, HeadInv, TypeOK
<1>4. S = {k \in Made : Locked(x, "attempt", k)}
  BY DEF Reclaimed, Has, Locked
<1>5. \A t \in Task : task[t].current \in S => attempt[task[t].current].task = t
  BY <1>2, <1>3 DEF CurrentIsLatest
<1>6. \A k \in S : attempt[k].task \in Task /\ task[attempt[k].task].current = k
  BY <1>2, <1>3 DEF Reclaimable, TypeOK, AttemptRow
<1>7. \A r \in Runtime : Locked(x, "runtime", r) <=> runtime[r].current \in S
  <2>1. ASSUME NEW r \in Runtime, runtime[r].current \in S PROVE Has(T, "runtime", r)
    <3>. PICK k \in S : k = runtime[r].current
      BY <2>1
    <3>1. k # NoAttempt /\ attempt[k].runtime = r
      BY <1>1, <1>2, <1>3 DEF RuntimeInv, RuntimeFollowsAttempt
    <3>. QED
      BY <1>1, <3>1 DEF ReclaimOk
  <2>2. \A r \in Runtime : Has(T, "runtime", r) => runtime[r].current \in S
    BY <1>1 DEF ReclaimOk
  <2>. QED
    BY <2>1, <2>2 DEF Has, Locked
<1>8. attempt' = [k \in Made |-> IF k \in S
                                 THEN [attempt[k] EXCEPT !.status = "expired", !.lease = "none"]
                                 ELSE attempt[k]]
  <2>1. \A k \in S : Closed(k, "expired")[k] = [attempt[k] EXCEPT !.status = "expired", !.lease = "none"]
    BY <1>2 DEF Closed, Made
  <2>. QED
    BY <1>4, <2>1 DEF CommitReclaim
<1>9. task' = [t \in Task |->
                 IF task[t].current \in S
                 THEN [task[t] EXCEPT
                         !.status = IF RetryScheduled(task[t].current) THEN "pending" ELSE "failed",
                         !.owner = NoRuntime]
                 ELSE task[t]]
  <2>1. ASSUME NEW t \in Task, task[t].current \in S, NEW status
        PROVE  Released(task[t].current, status)[t]
                 = [task[t] EXCEPT !.status = status, !.owner = NoRuntime]
    BY <1>3, <1>5, <2>1 DEF Released, TypeOK
  <2>. QED
    BY <1>4, <2>1 DEF CommitReclaim
<1>10. runtime' = [r \in Runtime |-> IF runtime[r].current \in S
                                     THEN [status |-> "idle", current |-> NoAttempt]
                                     ELSE runtime[r]]
  BY <1>7 DEF CommitReclaim
<1>11. events' = [k \in Made |-> IF k \in S
                    THEN events[k] \cup (Audited \cap
                           {"execution.expired", "card.unload_started", "card.unloaded"})
                    ELSE events[k]]
  <2>1. \A k \in S : \A evs : Record(k, evs)[k] = events[k] \cup (Audited \cap evs)
    BY <1>2, <1>3 DEF Record, TypeOK
  <2>. QED
    BY <1>4, <2>1 DEF CommitReclaim
<1>12. available' = available \cup {t \in Task : task[t].current \in S /\ RetryScheduled(task[t].current)}
  <2>1. {attempt[k].task : k \in {k \in S : RetryScheduled(k)}}
          = {t \in Task : task[t].current \in S /\ RetryScheduled(task[t].current)}
    BY <1>5, <1>6
  <2>. QED
    BY <1>4, <2>1 DEF CommitReclaim
<1>13. ReclaimLeasedTasks(S)
  BY <1>2, <1>8, <1>9, <1>10, <1>11, <1>12, Zenon DEF ReclaimLeasedTasks, CommitReclaim
<1>14. OtherNext
  BY <1>2, <1>13 DEF OtherNext
<1>15. ASSUME NEW y \in Connection \ {x} PROVE Undisturbed(txn[y])
  <2>. PICK V : V = txn[y]
    OBVIOUS
  <2>1. TxnOk(V)
    BY DEF CommitInv, Records
  <2>2. V.kind \in AnyCall => V.key \in held'
    BY <2>1, CallsHeld
  <2>3. \A k \in Made : Has(V, "attempt", k) => attempt'[k] = attempt[k]
    <3>1. \A k \in S : Has(T, "attempt", k)
      BY DEF Reclaimed
    <3>2. \A k \in Made \ S : attempt'[k] = attempt[k]
      BY <1>8
    <3>. QED
      BY <3>1, <3>2, Excluded
  <2>4. \A r \in Runtime : Has(V, "runtime", r) => runtime'[r] = runtime[r]
    <3>1. \A r \in Runtime : runtime[r].current \in S => Has(T, "runtime", r)
      BY <1>7 DEF Has, Locked
    <3>2. \A r \in Runtime : runtime[r].current \notin S => runtime'[r] = runtime[r]
      BY <1>10
    <3>. QED
      BY <3>1, <3>2, Excluded
  <2>5. ASSUME NEW t \in Task PROVE /\ task'[t].status = "completed" => task[t].status = "completed"
                                    /\ task[t].status = "absent" => task'[t].status = "absent"
    <3>1. CASE task[t].current \in S
      <4>1. PICK k \in S : k = task[t].current /\ attempt[k].task = t
        BY <1>5, <3>1
      <4>2. task[t].status = "in_progress"
        BY <1>1, <1>2, <4>1 DEF Reclaimable, BoardInv, AgreeInv, AttemptAndTaskAgree
      <4>3. task'[t].status \in {"pending", "failed"}
        <5>1. PICK status \in {"pending", "failed"} :
                 task'[t] = [task[t] EXCEPT !.status = status, !.owner = NoRuntime]
          BY <1>9, <3>1
        <5>2. task[t] \in TaskRow
          BY <1>3 DEF TypeOK
        <5>. QED
          BY <5>1, <5>2 DEF TaskRow
      <4>. QED
        BY <4>2, <4>3
    <3>2. CASE task[t].current \notin S
      BY <1>9, <3>2
    <3>. QED
      BY <3>1, <3>2
  <2>6. deps' = deps
    BY DEF CommitReclaim
  <2>. QED
    BY <2>1, <2>2, <2>3, <2>4, <2>5, <2>6, QuietSteps
<1>. QED
  BY <1>14, <1>15

\* mark_card_load_started and mark_card_load_failed: whatever has become of the attempt.
LEMMA LoadEventCommits ==
    ASSUME CommitInv, NEW x \in Connection, CommitLoadEvent(x)
    PROVE  /\ OtherNext
           /\ \A y \in Connection \ {x} : Undisturbed(txn[y])
<1>1. TxnOk(txn[x]) /\ txn[x].at = "inserting"
  BY DEF CommitInv, Records, CommitLoadEvent, At
<1>2. txn[x].key \in held
  BY <1>1, KindOfPlace DEF TxnOk, LoadOk
<1>3. OtherNext
  BY <1>2 DEF CommitLoadEvent, OtherNext
<1>4. UNCHANGED <<task, deps, attempt, runtime, held>>
  BY DEF CommitLoadEvent, RecordLoadEvent
<1>5. ASSUME NEW y \in Connection \ {x} PROVE Undisturbed(txn[y])
  <2>1. TxnOk(txn[y])
    BY DEF CommitInv, Records
  <2>2. txn[y].kind \in AnyCall => txn[y].key \in held'
    BY <1>4, <2>1, CallsHeld
  <2>. QED
    BY <1>4, <2>1, <2>2, QuietSteps
<1>. QED
  BY <1>3, <1>5

\* finish_card_unload: nobody has locked the runtime that is still on its attempt.
LEMMA UnloadCommits ==
    ASSUME CommitInv, NEW x \in Connection, CommitUnload(x)
    PROVE  /\ OtherNext
           /\ \A y \in Connection \ {x} : Undisturbed(txn[y])
<1>. PICK T, k : T = txn[x] /\ k = T.key
  OBVIOUS
<1>1. TxnOk(T) /\ T.at = "unloading"
  BY DEF CommitInv, Records, CommitUnload, At
<1>2. k \in held /\ T.locks = {Lock("update", "attempt", k)}
  BY <1>1, KindOfPlace DEF TxnOk, UnloadOk
<1>3. Has(T, "attempt", k)
  BY <1>2 DEF Has, Lock
<1>4. FinishCardUnload(k) \/ FailCardUnload(k)
  BY DEF CommitUnload
<1>5. OtherNext
  BY <1>2, <1>4 DEF OtherNext
<1>6. UNCHANGED <<task, deps, attempt, held>>
  BY <1>4 DEF FinishCardUnload, FailCardUnload
<1>7. ASSUME NEW y \in Connection \ {x} PROVE Undisturbed(txn[y])
  <2>1. TxnOk(txn[y])
    BY DEF CommitInv, Records
  <2>2. txn[y].kind \in AnyCall => txn[y].key \in held'
    BY <1>6, <2>1, CallsHeld
  <2>3. ASSUME NEW r \in Runtime, Has(txn[y], "runtime", r)
        PROVE  runtime'[r].current = runtime[r].current
    <3>1. runtime[r].current # k
      BY <1>3, <2>3, RuntimeHolder, Excluded DEF Records
    <3>2. CASE FailCardUnload(k)
      BY <3>2 DEF FailCardUnload
    <3>3. CASE FinishCardUnload(k)
      <4>1. runtime[attempt[k].runtime].current = k
        BY <3>3 DEF FinishCardUnload, Unloadable
      <4>2. r # attempt[k].runtime
        BY <3>1, <4>1
      <4>3. runtime \in [Runtime -> RuntimeRow]
        BY DEF CommitInv, RuntimeInv, HeadInv, TypeOK
      <4>. QED
        BY <3>3, <4>2, <4>3 DEF FinishCardUnload
    <3>. QED
      BY <1>4, <3>2, <3>3
  <2>. QED
    BY <1>6, <2>1, <2>2, <2>3, QuietSteps
<1>. QED
  BY <1>5, <1>7

\* insert_dag_to_db: every task it has stored is new, and every blocker was there. Which
\* of them had completed, or had a completion under way that has read its dependents, is
\* on record as late.
LEMMA PublicationCommits ==
    ASSUME CommitInv, Rerun = "never", NEW x \in Connection, At(x, "ready"),
           CommitPublication(x), UNCHANGED <<cards, up, held>>
    PROVE  /\ \E dag \in Dags : InsertDag(dag)
           /\ late' = {} => Next
           /\ (ExactUnlessLate)'
           /\ \A y \in Connection \ {x} : Undisturbed(txn[y])
<1>. PICK T, dag : T = txn[x] /\ dag = T.dag
  OBVIOUS
<1>. PICK links : links = {p \in Task \X Task : p[1] \in DOMAIN dag /\ p[2] \in dag[p[1]].blockedBy}
  OBVIOUS
<1>1. T.at = "ready" /\ T.kind = "publish" /\ PublicationOk(T) /\ BoardInv /\ RuntimeInv
  BY DEF CommitInv, Records, TxnOk, At, CommitPublication
<1>2. dag \in Dags /\ DOMAIN dag \subseteq Task /\ \A t \in DOMAIN dag : dag[t].blockedBy \subseteq Task
  BY <1>1, DagsAssumption DEF PublicationOk
<1>3. \A t \in DOMAIN dag : task[t].status = "absent"
  BY <1>1 DEF PublicationOk
<1>4. DOMAIN dag \ T.todo = DOMAIN dag
  BY <1>1 DEF PublicationOk
<1>5. Insertable(dag)
  <2>1. Insertion(T, DOMAIN dag)
    BY <1>1, <1>4 DEF PublicationOk
  <2>. QED
    BY <2>1 DEF Insertion, Insertable
<1>6. /\ task' = [t \in Task |->
                    IF t \in DOMAIN dag
                    THEN [status |-> "pending", blocked |-> Cardinality(dag[t].blockedBy),
                          current |-> NoAttempt, owner |-> NoRuntime,
                          selector |-> dag[t].selector]
                    ELSE task[t]]
      /\ deps' = deps \cup links
      /\ late' = late \cup {p \in links \ deps : p[2] \in Passed}
      /\ available' = (available \ DOMAIN dag) \cup {t \in DOMAIN dag : dag[t].blockedBy = {}}
      /\ UNCHANGED <<attempt, runtime, events>>
  BY DEF CommitPublication
<1>7. \A t \in DOMAIN dag : \A b \in dag[t].blockedBy : task[b].status = "completed" => <<t, b>> \in late'
  <2>. SUFFICES ASSUME NEW t \in DOMAIN dag, NEW b \in dag[t].blockedBy, task[b].status = "completed"
                PROVE  <<t, b>> \in late'
    OBVIOUS
  <2>1. t \in Task /\ b \in Task
    BY <1>2
  <2>2. <<t, b>> \notin deps
    BY <1>1, <1>3, <2>1 DEF BoardInv, AbsentIsBare, Blockers
  <2>3. <<t, b>> \in links \ deps
    BY <2>1, <2>2
  <2>. QED
    BY <1>6, <2>1, <2>3 DEF Passed
<1>8. InsertDag(dag)
  BY <1>3, <1>5, <1>6 DEF InsertDag, MayPublish
<1>9. late' = {} => Next
  <2>1. late' = {} => PublishDag(dag)
    BY <1>7, <1>8 DEF PublishDag
  <2>. QED
    BY <1>2, <2>1 DEF Next
<1>11. ASSUME NEW t \in Task, NothingLate(t)'
       PROVE  task'[t].blocked = Cardinality(OpenBlockers(t)')
  <2>1. CASE t \in DOMAIN dag
    <3>1. /\ dag[t].blockedBy \subseteq Task
          /\ task'[t].blocked = Cardinality(dag[t].blockedBy)
          /\ OpenBlockers(t)' = {b \in dag[t].blockedBy : task[b].status # "completed"}
      BY <1>1, <1>2, <1>8, <2>1, PublicationCounts
    <3>2. OpenBlockers(t)' = dag[t].blockedBy
      BY <1>7, <1>11, <2>1, <3>1 DEF NothingLate
    <3>. QED
      BY <3>1, <3>2
  <2>2. CASE t \notin DOMAIN dag
    <3>1. task'[t] = task[t] /\ OpenBlockers(t)' = OpenBlockers(t)
      BY <1>1, <1>2, <1>8, <2>2, PublicationCounts
    <3>2. NothingLate(t)
      BY <1>6, <1>11 DEF NothingLate
    <3>. QED
      BY <3>1, <3>2 DEF CommitInv, ExactUnlessLate
  <2>. QED
    BY <2>1, <2>2
<1>12. (ExactUnlessLate)'
  BY <1>11 DEF ExactUnlessLate
<1>10. ASSUME NEW y \in Connection \ {x} PROVE Undisturbed(txn[y])
  <2>. PICK V : V = txn[y]
    OBVIOUS
  <2>1. TxnOk(V) /\ DOMAIN V.dag \cap DOMAIN dag = {}
    BY DEF CommitInv, Records, GraphsDiffer
  <2>2. V.kind \in AnyCall => V.key \in held'
    BY <2>1, CallsHeld
  <2>3. V.kind = "publish" => \A t \in DOMAIN V.dag : task'[t].status = "absent"
    <3>1. V.kind = "publish" => \A t \in DOMAIN V.dag : t \in Task /\ task[t].status = "absent"
      BY <2>1, DagsAssumption DEF TxnOk, PublicationOk
    <3>. QED
      BY <1>6, <2>1, <3>1
  <2>4. \A b \in Task : task'[b].status = "completed" => task[b].status = "completed"
    BY <1>6
  <2>5. ASSUME V.kind = "complete", V.at \notin Tables \cup {"reading"}, NEW d \in Task,
               <<d, attempt[V.key].task>> \in deps' \ deps
        PROVE  <<d, attempt[V.key].task>> \in late'
    <3>. PICK t : t = attempt[V.key].task
      OBVIOUS
    <3>1. t \in Task
      BY <1>1, <2>1, <2>5 DEF TxnOk, CallOk, CallKind, UpdateKind, RuntimeInv, HeadInv, TypeOK, AttemptRow
    <3>2. t \in Passed
      BY <2>5, <3>1 DEF Passed, TaskOf
    <3>. QED
      BY <1>6, <2>5, <3>2
  <2>6. \A d : Blockers(d) \subseteq Task
    BY DEF Blockers
  <2>. QED
    BY <1>6, <2>2, <2>3, <2>4, <2>5, <2>6, Zenon DEF Undisturbed
<1>. QED
  BY <1>2, <1>8, <1>9, <1>10, <1>12

\* Every commit keeps the invariant, and is a step of the scheduler unless a dependency
\* was stored late.
LEMMA CommitStep ==
    ASSUME CommitInv, Rerun = "never", NEW x \in Connection, Commit(x)
    PROVE  CommitInv' /\ (late' = {} => Next)
<1>1. /\ UNCHANGED <<cards, up, held>>
      /\ DOMAIN txn' = Connection /\ txn'[x] = NoTxn
      /\ \A y \in Connection \ {x} : txn'[y] = txn[y]
  BY DEF Commit, CommitInv
<1>2. ASSUME LooseNext, late' = {} => Next, late \subseteq late', (ExactUnlessLate)',
             \A y \in Connection \ {x} : Undisturbed(txn[y])
      PROVE  CommitInv' /\ (late' = {} => Next)
  BY <1>1, <1>2, SchedulerStep
<1>3. ASSUME OtherNext, late' = late, \A y \in Connection \ {x} : Undisturbed(txn[y])
      PROVE  CommitInv' /\ (late' = {} => Next)
  <2>1. (ExactUnlessLate)'
    BY <1>3, QuietIsExact DEF CommitInv
  <2>2. LooseNext /\ Next
    BY <1>3 DEF LooseNext, OtherNext, Next
  <2>. QED
    BY <1>2, <1>3, <2>1, <2>2
<1>4. CASE At(x, "ready") /\ (CommitStart(x) \/ CommitRenewal(x))
  BY <1>1, <1>3, <1>4, CallCommits DEF CommitStart, CommitRenewal
<1>5. CASE At(x, "ready") /\ CommitEnd(x)
  <2>1. txn[x].kind \in {"complete", "fail", "cancel"} /\ late' = late
    BY <1>5 DEF CommitEnd
  <2>2. CASE txn[x].kind = "complete"
    <3>1. /\ \E k \in held : Completes(k)
          /\ late = {} => Next
          /\ (ExactUnlessLate)'
          /\ \A y \in Connection \ {x} : Undisturbed(txn[y])
      BY <1>1, <1>5, <2>2, CompletionCommits
    <3>2. LooseNext
      BY <3>1 DEF LooseNext
    <3>. QED
      BY <1>2, <2>1, <3>1, <3>2
  <2>3. CASE txn[x].kind \in {"fail", "cancel"}
    BY <1>1, <1>3, <1>5, <2>1, <2>3, FailureCommits
  <2>. QED
    BY <2>1, <2>2, <2>3
<1>6. CASE At(x, "ready") /\ CommitReclaim(x)
  BY <1>1, <1>3, <1>6, ReclaimCommits DEF CommitReclaim
<1>7. CASE At(x, "ready") /\ CommitPublication(x)
  <2>1. /\ \E dag \in Dags : InsertDag(dag)
        /\ late' = {} => Next
        /\ (ExactUnlessLate)'
        /\ \A y \in Connection \ {x} : Undisturbed(txn[y])
    BY <1>1, <1>7, PublicationCommits
  <2>2. LooseNext
    BY <2>1 DEF LooseNext
  <2>3. late \subseteq late'
    BY <1>7 DEF CommitPublication
  <2>. QED
    BY <1>2, <2>1, <2>2, <2>3
<1>8. CASE CommitLoadEvent(x) /\ late' = late
  BY <1>3, <1>8, LoadEventCommits
<1>9. CASE CommitUnload(x) /\ late' = late
  BY <1>3, <1>9, UnloadCommits
<1>. QED
  BY <1>4, <1>5, <1>6, <1>7, <1>8, <1>9 DEF Commit

\* So is whatever else happens.
LEMMA OtherSteps ==
    ASSUME CommitInv, Rerun = "never",
           \/ \E r \in Runtime : Process(r) \/ \E t \in Task : Claim(r, t)
           \/ \E k \in Made : Simple(k)
           \/ \E c \in Managed : SetCardStatus(c) /\ UNCHANGED txnVars
    PROVE  CommitInv' /\ Next
<1>0. ASSUME OtherNext, late' = late PROVE LooseNext /\ Next /\ (ExactUnlessLate)'
  <2>1. LooseNext /\ Next
    BY <1>0 DEF LooseNext, OtherNext, Next
  <2>. QED
    BY <1>0, <2>1, QuietIsExact DEF CommitInv
<1>1. CASE \E r \in Runtime : Process(r)
  <2>1. PICK r \in Runtime : Process(r)
    BY <1>1
  <2>2. OtherNext /\ late' = late
    BY <2>1 DEF Process, OtherNext
  <2>3. \A y \in Connection : \/ txn'[y] = NoTxn
                              \/ txn'[y] = txn[y] /\ txn[y].key \in held' \cup {NoAttempt}
    BY <2>1 DEF Process
  <2>4. \A y \in Connection : txn[y].key \in held' \cup {NoAttempt} => Undisturbed(txn[y])
    BY <2>1, ProcessDisturbs DEF Records
  <2>5. DOMAIN txn' = Connection
    BY <2>1 DEF Process
  <2>. QED
    BY <1>0, <2>2, <2>3, <2>4, <2>5, SchedulerStep
<1>2. ASSUME OtherNext, UNCHANGED txnVars, \A T \in Records : Undisturbed(T) PROVE CommitInv' /\ Next
  <2>1. \A y \in Connection : txn'[y] = txn[y] /\ Undisturbed(txn[y])
    BY <1>2 DEF Records, txnVars
  <2>2. DOMAIN txn' = Connection /\ late' = late
    BY <1>2 DEF CommitInv, txnVars
  <2>. QED
    BY <1>0, <1>2, <2>1, <2>2, SchedulerStep
<1>3. CASE \E r \in Runtime, t \in Task : Claim(r, t)
  <2>1. PICK r \in Runtime, t \in Task : Claim(r, t)
    BY <1>3
  <2>2. OtherNext /\ UNCHANGED txnVars
    BY <2>1 DEF Claim, OtherNext
  <2>. QED
    BY <1>2, <2>1, <2>2, ClaimDisturbs
<1>5. CASE \/ \E k \in Made : Simple(k)
           \/ \E c \in Managed : SetCardStatus(c) /\ UNCHANGED txnVars
  <2>1. OtherNext /\ UNCHANGED txnVars
    BY <1>5 DEF Simple, RejectStale, DropClaim, OtherNext
  <2>. QED
    BY <1>2, <1>5, <2>1, SimpleDisturbs
<1>. QED
  BY <1>1, <1>3, <1>5

\* At first no transaction is open.
LEMMA CommitInvInit == TransactionsInit => CommitInv
<1>. SUFFICES ASSUME TransactionsInit PROVE CommitInv
  OBVIOUS
<1>1. BoardInv /\ RuntimeInv
  BY BoardInit, RuntimeInvInit DEF TransactionsInit
<1>2. DOMAIN txn = Connection /\ \A x \in Connection : txn[x] = NoTxn
  BY DEF TransactionsInit
<1>3. ExactUnlessLate
  BY ExactInit DEF TransactionsInit, ExactUnlessLate, ExactCounts
<1>. QED
  BY <1>1, <1>2, <1>3, Nothing DEF CommitInv, Records, LocksExclude, GraphsDiffer

\* CommitInv is inductive, whatever is stored late; and as long as nothing is, every step
\* is one of the scheduler.
LEMMA CommitInvNext ==
    ASSUME Rerun = "never", CommitInv, [TransactionsNext]_allVars
    PROVE  CommitInv' /\ (late' = {} => [Next]_vars)
<1>1. CASE \E x \in Connection : TransactionStep(x)
  BY <1>1, StatementStep, CommitStep
<1>2. CASE UNCHANGED allVars
  <2>1. UNCHANGED vars /\ UNCHANGED txn /\ late' = late
    BY <1>2 DEF allVars, txnVars
  <2>2. \A T \in Records : Undisturbed(T)
    BY <2>1, NothingDisturbed DEF CommitInv
  <2>3. \A y \in Connection : txn'[y] = txn[y] /\ Undisturbed(txn[y])
    BY <2>1, <2>2 DEF Records
  <2>4. DOMAIN txn' = Connection /\ (ExactUnlessLate)'
    BY <2>1, QuietIsExact DEF CommitInv
  <2>. QED
    BY <2>1, <2>3, <2>4, SchedulerStep
<1>. QED
  BY <1>1, <1>2, OtherSteps DEF TransactionsNext

\* As long as no dependency was stored late, whatever runs between the statements of
\* a transaction of lib/dag_scheduler.py: its commit is one step of the scheduler,
\* for any number of connections.
THEOREM CommitsCorrect ==
    ASSUME Rerun = "never"
    PROVE  TransactionsSpec => CommitsAreAtomic
<1>1. CommitInv /\ [TransactionsNext]_allVars => CommitInv' /\ [late' = {} => Next]_vars
  BY CommitInvNext
<1>. QED
  BY <1>1, CommitInvInit, PTL DEF TransactionsSpec, CommitsAreAtomic

\* The rows that other transactions see, late dependencies or not: an attempt and its
\* task agree, a runtime's row follows its attempt, no process has two live attempts,
\* and no task was attempted before its blockers completed.
THEOREM RowsCorrect ==
    ASSUME Rerun = "never"
    PROVE  TransactionsSpec =>
              [](/\ AttemptAndTaskAgree
                 /\ RuntimeFollowsAttempt
                 /\ OneLiveAttemptPerProcess
                 /\ StartedAfterBlockers)
<1>1. CommitInv /\ [TransactionsNext]_allVars => CommitInv'
  BY CommitInvNext
<1>2. CommitInv => /\ AttemptAndTaskAgree
                   /\ RuntimeFollowsAttempt
                   /\ OneLiveAttemptPerProcess
                   /\ StartedAfterBlockers
  <2>1. CommitInv => AttemptAndTaskAgree /\ RuntimeFollowsAttempt /\ StartedAfterBlockers
    BY DEF CommitInv, BoardInv, AgreeInv, RuntimeInv
  <2>2. CommitInv => OneLiveAttemptPerProcess
    BY DEF CommitInv, RuntimeInv, HeldIsCurrent, OneLiveAttemptPerProcess
  <2>. QED
    BY <2>1, <2>2
<1>. QED
  BY <1>1, <1>2, CommitInvInit, PTL DEF TransactionsSpec

\* The counts that the SELECTs of concurrent completions have produced: none is below
\* the number of open blockers, so no release comes early; and that of a task none of
\* whose dependencies was stored late is exact, so none is lost.
THEOREM ReleasesCorrect ==
    ASSUME Rerun = "never"
    PROVE  TransactionsSpec => []BlockedIsExactUnlessLate
<1>1. CommitInv /\ [TransactionsNext]_allVars => CommitInv'
  BY CommitInvNext
<1>2. CommitInv => BlockedIsExactUnlessLate
  <2>. SUFFICES ASSUME CommitInv, NEW t \in Task
                PROVE  /\ task[t].blocked >= Cardinality(OpenBlockers(t))
                       /\ NothingLate(t) => task[t].blocked = Cardinality(OpenBlockers(t))
    BY DEF BlockedIsExactUnlessLate, NothingLate
  <2>1. task[t].blocked \in Nat /\ Cardinality(OpenBlockers(t)) \in Nat
    BY OpenIsFinite, FS_CardinalityType DEF CommitInv, RuntimeInv, HeadInv, TypeOK, TaskRow
  <2>. QED
    BY <2>1 DEF CommitInv, BoardInv, CountsCoverBlockers, ExactUnlessLate
<1>. QED
  BY <1>1, <1>2, CommitInvInit, PTL DEF TransactionsSpec

-----------------------------------------------------------------------------
(* Deadlocks. *)

\* The rows the next statement of a transaction wants to lock.
LEMMA WantedRows ==
    ASSUME NEW x, NEW T, T = txn[x], NEW wanted \in Wanted(x)
    PROVE  /\ T.at \in {"attempt", "task", "runtime", "locking", "setting", "freeing",
                       "storing", "linking", "inserting", "unloading"}
           /\ T.at \in {"task", "locking", "linking"} => \E t : wanted.row = Row("task", t)
           /\ T.at = "linking" => wanted.mode = "share"
           /\ T.at = "runtime" => wanted.row = Row("runtime", attempt[T.key].runtime)
           /\ T.at \in {"setting", "storing"} => \E t \in T.todo : wanted.row = Row("task", t)
           /\ T.at = "freeing" => \E k \in T.todo :
                 \E r \in Runtime : wanted.row = Row("runtime", r) /\ runtime[r].current = k
           /\ T.at = "unloading" =>
                 \E r : wanted.row = Row("runtime", r) /\ r = RuntimeOf(x) /\ runtime[r].current = T.key
<1>1. CASE T.at \in Tables
  <2>1. wanted \in [mode : {"write"}, row : Found(x)]
    BY <1>1 DEF Wanted, At, Tables
  <2>. QED
    BY <1>1, <2>1 DEF Found, At, Tables, TaskOf, RuntimeOf
<1>2. CASE T.at = "locking"
  <2>1. \E t \in T.todo : wanted \in DependentLock(t)
    BY <1>2 DEF Wanted, At, Tables
  <2>. QED
    BY <1>2, <2>1 DEF DependentLock, Lock
<1>3. CASE T.at \in {"setting", "storing"}
  <2>1. wanted \in [mode : {"write"}, row : {Row("task", t) : t \in T.todo}]
    BY <1>3 DEF Wanted, At, Tables
  <2>. QED
    BY <1>3, <2>1
<1>4. CASE T.at = "freeing"
  <2>1. wanted \in [mode : {"write"}, row : {Row("runtime", i) : i \in {i \in Runtime :
                       \E k \in T.todo : attempt[k].runtime = i /\ runtime[i].current = k}}]
    BY <1>4 DEF Wanted, At, Tables
  <2>. QED
    BY <1>4, <2>1
<1>5. CASE T.at = "linking"
  <2>1. wanted \in [mode : {"share"}, row : {Row("task", b) : b \in Unlinked(x)}]
    BY <1>5 DEF Wanted, At, Tables
  <2>. QED
    BY <1>5, <2>1
<1>6. CASE T.at = "unloading"
  <2>1. wanted \in [mode : {"write"}, row : {Row("runtime", i) : i \in {i \in {RuntimeOf(x)} :
                                                runtime[i].current = T.key}}]
    BY <1>6 DEF Wanted, At, Tables
  <2>. QED
    BY <1>6, <2>1
<1>7. T.at \in Tables \cup {"locking", "setting", "freeing", "storing", "linking",
                            "inserting", "unloading"}
  BY DEF Wanted, At
<1>. QED
  BY <1>1, <1>2, <1>3, <1>4, <1>5, <1>6, <1>7 DEF Tables

\* So a statement waits for another transaction only for the row of the attempt or of
\* the task of its call, of a dependent, or of a blocker, or to insert a load event.
LEMMA WhereToWait ==
    ASSUME CommitInv, NEW x \in Connection, NEW y \in Connection, WaitsFor(x, y)
    PROVE  txn[x].at \in {"attempt", "task", "locking", "linking", "inserting"}
<1>. PICK T, V : T = txn[x] /\ V = txn[y]
  OBVIOUS
<1>1. PICK wanted \in Wanted(x), lock \in V.locks : Conflict(wanted, lock)
  BY DEF WaitsFor
<1>2. x # y /\ wanted.row = lock.row /\ T \in Records /\ V \in Records
  BY <1>1 DEF WaitsFor, Conflict, Records
<1>3. TxnOk(T) /\ TxnOk(V) /\ BoardInv /\ RuntimeInv
  BY <1>2 DEF CommitInv
<1>4. ASSUME NEW r \in Runtime, wanted.row = Row("runtime", r)
      PROVE  ~ Has(T, "attempt", runtime[r].current)
  <2>1. Has(V, "runtime", r)
    BY <1>2, <1>4 DEF Has
  <2>. QED
    BY <1>2, <2>1, RuntimeHolder, Excluded
<1>5. T.at # "runtime"
  <2>. SUFFICES ASSUME T.at = "runtime" PROVE FALSE
    OBVIOUS
  <2>1. CallOk(T) /\ Has(T, "attempt", T.key) /\ Active(T.key) /\ T.key \in held
    BY <1>3, KindOfPlace, HoldsHas DEF TxnOk, CallOk, Tables, Matches, Active, ActiveStatus
  <2>2. wanted.row = Row("runtime", attempt[T.key].runtime)
    BY WantedRows
  <2>. QED
    BY <1>3, <1>4, <2>1, <2>2, LiveRows
<1>6. T.at # "freeing"
  <2>. SUFFICES ASSUME T.at = "freeing" PROVE FALSE
    OBVIOUS
  <2>1. PICK k \in T.todo, r \in Runtime : wanted.row = Row("runtime", r) /\ runtime[r].current = k
    BY WantedRows
  <2>2. ReclaimOk(T)
    BY <1>3, KindOfPlace DEF TxnOk
  <2>3. Has(T, "attempt", k)
    BY <2>2 DEF ReclaimOk, Reclaimed
  <2>. QED
    BY <1>4, <2>1, <2>3
<1>7. T.at # "setting"
  <2>. SUFFICES ASSUME T.at = "setting" PROVE FALSE
    OBVIOUS
  <2>1. PICK t \in T.todo : wanted.row = Row("task", t)
    BY WantedRows
  <2>2. CompletionOk(T)
    BY <1>3, KindOfPlace DEF TxnOk
  <2>3. Lock("update", "task", t) \in T.locks
    BY <2>2 DEF CompletionOk, Holds
  <2>4. PICK own : own = Lock("update", "task", t)
    OBVIOUS
  <2>5. own.row = lock.row /\ own.mode = "update"
    BY <1>2, <2>1, <2>4 DEF Lock
  <2>6. Conflict(own, lock)
    BY <2>5, Conflicts
  <2>. QED
    BY <1>2, <2>3, <2>4, <2>6 DEF CommitInv, LocksExclude
<1>8. T.at # "storing"
  <2>. SUFFICES ASSUME T.at = "storing" PROVE FALSE
    OBVIOUS
  <2>1. PICK t \in T.todo : wanted.row = Row("task", t)
    BY WantedRows
  <2>6. PublicationOk(T)
    BY <1>3, KindOfPlace DEF TxnOk
  <2>2. /\ t \in DOMAIN T.dag /\ t \in Task
        /\ task[t].status = "absent"
    BY <2>6, DagsAssumption DEF PublicationOk
  <2>3. Has(V, "task", t) /\ V.kind # "none"
    BY <1>2, <1>3, <2>1, Nothing DEF Has, TxnOk
  <2>4. V.kind = "publish" /\ t \in StoredBy(V)
    <3>1. V.kind \notin UpdateKind \cup {"reclaim"}
      BY <1>3, <2>2, <2>3 DEF TxnOk, CallOk, ReclaimOk
    <3>2. V.kind \notin {"load", "unload"}
      <4>1. Lock("update", "attempt", V.key).row # Row("task", t)
        BY DEF Lock, Row
      <4>. QED
        BY <1>3, <2>3, <4>1 DEF TxnOk, LoadOk, UnloadOk, Has
    <3>3. V.kind = "publish"
      BY <1>3, <2>3, <3>1, <3>2 DEF TxnOk, CallKind, UpdateKind, AnyCall
    <3>. QED
      BY <1>3, <2>2, <2>3, <3>3 DEF TxnOk, PublicationOk
  <2>5. t \in DOMAIN V.dag
    BY <2>4 DEF StoredBy
  <2>. QED
    BY <1>2, <2>2, <2>5 DEF CommitInv, GraphsDiffer
<1>9. T.at # "unloading"
  <2>. SUFFICES ASSUME T.at = "unloading" PROVE FALSE
    OBVIOUS
  <2>1. T.key \in held /\ T.locks = {Lock("update", "attempt", T.key)}
    BY <1>3, KindOfPlace DEF TxnOk, UnloadOk
  <2>2. PICK r : wanted.row = Row("runtime", r) /\ r = RuntimeOf(x) /\ runtime[r].current = T.key
    BY WantedRows
  <2>3. r \in Runtime
    BY <1>3, <2>1, <2>2 DEF RuntimeOf, RuntimeInv, HeadInv, TypeOK, AttemptRow
  <2>4. Has(T, "attempt", T.key)
    BY <2>1 DEF Has, Lock
  <2>. QED
    BY <1>4, <2>2, <2>3, <2>4
<1>. QED
  BY <1>1, <1>5, <1>6, <1>7, <1>8, <1>9, WantedRows

\* Transactions each of which waits for one of them, and is waited for by one.
Circle(D) ==
    /\ D # {}
    /\ \A x \in D : (\E y \in D : WaitsFor(x, y)) /\ (\E y \in D : WaitsFor(y, x))

ConfinedTo(D) ==
    /\ \A x \in D : txn[x].at \in {"locking", "linking"}
    /\ \E x \in D : txn[x].at = "locking"

\* Who waits for its attempt, or inserts a load event, holds nothing, and who waits for its task nothing that
\* the others wait for; and those who link tasks share the locks on the blockers.
LEMMA CirclesLockDependents ==
    ASSUME CommitInv, NEW D \in SUBSET Connection, Circle(D)
    PROVE  ConfinedTo(D)
<1>0. \A x \in D : txn[x].at \in {"attempt", "task", "locking", "linking", "inserting"}
  BY WhereToWait DEF Circle
<1>1. \A x \in D : txn[x].at \in {"attempt", "task", "locking", "linking"}
  <2>1. \A x \in D : txn[x].locks # {}
    BY DEF Circle, WaitsFor
  <2>2. \A x \in D : txn[x].at = "inserting" => txn[x].locks = {}
    BY KindOfPlace DEF CommitInv, Records, TxnOk, LoadOk
  <2>. QED
    BY <1>0, <2>1, <2>2
<1>2. \A x \in D : txn[x].at \in Tables => CallOk(txn[x])
  BY KindOfPlace DEF CommitInv, Records, TxnOk
<1>3. ASSUME NEW x \in D PROVE txn[x].at # "attempt"
  <2>1. txn[x].locks # {}
    BY DEF Circle, WaitsFor
  <2>. QED
    BY <1>2, <2>1 DEF CallOk, Tables
<1>4. ASSUME NEW x \in D PROVE txn[x].at # "task"
  <2>0. PICK y \in D : WaitsFor(y, x)
    BY DEF Circle
  <2>1. PICK wanted \in Wanted(y), lock \in txn[x].locks : wanted.row = lock.row
    BY <2>0 DEF WaitsFor, Conflict
  <2>2. \E t : wanted.row = Row("task", t)
    BY <1>1, <1>3, WantedRows
  <2>3. \A t : Row("attempt", txn[x].key) # Row("task", t)
    BY DEF Row
  <2>4. txn[x].at = "task" => lock.row = Row("attempt", txn[x].key)
    BY <1>2 DEF CallOk, Tables
  <2>. QED
    BY <2>1, <2>2, <2>3, <2>4
<1>5. ASSUME NEW x \in D, NEW y \in D, WaitsFor(x, y), txn[x].at = "linking", txn[y].at = "linking"
      PROVE  FALSE
  <2>1. PICK wanted \in Wanted(x), lock \in txn[y].locks : Conflict(wanted, lock)
    BY <1>5 DEF WaitsFor
  <2>2. wanted.mode = "share"
    BY <1>5, WantedRows
  <2>3. PublicationOk(txn[y])
    BY <1>5, KindOfPlace DEF CommitInv, Records, TxnOk
  <2>4. lock.mode \in {"share", "write"}
    BY <2>3 DEF PublicationOk
  <2>. QED
    BY <2>1, <2>2, <2>4 DEF Conflict
<1>6. \A x \in D : txn[x].at \in {"locking", "linking"}
  BY <1>1, <1>3, <1>4
<1>. QED
  BY <1>5, <1>6 DEF Circle, ConfinedTo

\* Two transactions wait for each other only while both complete a blocker and lock the
\* rows of the dependents they share, or one of them publishes tasks that wait for
\* several of these dependents: an attempt, its task and its runtime are locked in this
\* order by whoever waits for them, so the calls about an attempt, the reclaims and the
\* publications never deadlock among themselves.
THEOREM DeadlocksAreConfined ==
    ASSUME Rerun = "never"
    PROVE  TransactionsSpec => []DeadlocksOnlyAmongDependents
<1>1. CommitInv /\ [TransactionsNext]_allVars => CommitInv'
  BY CommitInvNext
<1>2. CommitInv => DeadlocksOnlyAmongDependents
  <2>. SUFFICES ASSUME CommitInv, NEW x \in Connection, NEW y \in Connection,
                       WaitsFor(x, y), WaitsFor(y, x)
                PROVE  {txn[x].at, txn[y].at} \in {{"locking"}, {"locking", "linking"}}
    BY DEF DeadlocksOnlyAmongDependents
  <2>1. ConfinedTo({x, y})
    BY CirclesLockDependents DEF Circle
  <2>2. /\ txn[x].at \in {"locking", "linking"} /\ txn[y].at \in {"locking", "linking"}
        /\ txn[x].at = "locking" \/ txn[y].at = "locking"
    BY <2>1 DEF ConfinedTo
  <2>. QED
    BY <2>2
<1>. QED
  BY <1>1, <1>2, CommitInvInit, PTL DEF TransactionsSpec

\* The same of any number of transactions that wait for each other in a circle.
THEOREM CirclesAreConfined ==
    ASSUME Rerun = "never"
    PROVE  TransactionsSpec => [](\A D \in SUBSET Connection : Circle(D) => ConfinedTo(D))
<1>1. CommitInv /\ [TransactionsNext]_allVars => CommitInv'
  BY CommitInvNext
<1>2. CommitInv => \A D \in SUBSET Connection : Circle(D) => ConfinedTo(D)
  BY CirclesLockDependents
<1>. QED
  BY <1>1, <1>2, CommitInvInit, PTL DEF TransactionsSpec

=============================================================================

--------------------------- MODULE DecomposerProofs ---------------------------
(***************************************************************************)
(* The verdict of detect_cycles, what an accepted graph is worth, and why  *)
(* a decomposition ends, for every list of tasks, any size of it and any   *)
(* order of the search.                                                    *)
(***************************************************************************)
EXTENDS DagDecomposer, SequenceTheorems, FiniteSetTheorems, TLAPS

\* The stages that have a task list, and those that have a graph without errors.
Accepted == {"saving", "saved", "not_saved"}
Listed == {"searching", "judging"} \cup Accepted

SearchTyped ==
    /\ color \in [Ids -> {"WHITE", "GRAY", "BLACK"}]
    /\ todo \in [Ids -> SUBSET Ids]
    /\ path \in Seq(Ids) /\ cycle \in Seq(Ids)

\* The stack of dfs: the gray nodes, each once, from task to dependent.
StackIsAPath ==
    /\ \A i \in 1 .. Len(path) : color[path[i]] = "GRAY"
    /\ \A i, j \in 1 .. Len(path) : path[i] = path[j] => i = j
    /\ \A i \in 1 .. Len(path) - 1 : Edge(path[i], path[i + 1])
    /\ \A n \in Ids : color[n] = "GRAY" => \E i \in 1 .. Len(path) : path[i] = n

\* The child that the search of b has entered last.
Entering(b, t) == \E i \in 1 .. Len(path) - 1 : path[i] = b /\ path[i + 1] = t

\* A dependent that b need not look at any more is done, or is being searched from b.
DependentsSeen ==
    /\ \A b \in Ids : \A t \in todo[b] : Edge(b, t)
    /\ cycle = <<>> =>
          \A b, t \in Ids : Edge(b, t) /\ t \notin todo[b] => color[t] = "BLACK" \/ Entering(b, t)

\* No tasks whose search is over wait for each other.
Black == {n \in Ids : color[n] = "BLACK"}

BlackIsDone ==
    /\ \A b \in Black : \A t \in Ids : Edge(b, t) => t \in Black
    /\ \A S \in SUBSET Black : ~ Stuck(S)

CycleIsOne ==
    cycle # <<>> =>
        /\ Len(cycle) >= 2
        /\ cycle[1] = cycle[Len(cycle)]
        /\ \A i \in 1 .. Len(cycle) - 1 : Edge(cycle[i], cycle[i + 1])
        /\ \A i, j \in 1 .. Len(cycle) - 1 : cycle[i] = cycle[j] => i = j

SearchInv == SearchTyped /\ StackIsAPath /\ DependentsSeen /\ BlackIsDone /\ CycleIsOne

\* What the search and the other checks leave for the verdict.
ErrorsNoted ==
    /\ MissingReferences(rows) \subseteq errors
    /\ stage # "searching" /\ cycle # <<>> => "cycle" \in errors
    /\ stage # "searching" /\ cycle = <<>> => Black = Ids
    /\ stage \in Accepted => errors = {}

DecomposerInv == stage \in Listed => SearchInv /\ ErrorsNoted


-----------------------------------------------------------------------------
(* The search. *)

\* A search that begins: every task is white and has all its dependents to look at.
LEMMA SearchBegins ==
    ASSUME NEW reply \in Replies, ValidateReply(reply)
    PROVE  DecomposerInv'
<1> USE DEF ValidateReply
<1>1. Ids' = IdsOf(rows')
  BY DEF Ids, IdsOf
<1>2. /\ stage' = "searching" /\ path' = <<>> /\ cycle' = <<>>
      /\ color' = [n \in Ids' |-> "WHITE"] /\ todo' = Adjacency(rows')
  BY <1>1
<1>3. todo' = [b \in Ids' |-> {t \in Ids' : Edge(b, t)'}]
  <2> DEFINE list == rows'
  <2>1. \A b : {list[i].id : i \in {j \in DOMAIN list : b \in list[j].blockedBy}} =
               {t \in Ids' : \E i \in DOMAIN list : list[i].id = t /\ b \in list[i].blockedBy}
    BY <1>1 DEF IdsOf
  <2> QED BY <1>1, <1>2, <2>1 DEF Adjacency, Edge
<1>4. SearchTyped' /\ StackIsAPath' /\ CycleIsOne'
  BY <1>2, <1>3, EmptySeq DEF SearchTyped, StackIsAPath, CycleIsOne
<1>5. DependentsSeen'
  BY <1>2, <1>3 DEF DependentsSeen
<1>6. BlackIsDone'
  <2>1. Black' = {}
    BY <1>2 DEF Black
  <2> QED BY <2>1 DEF BlackIsDone, Stuck
<1>7. ErrorsNoted'
  BY <1>2 DEF ErrorsNoted, Accepted
<1> QED BY <1>4, <1>5, <1>6, <1>7 DEF DecomposerInv, SearchInv

\* What a step of the search leaves alone.
SameList == UNCHANGED <<stage, attempt, lastError, rows, errors>>

\* The tasks and the edges are those of the list.
LEMMA SameIds ==
    ASSUME rows' = rows
    PROVE  Ids' = Ids /\ \A b, t : Edge(b, t)' <=> Edge(b, t)
BY DEF Ids, Edge

\* As long as the search goes on, the other checks keep their errors.
LEMMA ErrorsKept ==
    ASSUME ErrorsNoted, stage = "searching", SameList
    PROVE  ErrorsNoted'
BY DEF ErrorsNoted, SameList, MissingReferences, IdsOf, Accepted

\* The node on top of a stack that is not empty.
LEMMA TopIsLast ==
    ASSUME SearchTyped, path # <<>>
    PROVE  /\ Len(path) \in Nat /\ Len(path) >= 1 /\ Len(path) \in 1 .. Len(path)
           /\ path[Len(path)] \in Ids /\ Top = path[Len(path)]
<1>1. path \in Seq(Ids)
  BY DEF SearchTyped
<1>2. Len(path) \in Nat /\ Len(path) # 0
  BY <1>1, EmptySeq
<1> QED BY <1>1, <1>2, ElementOfSeq DEF Top

\* A white node is entered, from the loop over the tasks or from the node on top.
LEMMA PushKeeps ==
    ASSUME SearchInv, cycle = <<>>, NEW n \in Ids, color[n] = "WHITE", Push(n),
           rows' = rows, cycle' = cycle,
           \/ path = <<>> /\ todo' = todo
           \/ path # <<>> /\ n \in todo[Top] /\ todo' = [todo EXCEPT ![Top] = @ \ {n}]
    PROVE  SearchInv'
<1> DEFINE l == Len(path)
<1> USE DEF Entered
<1>1. Ids' = Ids /\ \A b, t : Edge(b, t)' <=> Edge(b, t)
  BY SameIds
<1>2. SearchTyped /\ StackIsAPath /\ DependentsSeen /\ BlackIsDone
  BY DEF SearchInv
<1>3. /\ color \in [Ids -> {"WHITE", "GRAY", "BLACK"}] /\ todo \in [Ids -> SUBSET Ids]
      /\ path \in Seq(Ids) /\ cycle \in Seq(Ids) /\ l \in Nat
  BY <1>2, EmptySeq DEF SearchTyped
<1>4. /\ path' \in Seq(Ids) /\ Len(path') = l + 1
      /\ \A i \in 1 .. l : path'[i] = path[i] /\ path[i] \in Ids
      /\ path'[l + 1] = n
  BY <1>3, AppendProperties, ElementOfSeq DEF Push
<1>5. /\ color' = [color EXCEPT ![n] = "GRAY"]
      /\ color' \in [Ids -> {"WHITE", "GRAY", "BLACK"}] /\ color'[n] = "GRAY"
      /\ \A m \in Ids : m # n => color'[m] = color[m]
  BY <1>3 DEF Push
<1>6. l > 0 => path # <<>> /\ Top = path[l] /\ path[l] \in Ids /\ n \in todo[path[l]]
  <2>1. SUFFICES ASSUME l > 0 PROVE path # <<>>
    BY <1>2, TopIsLast
  <2> QED BY <1>3, <2>1, EmptySeq
<1>7. /\ todo' \in [Ids -> SUBSET Ids]
      /\ \A b \in Ids : todo'[b] \subseteq todo[b]
      /\ \A b \in Ids : \A t \in todo[b] \ todo'[b] : l > 0 /\ b = path[l] /\ t = n
  <2>1. CASE path = <<>> /\ todo' = todo
    BY <1>3, <2>1
  <2>2. CASE path # <<>> /\ n \in todo[Top] /\ todo' = [todo EXCEPT ![Top] = @ \ {n}]
    <3>1. l > 0 /\ Top = path[l] /\ path[l] \in Ids
      BY <1>2, <2>2, TopIsLast
    <3> QED BY <1>3, <2>2, <3>1
  <2> QED BY <2>1, <2>2
<1>8. SearchTyped'
  BY <1>1, <1>3, <1>4, <1>5, <1>7 DEF SearchTyped
<1>9. \A i \in 1 .. l : path[i] # n
  BY <1>2 DEF StackIsAPath
<1>10. StackIsAPath'
  <2>1. \A i \in 1 .. Len(path') : color'[path'[i]] = "GRAY"
    <3>1. TAKE i \in 1 .. Len(path')
    <3>2. CASE i = l + 1
      BY <1>4, <1>5, <3>2
    <3>3. CASE i \in 1 .. l
      BY <1>2, <1>4, <1>5, <1>9, <3>3 DEF StackIsAPath
    <3> QED BY <1>3, <1>4, <3>2, <3>3
  <2>2. \A i, j \in 1 .. Len(path') : path'[i] = path'[j] => i = j
    <3>1. \A i \in 1 .. Len(path') : i \in 1 .. l \/ i = l + 1
      BY <1>3, <1>4
    <3>2. \A i, j \in 1 .. l : path'[i] = path'[j] => i = j
      BY <1>2, <1>4 DEF StackIsAPath
    <3>3. \A i \in 1 .. l : path'[i] # path'[l + 1]
      BY <1>4, <1>9
    <3> QED BY <3>1, <3>2, <3>3
  <2>3. \A i \in 1 .. Len(path') - 1 : Edge(path'[i], path'[i + 1])
    <3>1. TAKE i \in 1 .. Len(path') - 1
    <3>2. i \in 1 .. l
      BY <1>3, <1>4, <3>1
    <3>3. CASE i = l
      <4>1. l > 0
        BY <3>2, <3>3
      <4>2. Edge(path[l], n)
        BY <1>2, <1>6, <4>1 DEF DependentsSeen
      <4> QED BY <1>4, <3>2, <3>3, <4>2
    <3>4. CASE i \in 1 .. l - 1
      <4>1. i + 1 \in 1 .. l
        BY <1>3, <3>4
      <4> QED BY <1>2, <1>4, <3>2, <3>4, <4>1 DEF StackIsAPath
    <3> QED BY <1>3, <3>2, <3>3, <3>4
  <2>4. \A m \in Ids : color'[m] = "GRAY" => \E i \in 1 .. Len(path') : path'[i] = m
    <3>1. TAKE m \in Ids
    <3>2. CASE m = n
      <4>1. l + 1 \in 1 .. Len(path')
        BY <1>3, <1>4
      <4> QED BY <1>4, <3>2, <4>1
    <3>3. CASE m # n /\ color'[m] = "GRAY"
      <4>1. PICK i \in 1 .. l : path[i] = m
        BY <1>2, <1>5, <3>3 DEF StackIsAPath
      <4>2. i \in 1 .. Len(path')
        BY <1>3, <1>4, <4>1
      <4> QED BY <1>4, <4>1, <4>2
    <3> QED BY <3>2, <3>3
  <2> QED BY <1>1, <2>1, <2>2, <2>3, <2>4 DEF StackIsAPath
<1>11. \A b, t : Entering(b, t) => Entering(b, t)'
  <2>1. SUFFICES ASSUME NEW b, NEW t, NEW i \in 1 .. l - 1, path[i] = b, path[i + 1] = t
                 PROVE  \E j \in 1 .. Len(path') - 1 : path'[j] = b /\ path'[j + 1] = t
    BY DEF Entering
  <2>2. i \in 1 .. l /\ i + 1 \in 1 .. l /\ i \in 1 .. Len(path') - 1
    BY <1>3, <1>4, <2>1
  <2> QED BY <1>4, <2>1, <2>2
<1>12. DependentsSeen'
  <2>1. \A b \in Ids : \A t \in todo'[b] : Edge(b, t)
    BY <1>2, <1>7 DEF DependentsSeen
  <2>2. ASSUME NEW b \in Ids, NEW t \in Ids, Edge(b, t), t \notin todo'[b]
        PROVE  color'[t] = "BLACK" \/ Entering(b, t)'
    <3>1. CASE t \in todo[b]
      <4>1. l > 0 /\ b = path[l] /\ t = n
        BY <1>7, <2>2, <3>1
      <4>2. l \in 1 .. l /\ l \in 1 .. Len(path') - 1
        BY <1>3, <1>4, <4>1
      <4> QED BY <1>4, <4>1, <4>2 DEF Entering
    <3>2. CASE t \notin todo[b]
      <4>1. color[t] = "BLACK" \/ Entering(b, t)
        BY <1>2, <2>2, <3>2 DEF DependentsSeen
      <4> QED BY <1>5, <1>11, <4>1
    <3> QED BY <3>1, <3>2
  <2> QED BY <1>1, <2>1, <2>2 DEF DependentsSeen
<1>13. BlackIsDone'
  <2>1. Black' = Black
    BY <1>1, <1>5 DEF Black
  <2>2. \A S : Stuck(S)' <=> Stuck(S)
    BY <1>1 DEF Stuck
  <2> QED BY <1>1, <1>2, <2>1, <2>2 DEF BlackIsDone
<1> QED BY <1>8, <1>10, <1>12, <1>13 DEF SearchInv, CycleIsOne


\* The path from a gray node to the node on top, closed by the edge between them, is a
\* cycle: what dfs returns when it looks at a gray neighbor.
LEMMA GrayClosesACycle ==
    ASSUME SearchTyped, StackIsAPath, path # <<>>,
           NEW n \in Ids, color[n] = "GRAY", Edge(Top, n), NEW found, found = CycleTo(n)
    PROVE  /\ found \in Seq(Ids) /\ Len(found) >= 2 /\ found[1] = found[Len(found)]
           /\ \A i \in 1 .. Len(found) - 1 : Edge(found[i], found[i + 1])
           /\ \A i, j \in 1 .. Len(found) - 1 : found[i] = found[j] => i = j
<1> DEFINE l == Len(path)
           places == {i \in DOMAIN path : path[i] = n}
<1>1. /\ path \in Seq(Ids) /\ l \in Nat /\ l >= 1 /\ Top = path[l]
      /\ DOMAIN path = 1 .. l
      /\ \A i \in 1 .. l : path[i] \in Ids
  BY TopIsLast, LenProperties, ElementOfSeq DEF SearchTyped
<1>2. places # {}
  BY <1>1 DEF StackIsAPath
<1>3. PICK start \in places : CycleTo(n) = Append(SubSeq(path, start, l), n)
  BY <1>2 DEF CycleTo
<1>4. start \in 1 .. l /\ path[start] = n
  BY <1>1, <1>3
<1> DEFINE part == SubSeq(path, start, l)
           m == l - start + 1
<1>5. /\ part \in Seq(Ids) /\ Len(part) = m /\ m \in Nat /\ m >= 1
      /\ \A i \in 1 .. m : part[i] = path[start + i - 1] /\ start + i - 1 \in 1 .. l
  <2>1. start \in Int /\ l \in Int /\ start <= l /\ \A i \in start .. l : path[i] \in Ids
    BY <1>1, <1>4
  <2>2. \A i \in 1 .. m : start + i - 1 \in 1 .. l
    BY <1>1, <1>4
  <2> QED BY <1>1, <1>4, <2>1, <2>2, SubSeqProperties
<1>6. /\ found \in Seq(Ids) /\ Len(found) = m + 1 /\ found[m + 1] = n
      /\ \A i \in 1 .. m : found[i] = path[start + i - 1]
  <2>1. found = Append(part, n)
    BY <1>3
  <2> QED BY <1>5, <2>1, AppendProperties
<1>7. found[1] = n
  <2>1. 1 \in 1 .. m /\ start + 1 - 1 = start
    BY <1>4, <1>5
  <2> QED BY <1>4, <1>6, <2>1
<1>8. \A i \in 1 .. m : Edge(found[i], found[i + 1])
  <2>1. TAKE i \in 1 .. m
  <2>2. CASE i = m
    <3>1. start + i - 1 = l
      BY <1>1, <1>4, <2>2
    <3> QED BY <1>1, <1>6, <2>2, <3>1
  <2>3. CASE i \in 1 .. m - 1
    <3>1. i + 1 \in 1 .. m /\ start + (i + 1) - 1 = (start + i - 1) + 1
          /\ start + i - 1 \in 1 .. l - 1
      BY <1>1, <1>4, <1>5, <2>3
    <3>2. Edge(path[start + i - 1], path[(start + i - 1) + 1])
      BY <3>1 DEF StackIsAPath
    <3> QED BY <1>6, <3>1, <3>2
  <2> QED BY <1>5, <2>1, <2>2, <2>3
<1>9. \A i, j \in 1 .. m : found[i] = found[j] => i = j
  <2>1. TAKE i \in 1 .. m, j \in 1 .. m
  <2>2. HAVE found[i] = found[j]
  <2>3. path[start + i - 1] = path[start + j - 1]
    BY <1>6, <2>2
  <2>4. start + i - 1 \in 1 .. l /\ start + j - 1 \in 1 .. l
    BY <1>5
  <2>5. start + i - 1 = start + j - 1
    BY <2>3, <2>4 DEF StackIsAPath
  <2> QED BY <1>4, <2>5
<1>10. Len(found) - 1 = m /\ Len(found) >= 2
  BY <1>5, <1>6
<1> HIDE DEF m
<1> QED BY <1>6, <1>7, <1>8, <1>9, <1>10

\* One neighbor of the node on top: a white one is entered, a gray one closes a cycle, a
\* black one is passed over.
LEMMA LookAtKeeps ==
    ASSUME SearchInv, ErrorsNoted, NEW n \in Ids, LookAt(n)
    PROVE  DecomposerInv'
<1>1. stage' = "searching" /\ SameList /\ rows' = rows /\ cycle = <<>> /\ path # <<>>
      /\ n \in todo[Top] /\ todo' = [todo EXCEPT ![Top] = @ \ {n}]
  BY DEF LookAt, SameList
<1>2. ErrorsNoted'
  BY <1>1, ErrorsKept DEF LookAt
<1>3. Ids' = Ids /\ \A b, t : Edge(b, t)' <=> Edge(b, t)
  BY <1>1, SameIds
<1>4. SearchTyped /\ StackIsAPath /\ DependentsSeen /\ BlackIsDone
  BY DEF SearchInv
<1>5. Top \in Ids /\ Edge(Top, n)
  BY <1>1, <1>4, TopIsLast DEF DependentsSeen
<1>6. /\ todo' \in [Ids -> SUBSET Ids]
      /\ \A b \in Ids : todo'[b] \subseteq todo[b]
      /\ \A b \in Ids : \A t \in todo[b] \ todo'[b] : t = n
  BY <1>1, <1>4, <1>5 DEF SearchTyped
<1>7. CASE color[n] = "WHITE" /\ Push(n) /\ UNCHANGED cycle
  <2>1. SearchInv'
    BY <1>1, <1>7, PushKeeps
  <2> QED BY <1>1, <1>2, <2>1 DEF DecomposerInv
<1> DEFINE Rest == UNCHANGED <<color, path>>
<1>8. ASSUME Rest PROVE StackIsAPath' /\ BlackIsDone'
  <2>1. Black' = Black /\ \A S : Stuck(S)' <=> Stuck(S)
    BY <1>3, <1>8 DEF Black, Stuck
  <2>2. BlackIsDone'
    BY <1>3, <1>4, <2>1 DEF BlackIsDone
  <2>3. color' = color /\ path' = path
    BY <1>8
  <2>4. StackIsAPath'
    BY <1>3, <1>4, <2>3 DEF StackIsAPath
  <2> QED BY <2>2, <2>4
<1>9. CASE color[n] = "GRAY" /\ cycle' = CycleTo(n) /\ Rest
  <2>1. /\ cycle' \in Seq(Ids) /\ Len(cycle') >= 2 /\ cycle'[1] = cycle'[Len(cycle')]
        /\ \A i \in 1 .. Len(cycle') - 1 : Edge(cycle'[i], cycle'[i + 1])
        /\ \A i, j \in 1 .. Len(cycle') - 1 : cycle'[i] = cycle'[j] => i = j
    BY <1>1, <1>4, <1>5, <1>9, GrayClosesACycle
  <2>2. SearchTyped' /\ CycleIsOne'
    BY <1>3, <1>4, <1>6, <1>9, <2>1 DEF SearchTyped, CycleIsOne
  <2>3. DependentsSeen'
    <3>1. cycle' # <<>>
      BY <2>1, EmptySeq
    <3> QED BY <1>3, <1>4, <1>6, <3>1 DEF DependentsSeen
  <2> QED BY <1>1, <1>2, <1>8, <1>9, <2>2, <2>3 DEF DecomposerInv, SearchInv
<1>10. CASE color[n] = "BLACK" /\ UNCHANGED cycle /\ Rest
  <2>1. SearchTyped' /\ CycleIsOne'
    BY <1>1, <1>3, <1>4, <1>6, <1>10 DEF SearchTyped, CycleIsOne
  <2>2. DependentsSeen'
    <3>1. \A b, t : Entering(b, t)' <=> Entering(b, t)
      BY <1>10 DEF Entering
    <3> QED BY <1>1, <1>3, <1>4, <1>6, <1>10, <3>1 DEF DependentsSeen
  <2> QED BY <1>1, <1>2, <1>8, <1>10, <2>1, <2>2 DEF DecomposerInv, SearchInv
<1> QED BY <1>7, <1>9, <1>10 DEF LookAt

\* The node on top is left when all its dependents are black: no set of black nodes that
\* wait for each other can hold it, as its blocker in the set would have made it black.
LEMMA PopKeeps ==
    ASSUME SearchInv, ErrorsNoted, Pop
    PROVE  DecomposerInv'
<1> USE DEF Left
<1>1. stage' = "searching" /\ SameList /\ rows' = rows /\ cycle = <<>> /\ cycle' = <<>>
      /\ path # <<>> /\ todo[Top] = {} /\ todo' = todo
  BY DEF Pop, SameList
<1>2. ErrorsNoted'
  BY <1>1, ErrorsKept DEF Pop
<1>3. Ids' = Ids /\ \A b, t : Edge(b, t)' <=> Edge(b, t)
  BY <1>1, SameIds
<1>4. SearchTyped /\ StackIsAPath /\ DependentsSeen /\ BlackIsDone
  BY DEF SearchInv
<1>5. PICK l \in Nat : /\ l = Len(path) /\ l >= 1 /\ l \in 1 .. l
                       /\ \A i \in 1 .. l : path[i] \in Ids
                       /\ Top = path[l]
  BY <1>1, <1>4, TopIsLast, ElementOfSeq DEF SearchTyped
<1>6. PICK top \in Ids : top = Top /\ top = path[l] /\ color[top] = "GRAY"
  BY <1>4, <1>5 DEF StackIsAPath
<1>7. /\ color' = [color EXCEPT ![top] = "BLACK"]
      /\ color' \in [Ids -> {"WHITE", "GRAY", "BLACK"}] /\ color'[top] = "BLACK"
      /\ \A m \in Ids : m # top => color'[m] = color[m]
  BY <1>4, <1>6 DEF Pop, SearchTyped
<1>8. /\ path' \in Seq(Ids) /\ Len(path') = l - 1 /\ l - 1 \in Nat
      /\ \A i \in 1 .. l - 1 : path'[i] = path[i] /\ i \in 1 .. l
  <2>1. path' = SubSeq(path, 1, l - 1) /\ 1 \in Int /\ l - 1 \in Int
        /\ \A i \in 1 .. l - 1 : path[i] \in Ids /\ i \in 1 .. l /\ 1 + i - 1 = i
    BY <1>5 DEF Pop
  <2>2. path' \in Seq(Ids) /\ Len(path') = (IF 1 <= l - 1 THEN (l - 1) - 1 + 1 ELSE 0)
        /\ \A i \in 1 .. (l - 1) - 1 + 1 : path'[i] = path[1 + i - 1]
    BY <2>1, SubSeqProperties
  <2> QED BY <1>5, <2>1, <2>2
<1>9. SearchTyped'
  BY <1>1, <1>3, <1>4, <1>7, <1>8 DEF SearchTyped
<1>10. \A i \in 1 .. l - 1 : path[i] # top
  <2>1. TAKE i \in 1 .. l - 1
  <2>2. i \in 1 .. l /\ i # l
    BY <1>5
  <2> QED BY <1>4, <1>5, <1>6, <2>2 DEF StackIsAPath
<1>11. StackIsAPath'
  <2>1. \A i \in 1 .. l - 1 : color'[path'[i]] = "GRAY"
    BY <1>4, <1>5, <1>7, <1>8, <1>10 DEF StackIsAPath
  <2>2. \A i, j \in 1 .. l - 1 : path'[i] = path'[j] => i = j
    BY <1>4, <1>5, <1>8 DEF StackIsAPath
  <2>3. \A i \in 1 .. (l - 1) - 1 : Edge(path'[i], path'[i + 1])
    <3>1. TAKE i \in 1 .. (l - 1) - 1
    <3>2. i \in 1 .. l - 1 /\ i + 1 \in 1 .. l - 1
      BY <1>5
    <3> QED BY <1>4, <1>5, <1>8, <3>2 DEF StackIsAPath
  <2>4. \A m \in Ids : color'[m] = "GRAY" => \E i \in 1 .. l - 1 : path'[i] = m
    <3>1. SUFFICES ASSUME NEW m \in Ids, color'[m] = "GRAY"
                   PROVE  \E i \in 1 .. l - 1 : path'[i] = m
      OBVIOUS
    <3>2. m # top /\ color[m] = "GRAY"
      BY <1>7, <3>1
    <3>3. PICK i \in 1 .. l : path[i] = m
      BY <1>4, <1>5, <3>2 DEF StackIsAPath
    <3>4. i \in 1 .. l - 1
      BY <1>5, <1>6, <3>2, <3>3
    <3> QED BY <1>8, <3>3, <3>4
  <2> QED BY <1>3, <1>8, <2>1, <2>2, <2>3, <2>4 DEF StackIsAPath
<1>12. \A t \in Ids : Edge(top, t) => color[t] = "BLACK"
  <2>1. \A t : ~ Entering(top, t)
    BY <1>5, <1>10 DEF Entering
  <2> QED BY <1>1, <1>4, <1>6, <2>1 DEF DependentsSeen
<1>13. DependentsSeen'
  <2>1. ASSUME NEW b \in Ids, NEW t \in Ids, Edge(b, t), t \notin todo[b]
        PROVE  color'[t] = "BLACK" \/ Entering(b, t)'
    <3>1. CASE color[t] = "BLACK"
      BY <1>7, <3>1
    <3>2. CASE Entering(b, t)
      <4>1. PICK i \in 1 .. l - 1 : path[i] = b /\ path[i + 1] = t
        BY <1>5, <3>2 DEF Entering
      <4>2. CASE i = l - 1
        <5>1. i + 1 = l
          BY <1>5, <4>2
        <5> QED BY <1>6, <1>7, <4>1, <5>1
      <4>3. CASE i \in 1 .. (l - 1) - 1
        <5>1. i + 1 \in 1 .. l - 1
          BY <1>5, <4>3
        <5> QED BY <1>8, <4>1, <4>3, <5>1 DEF Entering
      <4> QED BY <1>5, <4>1, <4>2, <4>3
    <3> QED BY <1>1, <1>4, <2>1, <3>1, <3>2 DEF DependentsSeen
  <2> QED BY <1>1, <1>3, <1>4, <2>1 DEF DependentsSeen
<1>14. BlackIsDone'
  <2>1. Black' = Black \cup {top} /\ top \notin Black
    BY <1>3, <1>6, <1>7 DEF Black
  <2>2. \A b \in Black' : \A t \in Ids : Edge(b, t) => t \in Black'
    BY <1>4, <1>12, <2>1 DEF BlackIsDone, Black
  <2>3. ASSUME NEW S \in SUBSET Black', Stuck(S)
        PROVE  FALSE
    <3>1. CASE top \notin S
      BY <1>4, <2>1, <2>3, <3>1 DEF BlackIsDone
    <3>2. CASE top \in S
      <4>1. PICK b \in S : Edge(b, top)
        BY <2>3, <3>2 DEF Stuck
      <4>2. b \in Black \/ b = top
        BY <2>1, <2>3
      <4> QED BY <1>4, <1>6, <1>12, <2>1, <4>1, <4>2 DEF BlackIsDone
    <3> QED BY <3>1, <3>2
  <2>4. \A S : Stuck(S)' <=> Stuck(S)
    BY <1>3 DEF Stuck
  <2> QED BY <1>3, <2>2, <2>3, <2>4 DEF BlackIsDone
<1>15. CycleIsOne'
  BY <1>1 DEF CycleIsOne
<1> QED BY <1>1, <1>2, <1>9, <1>11, <1>13, <1>14, <1>15 DEF DecomposerInv, SearchInv


\* What holds of a search holds as long as its variables stay as they are.
LEMMA SearchStays ==
    ASSUME SearchInv, UNCHANGED <<rows, search>>
    PROVE  SearchInv' /\ Ids' = Ids /\ Black' = Black
<1>1. Ids' = Ids /\ \A b, t : Edge(b, t)' <=> Edge(b, t)
  BY SameIds
<1>2. color' = color /\ path' = path /\ todo' = todo /\ cycle' = cycle
  BY DEF search
<1>3. SearchTyped' /\ StackIsAPath' /\ CycleIsOne'
  BY <1>1, <1>2 DEF SearchInv, SearchTyped, StackIsAPath, CycleIsOne
<1>4. DependentsSeen'
  <2>1. \A b, t : Entering(b, t)' <=> Entering(b, t)
    BY <1>2 DEF Entering
  <2> QED BY <1>1, <1>2, <2>1 DEF SearchInv, DependentsSeen
<1>5. Black' = Black
  BY <1>1, <1>2 DEF Black
<1>6. BlackIsDone'
  <2>1. \A S : Stuck(S)' <=> Stuck(S)
    BY <1>1 DEF Stuck
  <2> QED BY <1>1, <1>5, <2>1 DEF SearchInv, BlackIsDone
<1> QED BY <1>1, <1>3, <1>4, <1>5, <1>6 DEF SearchInv

\* A search that ends without a cycle has left every node: none is white, and a gray one
\* would be on the stack, which is empty.
LEMMA EndKeeps ==
    ASSUME SearchInv, ErrorsNoted, EndSearch
    PROVE  DecomposerInv'
<1>1. /\ stage' = "judging" /\ rows' = rows /\ UNCHANGED search
      /\ errors' = errors \cup {x \in {"cycle"} : cycle # <<>>}
  BY DEF EndSearch
<1>2. SearchInv' /\ Ids' = Ids /\ Black' = Black /\ cycle' = cycle
  BY <1>1, SearchStays DEF search
<1>3. cycle = <<>> => Black = Ids
  <2>1. SUFFICES ASSUME path = <<>>, \A n \in Ids : color[n] # "WHITE"
                 PROVE  Black = Ids
    BY DEF EndSearch
  <2>2. \A n \in Ids : color[n] # "GRAY"
    BY <2>1, EmptySeq DEF SearchInv, StackIsAPath
  <2> QED BY <2>1, <2>2 DEF SearchInv, SearchTyped, Black
<1>4. ErrorsNoted'
  BY <1>1, <1>2, <1>3 DEF ErrorsNoted, MissingReferences, IdsOf, Accepted
<1> QED BY <1>2, <1>4 DEF DecomposerInv

\* A verdict, and what follows it, leaves the search as it is.
LEMMA JudgedKeeps ==
    ASSUME DecomposerInv, AcceptGraph \/ Save
    PROVE  DecomposerInv'
<1>1. /\ stage \in Listed \ {"searching"} /\ stage' \in Accepted /\ UNCHANGED <<rows, search>>
      /\ errors' = errors /\ errors = {}
  <2>1. CASE AcceptGraph
    BY <2>1 DEF AcceptGraph, Listed, Accepted
  <2>2. CASE Save
    BY <2>2 DEF Save, Listed, Accepted, DecomposerInv, ErrorsNoted
  <2> QED BY <2>1, <2>2
<1>2. SearchInv' /\ Ids' = Ids /\ Black' = Black /\ cycle' = cycle
  BY <1>1, SearchStays DEF search, DecomposerInv
<1>3. ErrorsNoted'
  BY <1>1, <1>2 DEF DecomposerInv, ErrorsNoted, MissingReferences, IdsOf
<1> QED BY <1>2, <1>3 DEF DecomposerInv

\* Every step keeps the invariant.
LEMMA StepKeeps ==
    ASSUME DecomposerInv, [Next]_vars
    PROVE  DecomposerInv'
<1>1. ASSUME NEW reply \in Replies, RejectReply(reply) \/ FailUnexpectedly(reply)
      PROVE  DecomposerInv'
  BY <1>1 DEF RejectReply, FailUnexpectedly, Rejected, DecomposerInv, Listed, Accepted
<1>2. ASSUME NEW reply \in Replies, ValidateReply(reply)
      PROVE  DecomposerInv'
  BY <1>2, SearchBegins
<1>3. CASE Retry \/ RejectGraph
  BY <1>3 DEF Retry, RejectGraph, Rejected, DecomposerInv, Listed, Accepted
<1>4. ASSUME stage = "searching" PROVE SearchInv /\ ErrorsNoted
  BY <1>4 DEF DecomposerInv, Listed
<1>5. ASSUME NEW n \in Ids, SearchFrom(n)
      PROVE  DecomposerInv'
  <2>1. /\ stage = "searching" /\ stage' = "searching" /\ SameList /\ rows' = rows
        /\ path = <<>> /\ cycle = <<>> /\ cycle' = cycle /\ todo' = todo
    BY <1>5 DEF SearchFrom, SameList
  <2>2. SearchInv'
    BY <1>4, <1>5, <2>1, PushKeeps DEF SearchFrom
  <2>3. ErrorsNoted'
    BY <1>4, <2>1, ErrorsKept
  <2> QED BY <2>2, <2>3 DEF DecomposerInv
<1>6. ASSUME NEW n \in Ids, LookAt(n)
      PROVE  DecomposerInv'
  BY <1>4, <1>6, LookAtKeeps DEF LookAt
<1>7. CASE Pop
  BY <1>4, <1>7, PopKeeps DEF Pop
<1>8. CASE EndSearch
  BY <1>4, <1>8, EndKeeps DEF EndSearch
<1>9. CASE AcceptGraph \/ Save
  BY <1>9, JudgedKeeps
<1>10. CASE UNCHANGED vars
  <2>1. UNCHANGED <<rows, search>> /\ stage' = stage /\ errors' = errors
    BY <1>10 DEF vars
  <2>2. ASSUME stage \in Listed PROVE DecomposerInv'
    <3>1. SearchInv' /\ Ids' = Ids /\ Black' = Black /\ cycle' = cycle
      BY <2>1, <2>2, SearchStays DEF search, DecomposerInv
    <3>2. ErrorsNoted'
      BY <2>1, <2>2, <3>1 DEF DecomposerInv, ErrorsNoted, MissingReferences, IdsOf
    <3> QED BY <3>1, <3>2 DEF DecomposerInv
  <2> QED BY <2>1, <2>2 DEF DecomposerInv
<1> QED BY <1>1, <1>2, <1>3, <1>5, <1>6, <1>7, <1>8, <1>9, <1>10 DEF Next

\* Every state of a decomposition satisfies the invariant.
LEMMA DecomposerInvariant == Spec => []DecomposerInv
<1>1. Init => DecomposerInv
  BY DEF Init, DecomposerInv, Listed, Accepted
<1>2. DecomposerInv /\ [Next]_vars => DecomposerInv'
  BY StepKeeps
<1> QED BY <1>1, <1>2, PTL DEF Spec

-----------------------------------------------------------------------------
(* What the verdict is worth. *)

\* The nodes of a cycle wait for each other: each has the one before it as a blocker.
LEMMA CycleIsStuck ==
    ASSUME SearchTyped, CycleIsOne, cycle # <<>>
    PROVE  \E S \in SUBSET Ids : Stuck(S)
<1> DEFINE l == Len(cycle)
           S == {cycle[i] : i \in 1 .. l - 1}
<1>1. /\ cycle \in Seq(Ids) /\ l \in Nat /\ l >= 2 /\ cycle[1] = cycle[l]
      /\ \A i \in 1 .. l - 1 : Edge(cycle[i], cycle[i + 1])
  BY DEF SearchTyped, CycleIsOne
<1>2. S \in SUBSET Ids
  <2>1. \A i \in 1 .. l - 1 : i \in 1 .. l
    BY <1>1
  <2> QED BY <1>1, <2>1, ElementOfSeq
<1>3. \A t \in S : \E b \in S : Edge(b, t)
  <2>1. SUFFICES ASSUME NEW i \in 1 .. l - 1
                 PROVE  \E j \in 1 .. l - 1 : Edge(cycle[j], cycle[i])
    OBVIOUS
  <2>2. CASE i = 1
    <3>1. l - 1 \in 1 .. l - 1 /\ (l - 1) + 1 = l
      BY <1>1
    <3> QED BY <1>1, <2>2, <3>1
  <2>3. CASE i # 1
    <3>1. i - 1 \in 1 .. l - 1 /\ (i - 1) + 1 = i
      BY <1>1, <2>1, <2>3
    <3> QED BY <1>1, <3>1
  <2> QED BY <2>2, <2>3
<1>4. S # {}
  <2>1. 1 \in 1 .. l - 1
    BY <1>1
  <2> QED BY <2>1
<1> QED BY <1>2, <1>3, <1>4 DEF Stuck

\* detect_cycles is right for every list of tasks: a cycle is found if and only if some
\* tasks wait for each other, and what is found is a cycle.
THEOREM VerdictIsRight == Spec => []CycleVerdictIsRight
<1>1. DecomposerInv => CycleVerdictIsRight
  <2>1. SUFFICES ASSUME stage = "judging", SearchInv, ErrorsNoted
                 PROVE  CycleVerdictIsRight
    BY DEF DecomposerInv, CycleVerdictIsRight, Listed
  <2>2. cycle # <<>> => \E S \in SUBSET Ids : Stuck(S)
    BY <2>1, CycleIsStuck DEF SearchInv
  <2>3. cycle = <<>> => ~ \E S \in SUBSET Ids : Stuck(S)
    BY <2>1 DEF SearchInv, BlackIsDone, ErrorsNoted
  <2> QED BY <2>1, <2>2, <2>3 DEF CycleVerdictIsRight, SearchInv, CycleIsOne
<1> QED BY <1>1, DecomposerInvariant, PTL

\* A graph without errors can be worked off from any set of done tasks: otherwise the
\* others would all wait for each other.
THEOREM AcceptedRun == Spec => []AcceptedGraphsRun
<1>1. DecomposerInv => AcceptedGraphsRun
  <2>1. SUFFICES ASSUME stage \in Accepted, SearchInv, ErrorsNoted,
                        NEW done \in SUBSET Ids, done # Ids,
                        \A t \in Ids \ done : ~ (Blockers(t) \subseteq done)
                 PROVE  FALSE
    BY DEF DecomposerInv, AcceptedGraphsRun, Listed, Accepted
  <2>2. errors = {} /\ cycle = <<>> /\ Black = Ids /\ MissingReferences(rows) = {}
    BY <2>1 DEF ErrorsNoted, Accepted
  <2>3. \A i \in DOMAIN rows : rows[i].blockedBy \subseteq Ids
    BY <2>2 DEF MissingReferences, IdsOf, Ids
  <2>4. ASSUME NEW t \in Ids \ done
        PROVE  \E b \in Ids \ done : Edge(b, t)
    <3>1. PICK b \in Blockers(t) : b \notin done
      BY <2>1
    <3>2. PICK i \in DOMAIN rows : rows[i].id = t /\ b \in rows[i].blockedBy
      BY DEF Blockers
    <3> QED BY <2>3, <3>1, <3>2 DEF Edge
  <2>5. Stuck(Ids \ done)
    BY <2>1, <2>4 DEF Stuck
  <2> QED BY <2>1, <2>2, <2>5 DEF SearchInv, BlackIsDone
<1> QED BY <1>1, DecomposerInvariant, PTL

-----------------------------------------------------------------------------
(* What is left of a decomposition: numbers that go down, in this order,    *)
(* with each of its steps.  Fairness has only to take a step.                *)

RepliesLeft == MaxRetries - attempt

\* How far an attempt has come.
Place ==
    CASE stage = "calling" -> 5
      [] stage = "searching" -> 4
      [] stage = "judging" -> 3
      [] stage = "saving" -> 2
      [] stage = "sleeping" -> 1
      [] OTHER -> 0

\* What dfs has not entered, not left, and not looked at from each of its nodes.
White == {n \in Ids : color[n] = "WHITE"}
Open == {n \in Ids : color[n] # "BLACK"}
Unseen == {edge \in Ids \X Ids : edge[2] \in todo[edge[1]]}

SearchLeft ==
    IF stage = "searching" THEN Cardinality(White) + Cardinality(Open) + Cardinality(Unseen)
                           ELSE 0

GoesDown ==
    \/ RepliesLeft' < RepliesLeft
    \/ RepliesLeft' = RepliesLeft /\ Place' < Place
    \/ RepliesLeft' = RepliesLeft /\ Place' = Place /\ SearchLeft' < SearchLeft

Counted == RepliesLeft \in Nat /\ Place \in Nat /\ SearchLeft \in Nat

AttemptInv ==
    /\ attempt \in 0 .. MaxRetries - 1
    /\ stage = "sleeping" => AttemptsLeft
    /\ stage \in Listed => IsFiniteSet(Ids)

\* Every step counts its attempts and has a finite list.
LEMMA AttemptKept == AttemptInv /\ [Next]_vars => AttemptInv'
<1> USE RetryAssumption DEF AttemptInv, AttemptsLeft
<1> SUFFICES ASSUME AttemptInv, [Next]_vars PROVE AttemptInv'
  OBVIOUS
<1>1. ASSUME NEW reply \in Replies, RejectReply(reply) \/ FailUnexpectedly(reply)
      PROVE  AttemptInv'
  BY <1>1 DEF RejectReply, FailUnexpectedly, Rejected, Listed, Accepted
<1>2. ASSUME NEW reply \in Replies, ValidateReply(reply) PROVE AttemptInv'
  <2>1. IsFiniteSet(DOMAIN reply.rows)
    BY ReplyAssumption
  <2>2. IsFiniteSet(IdsOf(reply.rows))
    <3> DEFINE idAt == [i \in DOMAIN reply.rows |-> reply.rows[i].id]
    <3>1. idAt \in Surjection(DOMAIN reply.rows, IdsOf(reply.rows))
      BY DEF IdsOf, Surjection
    <3> QED BY <2>1, <3>1, FS_Surjection
  <2>3. Ids' = IdsOf(reply.rows)
    BY <1>2 DEF ValidateReply, Ids, IdsOf
  <2>4. stage' = "searching" /\ attempt' = attempt
    BY <1>2 DEF ValidateReply
  <2> QED BY <2>2, <2>3, <2>4
<1>3. CASE Retry
  BY <1>3 DEF Retry, NextAttempt, Listed, Accepted
<1>4. CASE RejectGraph
  BY <1>4 DEF RejectGraph, Rejected, Listed, Accepted
<1>5. ASSUME rows' = rows, attempt' = attempt, stage \in Listed, stage' \in Listed
      PROVE  AttemptInv'
  BY <1>5 DEF Ids, Listed, Accepted
<1>6. ASSUME NEW n \in Ids, SearchFrom(n) \/ LookAt(n) PROVE AttemptInv'
  BY <1>5, <1>6 DEF SearchFrom, LookAt, Listed
<1>7. CASE Pop \/ EndSearch \/ AcceptGraph \/ Save
  BY <1>5, <1>7 DEF Pop, EndSearch, AcceptGraph, Save, Listed, Accepted
<1>8. CASE UNCHANGED vars
  BY <1>8 DEF vars, Ids
<1> QED BY <1>1, <1>2, <1>3, <1>4, <1>6, <1>7, <1>8 DEF Next

\* A part of a finite set has as many elements at most, and fewer if it lacks one.
LEMMA PartIsSmaller ==
    ASSUME NEW S, IsFiniteSet(S), NEW T \in SUBSET S
    PROVE  /\ Cardinality(T) \in Nat /\ Cardinality(S) \in Nat
           /\ Cardinality(T) <= Cardinality(S)
           /\ T # S => Cardinality(T) < Cardinality(S)
BY FS_Subset, FS_CardinalityType

\* The parts of a search are counted by naturals.
LEMMA PartsAreFinite ==
    ASSUME IsFiniteSet(Ids)
    PROVE  IsFiniteSet(White) /\ IsFiniteSet(Open) /\ IsFiniteSet(Unseen)
<1>1. White \subseteq Ids /\ Open \subseteq Ids /\ Unseen \subseteq Ids \X Ids
  BY DEF White, Open, Unseen
<1>2. IsFiniteSet(Ids \X Ids)
  BY FS_Product
<1> QED BY <1>1, <1>2, FS_Subset

\* dfs enters each node once, leaves it once, and looks at each edge once.
LEMMA SearchGoesDown ==
    ASSUME SearchTyped, StackIsAPath, IsFiniteSet(Ids),
           \/ \E n \in Ids : SearchFrom(n) \/ LookAt(n)
           \/ Pop
    PROVE  SearchLeft' < SearchLeft
<1>1. stage = "searching" /\ stage' = "searching" /\ rows' = rows
  BY DEF SearchFrom, LookAt, Pop
<1>2. Ids' = Ids
  BY <1>1, SameIds
<1>3. IsFiniteSet(White) /\ IsFiniteSet(Open) /\ IsFiniteSet(Unseen)
  BY PartsAreFinite
<1>4. ASSUME White' \subseteq White, Open' \subseteq Open, Unseen' \subseteq Unseen,
             White' # White \/ Open' # Open \/ Unseen' # Unseen
      PROVE  SearchLeft' < SearchLeft
  <2>1. /\ Cardinality(White') \in Nat /\ Cardinality(White) \in Nat
        /\ Cardinality(White') <= Cardinality(White)
        /\ White' # White => Cardinality(White') < Cardinality(White)
    BY <1>3, <1>4, PartIsSmaller
  <2>2. /\ Cardinality(Open') \in Nat /\ Cardinality(Open) \in Nat
        /\ Cardinality(Open') <= Cardinality(Open)
        /\ Open' # Open => Cardinality(Open') < Cardinality(Open)
    BY <1>3, <1>4, PartIsSmaller
  <2>3. /\ Cardinality(Unseen') \in Nat /\ Cardinality(Unseen) \in Nat
        /\ Cardinality(Unseen') <= Cardinality(Unseen)
        /\ Unseen' # Unseen => Cardinality(Unseen') < Cardinality(Unseen)
    BY <1>3, <1>4, PartIsSmaller
  <2>4. SearchLeft = Cardinality(White) + Cardinality(Open) + Cardinality(Unseen)
    BY <1>1 DEF SearchLeft
  <2>5. SearchLeft' = Cardinality(White') + Cardinality(Open') + Cardinality(Unseen')
    BY <1>1 DEF SearchLeft
  <2> QED BY <1>4, <2>1, <2>2, <2>3, <2>4, <2>5
<1>5. ASSUME NEW n \in Ids, color[n] = "WHITE", Push(n)
      PROVE  White' = White \ {n} /\ n \in White /\ Open' = Open
  <2>1. color' = [color EXCEPT ![n] = "GRAY"]
    BY <1>5 DEF Push, Entered
  <2>2. color'[n] = "GRAY" /\ \A m \in Ids : m # n => color'[m] = color[m]
    BY <2>1 DEF SearchTyped
  <2> QED BY <1>2, <1>5, <2>2 DEF White, Open
<1>6. ASSUME NEW n \in Ids, SearchFrom(n) PROVE SearchLeft' < SearchLeft
  <2>1. color[n] = "WHITE" /\ Push(n) /\ todo' = todo
    BY <1>6 DEF SearchFrom
  <2>2. Unseen' = Unseen
    BY <1>2, <2>1 DEF Unseen
  <2> QED BY <1>4, <1>5, <2>1, <2>2
<1>7. ASSUME NEW n \in Ids, LookAt(n) PROVE SearchLeft' < SearchLeft
  <2>1. Top \in Ids /\ n \in todo[Top] /\ todo' = [todo EXCEPT ![Top] = @ \ {n}]
    BY <1>7, TopIsLast DEF LookAt
  <2>2. /\ todo'[Top] = todo[Top] \ {n}
        /\ \A b \in Ids : todo'[b] \subseteq todo[b]
    BY <2>1 DEF SearchTyped
  <2>3. Unseen' \subseteq Unseen
    BY <1>2, <2>2 DEF Unseen
  <2>4. PICK edge : edge = <<Top, n>>
    OBVIOUS
  <2>5. edge \in Unseen /\ edge \notin Unseen'
    BY <1>2, <2>1, <2>2, <2>4 DEF Unseen
  <2>6. White' \subseteq White /\ Open' \subseteq Open
    <3>1. CASE color[n] = "WHITE" /\ Push(n)
      BY <1>5, <3>1
    <3>2. CASE color' = color
      BY <1>2, <3>2 DEF White, Open
    <3> QED BY <1>7, <3>1, <3>2 DEF LookAt
  <2> QED BY <1>4, <2>3, <2>5, <2>6
<1>8. CASE Pop
  <2>1. /\ path # <<>> /\ color' = [color EXCEPT ![Top] = "BLACK"] /\ todo' = todo
    BY <1>8 DEF Pop, Left
  <2>2. Top \in Ids /\ color[Top] = "GRAY"
    BY <2>1, TopIsLast DEF StackIsAPath
  <2>3. color'[Top] = "BLACK" /\ \A m \in Ids : m # Top => color'[m] = color[m]
    BY <2>1, <2>2 DEF SearchTyped
  <2>4. PICK top : top = Top
    OBVIOUS
  <2>5. White' \subseteq White /\ Open' = Open \ {top} /\ top \in Open
    BY <1>2, <2>2, <2>3, <2>4 DEF White, Open
  <2>6. Unseen' = Unseen
    BY <1>2, <2>1 DEF Unseen
  <2> QED BY <1>4, <2>5, <2>6
<1> QED BY <1>6, <1>7, <1>8

\* Every step of a decomposition leaves less to do.
LEMMA EveryStepGoesDown ==
    ASSUME DecomposerInv, AttemptInv, Next
    PROVE  GoesDown
<1> USE RetryAssumption
<1>1. attempt \in Nat
  BY DEF AttemptInv
<1>2. ASSUME attempt' = attempt, Place' < Place PROVE GoesDown
  BY <1>2 DEF GoesDown, RepliesLeft
<1>3. ASSUME NEW reply \in Replies,
             RejectReply(reply) \/ FailUnexpectedly(reply) \/ ValidateReply(reply)
      PROVE  GoesDown
  BY <1>2, <1>3 DEF RejectReply, FailUnexpectedly, ValidateReply, Rejected, Place
<1>4. CASE Retry
  BY <1>1, <1>4 DEF Retry, NextAttempt, GoesDown, RepliesLeft
<1>5. CASE EndSearch \/ AcceptGraph \/ RejectGraph \/ Save
  BY <1>2, <1>5 DEF EndSearch, AcceptGraph, RejectGraph, Save, Rejected, Place
<1>6. CASE (\E n \in Ids : SearchFrom(n) \/ LookAt(n)) \/ Pop
  <2>1. stage = "searching" /\ stage' = "searching" /\ attempt' = attempt
    BY <1>6 DEF SearchFrom, LookAt, Pop
  <2>2. SearchTyped /\ StackIsAPath /\ IsFiniteSet(Ids)
    BY <2>1 DEF DecomposerInv, SearchInv, AttemptInv, Listed
  <2>3. SearchLeft' < SearchLeft
    BY <1>6, <2>2, SearchGoesDown
  <2> QED BY <2>1, <2>3 DEF GoesDown, RepliesLeft, Place
<1> QED BY <1>3, <1>4, <1>5, <1>6 DEF Next

\* What is left is counted by naturals.
LEMMA LeftIsCounted == AttemptInv => Counted
<1> SUFFICES ASSUME AttemptInv PROVE Counted
  OBVIOUS
<1>1. RepliesLeft \in Nat
  BY RetryAssumption DEF AttemptInv, RepliesLeft
<1>2. Place \in Nat
  BY DEF Place
<1>3. SearchLeft \in Nat
  <2>1. CASE stage = "searching"
    <3>1. IsFiniteSet(White) /\ IsFiniteSet(Open) /\ IsFiniteSet(Unseen)
      BY <2>1, PartsAreFinite DEF AttemptInv, Listed
    <3>2. Cardinality(White) \in Nat /\ Cardinality(Open) \in Nat /\ Cardinality(Unseen) \in Nat
      BY <3>1, FS_CardinalityType
    <3> QED BY <3>2 DEF SearchLeft
  <2> QED BY <2>1 DEF SearchLeft
<1> QED BY <1>1, <1>2, <1>3 DEF Counted

\* No search of detect_cycles and no retry of execute_with_retry goes round in a circle,
\* whatever the model answers: each step of a decomposition leaves it fewer attempts, or
\* less to do within the attempt.  What is left is counted by naturals, so a
\* decomposition takes only so many steps, for any lists of tasks.
THEOREM DecompositionGoesDown == Spec => []Counted /\ [][GoesDown]_vars
<1>1. DecomposerInv /\ AttemptInv /\ [Next]_vars =>
        DecomposerInv' /\ AttemptInv' /\ [GoesDown]_vars
  BY StepKeeps, AttemptKept, EveryStepGoesDown
<1>2. Init => DecomposerInv /\ AttemptInv
  BY RetryAssumption DEF Init, DecomposerInv, AttemptInv, Listed, Accepted
<1>3. AttemptInv => Counted
  BY LeftIsCounted
<1> QED BY <1>1, <1>2, <1>3, PTL DEF Spec
=============================================================================

---------------------------- MODULE AgentRunProofs ----------------------------
(***************************************************************************)
(* The recovery of model calls, the cache of skills and the conversation   *)
(* of an agent's run, for any limits, any skills and any window.           *)
(***************************************************************************)
EXTENDS AgentRun, SequenceTheorems, FiniteSetTheorems, TLAPS

-----------------------------------------------------------------------------
(* A model call. *)

\* The failures of the retries, with the run of 529s at their end.
Noted ==
    /\ call.attempt \in Nat /\ call.fives \in Nat /\ call.seen \in Seq(Failure)
    /\ Len(call.seen) = call.attempt /\ call.fives <= call.attempt
    /\ \A i \in (Len(call.seen) - call.fives + 1) .. Len(call.seen) : call.seen[i] = "529"

\* The place of the call, and what led there.
Placed ==
    /\ call.stage \in {"none", "first", "continue", "compact"} => call.attempt = 0
    /\ call.stage = "retry" => call.attempt < MaxRetries
    /\ call.stage = "fallback" => call.fives >= Threshold
    /\ call.stage = "raised" /\ call.cause \in Temporary /\ call.attempt > 0 => call.attempt = MaxRetries
    /\ call.stage = "continue" => call.continued > 0
    /\ call.stage \notin {"answered", "raised"} => call.cause = "none"

CallInv ==
    /\ call = [stage |-> call.stage, context |-> call.context, attempt |-> call.attempt,
               fives |-> call.fives, continued |-> call.continued, seen |-> call.seen,
               answer |-> call.answer, cause |-> call.cause]
    /\ call.continued \in Nat
    /\ Noted /\ Placed /\ CutAnswersAreMarked

\* A call that has not begun, and one that begins.
LEMMA CallBegins ==
    ASSUME NEW context, call' \in {NoCall, Begun(context)}
    PROVE  CallInv'
<1>1. \E place \in {"none", "first"} : \E ms :
        call' = [stage |-> place, context |-> ms, attempt |-> 0, fives |-> 0, continued |-> 0,
                 seen |-> <<>>, answer |-> NoAnswer, cause |-> "none"]
  BY DEF NoCall, Begun
<1> QED
  BY <1>1 DEF CallInv, Noted, Placed, CutAnswersAreMarked

\* A step that changes neither the count nor the list of failures.
LEMMA SameFailures ==
    ASSUME CallInv, NEW place, NEW context, NEW continued \in Nat, NEW answer, NEW cause,
           call' = [stage |-> place, context |-> context, attempt |-> call.attempt, fives |-> call.fives,
                    continued |-> continued, seen |-> call.seen, answer |-> answer, cause |-> cause],
           Placed', CutAnswersAreMarked'
    PROVE  CallInv'
<1>1. Noted'
  BY DEF CallInv, Noted
<1> QED
  BY <1>1 DEF CallInv

\* A failure of a retry is added to those seen.
LEMMA FailureNoted ==
    ASSUME CallInv, NEW failure \in Failure,
           call'.attempt = call.attempt + 1, call'.fives = Fives(failure),
           call'.seen = Append(call.seen, failure)
    PROVE  Noted'
<1> USE DEF CallInv, Noted
<1>1. /\ call'.seen \in Seq(Failure) /\ Len(call'.seen) = Len(call.seen) + 1
      /\ \A i \in 1 .. Len(call.seen) : call'.seen[i] = call.seen[i]
      /\ call'.seen[Len(call.seen) + 1] = failure
  BY AppendProperties
<1>2. CASE failure = "529"
  BY <1>1, <1>2 DEF Fives
<1>3. CASE failure # "529"
  BY <1>1, <1>3 DEF Fives
<1> QED
  BY <1>2, <1>3

\* Every request leaves the account of the call in order.
LEMMA CallStepKeeps ==
    ASSUME CallInv, CallStep
    PROVE  CallInv'
<1> USE CallAssumption DEF CallInv
<1>1. ASSUME NEW finish, NEW whole \in BOOLEAN, NEW asks, call' = Answered(finish, whole, asks),
             call.cause = "none",
             whole \/ finish = "length" \/ call.continued > 0
      PROVE  CallInv'
  BY <1>1 DEF Answered, Noted, Placed, CutAnswersAreMarked
<1>2. ASSUME NEW cause, call' = Raised(cause), cause \in Temporary => call.attempt = 0 PROVE CallInv'
  <2>1. call' = [stage |-> "raised", context |-> call.context, attempt |-> call.attempt,
                 fives |-> call.fives, continued |-> call.continued, seen |-> call.seen,
                 answer |-> call.answer, cause |-> cause]
    BY <1>2 DEF Raised
  <2>2. Placed' /\ CutAnswersAreMarked'
    BY <1>2, <2>1 DEF Placed, CutAnswersAreMarked
  <2> QED
    BY <2>1, <2>2, SameFailures
<1>3. CASE \E asks \in 0 .. MaxAsked : FirstAnswers(asks)
  BY <1>1, <1>3 DEF FirstAnswers, Placed
<1>4. CASE FirstIsCut
  <2>1. CASE call.continued < MaxContinuations
    <3>1. call' = [stage |-> "continue", context |-> call.context, attempt |-> call.attempt,
                   fives |-> call.fives, continued |-> call.continued + 1, seen |-> call.seen,
                   answer |-> call.answer, cause |-> call.cause]
      BY <1>4, <2>1 DEF FirstIsCut
    <3>2. /\ call.attempt = 0 /\ call.cause = "none"
          /\ call.continued + 1 \in Nat /\ call.continued + 1 > 0
      BY <1>4 DEF FirstIsCut, Placed
    <3>3. /\ call'.stage = "continue" /\ call'.attempt = 0 /\ call'.cause = "none"
          /\ call'.continued > 0
      BY <3>1, <3>2
    <3>4. Placed' /\ CutAnswersAreMarked'
      BY <3>3 DEF Placed, CutAnswersAreMarked
    <3> QED
      BY <3>1, <3>2, <3>4, SameFailures
  <2>2. CASE ~ (call.continued < MaxContinuations)
    BY <1>1, <1>4, <2>2 DEF FirstIsCut, Placed
  <2> QED
    BY <2>1, <2>2
<1>5. ASSUME NEW failure \in Failure, FirstFails(failure) PROVE CallInv'
  <2>1. CASE failure = "overflow"
    BY <1>5, <2>1 DEF FirstFails, Noted, Placed, CutAnswersAreMarked
  <2>2. CASE failure # "overflow"
    BY <1>2, <1>5, <2>2 DEF FirstFails, Placed
  <2> QED
    BY <2>1, <2>2
<1>6. ASSUME NEW failure \in Failure, RetryFails(failure) PROVE CallInv'
  <2>1. CASE failure \notin Temporary
    BY <1>2, <1>6, <2>1 DEF RetryFails, GivenUp
  <2>2. CASE failure \in Temporary
    <3>1. PICK place \in {"retry", "fallback", "raised"}, cause \in {"none", failure} :
            /\ call' = [call EXCEPT !.attempt = @ + 1, !.fives = Fives(failure),
                                    !.seen = Append(@, failure), !.stage = place, !.cause = cause]
            /\ place = "fallback" => Fives(failure) >= Threshold
            /\ place = "retry" => ~ OutOfRetries
            /\ place = "raised" => OutOfRetries
            /\ place # "raised" => cause = "none"
      BY <1>6, <2>2 DEF RetryFails, AfterFailure, Placed
    <3>2. Noted'
      BY <3>1, FailureNoted
    <3>3. Placed'
      <4>1. call.stage = "retry" /\ call.attempt < MaxRetries /\ call.attempt \in Nat /\ call.cause = "none"
        BY <1>6 DEF RetryFails, Placed, Noted
      <4>2. /\ call'.stage = place /\ call'.attempt = call.attempt + 1 /\ call'.fives = Fives(failure)
            /\ call'.cause = cause
        BY <3>1
      <4>3. place = "raised" => call.attempt + 1 = MaxRetries
        BY <3>1, <4>1 DEF OutOfRetries
      <4>4. place = "retry" => call.attempt + 1 < MaxRetries
        BY <3>1, <4>1 DEF OutOfRetries
      <4> QED
        BY <3>1, <4>2, <4>3, <4>4 DEF Placed
    <3>4. CutAnswersAreMarked'
      BY <3>1 DEF CutAnswersAreMarked
    <3> QED
      BY <3>1, <3>2, <3>3, <3>4
  <2> QED
    BY <2>1, <2>2
<1>7. ASSUME NEW whole \in BOOLEAN, ContinuationAnswers(whole) \/ RetryAnswers(whole) \/ FallbackAnswers(whole)
      PROVE  CallInv'
  BY <1>1, <1>7 DEF ContinuationAnswers, RetryAnswers, FallbackAnswers, Placed
<1>8. CASE ContinuationFails
  BY <1>8 DEF ContinuationFails, PartialAnswer, Answered, Noted, Placed, CutAnswersAreMarked
<1>9. CASE \E size \in SummarySizes : Compacts(size)
  <2>1. PICK context :
          call' = [stage |-> "retry", context |-> context, attempt |-> call.attempt,
                   fives |-> call.fives, continued |-> call.continued, seen |-> call.seen,
                   answer |-> call.answer, cause |-> call.cause]
    BY <1>9 DEF Compacts
  <2>2. Placed' /\ CutAnswersAreMarked'
    BY <1>9, <2>1 DEF Compacts, Placed, CutAnswersAreMarked
  <2> QED
    BY <2>1, <2>2, SameFailures
<1>10. CASE SummaryFails \/ FallbackFails
  BY <1>2, <1>10 DEF SummaryFails, FallbackFails, Temporary
<1> QED
  BY <1>3, <1>4, <1>5, <1>6, <1>7, <1>8, <1>9, <1>10 DEF CallStep

\* The account of the call is kept by the whole run.
LEMMA CallKept == CallInv /\ [Next]_vars => CallInv'
<1> SUFFICES ASSUME CallInv, [Next]_vars PROVE CallInv'
  OBVIOUS
<1>1. CASE call' = call
  BY <1>1 DEF CallInv, Noted, Placed, CutAnswersAreMarked
<1>2. CASE BeforeModel \/ TakeAnswer \/ CallRaises \/ Die
  BY <1>2, CallBegins DEF BeforeModel, TakeAnswer, CallRaises, Die
<1>3. CASE CallModel
  BY <1>3, CallStepKeeps DEF CallModel
<1> QED
  BY <1>1, <1>2, <1>3 DEF Next, RunStep, vars, Ask, BeforeModelFails, RunTools, ToolRaises, AfterModel,
     SaveMemory, AfterModelFails, EndRun, Restart, Reset, EditSkills, RefreshSkills, RivalExtracts, RivalSaves

\* No call has begun.
LEMMA CallInvInit == Init => CallInv
BY CallBegins DEF Init, NoCall, CallInv, Noted, Placed, CutAnswersAreMarked

\* The fallback model is asked only after Threshold failures with 529 in a row within
\* this call, whatever the limits are and however earlier calls ended.
THEOREM FallbackAfterOutage == Spec => []FallbackNeedsOutage
<1>1. CallInv => FallbackNeedsOutage
  BY CallAssumption DEF CallInv, Noted, Placed, FallbackNeedsOutage
<1> QED
  BY <1>1, CallInvInit, CallKept, PTL DEF Spec

\* A recovery that a temporary failure ends has made every retry it may.
THEOREM EveryRetryMade == Spec => []RetriesAreUsedUp
<1>1. CallInv => RetriesAreUsedUp
  BY DEF CallInv, Noted, Placed, RetriesAreUsedUp
<1> QED
  BY <1>1, CallInvInit, CallKept, PTL DEF Spec

\* An answer that lost a part is marked as cut, or a continuation of it arrived.
THEOREM CutAnswersMarked == Spec => []CutAnswersAreMarked
<1>1. CallInv => CutAnswersAreMarked
  BY DEF CallInv
<1> QED
  BY <1>1, CallInvInit, CallKept, PTL DEF Spec

-----------------------------------------------------------------------------
(* The cache of skills.  What a scan has read is true of a directory whose   *)
(* time is still the one the scan has noted: this is kept by every change of *)
(* the directory, during the scan and after it.                              *)

\* The directory's times and versions come from the clock.
Clocked ==
    /\ clock \in Nat
    /\ \A s \in DOMAIN dir : /\ dir[s] = Entry(dir[s].time, dir[s].file)
                             /\ dir[s].time \in Nat /\ dir[s].time <= clock
                             /\ dir[s].file \in Versions \cup {NoSkill}

\* The times of a fingerprint are past.
Past(times, now) == \A s \in DOMAIN times : times[s] \in Nat /\ times[s] <= now

\* What was read in a directory with this row.
Right(file, row) ==
    /\ file = NoSkill <=> row.file = NoSkill
    /\ file \in Versions /\ file # row.file => row.time < row.file.written

\* A directory that still has its time in the fingerprint is one of those that wait to be
\* read, or what was read in it is right.
Agrees(rows, times, read, waiting) ==
    \A s \in DOMAIN rows \cap DOMAIN times \cap Allowed :
        rows[s].time = times[s] =>
            s \in waiting \/ (s \in DOMAIN read /\ Right(read[s], rows[s]))

\* The skills found are those read, by name.
Named(read, found) ==
    /\ \A s \in DOMAIN read : /\ s \in Allowed /\ read[s] \in Versions \cup {NoSkill, Unreadable}
                              /\ read[s] \in Versions => read[s].name \in DOMAIN found
    /\ \A name \in DOMAIN found :
          /\ found[name] = [of |-> found[name].of, file |-> found[name].file]
          /\ found[name].of \in DOMAIN read /\ read[found[name].of] = found[name].file
          /\ found[name].file \in Versions /\ found[name].file.name = name

SkillInv ==
    /\ Clocked
    /\ scan = [at |-> scan.at, print |-> scan.print, left |-> scan.left,
               found |-> scan.found, loaded |-> scan.loaded]
    /\ Past(print, clock) /\ Agrees(dir, print, loaded, {}) /\ Named(loaded, cache)
    /\ Past(scan.print, clock) /\ Named(scan.loaded, scan.found)
    /\ scan.at # "load" => scan.loaded = <<>> /\ scan.found = <<>>
    /\ scan.at = "load" =>
          /\ Agrees(dir, scan.print, scan.loaded, scan.left)
          /\ scan.left \subseteq Allowed \ DOMAIN scan.loaded

\* An edit moves the clock, and what was read under earlier times is still right.
LEMMA EditAgrees ==
    ASSUME Clocked, EditDirectory
    PROVE  /\ Clocked'
           /\ \A times : Past(times, clock) => Past(times, clock')
           /\ \A times, read, waiting :
                 Past(times, clock) /\ Agrees(dir, times, read, waiting) =>
                    Agrees(dir', times, read, waiting)
<1> USE SkillAssumption DEF Clocked, Entry
<1>1. PICK s \in Skill : \/ MakeDirectory(s) \/ OpenSkillFile(s) \/ WriteSkillFile(s)
                         \/ RemoveSkillFile(s) \/ RemoveDirectory(s)
  BY DEF EditDirectory
<1>2. clock' = clock + 1 /\ clock' \in Nat
  BY <1>1 DEF MakeDirectory, OpenSkillFile, WriteSkillFile, RemoveSkillFile, RemoveDirectory
<1>3. /\ \A x \in DOMAIN dir' \ {s} : x \in DOMAIN dir /\ dir'[x] = dir[x]
      /\ \A x \in DOMAIN dir \ {s} : x \in DOMAIN dir'
  BY <1>1 DEF MakeDirectory, OpenSkillFile, WriteSkillFile, RemoveSkillFile, RemoveDirectory, Put, Restrict
<1>4. s \in DOMAIN dir' =>
         \/ dir'[s] = Entry(clock', NoSkill) \/ dir'[s] = Entry(clock', Version(clock', s))
         \/ \E name \in Skill : s \in DOMAIN dir /\ dir[s].file # NoSkill
                                /\ dir'[s] = Entry(dir[s].time, Version(clock', name))
  <2>1. CASE MakeDirectory(s) \/ OpenSkillFile(s) \/ RemoveSkillFile(s) \/ RemoveDirectory(s)
    BY <2>1 DEF MakeDirectory, OpenSkillFile, RemoveSkillFile, RemoveDirectory, Put, Restrict
  <2>2. CASE WriteSkillFile(s)
    <3>1. PICK name \in Skill : dir' = [dir EXCEPT ![s].file = Version(clock', name)]
      BY <2>2 DEF WriteSkillFile
    <3>2. dir'[s] = Entry(dir[s].time, Version(clock', name))
      BY <2>2, <3>1 DEF WriteSkillFile
    <3> QED
      BY <2>2, <3>2 DEF WriteSkillFile
  <2> QED
    BY <1>1, <2>1, <2>2
<1>5. \A name \in Skill : /\ Version(clock', name) \in Versions
                          /\ Version(clock', name).written = clock'
                          /\ Version(clock', name) # NoSkill
  BY <1>2 DEF Version, Versions
<1>6. Clocked'
  <2>1. ASSUME NEW x \in DOMAIN dir', x # s
        PROVE  /\ dir'[x] = Entry(dir'[x].time, dir'[x].file)
               /\ dir'[x].time \in Nat /\ dir'[x].time <= clock'
               /\ dir'[x].file \in Versions \cup {NoSkill}
    BY <1>2, <1>3, <2>1
  <2>2. ASSUME s \in DOMAIN dir'
        PROVE  /\ dir'[s] = Entry(dir'[s].time, dir'[s].file)
               /\ dir'[s].time \in Nat /\ dir'[s].time <= clock'
               /\ dir'[s].file \in Versions \cup {NoSkill}
    BY <1>2, <1>4, <1>5, <2>2
  <2> QED
    BY <1>2, <2>1, <2>2
<1>7. ASSUME NEW times, Past(times, clock) PROVE Past(times, clock')
  BY <1>2, <1>7 DEF Past
<1>8. ASSUME NEW times, NEW read, NEW waiting, Past(times, clock), Agrees(dir, times, read, waiting)
      PROVE  Agrees(dir', times, read, waiting)
  <2>1. ASSUME NEW x \in DOMAIN dir' \cap DOMAIN times \cap Allowed, dir'[x].time = times[x]
        PROVE  x \in waiting \/ (x \in DOMAIN read /\ Right(read[x], dir'[x]))
    <3>1. CASE x # s
      BY <1>3, <1>8, <2>1, <3>1 DEF Agrees
    <3>2. CASE x = s
      <4>1. times[s] \in Nat /\ times[s] < clock'
        BY <1>2, <1>8, <2>1, <3>2 DEF Past
      <4>2. PICK name \in Skill : s \in DOMAIN dir /\ dir[s].file # NoSkill
                                  /\ dir'[s] = Entry(dir[s].time, Version(clock', name))
        BY <1>2, <1>4, <2>1, <3>2, <4>1
      <4>3. s \in waiting \/ (s \in DOMAIN read /\ Right(read[s], dir[s]))
        BY <1>8, <2>1, <3>2, <4>2 DEF Agrees
      <4>4. dir'[s].time < dir'[s].file.written /\ dir'[s].file # NoSkill
        BY <1>2, <1>5, <2>1, <3>2, <4>1, <4>2
      <4> QED
        BY <3>2, <4>2, <4>3, <4>4 DEF Right
    <3> QED
      BY <3>1, <3>2
  <2> QED
    BY <2>1 DEF Agrees
<1> QED
  BY <1>6, <1>7, <1>8

\* Nothing has been read, under no times.
LEMMA NothingRead ==
    /\ \A rows : Agrees(rows, <<>>, <<>>, {})
    /\ Named(<<>>, <<>>)
    /\ \A now : Past(<<>>, now)
<1>1. DOMAIN <<>> = {}
  OBVIOUS
<1> QED
  BY <1>1 DEF Agrees, Named, Past

\* An empty cache agrees with any directory.
LEMMA EmptyAgrees ==
    ASSUME Clocked, EmptyCache
    PROVE  SkillInv'
BY NothingRead DEF EmptyCache, SkillInv, Clocked, NoScan

\* What one reading adds.
LEMMA LoadKeeps ==
    ASSUME SkillInv, NEW s \in Skill, LoadSkill(s)
    PROVE  SkillInv'
<1> USE SkillAssumption DEF SkillInv
<1>1. UNCHANGED <<dir, clock, cache, print, loaded>> /\ scan.at = "load" /\ s \in scan.left
  BY DEF LoadSkill, Scanning
<1>2. PICK file \in Readings(s) :
         scan' = [scan EXCEPT !.left = @ \ {s}, !.loaded = Put(@, s, file),
                    !.found = IF file \in {NoSkill, Unreadable} THEN @
                              ELSE Put(@, file.name, [of |-> s, file |-> file])]
  BY DEF LoadSkill, Scanning
<1> DEFINE read == Put(scan.loaded, s, file)
           found == IF file \in {NoSkill, Unreadable} THEN scan.found
                    ELSE Put(scan.found, file.name, [of |-> s, file |-> file])
<1>3. scan' = [at |-> "load", print |-> scan.print, left |-> scan.left \ {s},
               found |-> found, loaded |-> read]
  BY <1>1, <1>2
<1>4. /\ file \in Versions \cup {NoSkill, Unreadable}
      /\ file \in Versions => file \notin {NoSkill, Unreadable}
      /\ s \in DOMAIN dir => Right(file, dir[s])
  BY DEF Readings, Clocked, Right
<1>5. s \in Allowed /\ s \notin DOMAIN scan.loaded
  BY <1>1
<1>6. /\ DOMAIN read = DOMAIN scan.loaded \cup {s} /\ read[s] = file
      /\ \A x \in DOMAIN scan.loaded : read[x] = scan.loaded[x]
  BY <1>5 DEF Put
<1>7. Named(read, found)
  <2> USE DEF Named
  <2>1. CASE file \in {NoSkill, Unreadable}
    <3>1. found = scan.found
      BY <2>1
    <3> QED
      BY <1>4, <1>5, <1>6, <2>1, <3>1
  <2>2. CASE file \notin {NoSkill, Unreadable}
    <3>1. file \in Versions
      BY <1>4, <2>2
    <3>2. /\ DOMAIN found = DOMAIN scan.found \cup {file.name}
          /\ found[file.name] = [of |-> s, file |-> file]
          /\ \A name \in DOMAIN scan.found \ {file.name} : found[name] = scan.found[name]
      BY <2>2 DEF Put
    <3>3. \A x \in DOMAIN read :
             /\ x \in Allowed /\ read[x] \in Versions \cup {NoSkill, Unreadable}
             /\ read[x] \in Versions => read[x].name \in DOMAIN found
      BY <1>4, <1>5, <1>6, <3>1, <3>2
    <3>4. ASSUME NEW name \in DOMAIN found
          PROVE  /\ found[name] = [of |-> found[name].of, file |-> found[name].file]
                 /\ found[name].of \in DOMAIN read /\ read[found[name].of] = found[name].file
                 /\ found[name].file \in Versions /\ found[name].file.name = name
      <4>1. CASE name = file.name
        BY <1>6, <3>1, <3>2, <4>1
      <4>2. CASE name # file.name
        BY <1>6, <3>2, <3>4, <4>2
      <4> QED
        BY <4>1, <4>2
    <3> QED
      BY <3>3, <3>4
  <2> QED
    BY <2>1, <2>2
<1>8. Agrees(dir, scan.print, read, scan.left \ {s})
  BY <1>1, <1>4, <1>6 DEF Agrees
<1>9. scan.left \ {s} \subseteq Allowed \ DOMAIN read
  BY <1>1, <1>6
<1> HIDE DEF read, found
<1> QED
  BY <1>1, <1>3, <1>7, <1>8, <1>9 DEF Clocked

\* A refresh notes the times before it reads, and keeps what it read with them.
LEMMA RefreshKeeps ==
    ASSUME SkillInv, Refresh
    PROVE  SkillInv'
<1> USE DEF SkillInv
<1>1. CASE BeginRefresh
  BY <1>1, NothingRead DEF BeginRefresh, Scanning, NoScan, Clocked
<1>2. ASSUME NEW s \in Skill, StatEntry(s) PROVE SkillInv'
  <2>1. UNCHANGED <<dir, clock, cache, print, loaded>> /\ scan.at = "stat"
    BY <1>2 DEF StatEntry, Scanning
  <2> DEFINE times == Put(scan.print, s, IF s \in DOMAIN dir THEN dir[s].time ELSE 0)
  <2>2. scan' = [at |-> "stat", print |-> times, left |-> scan.left \ {s},
                 found |-> scan.found, loaded |-> scan.loaded]
    BY <1>2, <2>1 DEF StatEntry, Scanning
  <2>3. Past(times, clock)
    BY DEF Past, Put, Clocked
  <2> HIDE DEF times
  <2> QED
    BY <2>1, <2>2, <2>3 DEF Clocked
<1>3. ASSUME NEW s \in Skill, StatRaises(s) PROVE SkillInv'
  BY <1>3, NothingRead DEF StatRaises, Scanning, NoScan, Clocked
<1>4. CASE KeepCache
  BY <1>4, NothingRead DEF KeepCache, Scanning, NoScan, Clocked
<1>5. CASE BeginScan
  <2>1. UNCHANGED <<dir, clock, cache, print, loaded>> /\ scan.loaded = <<>> /\ scan.found = <<>>
    BY <1>5 DEF BeginScan, Scanning
  <2>2. scan' = [at |-> "load", print |-> scan.print, left |-> DOMAIN dir \cap Allowed,
                 found |-> scan.found, loaded |-> scan.loaded]
    BY <1>5 DEF BeginScan, Scanning
  <2>3. Agrees(dir, scan.print, scan.loaded, DOMAIN dir \cap Allowed)
    BY DEF Agrees
  <2>4. DOMAIN scan.loaded = {}
    BY <2>1
  <2> QED
    BY <2>1, <2>2, <2>3, <2>4 DEF Clocked
<1>6. ASSUME NEW s \in Skill, LoadSkill(s) PROVE SkillInv'
  BY <1>6, LoadKeeps
<1>7. CASE EndRefresh
  <2>1. /\ UNCHANGED <<dir, clock>> /\ cache' = scan.found /\ loaded' = scan.loaded
        /\ print' = scan.print /\ scan' = NoScan /\ scan.at = "load" /\ scan.left = {}
    BY <1>7 DEF EndRefresh, PrintOfScan
  <2>2. Agrees(dir', print', loaded', {}) /\ Past(print', clock') /\ Named(loaded', cache')
    BY <2>1
  <2> QED
    BY <2>1, <2>2, NothingRead DEF Clocked, NoScan
<1>8. CASE EmptyCache
  BY <1>8, EmptyAgrees
<1> QED
  BY <1>1, <1>2, <1>3, <1>4, <1>5, <1>6, <1>7, <1>8 DEF Refresh, ClearCache

\* SkillInv is inductive for the whole run.
LEMMA SkillsKept == SkillInv /\ [Next]_vars => SkillInv'
<1> SUFFICES ASSUME SkillInv, [Next]_vars PROVE SkillInv'
  OBVIOUS
<1>1. CASE UNCHANGED skillVars
  BY <1>1 DEF skillVars, SkillInv, Clocked
<1>2. CASE EditDirectory
  <2>1. UNCHANGED <<cache, print, scan, loaded>>
    BY <1>2 DEF EditDirectory, MakeDirectory, OpenSkillFile, WriteSkillFile, RemoveSkillFile,
       RemoveDirectory, Unread
  <2> QED
    BY <1>2, <2>1, EditAgrees DEF SkillInv
<1>3. CASE Restart
  BY <1>3, EmptyAgrees DEF Restart, SkillInv
<1>4. CASE Refresh
  BY <1>4, RefreshKeeps
<1> QED
  BY <1>1, <1>2, <1>3, <1>4 DEF Next, RunStep, vars, beside, Ask, BeforeModel, BeforeModelFails, CallModel,
     TakeAnswer, CallRaises, RunTools, ToolRaises, AfterModel, SaveMemory, AfterModelFails, EndRun, Die,
     Reset, EditSkills, RefreshSkills, RivalExtracts, RivalSaves

\* Nothing is there and nothing has been read.
LEMMA SkillInvInit == Init => SkillInv
<1> SUFFICES ASSUME Init PROVE SkillInv
  OBVIOUS
<1>1. DOMAIN <<>> = {}
  OBVIOUS
<1> QED
  BY <1>1, NothingRead DEF Init, SkillInit, SkillInv, Clocked, NoScan

\* When a refresh finds the fingerprint it has kept, however the directory changed while
\* the fingerprint was taken and the skills were read, the cache has each skill there is
\* that could be read, and has of the directories there are no other skill; what it has
\* of them is what is there, or was written over in place.
THEOREM CacheIsCurrent == Spec => []CacheFollowsDirectory
<1>1. SkillInv => CacheFollowsDirectory
  <2> SUFFICES ASSUME SkillInv, scan.at = "none", print = Fingerprint
               PROVE  CacheFollowsDirectory
    BY DEF CacheFollowsDirectory
  <2> USE SkillAssumption
  <2>1. \A s \in DOMAIN dir \cap Allowed : s \in DOMAIN loaded /\ Right(loaded[s], dir[s])
    BY DEF SkillInv, Agrees, Fingerprint
  <2>2. Named(loaded, cache) /\ Clocked
    BY DEF SkillInv
  <2>3. ASSUME NEW s \in DOMAIN dir \cap Allowed, loaded[s] \in Versions
        PROVE  UpToDate(loaded[s], s)
    BY <2>1, <2>3 DEF Right, UpToDate
  <2>4. ASSUME NEW s \in DOMAIN dir \cap Allowed, dir[s].file # NoSkill
        PROVE  /\ s \in DOMAIN loaded /\ loaded[s] # NoSkill
               /\ loaded[s] # Unreadable =>
                     UpToDate(loaded[s], s) /\ loaded[s].name \in DOMAIN cache
    <3>1. s \in DOMAIN loaded /\ loaded[s] # NoSkill
      BY <2>1, <2>4 DEF Right
    <3>2. loaded[s] # Unreadable => loaded[s] \in Versions /\ loaded[s].name \in DOMAIN cache
      BY <2>2, <3>1 DEF Named
    <3> QED
      BY <2>3, <3>1, <3>2
  <2>5. ASSUME NEW name \in DOMAIN cache, cache[name].of \in DOMAIN dir
        PROVE  /\ cache[name].of \in Allowed
               /\ UpToDate(cache[name].file, cache[name].of)
               /\ cache[name].file.name = name
    <3>1. /\ cache[name].of \in Allowed /\ loaded[cache[name].of] = cache[name].file
          /\ cache[name].file \in Versions /\ cache[name].file.name = name
      BY <2>2 DEF Named
    <3> QED
      BY <2>3, <2>5, <3>1
  <2> QED
    BY <2>4, <2>5 DEF CacheFollowsDirectory
<1> QED
  BY <1>1, SkillInvInit, SkillsKept, PTL DEF Spec

-----------------------------------------------------------------------------
(* What the compression makes of a list of messages, and how it is merged.   *)

Msg == [kind : Kind, size : Nat, asks : Nat, id : Nat]

\* A note of a natural size is a message.
LEMMA NotesAreMessages == \A size \in Nat : Note(size) \in Msg
BY DEF Note, Message, Msg, Kind

\* The end of a list holds messages of the list.
LEMMA EndOfList ==
    ASSUME NEW S, NEW ms \in Seq(S), NEW n \in Nat
    PROVE  LastOf(ms, n) \in Seq(S)
<1>1. CASE Len(ms) > n
  <2>1. \A i \in (Len(ms) - n + 1) .. Len(ms) : ms[i] \in S
    BY <1>1, ElementOfSeq, LenProperties
  <2>2. SubSeq(ms, Len(ms) - n + 1, Len(ms)) \in Seq(S)
    BY <2>1, SubSeqProperties, LenProperties
  <2> QED
    BY <1>1, <2>2 DEF LastOf
<1> QED
  BY <1>1 DEF LastOf

\* Each compression keeps messages of the list and adds notes.
LEMMA CompressionDraws ==
    ASSUME NEW S, NEW ms \in Seq(S), NEW size, Note(1) \in S, Note(size) \in S
    PROVE  /\ Snipped(ms) \in Seq(S) /\ WithRecentResults(ms) \in Seq(S)
           /\ Summarised(ms, size) \in Seq(S) /\ CutDown(ms, size) \in Seq(S)
<1> USE WindowAssumption
<1>1. /\ Len(ms) \in Nat /\ DOMAIN ms = 1 .. Len(ms)
      /\ \A i \in 1 .. Len(ms) : ms[i] \in S
  BY ElementOfSeq, LenProperties
<1>2. <<Note(1)>> \in Seq(S) /\ <<Note(size)>> \in Seq(S)
  OBVIOUS
<1>3. Snipped(ms) \in Seq(S)
  <2> DEFINE half == MaxMessages \div 2
  <2>1. CASE Len(ms) > MaxMessages
    <3>1. half \in Nat /\ half <= Len(ms)
      BY <2>1, <1>1
    <3>2. SubSeq(ms, 1, half) \in Seq(S)
      BY <1>1, <3>1, SubSeqProperties
    <3>3. LastOf(ms, half) \in Seq(S)
      BY <3>1, EndOfList
    <3> HIDE DEF half
    <3>4. SubSeq(ms, 1, half) \o <<Note(1)>> \o LastOf(ms, half) \in Seq(S)
      BY <1>2, <3>2, <3>3, ConcatProperties
    <3> QED
      BY <1>1, <2>1, <3>4 DEF Snipped, half
  <2> QED
    BY <1>1, <2>1 DEF Snipped
<1>4. WithRecentResults(ms) \in Seq(S)
  <2>1. WithRecentResults(ms) \in [1 .. Len(ms) -> S]
    BY <1>1 DEF WithRecentResults
  <2> QED
    BY <1>1, <2>1, SeqDef
<1>5. Summarised(ms, size) \in Seq(S)
  BY <1>2, EndOfList, ConcatProperties DEF Summarised
<1>6. CutDown(ms, size) \in Seq(S)
  <2>1. TailStart(ms) \in Nat /\ TailStart(ms) >= 1
    BY <1>1 DEF TailStart
  <2>2. SubSeq(ms, TailStart(ms), Len(ms)) \in Seq(S)
    BY <1>1, <2>1, SubSeqProperties
  <2> QED
    BY <1>2, <2>2, ConcatProperties DEF CutDown
<1> QED
  BY <1>3, <1>4, <1>5, <1>6

\* In a finite set of places each rank is held by a place.
LEMMA EveryRankIsHeld ==
    ASSUME NEW n \in Nat, NEW N \in SUBSET (1 .. n)
    PROVE  /\ Cardinality(N) \in Nat
           /\ \A i \in 1 .. Cardinality(N) : \E j \in N : Cardinality({k \in N : k <= j}) = i
<1> DEFINE upTo(j) == {k \in N : k <= j}
           ranks == [j \in N |-> Cardinality(upTo(j))]
<1>1. IsFiniteSet(N) /\ Cardinality(N) \in Nat
  <2>1. IsFiniteSet(1 .. n)
    BY FS_Interval
  <2>2. IsFiniteSet(N)
    BY <2>1, FS_Subset
  <2> QED
    BY <2>2, FS_CardinalityType
<1>2. \A j \in N : /\ IsFiniteSet(upTo(j)) /\ Cardinality(upTo(j)) \in Nat
                   /\ Cardinality(upTo(j)) <= Cardinality(N)
  <2> SUFFICES ASSUME NEW j \in N
               PROVE  /\ IsFiniteSet(upTo(j)) /\ Cardinality(upTo(j)) \in Nat
                      /\ Cardinality(upTo(j)) <= Cardinality(N)
    OBVIOUS
  <2> QED
    BY <1>1, FS_Subset, FS_CardinalityType
<1>3. \A j \in N : Cardinality(upTo(j)) # 0
  <2> SUFFICES ASSUME NEW j \in N PROVE Cardinality(upTo(j)) # 0
    OBVIOUS
  <2>1. j \in upTo(j)
    OBVIOUS
  <2> QED
    BY <1>2, <2>1, FS_EmptySet
<1>4. \A a, b \in N : a < b => Cardinality(upTo(a)) # Cardinality(upTo(b))
  <2> SUFFICES ASSUME NEW a \in N, NEW b \in N, a < b
               PROVE  Cardinality(upTo(a)) # Cardinality(upTo(b))
    OBVIOUS
  <2>1. a \in Nat /\ b \in Nat /\ \A k \in N : k \in Nat
    OBVIOUS
  <2>2. /\ ~ (b <= a) /\ b <= b
        /\ \A k \in N : k <= a => k <= b
    BY <2>1
  <2>3. upTo(a) \in SUBSET upTo(b) /\ b \in upTo(b) /\ b \notin upTo(a)
    BY <2>2
  <2> QED
    BY <1>2, <2>3, FS_Subset
<1>5. ranks \in Injection(N, 1 .. Cardinality(N))
  <2>1. \A j \in N : Cardinality(upTo(j)) \in 1 .. Cardinality(N)
    BY <1>1, <1>2, <1>3
  <2>2. ranks \in [N -> 1 .. Cardinality(N)]
    BY <2>1
  <2>3. \A a, b \in N : ranks[a] = ranks[b] => a = b
    BY <1>4
  <2> QED
    BY <2>2, <2>3 DEF Injection, IsInjective
<1>6. ranks \in Surjection(N, 1 .. Cardinality(N))
  <2>1. IsFiniteSet(1 .. Cardinality(N)) /\ Cardinality(1 .. Cardinality(N)) = Cardinality(N)
    BY <1>1, FS_Interval
  <2> HIDE DEF ranks
  <2> QED
    BY <1>5, <2>1, FS_Injection
<1> QED
  BY <1>1, <1>6 DEF Surjection

\* The new messages of a list are messages of it.
LEMMA NewOnesAreNew ==
    ASSUME NEW S, NEW ms \in Seq(S)
    PROVE  NewOnes(ms) \in Seq({m \in S : m.id = 0})
<1>1. /\ Len(ms) \in Nat /\ DOMAIN ms = 1 .. Len(ms)
      /\ \A i \in 1 .. Len(ms) : ms[i] \in S
  BY ElementOfSeq, LenProperties
<1>2. NewAt(ms) \in SUBSET (1 .. Len(ms))
  BY <1>1 DEF NewAt
<1>3. /\ Cardinality(NewAt(ms)) \in Nat
      /\ \A i \in 1 .. Cardinality(NewAt(ms)) :
            \E j \in NewAt(ms) : Cardinality({k \in NewAt(ms) : k <= j}) = i
  BY <1>1, <1>2, EveryRankIsHeld
<1>4. \A j \in NewAt(ms) : ms[j] \in {m \in S : m.id = 0}
  BY <1>1 DEF NewAt
<1>5. NewOnes(ms) \in [1 .. Cardinality(NewAt(ms)) -> {m \in S : m.id = 0}]
  BY <1>3, <1>4 DEF NewOnes
<1> QED
  BY <1>3, <1>5, SeqDef

\* A list of new messages is the list of its new messages.
LEMMA AllAreNew ==
    ASSUME NEW S, NEW ms \in Seq(S), \A i \in DOMAIN ms : ms[i].id = 0
    PROVE  NewOnes(ms) = ms
<1>1. Len(ms) \in Nat /\ DOMAIN ms = 1 .. Len(ms) /\ NewAt(ms) = 1 .. Len(ms)
  BY LenProperties DEF NewAt
<1>2. \A n \in Nat : Cardinality(1 .. n) = n
  <2> SUFFICES ASSUME NEW n \in Nat PROVE Cardinality(1 .. n) = n
    OBVIOUS
  <2>1. Cardinality(1 .. n) = IF 1 > n THEN 0 ELSE n - 1 + 1
    BY FS_Interval
  <2> QED
    BY <2>1
<1>3. \A j \in NewAt(ms) : Cardinality({k \in NewAt(ms) : k <= j}) = j
  <2> SUFFICES ASSUME NEW j \in 1 .. Len(ms) PROVE Cardinality({k \in NewAt(ms) : k <= j}) = j
    BY <1>1
  <2>1. {k \in NewAt(ms) : k <= j} = 1 .. j
    BY <1>1
  <2>2. j \in Nat
    BY <1>1
  <2> QED
    BY <1>2, <2>1, <2>2
<1>4. \A i \in 1 .. Len(ms) :
        (CHOOSE j \in NewAt(ms) : Cardinality({k \in NewAt(ms) : k <= j}) = i) = i
  BY <1>1, <1>3
<1>5. Cardinality(NewAt(ms)) = Len(ms)
  BY <1>1, <1>2
<1>6. DOMAIN NewOnes(ms) = 1 .. Len(ms) /\ \A i \in 1 .. Len(ms) : NewOnes(ms)[i] = ms[i]
  BY <1>4, <1>5 DEF NewOnes
<1>7. NewOnes(ms) \in Seq({m \in S : m.id = 0})
  BY NewOnesAreNew
<1>8. NewOnes(ms) \in Seq(S)
  BY <1>7, SeqMonotonic
<1> QED
  BY <1>1, <1>6, <1>8, SeqEqual, LenProperties

\* One message stands for another: perhaps shortened, otherwise the same.
Alike(m, n) == m.kind = n.kind /\ m.asks = n.asks /\ m.id = n.id

\* What a compression may return for a stored conversation.
Copies(base) ==
    {m \in Msg : \/ m.id = 0 /\ m.kind = "note"
                 \/ m.id \in DOMAIN base /\ Alike(m, base[m.id])}

\* Every message has its place as its identifier.
InPlace(ms) == \A i \in DOMAIN ms : ms[i].id = i

\* New messages are numbered on.
LEMMA NumberedOn ==
    ASSUME NEW ms \in Seq(Msg), NEW n \in Nat, NEW more,
           more = [i \in DOMAIN ms |-> [ms[i] EXCEPT !.id = n + i]]
    PROVE  /\ more \in Seq(Msg) /\ Len(more) = Len(ms)
           /\ \A i \in 1 .. Len(ms) : /\ more[i].id = n + i /\ more[i].kind = ms[i].kind
                                     /\ more[i].asks = ms[i].asks
<1>1. /\ Len(ms) \in Nat /\ DOMAIN ms = 1 .. Len(ms)
      /\ \A i \in 1 .. Len(ms) : ms[i] \in Msg
  BY ElementOfSeq, LenProperties
<1>2. \A m \in Msg : \A k \in Nat :
        LET x == [m EXCEPT !.id = k]
        IN  x \in Msg /\ x.id = k /\ x.kind = m.kind /\ x.asks = m.asks
  BY DEF Msg
<1>3. \A i \in 1 .. Len(ms) : n + i \in Nat
  BY <1>1
<1>4. more \in [1 .. Len(ms) -> Msg]
  BY <1>1, <1>2, <1>3
<1>5. more \in Seq(Msg)
  BY <1>1, <1>4, SeqDef
<1>6. Len(more) = Len(ms)
  BY <1>1, <1>4, <1>5, LenProperties
<1> QED
  BY <1>1, <1>2, <1>3, <1>5, <1>6

\* Merged, what a compression returned leaves every stored message in its place, and
\* appends notes.
LEMMA MergedKeeps ==
    ASSUME NEW base \in Seq(Msg), InPlace(base), NEW ms \in Seq(Copies(base))
    PROVE  /\ Merged(base, ms) \in Seq(Msg) /\ Len(base) <= Len(Merged(base, ms))
           /\ InPlace(Merged(base, ms))
           /\ \A i \in 1 .. Len(base) : Alike(Merged(base, ms)[i], base[i])
           /\ \A i \in (Len(base) + 1) .. Len(Merged(base, ms)) : Merged(base, ms)[i].kind = "note"
<1> DEFINE more == [i \in DOMAIN NewOnes(ms) |-> [NewOnes(ms)[i] EXCEPT !.id = Len(base) + i]]
<1>1. /\ Len(base) \in Nat /\ DOMAIN base = 1 .. Len(base)
      /\ \A i \in 1 .. Len(base) : base[i] \in Msg
  BY ElementOfSeq, LenProperties
<1>2. \A j \in DOMAIN ms : ms[j] \in Copies(base)
  BY ElementOfSeq, LenProperties
<1>3. \A i \in DOMAIN base : Kept(base, ms)[i] \in Msg /\ Alike(Kept(base, ms)[i], base[i])
  <2> SUFFICES ASSUME NEW i \in DOMAIN base
               PROVE  Kept(base, ms)[i] \in Msg /\ Alike(Kept(base, ms)[i], base[i])
    OBVIOUS
  <2>1. CASE \E j \in DOMAIN ms : ms[j].id = i
    <3>1. PICK j \in DOMAIN ms : ms[j].id = i /\ Kept(base, ms)[i] = ms[j]
      BY <2>1 DEF Kept
    <3>2. i # 0
      BY <1>1
    <3> QED
      BY <1>2, <3>1, <3>2 DEF Copies
  <2>2. CASE ~ \E j \in DOMAIN ms : ms[j].id = i
    BY <1>1, <2>2 DEF Kept, Alike
  <2> QED
    BY <2>1, <2>2
<1>4. Kept(base, ms) \in Seq(Msg) /\ Len(Kept(base, ms)) = Len(base)
  <2>1. DOMAIN Kept(base, ms) = 1 .. Len(base)
    BY <1>1 DEF Kept
  <2>2. Kept(base, ms) = [i \in 1 .. Len(base) |-> Kept(base, ms)[i]]
    BY <1>1 DEF Kept
  <2>3. Kept(base, ms) \in [1 .. Len(base) -> Msg]
    BY <1>1, <1>3, <2>2
  <2>4. Kept(base, ms) \in Seq(Msg)
    BY <1>1, <2>3, SeqDef
  <2> QED
    BY <1>1, <2>1, <2>4, LenProperties
<1>5. NewOnes(ms) \in Seq(Msg) /\ \A i \in 1 .. Len(NewOnes(ms)) : NewOnes(ms)[i].kind = "note"
  <2>1. NewOnes(ms) \in Seq({m \in Copies(base) : m.id = 0})
    BY NewOnesAreNew
  <2>2. {m \in Copies(base) : m.id = 0} \subseteq {m \in Msg : m.kind = "note"}
    BY <1>1 DEF Copies
  <2>3. NewOnes(ms) \in Seq({m \in Msg : m.kind = "note"})
    BY <2>1, <2>2, SeqMonotonic
  <2>4. NewOnes(ms) \in Seq(Msg)
    BY <2>3, SeqMonotonic
  <2> QED
    BY <2>3, <2>4, ElementOfSeq
<1>6. /\ more \in Seq(Msg) /\ Len(more) = Len(NewOnes(ms)) /\ Len(more) \in Nat
      /\ \A i \in 1 .. Len(more) : more[i].id = Len(base) + i /\ more[i].kind = "note"
  <2>1. /\ more \in Seq(Msg) /\ Len(more) = Len(NewOnes(ms))
        /\ \A i \in 1 .. Len(NewOnes(ms)) : /\ more[i].id = Len(base) + i
                                            /\ more[i].kind = NewOnes(ms)[i].kind
    BY <1>1, <1>5, NumberedOn
  <2> QED
    BY <1>5, <2>1, LenProperties
<1>7. Merged(base, ms) = Kept(base, ms) \o more
  BY DEF Merged
<1> HIDE DEF more
<1>8. /\ Merged(base, ms) \in Seq(Msg) /\ Len(Merged(base, ms)) = Len(base) + Len(more)
      /\ \A i \in 1 .. Len(base) + Len(more) :
            Merged(base, ms)[i] = IF i <= Len(base) THEN Kept(base, ms)[i] ELSE more[i - Len(base)]
  <2> DEFINE kept == Kept(base, ms)
  <2>1. kept \in Seq(Msg) /\ Len(kept) = Len(base) /\ Merged(base, ms) = kept \o more
    BY <1>4, <1>7
  <2> HIDE DEF kept
  <2>2. kept \in Seq(Msg) /\ more \in Seq(Msg)
    BY <1>6, <2>1
  <2>3. /\ kept \o more \in Seq(Msg) /\ Len(kept \o more) = Len(kept) + Len(more)
        /\ \A i \in 1 .. Len(kept) + Len(more) :
              (kept \o more)[i] = IF i <= Len(kept) THEN kept[i] ELSE more[i - Len(kept)]
    BY <2>2, ConcatProperties, Zenon
  <2> QED
    BY <2>1, <2>3 DEF kept
<1>9. \A i \in 1 .. Len(base) : Alike(Merged(base, ms)[i], base[i])
  <2>1. \A i \in 1 .. Len(base) : Merged(base, ms)[i] = Kept(base, ms)[i]
    BY <1>1, <1>6, <1>8
  <2> QED
    BY <1>1, <1>3, <2>1
<1>10. \A i \in (Len(base) + 1) .. Len(Merged(base, ms)) :
         Merged(base, ms)[i].kind = "note" /\ Merged(base, ms)[i].id = i
  <2> SUFFICES ASSUME NEW i \in (Len(base) + 1) .. Len(Merged(base, ms))
               PROVE  Merged(base, ms)[i].kind = "note" /\ Merged(base, ms)[i].id = i
    OBVIOUS
  <2>1. i - Len(base) \in 1 .. Len(more) /\ Merged(base, ms)[i] = more[i - Len(base)]
    BY <1>1, <1>6, <1>8
  <2> QED
    BY <1>1, <1>6, <2>1
<1>11. InPlace(Merged(base, ms))
  <2>1. DOMAIN Merged(base, ms) = 1 .. Len(Merged(base, ms))
    BY <1>8, LenProperties
  <2>2. \A i \in 1 .. Len(base) : Merged(base, ms)[i].id = i
    BY <1>1, <1>9 DEF Alike, InPlace
  <2> QED
    BY <1>1, <1>6, <1>8, <1>10, <2>1, <2>2 DEF InPlace
<1> QED
  BY <1>1, <1>6, <1>8, <1>9, <1>10, <1>11

\* Merged, new messages follow the stored conversation, which stays as it is.
LEMMA MergedAppends ==
    ASSUME NEW base \in Seq(Msg), InPlace(base), NEW ms \in Seq(Msg), \A i \in DOMAIN ms : ms[i].id = 0
    PROVE  /\ Merged(base, ms) \in Seq(Msg) /\ Len(Merged(base, ms)) = Len(base) + Len(ms)
           /\ InPlace(Merged(base, ms))
           /\ \A i \in 1 .. Len(base) : Merged(base, ms)[i] = base[i]
           /\ \A i \in 1 .. Len(ms) : /\ Merged(base, ms)[Len(base) + i].kind = ms[i].kind
                                      /\ Merged(base, ms)[Len(base) + i].asks = ms[i].asks
<1> DEFINE more == [i \in DOMAIN ms |-> [ms[i] EXCEPT !.id = Len(base) + i]]
<1>1. /\ Len(base) \in Nat /\ DOMAIN base = 1 .. Len(base) /\ base = [i \in DOMAIN base |-> base[i]]
      /\ Len(ms) \in Nat
  BY LenProperties
<1>2. Kept(base, ms) = base
  <2>1. \A i \in DOMAIN base : ~ \E j \in DOMAIN ms : ms[j].id = i
    BY <1>1
  <2>2. Kept(base, ms) = [i \in DOMAIN base |-> base[i]]
    BY <2>1 DEF Kept
  <2> QED
    BY <1>1, <2>2
<1>3. NewOnes(ms) = ms
  BY AllAreNew
<1>4. /\ more \in Seq(Msg) /\ Len(more) = Len(ms)
      /\ \A i \in 1 .. Len(ms) : /\ more[i].id = Len(base) + i /\ more[i].kind = ms[i].kind
                                /\ more[i].asks = ms[i].asks
  BY <1>1, NumberedOn
<1>5. Merged(base, ms) = base \o more
  BY <1>2, <1>3 DEF Merged
<1> HIDE DEF more
<1>6. /\ base \o more \in Seq(Msg) /\ Len(base \o more) = Len(base) + Len(more)
      /\ \A i \in 1 .. Len(base) + Len(more) :
            (base \o more)[i] = IF i <= Len(base) THEN base[i] ELSE more[i - Len(base)]
  <2>1. more \in Seq(Msg)
    BY <1>4
  <2> QED
    BY <2>1, ConcatProperties, Zenon
<1>7. \A i \in 1 .. Len(base) : Merged(base, ms)[i] = base[i]
  BY <1>1, <1>4, <1>5, <1>6
<1>8. \A i \in 1 .. Len(ms) : Merged(base, ms)[Len(base) + i] = more[i]
  <2> SUFFICES ASSUME NEW i \in 1 .. Len(ms) PROVE Merged(base, ms)[Len(base) + i] = more[i]
    OBVIOUS
  <2>1. /\ Len(base) + i \in 1 .. Len(base) + Len(more) /\ ~ (Len(base) + i <= Len(base))
        /\ Len(base) + i - Len(base) = i
    BY <1>1, <1>4
  <2> QED
    BY <1>5, <1>6, <2>1
<1>9. InPlace(Merged(base, ms))
  <2>1. DOMAIN Merged(base, ms) = 1 .. Len(base) + Len(ms)
    BY <1>4, <1>5, <1>6, LenProperties
  <2>2. ASSUME NEW i \in 1 .. Len(base) + Len(ms) PROVE Merged(base, ms)[i].id = i
    <3>1. CASE i <= Len(base)
      BY <1>1, <1>7, <3>1 DEF InPlace
    <3>2. CASE ~ (i <= Len(base))
      <4>1. i - Len(base) \in 1 .. Len(ms) /\ Len(base) + (i - Len(base)) = i
        BY <1>1, <3>2
      <4> QED
        BY <1>4, <1>8, <4>1
    <3> QED
      BY <3>1, <3>2
  <2> QED
    BY <2>1, <2>2 DEF InPlace
<1> QED
  BY <1>4, <1>5, <1>6, <1>7, <1>8, <1>9

\* What abefore_model computes on the stored conversation is drawn from it.
LEMMA CompressedIsDrawn ==
    ASSUME stored \in Seq(Msg), InPlace(stored),
           NEW ms \in UNION {AfterLastResort(m) : m \in AfterSummary(Trimmed)}
    PROVE  /\ Budgeted(stored) \in Seq(Msg) /\ InPlace(Budgeted(stored))
           /\ Len(Budgeted(stored)) = Len(stored)
           /\ \A i \in 1 .. Len(stored) : Alike(Budgeted(stored)[i], stored[i])
           /\ ms \in Seq(Copies(Budgeted(stored)))
<1> DEFINE base == Budgeted(stored)
<1>1. /\ Len(stored) \in Nat /\ DOMAIN stored = 1 .. Len(stored)
      /\ \A i \in 1 .. Len(stored) : stored[i] \in Msg /\ stored[i].id = i
  BY ElementOfSeq, LenProperties DEF InPlace
<1>2. \A m \in Msg : [m EXCEPT !.size = 1] \in Msg /\ Alike([m EXCEPT !.size = 1], m) /\ Alike(m, m)
  BY DEF Msg, Alike
<1>3. \A i \in 1 .. Len(stored) : base[i] \in Msg /\ Alike(base[i], stored[i])
  BY <1>1, <1>2 DEF Budgeted
<1>4. DOMAIN base = 1 .. Len(stored) /\ base = [i \in 1 .. Len(stored) |-> base[i]]
  BY <1>1 DEF Budgeted
<1>5. base \in Seq(Msg) /\ Len(base) = Len(stored)
  <2>1. base \in [1 .. Len(stored) -> Msg]
    BY <1>3, <1>4
  <2> HIDE DEF base
  <2>2. base \in Seq(Msg)
    BY <1>1, <2>1, SeqDef
  <2> QED
    BY <1>1, <1>4, <2>2, LenProperties
<1>6. InPlace(base)
  BY <1>1, <1>3, <1>4 DEF InPlace, Alike
<1> HIDE DEF base
<1>7. base \in Seq(Copies(base))
  <2>1. \A i \in 1 .. Len(stored) : base[i] \in Copies(base)
    BY <1>1, <1>2, <1>3, <1>4, <1>6 DEF Copies, InPlace
  <2> QED
    BY <1>1, <1>4, <2>1, SeqDef
<1>8. \A size \in SummarySizes \cup {1} : Note(size) \in Copies(base)
  BY CallAssumption, NotesAreMessages DEF Copies, Note, Message
<1>9. Trimmed \in Seq(Copies(base))
  <2>1. Note(1) \in Copies(base)
    BY <1>8
  <2>2. Snipped(base) \in Seq(Copies(base))
    BY <1>7, <2>1, CompressionDraws
  <2> QED
    BY <2>1, <2>2, CompressionDraws DEF Trimmed, base
<1>10. ASSUME NEW list \in Seq(Copies(base)), NEW size \in SummarySizes
       PROVE  Summarised(list, size) \in Seq(Copies(base)) /\ CutDown(list, size) \in Seq(Copies(base))
  <2>1. Note(1) \in Copies(base) /\ Note(size) \in Copies(base)
    BY <1>8
  <2> QED
    BY <2>1, CompressionDraws
<1>11. ms \in Seq(Copies(base))
  <2>1. PICK list \in AfterSummary(Trimmed) : ms \in AfterLastResort(list)
    OBVIOUS
  <2>2. list \in Seq(Copies(base))
    BY <1>9, <1>10, <2>1 DEF AfterSummary
  <2> QED
    BY <1>10, <2>1, <2>2 DEF AfterLastResort
<1> QED
  BY <1>3, <1>5, <1>6, <1>11 DEF base

-----------------------------------------------------------------------------
(* The stored conversation: which calls have their results.                  *)

\* Message i has every result it asks for.
Settled(ms, i) ==
    /\ i + ms[i].asks <= Len(ms)
    /\ \A k \in (i + 1) .. (i + ms[i].asks) : ms[k].kind = "result"

\* Message i is one of the results that message j asks for.
ResultOf(ms, i, j) ==
    /\ j < i /\ ms[j].kind = "calls" /\ i <= j + ms[j].asks
    /\ \A k \in (j + 1) .. i : ms[k].kind = "result"

Threaded(ms) ==
    \A i \in DOMAIN ms : ms[i].kind = "result" => \E j \in DOMAIN ms : ResultOf(ms, i, j)

\* The run broke off at message i, and the user has written since.
BrokenOff(ms, i) == i < Len(ms) /\ ms[i + 1].kind = "human"

\* Calls without their results: where a run of the lead broke off, and at the end of
\* a conversation whose run waits for them or has ended.
OpenCalls(ms, broken, open) ==
    \A i \in DOMAIN ms : ms[i].kind = "calls" =>
        \/ Settled(ms, i)
        \/ broken /\ BrokenOff(ms, i)
        \/ open /\ i = Len(ms)

Asking == stage \notin {"before", "model"}

ThreadInv ==
    /\ stored \in Seq(Msg) /\ InPlace(stored) /\ Threaded(stored)
    /\ OpenCalls(stored, role = "lead", Asking)
    /\ stage = "tools" => Len(stored) > 0 /\ stored[Len(stored)].kind = "calls"
    /\ role = "task" /\ stage = "waiting" => stored = <<>>
    /\ stage \in {"after", "saving", "dead"} => role = "lead"
    /\ role \in {"lead", "task"}

\* What is sent to a model: the conversation, or what the last resort made of it.
ContextInv ==
    /\ call.answer.asks \in Nat
    /\ call.stage # "none" => stage = "model"
    /\ call.stage \in {"first", "compact"} => call.context = stored
    /\ call.stage \notin {"none", "first"} =>
          \/ call.context = stored
          \/ \E size \in SummarySizes : call.context = CutDown(stored, size)

\* Whatever follows them, the messages of a conversation keep their calls and results.
LEMMA StaysSo ==
    ASSUME NEW ms \in Seq(Msg), NEW all \in Seq(Msg), Len(ms) <= Len(all), Threaded(ms),
           \A i \in 1 .. Len(ms) : all[i].kind = ms[i].kind /\ all[i].asks = ms[i].asks
    PROVE  \A i \in 1 .. Len(ms) :
              /\ all[i].kind = "result" => \E j \in 1 .. Len(all) : ResultOf(all, i, j)
              /\ Settled(ms, i) => Settled(all, i)
              /\ BrokenOff(ms, i) => BrokenOff(all, i)
<1>1. /\ Len(ms) \in Nat /\ DOMAIN ms = 1 .. Len(ms) /\ Len(all) \in Nat /\ DOMAIN all = 1 .. Len(all)
      /\ \A i \in 1 .. Len(ms) : ms[i].asks \in Nat
  <2>1. \A i \in 1 .. Len(ms) : ms[i] \in Msg
    BY ElementOfSeq
  <2>2. \A m \in Msg : m.asks \in Nat
    BY DEF Msg
  <2> QED
    BY <2>1, <2>2, LenProperties
<1>2. ASSUME NEW i \in 1 .. Len(ms), all[i].kind = "result"
      PROVE  \E j \in 1 .. Len(all) : ResultOf(all, i, j)
  <2>1. ms[i].kind = "result"
    BY <1>2
  <2>2. PICK j \in 1 .. Len(ms) : ResultOf(ms, i, j)
    BY <1>1, <2>1 DEF Threaded
  <2>3. j < i /\ ms[j].kind = "calls" /\ i <= j + ms[j].asks
    BY <2>2 DEF ResultOf
  <2>4. \A k \in (j + 1) .. i : k \in 1 .. Len(ms) /\ ms[k].kind = "result"
    BY <1>1, <2>2 DEF ResultOf
  <2>5. all[j].kind = "calls" /\ all[j].asks = ms[j].asks /\ \A k \in (j + 1) .. i : all[k].kind = "result"
    BY <2>3, <2>4
  <2>6. ResultOf(all, i, j)
    BY <2>3, <2>5 DEF ResultOf
  <2> QED
    BY <1>1, <2>6
<1>3. ASSUME NEW i \in 1 .. Len(ms), Settled(ms, i) PROVE Settled(all, i)
  <2>1. all[i].asks = ms[i].asks /\ ms[i].asks \in Nat /\ i + ms[i].asks <= Len(ms)
    BY <1>1, <1>3 DEF Settled
  <2>2. \A k \in (i + 1) .. (i + ms[i].asks) : k \in 1 .. Len(ms) /\ ms[k].kind = "result"
    BY <1>1, <1>3, <2>1 DEF Settled
  <2>3. \A k \in (i + 1) .. (i + ms[i].asks) : all[k].kind = "result"
    BY <2>2
  <2> QED
    BY <1>1, <2>1, <2>3 DEF Settled
<1>4. ASSUME NEW i \in 1 .. Len(ms) PROVE BrokenOff(ms, i) => BrokenOff(all, i)
  BY <1>1 DEF BrokenOff
<1> QED
  BY <1>2, <1>3, <1>4

\* A conversation that goes on without results keeps its calls and results together.
LEMMA GoesOn ==
    ASSUME NEW ms \in Seq(Msg), NEW all \in Seq(Msg), Len(ms) <= Len(all), Threaded(ms),
           \A i \in 1 .. Len(ms) : all[i].kind = ms[i].kind /\ all[i].asks = ms[i].asks,
           \A i \in (Len(ms) + 1) .. Len(all) : all[i].kind # "result"
    PROVE  /\ Threaded(all)
           /\ \A i \in 1 .. Len(ms) : /\ Settled(ms, i) => Settled(all, i)
                                      /\ BrokenOff(ms, i) => BrokenOff(all, i)
<1>1. Len(ms) \in Nat /\ Len(all) \in Nat /\ DOMAIN all = 1 .. Len(all)
  BY LenProperties
<1>2. \A i \in 1 .. Len(ms) :
        /\ all[i].kind = "result" => \E j \in 1 .. Len(all) : ResultOf(all, i, j)
        /\ Settled(ms, i) => Settled(all, i)
        /\ BrokenOff(ms, i) => BrokenOff(all, i)
  BY StaysSo
<1>3. \A i \in 1 .. Len(all) : all[i].kind = "result" => i \in 1 .. Len(ms)
  BY <1>1
<1> QED
  BY <1>1, <1>2, <1>3 DEF Threaded

\* A new message that is no result ends the conversation, which stays as it was.
LEMMA OneMore ==
    ASSUME ThreadInv, NEW kind \in Kind \ {"result"}, NEW asks \in Nat,
           stored' = Merged(stored, <<Message(kind, 1, asks)>>)
    PROVE  /\ stored' \in Seq(Msg) /\ InPlace(stored') /\ Threaded(stored')
           /\ Len(stored) \in Nat /\ Len(stored') = Len(stored) + 1
           /\ DOMAIN stored = 1 .. Len(stored) /\ DOMAIN stored' = 1 .. (Len(stored) + 1)
           /\ stored'[Len(stored) + 1].kind = kind
           /\ \A i \in 1 .. Len(stored) : /\ stored'[i] = stored[i]
                                          /\ Settled(stored, i) => Settled(stored', i)
                                          /\ BrokenOff(stored, i) => BrokenOff(stored', i)
<1> DEFINE ms == <<Message(kind, 1, asks)>>
<1>1. /\ ms \in Seq(Msg) /\ Len(ms) = 1 /\ DOMAIN ms = 1 .. 1
      /\ ms[1].id = 0 /\ ms[1].kind = kind
  BY DEF Message, Msg
<1> HIDE DEF ms
<1>2. stored \in Seq(Msg) /\ InPlace(stored) /\ Threaded(stored) /\ \A i \in DOMAIN ms : ms[i].id = 0
  BY <1>1 DEF ThreadInv
<1>3. /\ stored' \in Seq(Msg) /\ Len(stored') = Len(stored) + Len(ms) /\ InPlace(stored')
      /\ \A i \in 1 .. Len(stored) : stored'[i] = stored[i]
      /\ \A i \in 1 .. Len(ms) : stored'[Len(stored) + i].kind = ms[i].kind
  BY <1>1, <1>2, MergedAppends, Zenon DEF ms
<1>4. /\ Len(stored) \in Nat /\ Len(stored') = Len(stored) + 1
      /\ DOMAIN stored = 1 .. Len(stored) /\ DOMAIN stored' = 1 .. (Len(stored) + 1)
  BY <1>1, <1>2, <1>3, LenProperties
<1>5. stored'[Len(stored) + 1].kind = kind
  BY <1>1, <1>3
<1>6. \A i \in (Len(stored) + 1) .. Len(stored') : stored'[i].kind # "result"
  BY <1>4, <1>5
<1>7. /\ Threaded(stored')
      /\ \A i \in 1 .. Len(stored) : /\ Settled(stored, i) => Settled(stored', i)
                                     /\ BrokenOff(stored, i) => BrokenOff(stored', i)
  <2>1. /\ Len(stored) <= Len(stored')
        /\ \A i \in 1 .. Len(stored) : stored'[i].kind = stored[i].kind /\ stored'[i].asks = stored[i].asks
    BY <1>3, <1>4
  <2>2. stored \in Seq(Msg) /\ Threaded(stored) /\ stored' \in Seq(Msg)
    BY <1>2, <1>3
  <2> QED
    BY <1>6, <2>1, <2>2, GoesOn, Zenon
<1> QED
  BY <1>3, <1>4, <1>5, <1>7

\* The user, or the claimed task, opens a round; calls that were open are broken off.
LEMMA AskThreads ==
    ASSUME ThreadInv, Ask
    PROVE  ThreadInv'
<1>1. /\ stage = "waiting" /\ stage' = "before" /\ role' = role
      /\ stored' = Merged(stored, <<Message("human", 1, 0)>>)
  BY DEF Ask
<1>2. /\ stored' \in Seq(Msg) /\ InPlace(stored') /\ Threaded(stored')
      /\ Len(stored) \in Nat /\ Len(stored') = Len(stored) + 1
      /\ DOMAIN stored = 1 .. Len(stored) /\ DOMAIN stored' = 1 .. (Len(stored) + 1)
      /\ stored'[Len(stored) + 1].kind = "human"
      /\ \A i \in 1 .. Len(stored) : /\ stored'[i] = stored[i]
                                     /\ Settled(stored, i) => Settled(stored', i)
                                     /\ BrokenOff(stored, i) => BrokenOff(stored', i)
  BY <1>1, OneMore DEF Kind
<1>3. OpenCalls(stored', role' = "lead", Asking')
  <2> SUFFICES ASSUME NEW i \in 1 .. (Len(stored) + 1), stored'[i].kind = "calls"
               PROVE  Settled(stored', i) \/ (role' = "lead" /\ BrokenOff(stored', i))
    BY <1>2 DEF OpenCalls
  <2>1. i \in 1 .. Len(stored) /\ stored[i].kind = "calls"
    <3>1. i # Len(stored) + 1
      BY <1>2
    <3>2. i \in 1 .. Len(stored)
      BY <1>2, <3>1
    <3> QED
      BY <1>2, <3>2, Zenon
  <2>2. role = "lead"
    BY <1>1, <1>2, <2>1 DEF ThreadInv
  <2>3. Settled(stored, i) \/ BrokenOff(stored, i) \/ i = Len(stored)
    BY <1>2, <2>1, Zenon DEF ThreadInv, OpenCalls
  <2>4. i = Len(stored) => BrokenOff(stored', i)
    BY <1>2 DEF BrokenOff
  <2>5. Settled(stored, i) => Settled(stored', i)
    BY <1>2, <2>1, Zenon
  <2>6. BrokenOff(stored, i) => BrokenOff(stored', i)
    BY <1>2, <2>1, Zenon
  <2> QED
    BY <1>1, <2>2, <2>3, <2>4, <2>5, <2>6
<1> QED
  BY <1>1, <1>2, <1>3 DEF ThreadInv

\* The answer of the model ends the conversation, perhaps with calls to be run.
LEMMA AnswerThreads ==
    ASSUME ThreadInv, ContextInv, TakeAnswer
    PROVE  ThreadInv'
<1> DEFINE kind == IF call.answer.asks = 0 THEN "answer" ELSE "calls"
<1>1. /\ stage = "model" /\ role' = role
      /\ stored' = Merged(stored, <<Message(kind, 1, call.answer.asks)>>)
      /\ stage' = IF call.answer.asks > 0 THEN "tools"
                  ELSE IF role = "lead" THEN "after" ELSE "completed"
  <2>1. (IF call.answer.asks = 0 THEN Message("answer", 1, 0) ELSE Message("calls", 1, call.answer.asks))
           = Message(kind, 1, call.answer.asks)
    OBVIOUS
  <2> HIDE DEF kind
  <2> QED
    BY <2>1 DEF TakeAnswer
<1>2. call.answer.asks \in Nat /\ kind \in Kind \ {"result"}
  BY DEF ContextInv, Kind
<1>3. stage' = "tools" => kind = "calls"
  BY <1>1, <1>2
<1> HIDE DEF kind
<1>4. /\ stored' \in Seq(Msg) /\ InPlace(stored') /\ Threaded(stored')
      /\ Len(stored) \in Nat /\ Len(stored') = Len(stored) + 1
      /\ DOMAIN stored = 1 .. Len(stored) /\ DOMAIN stored' = 1 .. (Len(stored) + 1)
      /\ stored'[Len(stored) + 1].kind = kind
      /\ \A i \in 1 .. Len(stored) : /\ stored'[i] = stored[i]
                                     /\ Settled(stored, i) => Settled(stored', i)
                                     /\ BrokenOff(stored, i) => BrokenOff(stored', i)
  BY <1>1, <1>2, OneMore
<1>5. OpenCalls(stored', role' = "lead", Asking')
  <2> SUFFICES ASSUME NEW i \in 1 .. (Len(stored) + 1), stored'[i].kind = "calls"
               PROVE  \/ Settled(stored', i)
                      \/ role' = "lead" /\ BrokenOff(stored', i)
                      \/ Asking' /\ i = Len(stored')
    BY <1>4 DEF OpenCalls
  <2>1. CASE i = Len(stored) + 1
    BY <1>1, <1>4, <2>1 DEF Asking
  <2>2. CASE i # Len(stored) + 1
    <3>1. i \in 1 .. Len(stored)
      BY <1>4, <2>2
    <3>2. stored[i].kind = "calls"
      BY <1>4, <3>1, Zenon
    <3>3. Settled(stored, i) \/ (role = "lead" /\ BrokenOff(stored, i))
      BY <1>1, <1>4, <3>1, <3>2 DEF ThreadInv, OpenCalls, Asking
    <3>4. Settled(stored, i) => Settled(stored', i)
      BY <1>4, <3>1, Zenon
    <3>5. BrokenOff(stored, i) => BrokenOff(stored', i)
      BY <1>4, <3>1, Zenon
    <3> QED
      BY <1>1, <3>3, <3>4, <3>5
  <2> QED
    BY <2>1, <2>2
<1>6. stage' = "tools" => Len(stored') > 0 /\ stored'[Len(stored')].kind = "calls"
  BY <1>3, <1>4
<1> QED
  BY <1>1, <1>4, <1>5, <1>6 DEF ThreadInv

\* A compression leaves every message in its place and appends remarks.
LEMMA CompressionThreads ==
    ASSUME ThreadInv, BeforeModel
    PROVE  ThreadInv'
<1>1. PICK ms \in UNION {AfterLastResort(m) : m \in AfterSummary(Trimmed)} :
        stored' = Merged(Budgeted(stored), ms)
  BY DEF BeforeModel
<1>2. stage = "before" /\ stage' = "model" /\ role' = role
  BY DEF BeforeModel
<1>3. stored \in Seq(Msg) /\ InPlace(stored) /\ Threaded(stored)
  BY DEF ThreadInv
<1> DEFINE base == Budgeted(stored)
<1>4. /\ base \in Seq(Msg) /\ InPlace(base) /\ Len(base) = Len(stored)
      /\ \A i \in 1 .. Len(stored) : Alike(base[i], stored[i])
      /\ ms \in Seq(Copies(base))
  BY <1>3, CompressedIsDrawn
<1> HIDE DEF base
<1>5. /\ stored' \in Seq(Msg) /\ Len(base) <= Len(stored') /\ InPlace(stored')
      /\ \A i \in 1 .. Len(base) : Alike(stored'[i], base[i])
      /\ \A i \in (Len(base) + 1) .. Len(stored') : stored'[i].kind = "note"
  BY <1>1, <1>4, MergedKeeps DEF base
<1>6. /\ Len(stored) \in Nat /\ DOMAIN stored = 1 .. Len(stored)
      /\ Len(stored') \in Nat /\ DOMAIN stored' = 1 .. Len(stored')
  BY <1>3, <1>5, LenProperties
<1>7. /\ Len(stored) <= Len(stored')
      /\ \A i \in 1 .. Len(stored) : stored'[i].kind = stored[i].kind /\ stored'[i].asks = stored[i].asks
      /\ \A i \in (Len(stored) + 1) .. Len(stored') : stored'[i].kind = "note"
  BY <1>4, <1>5 DEF Alike
<1>8. /\ Threaded(stored')
      /\ \A i \in 1 .. Len(stored) : /\ Settled(stored, i) => Settled(stored', i)
                                     /\ BrokenOff(stored, i) => BrokenOff(stored', i)
  BY <1>3, <1>5, <1>7, GoesOn
<1>9. OpenCalls(stored', role' = "lead", Asking')
  <2> SUFFICES ASSUME NEW i \in 1 .. Len(stored'), stored'[i].kind = "calls"
               PROVE  Settled(stored', i) \/ (role' = "lead" /\ BrokenOff(stored', i))
    BY <1>6 DEF OpenCalls
  <2>1. i \in 1 .. Len(stored) /\ stored[i].kind = "calls"
    BY <1>6, <1>7
  <2>2. Settled(stored, i) \/ (role = "lead" /\ BrokenOff(stored, i))
    BY <1>2, <1>6, <2>1 DEF ThreadInv, OpenCalls, Asking
  <2>3. Settled(stored, i) => Settled(stored', i)
    BY <1>8, <2>1, Zenon
  <2>4. BrokenOff(stored, i) => BrokenOff(stored', i)
    BY <1>8, <2>1, Zenon
  <2> QED
    BY <1>2, <2>2, <2>3, <2>4
<1> QED
  BY <1>2, <1>5, <1>8, <1>9 DEF ThreadInv

\* The results of the calls follow them.
LEMMA ResultsThread ==
    ASSUME ThreadInv, RunTools
    PROVE  ThreadInv'
<1> DEFINE n == Len(stored)
           a == stored[n].asks
<1>1. PICK large \in 0 .. a :
        stored' = Merged(stored, [i \in 1 .. a |-> Message("result", IF i = large THEN Huge ELSE 1, 0)])
  BY DEF RunTools
<1> DEFINE ms == [i \in 1 .. a |-> Message("result", IF i = large THEN Huge ELSE 1, 0)]
<1>2. /\ stage = "tools" /\ stage' = "before" /\ role' = role
      /\ stored \in Seq(Msg) /\ InPlace(stored) /\ Threaded(stored)
      /\ n > 0 /\ stored[n].kind = "calls"
  BY DEF RunTools, ThreadInv
<1>3. n \in Nat /\ DOMAIN stored = 1 .. n
  BY <1>2, LenProperties
<1>4. a \in Nat
  <2>1. stored[n] \in Msg
    BY <1>2, <1>3, ElementOfSeq
  <2> QED
    BY <2>1 DEF Msg
<1>5. ms \in Seq(Msg) /\ Len(ms) = a /\ \A i \in 1 .. a : ms[i].id = 0 /\ ms[i].kind = "result"
  <2>1. \A i \in 1 .. a : ms[i] \in Msg /\ ms[i].id = 0 /\ ms[i].kind = "result"
    BY RunAssumption DEF Message, Msg, Kind
  <2>2. ms \in [1 .. a -> Msg]
    BY <2>1
  <2> HIDE DEF ms
  <2>3. ms \in Seq(Msg)
    BY <1>4, <2>2, SeqDef
  <2> QED
    BY <1>4, <2>1, <2>2, <2>3, LenProperties
<1>6. DOMAIN ms = 1 .. a /\ stored' = Merged(stored, ms)
  BY <1>1
<1> HIDE DEF ms, n, a
<1>7. /\ stored' \in Seq(Msg) /\ Len(stored') = n + a /\ InPlace(stored')
      /\ \A i \in 1 .. n : stored'[i] = stored[i]
      /\ \A i \in 1 .. a : stored'[n + i].kind = "result"
  <2>1. \A i \in DOMAIN ms : ms[i].id = 0
    BY <1>5, <1>6
  <2>2. /\ stored' \in Seq(Msg) /\ Len(stored') = Len(stored) + Len(ms) /\ InPlace(stored')
        /\ \A i \in 1 .. Len(stored) : stored'[i] = stored[i]
        /\ \A i \in 1 .. Len(ms) : stored'[Len(stored) + i].kind = ms[i].kind
    BY <1>2, <1>5, <1>6, <2>1, MergedAppends
  <2> QED
    BY <1>5, <2>2 DEF n
<1>8. DOMAIN stored' = 1 .. (n + a)
  BY <1>7, LenProperties
<1>9. \A k \in (n + 1) .. (n + a) : stored'[k].kind = "result"
  <2> SUFFICES ASSUME NEW k \in (n + 1) .. (n + a) PROVE stored'[k].kind = "result"
    OBVIOUS
  <2>1. k - n \in 1 .. a /\ n + (k - n) = k
    BY <1>3, <1>4
  <2> QED
    BY <1>7, <2>1
<1>10. \A i \in 1 .. n :
         /\ stored'[i].kind = "result" => \E j \in 1 .. Len(stored') : ResultOf(stored', i, j)
         /\ Settled(stored, i) => Settled(stored', i)
         /\ BrokenOff(stored, i) => BrokenOff(stored', i)
  <2>1. /\ Len(stored) <= Len(stored')
        /\ \A i \in 1 .. Len(stored) : stored'[i].kind = stored[i].kind /\ stored'[i].asks = stored[i].asks
    BY <1>3, <1>4, <1>7 DEF n
  <2> QED
    BY <1>2, <1>7, <2>1, StaysSo DEF n
<1>11. stored'[n].kind = "calls" /\ stored'[n].asks = a
  BY <1>2, <1>3, <1>7 DEF a
<1>12. Threaded(stored')
  <2> SUFFICES ASSUME NEW i \in 1 .. (n + a), stored'[i].kind = "result"
               PROVE  \E j \in 1 .. (n + a) : ResultOf(stored', i, j)
    BY <1>8 DEF Threaded
  <2>1. CASE i \in 1 .. n
    BY <1>7, <1>10, <2>1
  <2>2. CASE i \notin 1 .. n
    <3>1. /\ n < i /\ i <= n + a /\ n \in 1 .. (n + a)
          /\ \A k \in (n + 1) .. i : k \in (n + 1) .. (n + a)
      BY <1>2, <1>3, <1>4, <2>2
    <3>2. ResultOf(stored', i, n)
      BY <1>9, <1>11, <3>1 DEF ResultOf
    <3> QED
      BY <3>1, <3>2
  <2> QED
    BY <2>1, <2>2
<1>13. OpenCalls(stored', role' = "lead", Asking')
  <2> SUFFICES ASSUME NEW i \in 1 .. (n + a), stored'[i].kind = "calls"
               PROVE  Settled(stored', i) \/ (role' = "lead" /\ BrokenOff(stored', i))
    BY <1>8 DEF OpenCalls
  <2>1. i \in 1 .. n
    <3>1. i \notin (n + 1) .. (n + a)
      BY <1>9
    <3> QED
      BY <1>3, <1>4, <3>1
  <2>2. CASE i = n
    BY <1>7, <1>9, <1>11, <2>2 DEF Settled
  <2>3. CASE i # n
    <3>1. stored[i].kind = "calls"
      BY <1>7, <2>1
    <3>2. Settled(stored, i) \/ (role = "lead" /\ BrokenOff(stored, i))
      BY <1>3, <2>1, <2>3, <3>1, Zenon DEF ThreadInv, OpenCalls, n
    <3> QED
      BY <1>2, <1>10, <2>1, <3>2
  <2> QED
    BY <2>2, <2>3
<1> QED
  BY <1>2, <1>7, <1>12, <1>13 DEF ThreadInv

\* A step that leaves the conversation as it is, or opens a new thread.
LEMMA ThreadKept == ThreadInv /\ ContextInv /\ [Next]_vars => ThreadInv'
<1> SUFFICES ASSUME ThreadInv, ContextInv, [Next]_vars PROVE ThreadInv'
  OBVIOUS
<1>1. CASE Ask \/ BeforeModel \/ TakeAnswer \/ RunTools
  BY <1>1, AskThreads, CompressionThreads, AnswerThreads, ResultsThread
<1>2. CASE UNCHANGED <<role, stored, stage>>
  BY <1>2 DEF ThreadInv, InPlace, Threaded, OpenCalls, Asking, Settled, ResultOf, BrokenOff
<1>3. ASSUME role' = role, stored' = stored, Asking',
             \/ stage' \in {"failed", "completed"}
             \/ stage' \in {"saving", "waiting", "dead"} /\ role = "lead"
      PROVE  ThreadInv'
  <2>1. OpenCalls(stored', role' = "lead", Asking')
    BY <1>3 DEF ThreadInv, OpenCalls
  <2>2. InPlace(stored') /\ Threaded(stored') /\ stored' \in Seq(Msg)
    BY <1>3 DEF ThreadInv
  <2> QED
    BY <1>3, <2>1, <2>2 DEF ThreadInv
<1>4. CASE BeforeModelFails \/ CallRaises \/ ToolRaises \/ AfterModelFails
  BY <1>3, <1>4 DEF BeforeModelFails, CallRaises, ToolRaises, AfterModelFails, Failed, Asking, ThreadInv
<1>5. CASE AfterModel \/ EndRun \/ Die
  BY <1>3, <1>5 DEF AfterModel, EndRun, Die, Asking, ThreadInv
<1>6. CASE Restart \/ Reset
  <2>1. role = "lead" /\ role' = role /\ stage' = "waiting" /\ stored' \in {stored, <<>>}
    BY <1>6 DEF Restart, Reset, ThreadInv
  <2>2. CASE stored' = stored
    BY <1>3, <2>1, <2>2 DEF Asking
  <2>3. CASE stored' = <<>>
    <3>1. stored' \in Seq(Msg) /\ DOMAIN stored' = {}
      BY <2>3
    <3> QED
      BY <2>1, <2>3, <3>1 DEF ThreadInv, InPlace, Threaded, OpenCalls
  <2> QED
    BY <2>1, <2>2, <2>3
<1>7. CASE CallModel \/ SaveMemory \/ EditSkills \/ RefreshSkills
  BY <1>2, <1>7 DEF CallModel, SaveMemory, EditSkills, RefreshSkills
<1>8. CASE \E s \in Session : RivalExtracts(s) \/ RivalSaves(s)
  BY <1>2, <1>8 DEF RivalExtracts, RivalSaves
<1>9. CASE UNCHANGED vars
  BY <1>2, <1>9 DEF vars
<1> QED
  BY <1>1, <1>4, <1>5, <1>6, <1>7, <1>8, <1>9 DEF Next, RunStep

\* Only the last resort changes the context of a call, once, and no call is made
\* without a stage.
LEMMA CallStepSends ==
    ASSUME CallInv, ContextInv, CallStep
    PROVE  /\ call.stage # "none" /\ call'.stage \notin {"none", "first"} /\ call'.answer.asks \in Nat
           /\ \/ call'.context = call.context /\ (call'.stage = "compact" => call.stage = "first")
              \/ /\ call.stage = "compact" /\ call'.stage = "retry"
                 /\ \E size \in SummarySizes : call'.context = CutDown(call.context, size)
<1> DEFINE Sends == /\ call.stage # "none" /\ call'.stage \notin {"none", "first"}
                    /\ call'.answer.asks \in Nat /\ call'.context = call.context
                    /\ call'.stage = "compact" => call.stage = "first"
<1>0. call.answer.asks \in Nat
  BY DEF ContextInv
<1>1. ASSUME NEW finish, NEW whole, NEW asks \in Nat, NEW cause, call.stage # "none",
             call' = [Answered(finish, whole, asks) EXCEPT !.cause = cause]
      PROVE  Sends
  BY <1>1 DEF CallInv, Answered
<1>2. ASSUME NEW finish, NEW whole, NEW asks \in Nat, call.stage # "none", call' = Answered(finish, whole, asks)
      PROVE  Sends
  BY <1>2 DEF CallInv, Answered
<1>3. ASSUME NEW cause, call.stage # "none", call' = Raised(cause) PROVE Sends
  BY <1>0, <1>3 DEF CallInv, Raised
<1>4. ASSUME NEW place \in {"continue", "compact"}, NEW n, call.stage = "first",
             call' = [call EXCEPT !.stage = place, !.continued = n]
      PROVE  Sends
  BY <1>0, <1>4 DEF CallInv
<1>5. ASSUME NEW asks \in 0 .. MaxAsked, FirstAnswers(asks) PROVE Sends
  <2>1. asks \in Nat
    BY CallAssumption
  <2> QED
    BY <1>2, <1>5, <2>1 DEF FirstAnswers
<1>6. CASE FirstIsCut
  BY <1>2, <1>4, <1>6 DEF FirstIsCut
<1>7. ASSUME NEW failure, FirstFails(failure) PROVE Sends
  <2>1. CASE failure = "overflow"
    BY <1>0, <1>7, <2>1 DEF FirstFails, CallInv
  <2>2. CASE failure # "overflow"
    BY <1>3, <1>7, <2>2 DEF FirstFails
  <2> QED
    BY <2>1, <2>2
<1>8. ASSUME NEW failure, RetryFails(failure) PROVE Sends
  <2>1. CASE failure \notin Temporary
    BY <1>3, <1>8, <2>1 DEF RetryFails, GivenUp
  <2>2. CASE failure \in Temporary
    <3>1. /\ call.stage = "retry" /\ call' = AfterFailure(failure)
      BY <1>8, <2>2 DEF RetryFails
    <3>2. /\ call'.stage \in {"retry", "fallback", "raised"}
          /\ call'.answer = call.answer /\ call'.context = call.context
      BY <3>1 DEF AfterFailure, CallInv
    <3> QED
      BY <1>0, <3>1, <3>2
  <2> QED
    BY <2>1, <2>2
<1>9. ASSUME NEW whole, ContinuationAnswers(whole) \/ RetryAnswers(whole) \/ FallbackAnswers(whole)
      PROVE  Sends
  BY <1>2, <1>9 DEF ContinuationAnswers, RetryAnswers, FallbackAnswers
<1>10. CASE ContinuationFails
  BY <1>1, <1>10 DEF ContinuationFails, PartialAnswer
<1>11. CASE SummaryFails \/ FallbackFails
  BY <1>3, <1>11 DEF SummaryFails, FallbackFails
<1>12. ASSUME NEW size \in SummarySizes, Compacts(size)
       PROVE  /\ call.stage = "compact" /\ call'.stage = "retry" /\ call'.answer.asks \in Nat
              /\ call'.context = CutDown(call.context, size)
  BY <1>0, <1>12 DEF Compacts, CallInv
<1> QED
  BY <1>5, <1>6, <1>7, <1>8, <1>9, <1>10, <1>11, <1>12 DEF CallStep

\* What a call sends is the conversation, which does not change while it lasts.
LEMMA ContextKept == CallInv /\ ContextInv /\ [Next]_vars => ContextInv'
<1> SUFFICES ASSUME CallInv, ContextInv, [Next]_vars PROVE ContextInv'
  OBVIOUS
<1>1. CASE BeforeModel
  BY <1>1 DEF BeforeModel, Begun, NoCall, NoAnswer, ContextInv
<1>2. CASE CallModel
  <2>1. CallStep /\ stage' = stage /\ stored' = stored /\ stage = "model"
    BY <1>2 DEF CallModel
  <2>2. CASE call'.context = call.context /\ (call'.stage = "compact" => call.stage = "first")
    BY <2>1, <2>2, CallStepSends DEF ContextInv
  <2>3. CASE /\ call.stage = "compact" /\ call'.stage = "retry"
             /\ \E size \in SummarySizes : call'.context = CutDown(call.context, size)
    BY <2>1, <2>3, CallStepSends DEF ContextInv
  <2> QED
    BY <2>1, <2>2, <2>3, CallStepSends
<1>3. CASE call' = NoCall
  BY <1>3 DEF NoCall, NoAnswer, ContextInv
<1>4. CASE call' = call /\ call.stage = "none"
  BY <1>4 DEF ContextInv
<1>5. CASE call' = call /\ stage' = stage /\ stored' = stored
  BY <1>5 DEF ContextInv
<1>6. CASE TakeAnswer \/ CallRaises \/ Die
  BY <1>3, <1>6 DEF TakeAnswer, CallRaises, Die
<1>7. ASSUME call' = call, stage # "model" PROVE ContextInv'
  BY <1>4, <1>7 DEF ContextInv
<1>8. CASE \/ Ask \/ BeforeModelFails \/ RunTools \/ ToolRaises \/ AfterModel \/ SaveMemory
           \/ AfterModelFails \/ EndRun \/ Restart \/ Reset
  BY <1>7, <1>8 DEF Ask, BeforeModelFails, RunTools, ToolRaises, AfterModel, SaveMemory, AfterModelFails,
     EndRun, Restart, Reset, beside
<1>9. CASE \/ EditSkills \/ RefreshSkills \/ UNCHANGED vars
           \/ \E s \in Session : RivalExtracts(s) \/ RivalSaves(s)
  BY <1>5, <1>9 DEF EditSkills, RefreshSkills, RivalExtracts, RivalSaves, vars
<1> QED
  BY <1>1, <1>2, <1>6, <1>8, <1>9 DEF Next, RunStep

\* The last resort cuts a conversation with one call at a time between a round and
\* the next.
LEMMA CutDownIsWellFormed ==
    ASSUME NEW ms \in Seq(Msg), Threaded(ms), NEW size \in Nat,
           \A i \in DOMAIN ms : ms[i].asks <= 1,
           \A i \in DOMAIN ms : ms[i].kind = "calls" => Settled(ms, i)
    PROVE  WellFormed(CutDown(ms, size))
<1> DEFINE n == Len(ms)
           t == TailStart(ms)
           tail == SubSeq(ms, t, n)
           cut == CutDown(ms, size)
<1>1. /\ n \in Nat /\ DOMAIN ms = 1 .. n
      /\ \A i \in 1 .. n : ms[i] \in Msg /\ ms[i].asks \in Nat
  <2>1. \A i \in 1 .. n : ms[i] \in Msg
    BY ElementOfSeq
  <2>2. \A m \in Msg : m.asks \in Nat
    BY DEF Msg
  <2> QED
    BY <2>1, <2>2, LenProperties
<1>2. t \in Nat /\ t >= 1 /\ t <= n + 1
  BY <1>1, WindowAssumption DEF TailStart
<1>3. ASSUME t \in 1 .. n, ms[t].kind = "result", t - 1 \in 1 .. n, ms[t - 1].kind = "calls" PROVE FALSE
  <2> DEFINE first == IF Len(ms) > KeepAtWorst THEN Len(ms) - KeepAtWorst + 1 ELSE 1
  <2>1. first \in Nat /\ first >= 1
    BY <1>1, WindowAssumption
  <2>2. t = IF first > 1 /\ ms[first].kind = "result" /\ ms[first - 1].kind = "calls"
            THEN first - 1 ELSE first
    BY DEF TailStart
  <2> HIDE DEF first, t
  <2>3. t = first \/ ms[t].kind = "calls"
    BY <2>2
  <2>4. t = first /\ first > 1
    BY <1>1, <1>3, <2>1, <2>3
  <2> QED
    BY <1>3, <2>1, <2>2, <2>4
<1> HIDE DEF t
<1>4. /\ tail \in Seq(Msg) /\ Len(tail) = n + 1 - t
      /\ \A i \in 1 .. (n + 1 - t) : tail[i] = ms[t + i - 1]
  <2>1. \A i \in t .. n : ms[i] \in Msg
    BY <1>1, <1>2
  <2>2. /\ tail \in Seq(Msg) /\ Len(tail) = IF t <= n THEN n - t + 1 ELSE 0
        /\ \A i \in 1 .. (n - t + 1) : tail[i] = ms[t + i - 1]
    BY <1>1, <1>2, <2>1, SubSeqProperties
  <2> QED
    BY <1>1, <1>2, <2>2
<1>5. /\ cut \in Seq(Msg) /\ Len(cut) = n + 2 - t /\ DOMAIN cut = 1 .. (n + 2 - t)
      /\ cut[1].kind = "note"
      /\ \A i \in 2 .. (n + 2 - t) : cut[i] = ms[t + i - 2]
  <2> DEFINE head == <<Note(size)>>
  <2>1. head \in Seq(Msg) /\ Len(head) = 1 /\ head[1].kind = "note"
    BY NotesAreMessages DEF Note, Message
  <2>2. cut = head \o tail
    BY DEF CutDown, t
  <2> HIDE DEF head, tail, cut
  <2>3. head \in Seq(Msg) /\ tail \in Seq(Msg)
    BY <1>4, <2>1
  <2>4. /\ head \o tail \in Seq(Msg) /\ Len(head \o tail) = Len(head) + Len(tail)
        /\ \A i \in 1 .. Len(head) + Len(tail) :
              (head \o tail)[i] = IF i <= Len(head) THEN head[i] ELSE tail[i - Len(head)]
    BY <2>3, ConcatProperties, Zenon
  <2>5. Len(cut) = n + 2 - t /\ n + 2 - t \in Nat
    BY <1>1, <1>2, <1>4, <2>1, <2>2, <2>4
  <2>6. cut[1].kind = "note"
    BY <1>4, <2>1, <2>2, <2>4, <2>5
  <2>7. ASSUME NEW i \in 2 .. (n + 2 - t) PROVE cut[i] = ms[t + i - 2]
    <3>1. /\ i \in 1 .. Len(head) + Len(tail) /\ ~ (i <= Len(head))
          /\ i - Len(head) = i - 1 /\ i - 1 \in 1 .. (n + 1 - t) /\ t + (i - 1) - 1 = t + i - 2
      BY <1>1, <1>2, <1>4, <2>1
    <3> QED
      BY <1>4, <2>2, <2>4, <3>1
  <2> QED
    BY <2>2, <2>4, <2>5, <2>6, <2>7, LenProperties
<1> HIDE DEF tail, cut, n
<1>6. ASSUME NEW i \in 2 .. (n + 2 - t), cut[i].kind = "result"
      PROVE  \E j \in 1 .. (i - 1) : /\ cut[j].kind = "calls"
                                     /\ \A k \in (j + 1) .. i : cut[k].kind = "result"
  <2> DEFINE p == t + i - 2
  <2>1. p \in t .. n /\ p \in 1 .. n /\ cut[i] = ms[p]
    BY <1>1, <1>2, <1>5
  <2>2. PICK j \in 1 .. n : ResultOf(ms, p, j)
    BY <1>1, <1>6, <2>1 DEF Threaded
  <2>3. j = p - 1 /\ ms[j].kind = "calls"
    <3>1. j < p /\ ms[j].kind = "calls" /\ p <= j + ms[j].asks
      BY <2>2 DEF ResultOf
    <3>2. ms[j].asks \in Nat /\ ms[j].asks <= 1
      BY <1>1
    <3> QED
      BY <1>1, <2>1, <3>1, <3>2
  <2>4. p # t
    BY <1>3, <1>6, <2>1, <2>3
  <2>5. i - 1 \in 2 .. (n + 2 - t) /\ t + (i - 1) - 2 = p - 1
    BY <1>1, <1>2, <2>1, <2>4
  <2>6. cut[i - 1].kind = "calls"
    BY <1>5, <2>3, <2>5
  <2> QED
    BY <1>6, <2>5, <2>6
<1>7. ASSUME NEW i \in 2 .. (n + 2 - t), cut[i].kind = "calls"
      PROVE  /\ i + cut[i].asks <= Len(cut)
             /\ \A k \in (i + 1) .. (i + cut[i].asks) : cut[k].kind = "result"
  <2> DEFINE p == t + i - 2
             a == ms[p].asks
  <2>1. p \in t .. n /\ p \in 1 .. n /\ cut[i] = ms[p] /\ a \in Nat
    BY <1>1, <1>2, <1>5
  <2>2. p + a <= n /\ \A k \in (p + 1) .. (p + a) : ms[k].kind = "result"
    BY <1>1, <1>7, <2>1 DEF Settled, n
  <2>3. ASSUME NEW k \in (i + 1) .. (i + a) PROVE cut[k].kind = "result"
    <3>1. k \in 2 .. (n + 2 - t) /\ t + k - 2 \in (p + 1) .. (p + a)
      BY <1>1, <1>2, <2>1, <2>2
    <3> QED
      BY <1>5, <2>2, <3>1
  <2>4. i + a <= n + 2 - t
    BY <1>1, <1>2, <2>1, <2>2
  <2> QED
    BY <1>5, <2>1, <2>3, <2>4
<1>8. \A i \in DOMAIN cut : i = 1 \/ i \in 2 .. (n + 2 - t)
  BY <1>1, <1>2, <1>5
<1>9. WellFormed(cut)
  BY <1>5, <1>6, <1>7, <1>8 DEF WellFormed
<1> QED
  BY <1>9 DEF cut

\* Unless a run of the lead broke off, what is sent as it is stored is well formed.
LEMMA ThreadIsWellFormed ==
    ASSUME ThreadInv, ~ Asking,
           ~ (role = "lead" /\ \E i \in 2 .. Len(stored) :
                                  stored[i].kind = "human" /\ stored[i - 1].kind = "calls")
    PROVE  /\ WellFormed(stored)
           /\ \A i \in DOMAIN stored : stored[i].kind = "calls" => Settled(stored, i)
<1>1. Len(stored) \in Nat /\ DOMAIN stored = 1 .. Len(stored)
  BY LenProperties DEF ThreadInv
<1>2. ASSUME NEW i \in 1 .. Len(stored), stored[i].kind = "calls" PROVE Settled(stored, i)
  <2>1. Settled(stored, i) \/ (role = "lead" /\ BrokenOff(stored, i))
    BY <1>1, <1>2 DEF ThreadInv, OpenCalls
  <2>2. ASSUME role = "lead", BrokenOff(stored, i) PROVE FALSE
    <3>1. i + 1 \in 2 .. Len(stored) /\ i + 1 - 1 = i /\ stored[i + 1].kind = "human"
      BY <1>1, <2>2 DEF BrokenOff
    <3> QED
      BY <1>2, <2>2, <3>1
  <2> QED
    BY <2>1, <2>2
<1>3. ASSUME NEW i \in 1 .. Len(stored), stored[i].kind = "result"
      PROVE  \E j \in 1 .. (i - 1) : /\ stored[j].kind = "calls"
                                     /\ \A k \in (j + 1) .. i : stored[k].kind = "result"
  <2>1. PICK j \in 1 .. Len(stored) : ResultOf(stored, i, j)
    BY <1>1, <1>3 DEF ThreadInv, Threaded
  <2>2. j \in 1 .. (i - 1)
    BY <1>1, <2>1 DEF ResultOf
  <2> QED
    BY <2>1, <2>2 DEF ResultOf
<1>4. WellFormed(stored)
  BY <1>1, <1>2, <1>3 DEF WellFormed, Settled
<1> QED
  BY <1>1, <1>2, <1>4

\* Nothing has been said yet.
LEMMA ThreadInvInit == Init => ThreadInv /\ ContextInv
<1> SUFFICES ASSUME Init PROVE ThreadInv /\ ContextInv
  OBVIOUS
<1>1. stored = <<>> /\ stored \in Seq(Msg) /\ DOMAIN stored = {} /\ stage = "waiting"
  BY DEF Init
<1> QED
  BY <1>1 DEF Init, ThreadInv, InPlace, Threaded, OpenCalls, ContextInv, NoCall, NoAnswer

\* A request whose calls and results do not match is sent only on a thread of the lead
\* whose run broke off between a call and its results, or after a recovery that cut
\* through the results of several calls made at once: no compression, no merge of what
\* it returned and no retry parts a call from its result, whatever the sizes are.
THEOREM RequestsWellFormed == Spec => []RequestsAreWellFormed
<1>1. ThreadInv /\ ContextInv => RequestsAreWellFormed
  <2> SUFFICES ASSUME ThreadInv, ContextInv, call.stage # "none", ~ WellFormed(call.context),
                      ~ (role = "lead" /\ \E i \in 2 .. Len(stored) :
                                             stored[i].kind = "human" /\ stored[i - 1].kind = "calls")
               PROVE  call.stage # "first" /\ \E i \in DOMAIN stored : stored[i].asks > 1
    BY DEF RequestsAreWellFormed
  <2>1. ~ Asking
    BY DEF ContextInv, Asking
  <2>2. /\ WellFormed(stored)
        /\ \A i \in DOMAIN stored : stored[i].kind = "calls" => Settled(stored, i)
    BY <2>1, ThreadIsWellFormed
  <2>3. call.context # stored
    BY <2>2
  <2>4. call.stage # "first"
    BY <2>3 DEF ContextInv
  <2>5. PICK size \in SummarySizes : call.context = CutDown(stored, size)
    BY <2>3, <2>4 DEF ContextInv
  <2>6. ASSUME ~ \E i \in DOMAIN stored : stored[i].asks > 1 PROVE FALSE
    <3>1. stored \in Seq(Msg) /\ Threaded(stored) /\ size \in Nat
      BY CallAssumption DEF ThreadInv
    <3>2. \A i \in DOMAIN stored : stored[i].asks <= 1
      <4>1. \A i \in DOMAIN stored : stored[i] \in Msg
        BY <3>1, ElementOfSeq, LenProperties
      <4>2. \A m \in Msg : m.asks \in Nat
        BY DEF Msg
      <4> QED
        BY <2>6, <4>1, <4>2
    <3> QED
      BY <2>2, <2>5, <3>1, <3>2, CutDownIsWellFormed
  <2> QED
    BY <2>4, <2>6
<1>2. CallInv /\ ThreadInv /\ ContextInv /\ [Next]_vars => CallInv' /\ ThreadInv' /\ ContextInv'
  BY CallKept, ThreadKept, ContextKept
<1>3. Init => CallInv /\ ThreadInv /\ ContextInv
  BY CallInvInit, ThreadInvInit
<1> QED
  BY <1>1, <1>2, <1>3, PTL DEF Spec

-----------------------------------------------------------------------------
(* What is left of a run: numbers that go down, in this order, with each of  *)
(* its steps.  They leave to fairness only that a step is taken.             *)

Running == stage \in {"before", "model", "tools", "after", "saving"}

RoundsLeft == MaxRounds - rounds

\* How far a round has come.
Place ==
    CASE stage = "model" -> 5
      [] stage = "tools" -> 4
      [] stage = "before" -> 3
      [] stage = "after" -> 2
      [] stage = "saving" -> 1
      [] OTHER -> 0

\* The requests a model call may still make.
RequestsLeft ==
    CASE call.stage = "first" -> MaxRetries + 3
      [] call.stage = "compact" -> MaxRetries + 2
      [] call.stage = "retry" -> MaxRetries + 1 - call.attempt
      [] call.stage \in {"continue", "fallback"} -> 1
      [] OTHER -> 0

\* The calls on the store that the memories of the lead may still make.
StoreCallsLeft == 2 * Cardinality(saving[Lead].todo) + (IF saving[Lead].free = {} THEN 1 ELSE 0)

LeftHere == IF stage = "saving" THEN StoreCallsLeft ELSE RequestsLeft

GoesDown ==
    \/ RoundsLeft' < RoundsLeft
    \/ RoundsLeft' = RoundsLeft /\ Place' < Place
    \/ RoundsLeft' = RoundsLeft /\ Place' = Place /\ LeftHere' < LeftHere

StaysEqual == RoundsLeft' = RoundsLeft /\ Place' = Place /\ LeftHere' = LeftHere

Counted == RoundsLeft \in Nat /\ Place \in Nat /\ LeftHere \in Nat

RunInv ==
    /\ rounds \in 0 .. MaxRounds
    /\ saving \in [Session -> [todo : SUBSET Key, free : SUBSET Key]]
    /\ \A s \in Session : saving[s].free \subseteq saving[s].todo

\* Each request of a model call leaves fewer of them.
LEMMA CallGoesDown ==
    ASSUME CallInv, CallStep
    PROVE  RequestsLeft' < RequestsLeft
<1> USE CallAssumption DEF CallInv
<1>1. call.attempt \in Nat /\ (call.stage = "retry" => call.attempt < MaxRetries)
  BY DEF Noted, Placed
<1>2. ASSUME call.stage \in {"first", "continue", "compact", "retry", "fallback"},
             call'.stage \in {"answered", "raised"}
      PROVE  RequestsLeft' < RequestsLeft
  BY <1>1, <1>2 DEF RequestsLeft
<1>3. ASSUME NEW finish, NEW whole, NEW asks, call' = Answered(finish, whole, asks)
      PROVE  call'.stage = "answered"
  BY <1>3 DEF Answered
<1>4. ASSUME NEW cause, call' = Raised(cause) PROVE call'.stage = "raised"
  BY <1>4 DEF Raised
<1>5. CASE \E asks \in 0 .. MaxAsked : FirstAnswers(asks)
  BY <1>2, <1>3, <1>5 DEF FirstAnswers
<1>6. CASE FirstIsCut
  <2>1. CASE call.continued < MaxContinuations
    BY <1>6, <2>1 DEF FirstIsCut, RequestsLeft
  <2>2. CASE ~ (call.continued < MaxContinuations)
    BY <1>2, <1>3, <1>6, <2>2 DEF FirstIsCut
  <2> QED
    BY <2>1, <2>2
<1>7. ASSUME NEW failure, FirstFails(failure) PROVE RequestsLeft' < RequestsLeft
  <2>1. CASE failure = "overflow"
    BY <1>7, <2>1 DEF FirstFails, RequestsLeft
  <2>2. CASE failure # "overflow"
    BY <1>2, <1>4, <1>7, <2>2 DEF FirstFails
  <2> QED
    BY <2>1, <2>2
<1>8. ASSUME NEW failure, RetryFails(failure) PROVE RequestsLeft' < RequestsLeft
  <2>1. CASE failure \notin Temporary
    BY <1>2, <1>4, <1>8, <2>1 DEF RetryFails, GivenUp
  <2>2. CASE failure \in Temporary
    <3>1. /\ call.stage = "retry" /\ call'.attempt = call.attempt + 1
          /\ call'.stage \in {"retry", "fallback", "raised"}
      BY <1>8, <2>2 DEF RetryFails, AfterFailure
    <3> QED
      BY <1>1, <3>1 DEF RequestsLeft
  <2> QED
    BY <2>1, <2>2
<1>9. ASSUME NEW whole, ContinuationAnswers(whole) \/ RetryAnswers(whole) \/ FallbackAnswers(whole)
      PROVE  RequestsLeft' < RequestsLeft
  BY <1>2, <1>3, <1>9 DEF ContinuationAnswers, RetryAnswers, FallbackAnswers
<1>10. CASE ContinuationFails
  <2>1. call.stage = "continue" /\ call'.stage = "answered"
    BY <1>10 DEF ContinuationFails, PartialAnswer, Answered
  <2> QED
    BY <1>2, <2>1
<1>11. CASE \E size \in SummarySizes : Compacts(size)
  <2>1. call.stage = "compact" /\ call'.stage = "retry" /\ call'.attempt = call.attempt /\ call.attempt = 0
    BY <1>11 DEF Compacts, Placed
  <2> QED
    BY <2>1 DEF RequestsLeft
<1>12. CASE SummaryFails \/ FallbackFails
  BY <1>2, <1>4, <1>12 DEF SummaryFails, FallbackFails
<1> QED
  BY <1>5, <1>6, <1>7, <1>8, <1>9, <1>10, <1>11, <1>12 DEF CallStep

Lists == [todo : SUBSET Key, free : SUBSET Key]

\* A key is looked up, or written, among those a session has to save.
LEMMA OneKeyFewer ==
    ASSUME RunInv, NEW s \in Session, NEW k \in Key, LookUp(s, k) \/ Save(s, k)
    PROVE  /\ k \in saving[s].todo
           /\ \E new \in Lists :
                 /\ saving' = [saving EXCEPT ![s] = new] /\ new.free \subseteq new.todo
                 /\ \/ saving[s].free = {} /\ new.todo = saving[s].todo /\ new.free = {k}
                    \/ new.todo = saving[s].todo \ {k} /\ new.free = {}
<1>1. PICK row : row = saving[s] /\ row \in Lists /\ row.free \subseteq row.todo
  BY DEF RunInv, Lists
<1>2. k \in row.todo
  BY <1>1 DEF LookUp, Save
<1>3. /\ [row EXCEPT !.free = {k}] \in Lists
      /\ [row EXCEPT !.free = {k}].todo = row.todo /\ [row EXCEPT !.free = {k}].free = {k}
  BY <1>1 DEF Lists
<1>4. /\ [row EXCEPT !.todo = @ \ {k}] \in Lists
      /\ [row EXCEPT !.todo = @ \ {k}].todo = row.todo \ {k}
      /\ [row EXCEPT !.todo = @ \ {k}].free = row.free
  BY <1>1 DEF Lists
<1>5. [todo |-> row.todo \ {k}, free |-> {}] \in Lists
  BY <1>1 DEF Lists
<1>6. CASE LookUp(s, k)
  <2>1. row.free = {}
    BY <1>1, <1>6 DEF LookUp
  <2>2. CASE memory[k] = NoMemory
    <3>1. saving' = [saving EXCEPT ![s] = [row EXCEPT !.free = {k}]]
      BY <1>1, <1>6, <2>2 DEF LookUp
    <3> QED
      BY <1>1, <1>2, <1>3, <2>1, <3>1
  <2>3. CASE memory[k] # NoMemory
    <3>1. saving' = [saving EXCEPT ![s] = [row EXCEPT !.todo = @ \ {k}]]
      BY <1>1, <1>6, <2>3 DEF LookUp
    <3> QED
      BY <1>1, <1>2, <1>4, <2>1, <3>1
  <2> QED
    BY <2>2, <2>3
<1>7. CASE Save(s, k)
  <2>1. saving' = [saving EXCEPT ![s] = [todo |-> row.todo \ {k}, free |-> {}]]
    BY <1>1, <1>7 DEF Save
  <2> QED
    BY <1>1, <1>2, <1>5, <2>1
<1> QED
  BY <1>6, <1>7

\* Each call on the store leaves the lead fewer of them.
LEMMA SavingGoesDown ==
    ASSUME RunInv, SaveMemory
    PROVE  StoreCallsLeft' < StoreCallsLeft
<1> USE MemoryAssumption, RunAssumption
<1>1. PICK k \in Key : LookUp(Lead, k) \/ Save(Lead, k)
  BY DEF SaveMemory
<1> DEFINE todo == saving[Lead].todo
<1>2. PICK new \in Lists :
        /\ k \in todo /\ saving' = [saving EXCEPT ![Lead] = new]
        /\ \/ saving[Lead].free = {} /\ new.todo = todo /\ new.free = {k}
           \/ new.todo = todo \ {k} /\ new.free = {}
  BY <1>1, OneKeyFewer
<1>3. saving'[Lead] = new /\ todo \in SUBSET Key
  BY <1>2 DEF RunInv
<1>4. PICK n \in Nat : n = Cardinality(todo) /\ Cardinality(todo \ {k}) = n - 1
  <2>1. IsFiniteSet(todo)
    BY <1>3, FS_Subset
  <2>2. Cardinality(todo) \in Nat
    BY <2>1, FS_CardinalityType
  <2>3. Cardinality(todo \ {k}) = Cardinality(todo) - 1
    BY <1>2, <2>1, FS_RemoveElement
  <2> QED
    BY <2>2, <2>3
<1>5. StoreCallsLeft' = 2 * Cardinality(new.todo) + (IF new.free = {} THEN 1 ELSE 0)
  BY <1>3 DEF StoreCallsLeft
<1>6. StoreCallsLeft = 2 * n + (IF saving[Lead].free = {} THEN 1 ELSE 0)
  BY <1>4 DEF StoreCallsLeft
<1>7. CASE saving[Lead].free = {} /\ new.todo = todo /\ new.free = {k}
  BY <1>4, <1>5, <1>6, <1>7
<1>8. CASE new.todo = todo \ {k} /\ new.free = {}
  <2>1. StoreCallsLeft' = 2 * (n - 1) + 1
    BY <1>4, <1>5, <1>8
  <2> QED
    BY <1>4, <1>6, <2>1
<1> QED
  BY <1>2, <1>7, <1>8

\* The rounds stay within the limit, and only what is to be saved is found free.
LEMMA RunKept == RunInv /\ [Next]_vars => RunInv'
<1> SUFFICES ASSUME RunInv, [Next]_vars PROVE RunInv'
  OBVIOUS
<1> USE RunAssumption
<1>1. rounds' \in 0 .. MaxRounds
  BY DEF RunInv, Next, RunStep, vars, Ask, BeforeModel, BeforeModelFails, CallModel, TakeAnswer, CallRaises,
     RunTools, ToolRaises, AfterModel, SaveMemory, AfterModelFails, EndRun, Die, Restart, Reset, EditSkills,
     RefreshSkills, RivalExtracts, RivalSaves
<1>2. \/ saving' = saving
      \/ \E s \in Session : \E k \in Key : LookUp(s, k) \/ Save(s, k)
      \/ \E s \in Session : GiveUpSaving(s) \/ \E keys \in SUBSET Key : Extract(s, keys)
  <2>1. CASE AfterModel \/ SaveMemory \/ AfterModelFails \/ Die
    BY <2>1 DEF AfterModel, SaveMemory, AfterModelFails, Die
  <2>2. CASE \E s \in Session : RivalExtracts(s) \/ RivalSaves(s)
    BY <2>2 DEF RivalExtracts, RivalSaves
  <2> QED
    BY <2>1, <2>2 DEF Next, RunStep, vars, beside, memoryVars, Ask, BeforeModel, BeforeModelFails, CallModel,
       TakeAnswer, CallRaises, RunTools, ToolRaises, EndRun, Restart, Reset, EditSkills, RefreshSkills
<1> DEFINE Fine(map) == map \in [Session -> Lists] /\ \A s \in Session : map[s].free \subseteq map[s].todo
<1>3. Fine(saving)
  BY DEF RunInv, Lists
<1>4. ASSUME NEW s \in Session, NEW k \in Key, LookUp(s, k) \/ Save(s, k) PROVE Fine(saving')
  <2>1. PICK new \in Lists : saving' = [saving EXCEPT ![s] = new] /\ new.free \subseteq new.todo
    BY <1>4, OneKeyFewer
  <2> QED
    BY <1>3, <2>1
<1>5. ASSUME NEW s \in Session, NEW keys \in SUBSET Key, GiveUpSaving(s) \/ Extract(s, keys)
      PROVE  Fine(saving')
  <2>1. PICK row : row = saving[s] /\ row \in Lists /\ row.free \subseteq row.todo
    BY <1>3
  <2>2. \/ saving' = [saving EXCEPT ![s] = NotSaving]
        \/ row.todo = {} /\ saving' = [saving EXCEPT ![s] = [row EXCEPT !.todo = keys]]
    BY <1>3, <1>5, <2>1 DEF GiveUpSaving, Extract
  <2>3. NotSaving \in Lists /\ NotSaving.free = {}
    BY DEF NotSaving, Lists
  <2>4. row.todo = {} => /\ [row EXCEPT !.todo = keys] \in Lists
                         /\ [row EXCEPT !.todo = keys].free = {}
    BY <2>1 DEF Lists
  <2>5. PICK new \in Lists : saving' = [saving EXCEPT ![s] = new] /\ new.free = {}
    BY <2>2, <2>3, <2>4
  <2> QED
    BY <1>3, <2>5
<1>6. Fine(saving')
  BY <1>2, <1>3, <1>4, <1>5
<1> QED
  BY <1>1, <1>6 DEF RunInv, Lists

\* What is left are natural numbers.
LEMMA LeftIsCounted == CallInv /\ RunInv => Counted
<1> SUFFICES ASSUME CallInv, RunInv PROVE Counted
  OBVIOUS
<1> USE CallAssumption, RunAssumption, MemoryAssumption
<1>1. RoundsLeft \in Nat
  BY DEF RunInv, RoundsLeft
<1>2. Place \in Nat
  BY DEF Place
<1>3. RequestsLeft \in Nat
  <2>1. call.attempt \in Nat /\ (call.stage = "retry" => call.attempt < MaxRetries)
    BY DEF CallInv, Noted, Placed
  <2> QED
    BY <2>1 DEF RequestsLeft
<1>4. StoreCallsLeft \in Nat
  <2>1. saving[Lead].todo \in SUBSET Key
    BY DEF RunInv
  <2>2. IsFiniteSet(saving[Lead].todo)
    BY <2>1, FS_Subset
  <2>3. Cardinality(saving[Lead].todo) \in Nat
    BY <2>2, FS_CardinalityType
  <2> QED
    BY <2>3 DEF StoreCallsLeft
<1> QED
  BY <1>1, <1>2, <1>3, <1>4 DEF Counted, LeftHere

\* Every step of a run goes down, and no other step while it is on goes up.
LEMMA EveryStepGoesDown ==
    ASSUME CallInv, ContextInv, RunInv, [Next]_vars
    PROVE  /\ RunStep => GoesDown
           /\ Running => GoesDown \/ StaysEqual
<1> USE RunAssumption
<1>0. rounds \in Nat /\ MaxRounds \in Nat
  BY DEF RunInv
<1>1. CASE BeforeModel
  <2>1. rounds' = rounds + 1
    BY <1>1 DEF BeforeModel
  <2> QED
    BY <1>0, <2>1 DEF GoesDown, RoundsLeft
<1>2. ASSUME rounds' = rounds, Place' < Place PROVE GoesDown
  BY <1>2 DEF GoesDown, RoundsLeft
<1>3. CASE TakeAnswer \/ CallRaises
  <2>1. rounds' = rounds /\ stage = "model" /\ stage' \in {"tools", "after", "completed", "dead", "failed"}
    BY <1>3 DEF TakeAnswer, CallRaises, Failed
  <2> QED
    BY <1>2, <2>1 DEF Place
<1>4. CASE RunTools \/ ToolRaises \/ BeforeModelFails
  <2>1. /\ rounds' = rounds
        /\ \/ stage = "tools" /\ stage' \in {"before", "dead", "failed"}
           \/ stage = "before" /\ stage' \in {"dead", "failed"}
    BY <1>4 DEF RunTools, ToolRaises, BeforeModelFails, Failed
  <2> QED
    BY <1>2, <2>1 DEF Place
<1>5. CASE AfterModel \/ AfterModelFails \/ EndRun
  <2>1. /\ rounds' = rounds
        /\ \/ stage = "after" /\ stage' \in {"saving", "dead", "failed"}
           \/ stage = "saving" /\ stage' \in {"waiting", "dead", "failed"}
    BY <1>5 DEF AfterModel, AfterModelFails, EndRun, Failed
  <2> QED
    BY <1>2, <2>1 DEF Place
<1>6. CASE CallModel
  <2>1. CallStep /\ rounds' = rounds /\ stage' = stage /\ stage = "model"
    BY <1>6 DEF CallModel
  <2>2. RequestsLeft' < RequestsLeft
    BY <2>1, CallGoesDown
  <2> QED
    BY <2>1, <2>2 DEF GoesDown, RoundsLeft, Place, LeftHere
<1>7. CASE SaveMemory
  <2>1. rounds' = rounds /\ stage' = stage /\ stage = "saving"
    BY <1>7 DEF SaveMemory
  <2>2. StoreCallsLeft' < StoreCallsLeft
    BY <1>7, SavingGoesDown
  <2> QED
    BY <2>1, <2>2 DEF GoesDown, RoundsLeft, Place, LeftHere
<1>8. RunStep => GoesDown
  BY <1>1, <1>3, <1>4, <1>5, <1>6, <1>7 DEF RunStep
<1>9. ASSUME Die PROVE Running => GoesDown
  <2>1. rounds' = rounds /\ stage' = "dead"
    BY <1>9 DEF Die
  <2>2. Running => Place' < Place
    BY <2>1 DEF Running, Place
  <2> QED
    BY <1>2, <2>1, <2>2
<1>10. ASSUME Ask \/ Restart \/ Reset PROVE ~ Running
  BY <1>10 DEF Ask, Restart, Reset, Running
<1>11. ASSUME rounds' = rounds, stage' = stage, call' = call, saving'[Lead] = saving[Lead] PROVE StaysEqual
  BY <1>11 DEF StaysEqual, RoundsLeft, Place, LeftHere, RequestsLeft, StoreCallsLeft
<1>12. ASSUME EditSkills \/ RefreshSkills \/ UNCHANGED vars PROVE StaysEqual
  BY <1>11, <1>12 DEF EditSkills, RefreshSkills, vars, memoryVars
<1>13. ASSUME NEW s \in Session, RivalExtracts(s) \/ RivalSaves(s) PROVE StaysEqual
  <2>1. s # Lead /\ rounds' = rounds /\ stage' = stage /\ call' = call
    BY <1>13 DEF RivalExtracts, RivalSaves
  <2>2. \/ \E keys \in SUBSET Key : Extract(s, keys)
        \/ GiveUpSaving(s)
        \/ \E k \in Key : LookUp(s, k) \/ Save(s, k)
    BY <1>13 DEF RivalExtracts, RivalSaves
  <2>3. saving'[Lead] = saving[Lead]
    BY <2>1, <2>2 DEF RunInv, Extract, GiveUpSaving, LookUp, Save
  <2> QED
    BY <1>11, <2>1, <2>3
<1>14. Running => GoesDown \/ StaysEqual
  BY <1>8, <1>9, <1>10, <1>12, <1>13 DEF Next
<1> QED
  BY <1>8, <1>14

\* No retry, continuation, compression or saving of memories goes round in a circle:
\* each step of a run leaves it fewer rounds, or less to do within the round, and
\* nothing that happens beside it takes a step back.  What is left is counted by
\* naturals, so no run takes steps without end, whatever the limits are.
THEOREM RunsGoDown ==
    Spec => /\ []Counted
            /\ [][(RunStep => GoesDown) /\ (Running => GoesDown \/ StaysEqual)]_vars
<1>1. CallInv /\ ThreadInv /\ ContextInv /\ RunInv /\ [Next]_vars =>
        /\ CallInv' /\ ThreadInv' /\ ContextInv' /\ RunInv'
        /\ (RunStep => GoesDown) /\ (Running => GoesDown \/ StaysEqual)
  BY CallKept, ThreadKept, ContextKept, RunKept, EveryStepGoesDown
<1>2. Init => CallInv /\ ThreadInv /\ ContextInv /\ RunInv
  <2>1. Init => RunInv
    BY RunAssumption DEF Init, MemoryInit, RunInv, NotSaving
  <2> QED
    BY <2>1, CallInvInit, ThreadInvInit
<1>3. CallInv /\ RunInv => Counted
  BY LeftIsCounted
<1> QED
  BY <1>1, <1>2, <1>3, PTL DEF Spec
=============================================================================

-------------------------- MODULE RetryRunnerProofs --------------------------
(***************************************************************************)
(* Proofs about RetryRunner for every set of errors, retry limit and table  *)
(* of pauses.                                                               *)
(***************************************************************************)
EXTENDS RetryRunner, FiniteSetTheorems, WellFoundedInduction, TLAPS

Entry == [key : {RetryKey(e) : e \in SessionErrors}, pause : Int]

(* What makes FailuresAreConsecutive inductive: the run of equal failures    *)
(* is not empty once there is a failure, and Run goes on only below the      *)
(* limit.                                                                   *)
RunnerInv ==
    /\ pc \in {"failed", "classify"} => err \in SessionErrors
    /\ history \in Seq(Entry) /\ failures \in Nat
    /\ Len(history) > 0 => failures > 0
    /\ result \in {"none", "nil", "nonRetryable", "exceeded"}
    /\ pc # "returned" => result = "none"
    /\ FailuresAreConsecutive

LEMMA InitRunner == Init => RunnerInv
BY RetryAssumption DEF Init, RunnerInv, FailuresAreConsecutive

(* Counting one more failure keeps the run at the end of the history.       *)
LEMMA CountRun ==
    ASSUME RunnerInv, pc = "classify", NEW p \in Int, Count(p)
    PROVE  /\ history' \in Seq(Entry) /\ failures' \in Nat
           /\ Len(history') = Len(history) + 1 /\ failures' > 0
           /\ failures' <= Len(history')
           /\ \A i \in (Len(history') - failures' + 1)..Len(history') :
                history'[i].key = lastErrorKey'
           /\ failures' < Len(history') =>
                history'[Len(history') - failures'].key # lastErrorKey'
<1> DEFINE n == Len(history)
           new == [key |-> RetryKey(err), pause |-> p]
<1>1. new \in Entry /\ history \in Seq(Entry) /\ n \in Nat
  BY DEF RunnerInv, Entry
<1>2. /\ history' = Append(history, new)
      /\ failures' = failuresNow /\ lastErrorKey' = RetryKey(err)
  BY DEF Count
<1>3. /\ history' \in Seq(Entry) /\ Len(history') = n + 1
      /\ \A i \in 1..n : history'[i] = history[i]
      /\ history'[n + 1] = new
  BY <1>1, <1>2
<1>4. /\ failures \in Nat /\ failures <= n /\ (n > 0 => failures > 0)
      /\ \A i \in (n - failures + 1)..n : history[i].key = lastErrorKey
      /\ failures < n => history[n - failures].key # lastErrorKey
  BY DEF RunnerInv, FailuresAreConsecutive
<1>5. CASE RetryKey(err) = lastErrorKey
  <2>1. failures' = failures + 1
    BY <1>2, <1>5 DEF failuresNow
  <2>2. \A i \in (n - failures + 1)..(n + 1) : history'[i].key = lastErrorKey'
    BY <1>1, <1>2, <1>3, <1>4, <1>5
  <2>3. failures < n => history'[n - failures].key # lastErrorKey'
    BY <1>1, <1>2, <1>3, <1>4, <1>5
  <2> QED
    BY <1>1, <1>3, <1>4, <2>1, <2>2, <2>3
<1>6. CASE RetryKey(err) # lastErrorKey
  <2>1. failures' = 1
    BY <1>2, <1>6 DEF failuresNow
  <2>2. history'[n + 1].key = lastErrorKey'
    BY <1>2, <1>3
  <2>3. n > 0 => history'[n].key # lastErrorKey'
    BY <1>1, <1>2, <1>3, <1>4, <1>6
  <2> QED
    BY <1>1, <1>3, <2>1, <2>2, <2>3
<1> QED
  BY <1>5, <1>6

LEMMA NextRunner == RunnerInv /\ [Next]_vars => RunnerInv'
<1> SUFFICES ASSUME RunnerInv, [Next]_vars PROVE RunnerInv'
  OBVIOUS
<1>1. CASE MaxRetriesExceeded
  <2>1. Count(NoPause) /\ NoPause \in Int /\ pc = "classify"
    BY <1>1 DEF MaxRetriesExceeded, NoPause
  <2>2. failures' >= MaxRetriesSameError /\ result' = "exceeded" /\ pc' = "returned"
    BY <1>1 DEF MaxRetriesExceeded, Count, Return
  <2> QED
    BY <2>1, <2>2, CountRun DEF RunnerInv, FailuresAreConsecutive
<1>2. CASE Pause
  <2>1. Count(sleepTime(failuresNow)) /\ pc = "classify"
    BY <1>2 DEF Pause
  <2>2. failuresNow \in Nat \ {0}
    BY DEF failuresNow, RunnerInv
  <2>3. sleepTime(failuresNow) \in Int
    BY <2>2, RetryAssumption DEF sleepTime
  <2>4. failures' < MaxRetriesSameError /\ UNCHANGED result /\ pc' = "sleep"
    BY <1>2 DEF Pause, Count
  <2>5. result' = "none"
    BY <2>1, <2>4 DEF RunnerInv
  <2> QED
    BY <2>1, <2>3, <2>4, <2>5, CountRun DEF RunnerInv, FailuresAreConsecutive
<1>3. CASE \/ Cancel \/ CheckContext \/ FnFails \/ FnReturnsNil \/ CheckContextAfterFn
           \/ NonRetryable \/ Wake \/ PauseCancelled \/ UNCHANGED vars
  <2>1. UNCHANGED <<history, failures, lastErrorKey>>
    BY <1>3 DEF Cancel, CheckContext, FnFails, FnReturnsNil, CheckContextAfterFn,
       NonRetryable, Wake, PauseCancelled, Counters, vars
  <2>2. /\ pc' \in {"failed", "classify"} => err' \in SessionErrors
        /\ result' \in {"none", "nil", "nonRetryable", "exceeded"}
        /\ pc' # "returned" => result' = "none"
        /\ result' = "exceeded" <=> result = "exceeded"
    BY <1>3 DEF RunnerInv, Cancel, CheckContext, FnFails, FnReturnsNil,
       CheckContextAfterFn, NonRetryable, Wake, PauseCancelled, Return, vars,
       errVars, SessionErrors
  <2>3. FailuresAreConsecutive'
    BY <2>1, <2>2 DEF RunnerInv, FailuresAreConsecutive
  <2> QED
    BY <2>1, <2>2, <2>3 DEF RunnerInv
<1> QED
  BY <1>1, <1>2, <1>3 DEF Next, Run

(* Run counts consecutive failures of the same kind and no others, and gives *)
(* up exactly at MaxRetriesSameError of them, whatever the sessions fail     *)
(* with and in whatever order.                                              *)
THEOREM ConsecutiveFailures == Spec => []FailuresAreConsecutive
<1>1. RunnerInv => FailuresAreConsecutive
  BY DEF RunnerInv
<1> QED
  BY <1>1, InitRunner, NextRunner, PTL DEF Spec
-----------------------------------------------------------------------------
(* The pauses.                                                              *)

PauseSet == {RetryIntervals[k] : k \in DOMAIN RetryIntervals}

(* The last pause is the one of the current failure count; this relates the *)
(* pause of the next equal failure to it.                                   *)
BackoffInv ==
    /\ RunnerInv
    /\ \A i \in DOMAIN history : history[i].pause \in {NoPause} \cup PauseSet
    /\ history # <<>> /\ result # "exceeded" =>
         history[Len(history)].pause = sleepTime(failures)
    /\ BackoffFollowsIntervals

LEMMA SleepTimes ==
    ASSUME NEW n \in Nat \ {0}
    PROVE  /\ sleepTime(n) \in PauseSet /\ sleepTime(n) # NoPause
           /\ sleepTime(1) = RetryIntervals[1]
           /\ \E k \in 1..Len(RetryIntervals) :
                /\ sleepTime(n + 1) = RetryIntervals[k]
                /\ \/ k > 1 /\ sleepTime(n) = RetryIntervals[k - 1]
                   \/ k = Len(RetryIntervals) /\ sleepTime(n) = RetryIntervals[k]
<1> DEFINE L == Len(RetryIntervals)
<1>1. L \in Nat \ {0} /\ \A k \in 1..L : RetryIntervals[k] \in Nat
  BY RetryAssumption
<1>2. DOMAIN RetryIntervals = 1..L
  BY RetryAssumption
<1>3. sleepTime(n) \in PauseSet /\ sleepTime(n) # NoPause
  BY <1>1, <1>2 DEF sleepTime, PauseSet, NoPause
<1>4. sleepTime(1) = RetryIntervals[1]
  BY <1>1 DEF sleepTime
<1>5. CASE n + 1 <= L
  <2>1. /\ n + 1 \in 1..L /\ n + 1 > 1 /\ (n + 1) - 1 = n
        /\ sleepTime(n + 1) = RetryIntervals[n + 1]
        /\ sleepTime(n) = RetryIntervals[n]
    BY <1>1, <1>5 DEF sleepTime
  <2> QED
    BY <1>3, <1>4, <2>1
<1>6. CASE ~(n + 1 <= L)
  <2>1. L \in 1..L /\ sleepTime(n + 1) = RetryIntervals[L]
    BY <1>1, <1>6 DEF sleepTime
  <2>2. sleepTime(n) = RetryIntervals[L]
    BY <1>1, <1>6 DEF sleepTime
  <2> QED
    BY <1>3, <1>4, <2>1, <2>2
<1> QED
  BY <1>5, <1>6

LEMMA InitBackoff == Init => BackoffInv
BY InitRunner DEF Init, BackoffInv, BackoffFollowsIntervals

(* Backing off at position i of the history.                                *)
BackoffAt(h, i) ==
    h[i].pause # NoPause =>
      \/ h[i].pause = RetryIntervals[1] /\ (i > 1 => h[i - 1].key # h[i].key)
      \/ /\ i > 1 /\ h[i - 1].key = h[i].key
         /\ \E k \in 1..Len(RetryIntervals) :
              /\ h[i].pause = RetryIntervals[k]
              /\ \/ k > 1 /\ h[i - 1].pause = RetryIntervals[k - 1]
                 \/ k = Len(RetryIntervals) /\ h[i - 1].pause = RetryIntervals[k]

LEMMA BackoffAtAll == BackoffFollowsIntervals <=> \A i \in 1..Len(history) : BackoffAt(history, i)
BY DEF BackoffFollowsIntervals, BackoffAt

LEMMA NextBackoff == BackoffInv /\ [Next]_vars => BackoffInv'
<1> SUFFICES ASSUME BackoffInv, [Next]_vars PROVE BackoffInv'
  OBVIOUS
<1> DEFINE n == Len(history)
<1>1. RunnerInv /\ RunnerInv'
  BY NextRunner DEF BackoffInv
<1>2. history \in Seq(Entry) /\ n \in Nat /\ failures \in Nat /\ (n > 0 => failures > 0)
  BY <1>1 DEF RunnerInv
<1>3. n > 0 => history[n].key = lastErrorKey
  BY <1>1, <1>2 DEF RunnerInv, FailuresAreConsecutive
<1>4. ASSUME NEW p, Count(p), p = NoPause \/ p = sleepTime(failuresNow),
             pc = "classify", p = NoPause => result' = "exceeded"
      PROVE  BackoffInv'
  <2> DEFINE new == [key |-> RetryKey(err), pause |-> p]
  <2>1. /\ history' = Append(history, new)
        /\ failures' = failuresNow /\ lastErrorKey' = RetryKey(err)
    BY <1>4 DEF Count
  <2>2. /\ Len(history') = n + 1 /\ history'[n + 1] = new
        /\ \A i \in 1..n : history'[i] = history[i]
        /\ DOMAIN history' = 1..(n + 1) /\ DOMAIN history = 1..n
    BY <1>2, <2>1
  <2>3. failuresNow \in Nat \ {0}
    BY <1>2 DEF failuresNow
  <2>4. p \in {NoPause} \cup PauseSet
    BY <1>4, <2>3, SleepTimes
  <2>5. \A i \in DOMAIN history' : history'[i].pause \in {NoPause} \cup PauseSet
    BY <2>2, <2>4, <1>2 DEF BackoffInv
  <2>6. result' # "exceeded" => history'[Len(history')].pause = sleepTime(failures')
    BY <1>4, <2>1, <2>2
  <2>7. \A i \in 1..n : BackoffAt(history', i)
    <3> SUFFICES ASSUME NEW i \in 1..n PROVE BackoffAt(history', i)
      OBVIOUS
    <3>1. BackoffAt(history, i)
      BY BackoffAtAll DEF BackoffInv
    <3>2. history'[i] = history[i] /\ (i > 1 => history'[i - 1] = history[i - 1])
      BY <1>2, <2>2
    <3> QED
      BY <3>1, <3>2 DEF BackoffAt
  <2>8. BackoffAt(history', n + 1)
    <3> SUFFICES ASSUME p # NoPause PROVE BackoffAt(history', n + 1)
      BY <2>2 DEF BackoffAt
    <3>1. p = sleepTime(failuresNow) /\ (n + 1) - 1 = n
      BY <1>2, <1>4
    <3>2. CASE n > 0 /\ RetryKey(err) = lastErrorKey
      <4>1. failuresNow = failures + 1 /\ failures \in Nat \ {0}
        BY <1>2, <3>2 DEF failuresNow
      <4>2. result # "exceeded"
        BY <1>1, <1>4 DEF RunnerInv
      <4>3. history'[n].pause = sleepTime(failures) /\ history'[n].key = history'[n + 1].key
        BY <1>2, <1>3, <2>2, <3>2, <4>2 DEF BackoffInv
      <4>4. \E k \in 1..Len(RetryIntervals) :
               /\ p = RetryIntervals[k]
               /\ \/ k > 1 /\ history'[n].pause = RetryIntervals[k - 1]
                  \/ k = Len(RetryIntervals) /\ history'[n].pause = RetryIntervals[k]
        BY <3>1, <4>1, <4>3, SleepTimes
      <4>5. n + 1 > 1 /\ history'[n + 1].pause = p
        BY <1>2, <2>2, <3>2
      <4> QED
        BY <3>1, <4>3, <4>4, <4>5 DEF BackoffAt
    <3>3. CASE n = 0
      <4>1. p = RetryIntervals[1]
        <5>1. failuresNow = 1
          BY <1>1, <1>2, <3>3 DEF failuresNow, RunnerInv, FailuresAreConsecutive
        <5> QED
          BY <3>1, <5>1, SleepTimes
      <4> QED
        BY <1>2, <2>2, <3>3, <4>1 DEF BackoffAt
    <3>4. CASE n > 0 /\ RetryKey(err) # lastErrorKey
      <4>1. failuresNow = 1
        BY <3>4 DEF failuresNow
      <4>2. p = RetryIntervals[1]
        BY <3>1, <4>1, SleepTimes
      <4>3. history'[n] = history[n] /\ history'[n + 1].key = RetryKey(err)
        BY <1>2, <2>2, <3>4
      <4>4. history'[n].key # history'[n + 1].key
        BY <1>3, <3>4, <4>3
      <4> QED
        BY <1>2, <2>2, <3>1, <3>4, <4>2, <4>4 DEF BackoffAt
    <3> QED
      BY <1>2, <3>2, <3>3, <3>4
  <2>9. BackoffFollowsIntervals'
    <3>1. \A i \in 1..Len(history') : BackoffAt(history', i)
      BY <1>2, <2>2, <2>7, <2>8
    <3> QED
      BY <3>1 DEF BackoffFollowsIntervals, BackoffAt
  <2> QED
    BY <1>1, <2>5, <2>6, <2>9 DEF BackoffInv
<1>5. CASE MaxRetriesExceeded
  BY <1>4, <1>5 DEF MaxRetriesExceeded, Return
<1>6. CASE Pause
  <2>1. failuresNow \in Nat \ {0}
    BY <1>2 DEF failuresNow
  <2>2. sleepTime(failuresNow) # NoPause
    BY <2>1, SleepTimes
  <2> QED
    BY <1>4, <1>6, <2>2 DEF Pause
<1>7. CASE \/ Cancel \/ CheckContext \/ FnFails \/ FnReturnsNil \/ CheckContextAfterFn
           \/ NonRetryable \/ Wake \/ PauseCancelled \/ UNCHANGED vars
  <2>1. UNCHANGED <<history, failures, lastErrorKey>>
    BY <1>7 DEF Cancel, CheckContext, FnFails, FnReturnsNil, CheckContextAfterFn,
       NonRetryable, Wake, PauseCancelled, Counters, vars
  <2>2. result' # "exceeded" => result # "exceeded"
    BY <1>1, <1>7 DEF RunnerInv, Cancel, CheckContext, FnFails, FnReturnsNil,
       CheckContextAfterFn, NonRetryable, Wake, PauseCancelled, Return, vars
  <2> QED
    BY <1>1, <2>1, <2>2 DEF BackoffInv, BackoffFollowsIntervals, sleepTime
<1> QED
  BY <1>5, <1>6, <1>7 DEF Next, Run

(* While the same kind of error repeats the pauses follow the table and stay *)
(* at its last entry, and they start over with another kind, for every table *)
(* and limit.                                                               *)
THEOREM BackoffIsFollowed == Spec => []BackoffFollowsIntervals
<1>1. BackoffInv => BackoffFollowsIntervals
  BY DEF BackoffInv
<1> QED
  BY <1>1, InitBackoff, NextBackoff, PTL DEF Spec
-----------------------------------------------------------------------------
(* Types, refused learning and shutdown.                                    *)

(* An error that learn passes on is temporary or that of a cancelled request. *)
LEMMA LearnErrorKinds ==
    \A e \in LearnErrors : IsRetryableError(e) \/ Has(e, {"Canceled"})
BY DEF LearnErrors, learnError, IsRetryableError, Has, RetryableCauses, NetErrors,
   UrlErrors

(* An error of learning reaches the classification only when it is temporary. *)
LearnInv ==
    /\ pc = "failed" /\ origin = "learn" => IsRetryableError(err) \/ cancelled
    /\ pc = "classify" /\ origin = "learn" => IsRetryableError(err)
    /\ pc # "returned" => result = "none"
    /\ LearningIsSurvived

LEMMA NextLearn == LearnInv /\ [Next]_vars => LearnInv'
<1> SUFFICES ASSUME LearnInv, [Next]_vars PROVE LearnInv'
  OBVIOUS
<1> USE DEF LearnInv, LearningIsSurvived
<1>1. CASE FnFails
  <2>1. origin' = "learn" => err' \in LearnErrors
    BY <1>1 DEF FnFails
  <2>2. origin' = "learn" => IsRetryableError(err') \/ cancelled'
    BY <1>1, <2>1, LearnErrorKinds DEF FnFails
  <2> QED
    BY <1>1, <2>2 DEF FnFails
<1>2. CASE Cancel \/ CheckContext \/ FnReturnsNil \/ Wake \/ PauseCancelled \/ UNCHANGED vars
  BY <1>2 DEF Cancel, CheckContext, FnReturnsNil, Wake, PauseCancelled, Return, vars, errVars
<1>3. CASE CheckContextAfterFn \/ NonRetryable
  BY <1>3 DEF CheckContextAfterFn, NonRetryable, Return, errVars
<1>4. CASE MaxRetriesExceeded \/ Pause
  BY <1>4 DEF MaxRetriesExceeded, Pause, Return, errVars
<1> QED
  BY <1>1, <1>2, <1>3, <1>4 DEF Next, Run

(* A mail that Rspamd refuses to learn never makes the daemon exit at once,  *)
(* whatever Rspamd answers: what learn passes on is retried, up to the       *)
(* limit of equal failures, or finds Run cancelled.                         *)
THEOREM RefusedLearningIsSurvived == Spec => []LearningIsSurvived
<1>1. Init => LearnInv
  BY DEF Init, LearnInv, LearningIsSurvived
<1>2. LearnInv => LearningIsSurvived
  BY DEF LearnInv
<1> QED
  BY <1>1, <1>2, NextLearn, PTL DEF Spec

(* Run is cancelled and has not yet looked at the error of a session.        *)
ShuttingDown ==
    /\ cancelled /\ pc \in {"top", "fn", "failed", "sleep", "returned"}
    /\ result \notin {"nonRetryable", "exceeded"}

(* A signal before the error of a session is looked at, or during a pause,  *)
(* never makes the daemon exit with an error.                               *)
THEOREM ShutdownIsClean == Spec => CleanShutdown
<1> DEFINE before == cancelled /\ pc \in {"top", "fn", "failed", "sleep"}
           clean == result \notin {"nonRetryable", "exceeded"}
<1>1. RunnerInv /\ before => ShuttingDown
  BY DEF RunnerInv, ShuttingDown
<1>2. ShuttingDown /\ [Next]_vars => ShuttingDown'
  BY DEF ShuttingDown, Next, Run, vars, Cancel, CheckContext, FnFails, FnReturnsNil,
     CheckContextAfterFn, NonRetryable, MaxRetriesExceeded, Pause, Wake,
     PauseCancelled, Return
<1>3. ShuttingDown => clean
  BY DEF ShuttingDown
<1>4. Spec => [](before => []clean)
  <2> HIDE DEF before, clean
  <2> QED
    BY <1>1, <1>2, <1>3, InitRunner, NextRunner, PTL DEF Spec
<1> QED
  BY <1>4 DEF CleanShutdown
-----------------------------------------------------------------------------
LEMMA InitTypes == Init => TypeOK
<1> SUFFICES ASSUME Init PROVE TypeOK
  OBVIOUS
<1>1. history = <<>> /\ DOMAIN history = {}
  BY DEF Init
<1>2. err = NoError /\ cancelled = FALSE /\ pc = "top" /\ result = "none"
      /\ origin = "none" /\ failures = 0
  BY DEF Init
<1> QED
  BY <1>1, <1>2 DEF TypeOK

LEMMA NextTypes == TypeOK /\ BackoffInv' /\ RunnerInv' /\ [Next]_vars => TypeOK'
<1> SUFFICES ASSUME TypeOK, BackoffInv', RunnerInv', [Next]_vars PROVE TypeOK'
  OBVIOUS
<1>1. /\ failures' \in Nat
      /\ \A i \in DOMAIN history' :
           history'[i].pause \in {NoPause} \cup {RetryIntervals[k] : k \in DOMAIN RetryIntervals}
  BY DEF BackoffInv, RunnerInv, PauseSet
<1>2. /\ pc' \in {"top", "fn", "failed", "classify", "sleep", "returned"}
      /\ cancelled' \in BOOLEAN
      /\ origin' \in {"none", "scan", "learn", "imap"}
      /\ result' \in {"none", "nil", "nonRetryable", "exceeded"}
      /\ (pc' = "returned") <=> (result' # "none")
  BY DEF TypeOK, Next, Run, vars, Cancel, CheckContext, FnFails, FnReturnsNil,
     CheckContextAfterFn, NonRetryable, MaxRetriesExceeded, Pause, Wake,
     PauseCancelled, Return, errVars
<1>3. err' \in SessionErrors \cup {NoError}
  BY DEF TypeOK, Next, Run, vars, Cancel, CheckContext, FnFails, FnReturnsNil,
     CheckContextAfterFn, NonRetryable, MaxRetriesExceeded, Pause, Wake,
     PauseCancelled, Return, errVars, SessionErrors
<1> QED
  BY <1>1, <1>2, <1>3 DEF TypeOK

(* The retry loop keeps its types, and every pause is one of the table.      *)
THEOREM RetryTypeCorrect == Spec => []TypeOK
<1>1. BackoffInv => RunnerInv
  BY DEF BackoffInv
<1> QED
  BY <1>1, InitTypes, NextTypes, InitBackoff, NextBackoff, PTL DEF Spec
-----------------------------------------------------------------------------
(* Temporary errors.                                                        *)

(* Every set of natural numbers has a least one: of the sets of its members *)
(* up to one of them, which are finite, one is minimal.                     *)
LEMMA LeastNatural ==
    ASSUME NEW T \in SUBSET Nat, T # {}
    PROVE  \E x \in T : \A y \in T : x <= y
<1> DEFINE upto(x) == {y \in T : y <= x}
           F == {upto(x) : x \in T}
           R == StrictSubsetOrdering(Nat)
<1>1. F \subseteq FiniteSubsetsOf(Nat)
  <2> SUFFICES ASSUME NEW x \in T PROVE upto(x) \in SUBSET Nat /\ IsFiniteSet(upto(x))
    BY DEF FiniteSubsetsOf
  <2>1. upto(x) \in SUBSET Nat /\ \A y \in upto(x) : y <= x
    OBVIOUS
  <2> QED
    BY <2>1, FS_BoundedSetOfNaturals
<1>2. IsWellFoundedOn(R, FiniteSubsetsOf(Nat))
  BY FS_StrictSubsetOrderingWellFounded
<1>3. PICK A \in F : \A B \in F : <<B, A>> \notin R
  <2>1. F # {}
    OBVIOUS
  <2> HIDE DEF F, R
  <2> QED
    BY <1>1, <1>2, <2>1, WFMin
<1>4. PICK x \in T : A = upto(x)
  OBVIOUS
<1>5. ASSUME NEW y \in T, ~(x <= y) PROVE FALSE
  <2>0. /\ \A z \in T : z <= y => z <= x
        /\ x <= x /\ ~(x <= y)
    BY <1>5
  <2>1. upto(y) \subseteq upto(x) /\ x \in upto(x) /\ x \notin upto(y)
    BY <2>0
  <2>2. <<upto(y), upto(x)>> \in R
    BY <2>1 DEF StrictSubsetOrdering
  <2> QED
    BY <1>3, <1>4, <2>2
<1> QED
  BY <1>5

CauseType == [kind : CauseKind, code : Nat]
OtherCause == [kind : OtherCauses, code : Nat]

(* What a request to Rspamd has failed with is in front of the other causes. *)
RequestFirst(e) ==
    /\ e \in Seq(CauseType)
    /\ \A i \in DOMAIN e : e[i].kind \in RequestCauses => i = 1

LEMMA OneCause ==
    ASSUME NEW k \in CauseKind, NEW n \in Nat
    PROVE  RequestFirst(<<[kind |-> k, code |-> n]>>)
<1> DEFINE c == [kind |-> k, code |-> n]
<1>1. c \in CauseType
  BY DEF CauseType
<1> HIDE DEF c
<1>2. <<c>> \in Seq(CauseType) /\ DOMAIN <<c>> = {1}
  BY <1>1
<1>3. RequestFirst(<<c>>)
  BY <1>2 DEF RequestFirst
<1> QED
  BY <1>3 DEF c

(* Joining errors without a failed request keeps it in front.               *)
LEMMA JoinedErrors ==
    ASSUME NEW a, RequestFirst(a), NEW e \in Seq(OtherCause)
    PROVE  RequestFirst(a \o e)
<1>1. a \in Seq(CauseType) /\ \A i \in 1..Len(a) : a[i].kind \in RequestCauses => i = 1
  BY DEF RequestFirst
<1>2. e \in Seq(CauseType) /\ \A i \in 1..Len(e) : e[i].kind \notin RequestCauses
  <2>1. OtherCause \subseteq CauseType
    BY DEF CauseType, CauseKind, OtherCause
  <2>2. \A i \in 1..Len(e) : /\ e[i] \in OtherCause
                              /\ e[i].kind \in OtherCauses
    <3>1. \A i \in 1..Len(e) : e[i] \in OtherCause
      OBVIOUS
    <3> QED
      BY <3>1 DEF OtherCause
  <2>3. \A k \in OtherCauses : k \notin RequestCauses
    BY DEF OtherCauses, RequestCauses, NetErrors, UrlErrors
  <2>4. e \in Seq(CauseType)
    BY <2>1, <2>2
  <2> QED
    BY <2>2, <2>3, <2>4
<1>3. /\ a \o e \in Seq(CauseType) /\ Len(a \o e) = Len(a) + Len(e)
      /\ Len(a) \in Nat /\ Len(e) \in Nat
      /\ \A i \in 1..(Len(a) + Len(e)) :
           (a \o e)[i] = IF i <= Len(a) THEN a[i] ELSE e[i - Len(a)]
  BY <1>1, <1>2
<1>4. \A i \in DOMAIN (a \o e) : (a \o e)[i].kind \in RequestCauses => i = 1
  <2> SUFFICES ASSUME NEW i \in 1..(Len(a) + Len(e)), (a \o e)[i].kind \in RequestCauses
               PROVE  i = 1
    BY <1>3
  <2>1. CASE i <= Len(a)
    BY <2>1, <1>1, <1>3
  <2>2. CASE ~(i <= Len(a))
    <3>1. i - Len(a) \in 1..Len(e)
      BY <2>2, <1>3
    <3> QED
      BY <2>2, <3>1, <1>2, <1>3
  <2> QED
    BY <2>1, <2>2
<1> QED
  BY <1>3, <1>4 DEF RequestFirst

LEMMA RequestErrors ==
    ASSUME NEW x \in Exchanges, NEW wantsResult \in BOOLEAN
    PROVE  RequestFirst(sendRequest(x, wantsResult))
<1>1. /\ x.transport \in OtherCauses \cup {"none"} /\ x.status \in Nat
      /\ x.body \in OtherCauses \cup {"good", "invalid"}
  BY ErrorAssumption
<1>2. "http" \in CauseKind /\ "opaque" \in CauseKind
      /\ "urlError" \in CauseKind /\ "urlTimeout" \in CauseKind
      /\ OtherCauses \subseteq CauseKind
  BY DEF CauseKind, RequestCauses, OtherCauses, UrlErrors
<1>3. \A k \in CauseKind : RequestFirst(Cause(k))
  BY OneCause DEF Cause
<1>4. RequestFirst(HTTPStatusError(x.status))
  BY <1>1, <1>2, OneCause DEF HTTPStatusError
<1>5. RequestFirst(NoError)
  BY DEF RequestFirst, NoError
<1>6. RequestFirst(Decode(x.body))
  BY <1>1, <1>2, <1>3, <1>5 DEF Decode
<1>7. x.transport # "none" => RequestFirst(DoError(x.transport))
  <2> SUFFICES ASSUME x.transport \in OtherCauses PROVE RequestFirst(DoError(x.transport))
    BY <1>1
  <2>1. PICK u \in {"urlTimeout", "urlError"} : DoError(x.transport) = Cause(u) \o Cause(x.transport)
    BY DEF DoError
  <2>2. RequestFirst(Cause(u))
    BY <1>2, <1>3
  <2>3. Cause(x.transport) \in Seq(OtherCause)
    <3>1. [kind |-> x.transport, code |-> 0] \in OtherCause
      BY DEF OtherCause
    <3> QED
      BY <3>1 DEF Cause
  <2> QED
    BY <2>1, <2>2, <2>3, JoinedErrors
<1>8. \/ x.transport # "none" /\ sendRequest(x, wantsResult) = DoError(x.transport)
      \/ sendRequest(x, wantsResult) = NoError
      \/ sendRequest(x, wantsResult) = HTTPStatusError(x.status)
      \/ sendRequest(x, wantsResult) = Cause("opaque")
      \/ sendRequest(x, wantsResult) = Decode(x.body)
  BY DEF sendRequest
<1> QED
  BY <1>2, <1>3, <1>4, <1>5, <1>6, <1>7, <1>8

LEMMA SessionErrorShape == \A e \in SessionErrors : RequestFirst(e)
<1>1. \A e \in Errors \cup {NoError} :
        e \in Seq(OtherCause) /\ RequestFirst(e)
  <2>1. \A e \in Errors \cup {NoError} : e \in Seq(OtherCause)
    <3>1. \A e \in Errors : e \in Seq(OtherCause)
      BY ErrorAssumption DEF OtherCause
    <3>2. NoError \in Seq(OtherCause)
      BY DEF NoError
    <3> QED
      BY <3>1, <3>2
  <2>2. RequestFirst(<<>>)
    BY DEF RequestFirst
  <2>3. ASSUME NEW e \in Seq(OtherCause) PROVE RequestFirst(e)
    <3>1. RequestFirst(<<>> \o e)
      BY <2>2, JoinedErrors
    <3>2. <<>> \o e = e
      OBVIOUS
    <3> QED
      BY <3>1, <3>2
  <2> QED
    BY <2>1, <2>3
<1>2. \A s \in CheckErrors : RequestFirst(s)
  BY RequestErrors DEF CheckErrors, Check
<1>3. \A e \in ScanErrors : RequestFirst(e)
  <2>1. ASSUME NEW s \in CheckErrors \cup Errors, NEW e \in Errors \cup {NoError}
        PROVE  RequestFirst(s \o e)
    <3>1. RequestFirst(s) /\ e \in Seq(OtherCause)
      BY <1>1, <1>2
    <3> QED
      BY <3>1, JoinedErrors
  <2>2. \A e \in ScanErrors : \E s \in CheckErrors \cup Errors, f \in Errors \cup {NoError} :
          e = s \o f
    BY SMTT(30) DEF ScanErrors
  <2> QED
    BY <2>1, <2>2, Zenon
<1>4. \A e \in LearnErrors : RequestFirst(e)
  <2> SUFFICES ASSUME NEW x \in Exchanges, learnError(Learn(x)) # NoError
               PROVE  RequestFirst(learnError(Learn(x)))
    BY DEF LearnErrors
  <2>1. learnError(Learn(x)) = Learn(x)
    BY DEF learnError
  <2> QED
    BY <2>1, RequestErrors DEF Learn
<1> QED
  BY <1>1, <1>3, <1>4 DEF SessionErrors

(* errors.As finds the first cause of a kind.                               *)
LEMMA FirstCause ==
    ASSUME NEW e \in Seq(CauseType), NEW kinds, Has(e, kinds)
    PROVE  \E i \in DOMAIN e : /\ FirstOf(e, kinds) = e[i] /\ e[i].kind \in kinds
                               /\ \A j \in 1..(i - 1) : e[j].kind \notin kinds
<1> DEFINE hits == {i \in DOMAIN e : e[i].kind \in kinds}
<1>1. hits \in SUBSET Nat /\ hits # {} /\ DOMAIN e = 1..Len(e) /\ Len(e) \in Nat
  BY DEF Has
<1>2. PICK i \in hits : \A y \in hits : i <= y
  BY <1>1, LeastNatural
<1>3. \A j \in 1..(i - 1) : e[j].kind \notin kinds
  <2> SUFFICES ASSUME NEW j \in 1..(i - 1), e[j].kind \in kinds PROVE FALSE
    OBVIOUS
  <2>1. j \in hits /\ ~(i <= j)
    BY <1>1
  <2> QED
    BY <1>2, <2>1
<1>4. \E k \in DOMAIN e : /\ e[k].kind \in kinds
                          /\ \A j \in 1..(k - 1) : e[j].kind \notin kinds
  BY <1>2, <1>3
<1> QED
  BY <1>4 DEF FirstOf

LEMMA HiddenTimeout ==
    ASSUME NEW e, RequestFirst(e), ~IsRetryableError(e), NEW i \in DOMAIN e,
           IsRetryableError(<<e[i]>>)
    PROVE  /\ e[i].kind = "ioTimeout"
           /\ Has(SubSeq(e, 1, i - 1), {"urlError", "netError"})
<1>0. e \in Seq(CauseType) /\ DOMAIN e = 1..Len(e) /\ Len(e) \in Nat /\ i \in 1..Len(e)
      /\ e[i] \in CauseType
  BY DEF RequestFirst
<1>1. \/ e[i].kind = "http" /\ Retryable(e[i].code)
      \/ e[i].kind \in Timeouts
      \/ e[i].kind \in RetryableCauses
  <2>1. <<e[i]>> \in Seq(CauseType) /\ DOMAIN <<e[i]>> = {1} /\ <<e[i]>>[1] = e[i]
    BY <1>0
  <2>2. \A kinds : Has(<<e[i]>>, kinds) =>
          FirstOf(<<e[i]>>, kinds) = e[i] /\ e[i].kind \in kinds
    BY <2>1, FirstCause DEF Has
  <2> QED
    BY <2>2 DEF IsRetryableError
<1>f. ASSUME NEW kinds, e[i].kind \in kinds, i = 1 PROVE FirstOf(e, kinds) = e[i]
  <2>1. Has(e, kinds)
    BY <1>f DEF Has
  <2>2. PICK k \in DOMAIN e : /\ FirstOf(e, kinds) = e[k]
                              /\ \A j \in 1..(k - 1) : e[j].kind \notin kinds
    BY <1>0, <2>1, FirstCause
  <2>3. k = 1
    BY <1>0, <1>f, <2>2
  <2> QED
    BY <1>f, <2>2, <2>3
<1>2. ~(e[i].kind = "http" /\ Retryable(e[i].code))
  <2> SUFFICES ASSUME e[i].kind = "http", Retryable(e[i].code) PROVE FALSE
    OBVIOUS
  <2>1. Has(e, {"http"}) /\ i = 1
    BY DEF Has, RequestFirst, RequestCauses
  <2>2. FirstOf(e, {"http"}) = e[i]
    BY <2>1, <1>f
  <2> QED
    BY <2>1, <2>2 DEF IsRetryableError
<1>3. e[i].kind \notin RetryableCauses
  BY DEF IsRetryableError, Has
<1>u. e[i].kind # "urlTimeout"
  <2> SUFFICES ASSUME e[i].kind = "urlTimeout" PROVE FALSE
    OBVIOUS
  <2>1. Has(e, NetErrors) /\ i = 1 /\ e[i].kind \in NetErrors
    BY DEF Has, RequestFirst, RequestCauses, NetErrors, UrlErrors
  <2>2. FirstOf(e, NetErrors) = e[i]
    BY <2>1, <1>f
  <2> QED
    BY <2>1, <2>2 DEF IsRetryableError, Timeouts
<1>4. e[i].kind = "ioTimeout"
  BY <1>1, <1>2, <1>3, <1>u DEF Timeouts, RetryableCauses, NetErrors, UrlErrors
<1>5. Has(e, NetErrors)
  BY <1>4 DEF Has, NetErrors
<1>6. PICK k \in DOMAIN e : /\ FirstOf(e, NetErrors) = e[k] /\ e[k].kind \in NetErrors
                            /\ \A j \in 1..(k - 1) : e[j].kind \notin NetErrors
  BY <1>0, <1>5, FirstCause
<1>7. e[k].kind \in {"urlError", "netError"}
  <2>1. e[k].kind \notin Timeouts /\ e[k].kind \notin RetryableCauses
    BY <1>5, <1>6 DEF IsRetryableError, Has
  <2> QED
    BY <1>6, <2>1 DEF NetErrors, UrlErrors, Timeouts, RetryableCauses
<1>8. k \in 1..(i - 1)
  <2>1. i \notin 1..(k - 1)
    BY <1>4, <1>6 DEF NetErrors
  <2>2. k # i
    BY <1>4, <1>7
  <2> QED
    BY <1>0, <1>6, <2>1, <2>2
<1>9. /\ DOMAIN SubSeq(e, 1, i - 1) = 1..(i - 1)
      /\ SubSeq(e, 1, i - 1)[k] = e[k]
  BY <1>0, <1>8
<1> QED
  BY <1>4, <1>7, <1>8, <1>9 DEF Has

(* What Run gives up on, it has found to be not retryable.                  *)
GivenUpInv ==
    /\ RunnerInv
    /\ result = "nonRetryable" =>
         pc = "returned" /\ err \in SessionErrors /\ ~IsRetryableError(err)

LEMMA NextGivenUp == GivenUpInv /\ [Next]_vars => GivenUpInv'
<1> SUFFICES ASSUME GivenUpInv, [Next]_vars PROVE GivenUpInv'
  OBVIOUS
<1>1. RunnerInv /\ RunnerInv'
  BY NextRunner DEF GivenUpInv
<1>2. CASE NonRetryable
  BY <1>1, <1>2 DEF NonRetryable, Return, errVars, RunnerInv, GivenUpInv
<1>3. CASE Cancel \/ UNCHANGED vars
  BY <1>1, <1>3 DEF Cancel, errVars, vars, GivenUpInv
<1>4. CASE \/ CheckContext \/ FnFails \/ FnReturnsNil \/ CheckContextAfterFn
           \/ MaxRetriesExceeded \/ Pause \/ PauseCancelled \/ Wake
  <2>1. pc # "returned" /\ result' \in {result, "nil", "exceeded"}
    BY <1>4 DEF CheckContext, FnFails, FnReturnsNil, CheckContextAfterFn,
       MaxRetriesExceeded, Pause, PauseCancelled, Wake, Return
  <2> QED
    BY <1>1, <2>1 DEF GivenUpInv, RunnerInv
<1> QED
  BY <1>2, <1>3, <1>4 DEF Next, Run

(* Run never gives up on an error that joins a temporary cause, wherever in  *)
(* it that is and however long it has become, except for an I/O timeout      *)
(* behind a net.Error that is not one: the url.Error of a request to Rspamd  *)
(* that failed without a timeout, or the error of a local file.             *)
THEOREM TemporaryErrorsRetried == Spec => []TemporaryIsRetried
<1>1. Init => GivenUpInv
  BY InitRunner DEF Init, GivenUpInv
<1>2. GivenUpInv => TemporaryIsRetried
  BY SessionErrorShape, HiddenTimeout DEF GivenUpInv, TemporaryIsRetried
<1> QED
  BY <1>1, <1>2, NextGivenUp, PTL DEF Spec
=============================================================================

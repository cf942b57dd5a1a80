----------------------------- MODULE RetryRunner -----------------------------
(***************************************************************************)
(* retry.Runner.Run around main.monitor: the loop that keeps the daemon     *)
(* alive.  A call of Fn is one session; it fails with an error, or it       *)
(* returns nil, which main.monitor does only after a signal.  The signal    *)
(* cancels the runner's context at any time.                                *)
(*                                                                          *)
(* A session fails with what Rspamd answers to a mail that is scanned or    *)
(* learned, or with an error of the IMAP connection or a local file.        *)
(***************************************************************************)
EXTENDS Rspamc, Integers

CONSTANTS
    Errors,                 \* of IMAP, local files and timeouts, alone or joined
    Exchanges,              \* what may become of a request to Rspamd
    MaxRetriesSameError,
    RetryIntervals,         \* a sequence of pauses
    MaxCalls                \* bound: calls of Fn

ASSUME RetryAssumption == /\ MaxRetriesSameError \in Nat
                          /\ RetryIntervals \in Seq(Nat) /\ RetryIntervals # <<>>
                          /\ MaxCalls \in Nat
(* Only a request to Rspamd fails with a url.Error or an HTTPStatusError.   *)
ASSUME ErrorAssumption ==
    /\ \A e \in Errors : e \in Seq([kind : OtherCauses, code : Nat])
    /\ \A x \in Exchanges :
         /\ x.transport \in OtherCauses \cup {"none"} /\ x.status \in Nat
         /\ x.json \in BOOLEAN /\ x.body \in OtherCauses \cup {"good", "invalid"}

VARIABLES
    pc,             \* "top", "fn", "failed", "classify", "sleep", "returned"
    cancelled,      \* ctx.Err() # nil
    err,            \* the error of the last call of Fn
    origin,         \* what has failed: "scan", "learn" or "imap"
    lastErrorKey, failures,
    result,         \* what Run returned
    history         \* per counted failure: its key and the pause after it

vars == <<pc, cancelled, err, origin, lastErrorKey, failures, result, history>>

NoKey == <<"", 0>>
NoPause == -1

Init ==
    /\ pc = "top" /\ cancelled = FALSE
    /\ err = NoError /\ origin = "none"
    /\ lastErrorKey = NoKey /\ failures = 0
    /\ result = "none" /\ history = <<>>

Return(r) == pc' = "returned" /\ result' = r
errVars == <<err, origin>>
Counters == <<lastErrorKey, failures, history>>

(* SIGINT or SIGTERM. *)
Cancel ==
    /\ ~cancelled /\ pc # "returned"
    /\ cancelled' = TRUE
    /\ UNCHANGED <<pc, errVars, result, Counters>>

CheckContext ==
    /\ pc = "top"
    /\ IF cancelled THEN Return("nil") ELSE pc' = "fn" /\ UNCHANGED result
    /\ UNCHANGED <<cancelled, errVars, Counters>>

(* Mutant: learn returns whatever Rspamd has refused a mail with.           *)
learnErrorAny(e) == e

(* What learn makes of the error of learnFn: one that is neither due to the *)
(* context nor temporary only ends the phase.                               *)
learnError(e) ==
    IF Has(e, {"Canceled", "DeadlineExceeded"}) \/ IsRetryableError(e)
    THEN e ELSE NoError

(* The error of processScanBox joins that of the mail downloadAndScan failed *)
(* for, in Rspamd, while reading it from the server or in its local file,   *)
(* and those of moving and uploading the mails before it.                   *)
CheckErrors == {Check(x) : x \in Exchanges} \ {NoError}
ScanErrors == {s \o e : s \in CheckErrors \cup Errors, e \in Errors \cup {NoError}}
LearnErrors == {learnError(Learn(x)) : x \in Exchanges} \ {NoError}
SessionErrors == ScanErrors \cup LearnErrors \cup Errors

(* A request is cancelled by a signal only.                                 *)
FnFails ==
    /\ pc = "fn" /\ Len(history) < MaxCalls
    /\ \/ origin' = "scan" /\ err' \in ScanErrors
       \/ origin' = "learn" /\ err' \in LearnErrors
       \/ origin' = "imap" /\ err' \in Errors
    /\ Has(err', {"Canceled"}) => cancelled
    /\ pc' = "failed"
    /\ UNCHANGED <<cancelled, result, Counters>>

(* main.monitor returns nil when its context has ended.                     *)
FnReturnsNil ==
    /\ pc = "fn" /\ cancelled
    /\ Return("nil")
    /\ UNCHANGED <<cancelled, errVars, Counters>>

(* Mutant: the context is not looked at again after a failure.              *)
CheckContextAfterFnSkipped ==
    /\ pc = "failed"
    /\ pc' = "classify" /\ UNCHANGED result
    /\ UNCHANGED <<cancelled, errVars, Counters>>

CheckContextAfterFn ==
    /\ pc = "failed"
    /\ IF cancelled THEN Return("nil") ELSE pc' = "classify" /\ UNCHANGED result
    /\ UNCHANGED <<cancelled, errVars, Counters>>

NonRetryable ==
    /\ pc = "classify" /\ ~IsRetryableError(err)
    /\ Return("nonRetryable")
    /\ UNCHANGED <<cancelled, errVars, Counters>>

(* Mutant: failures of another kind are added up.                           *)
failuresNowTotal == failures + 1

failuresNow == IF RetryKey(err) = lastErrorKey THEN failures + 1 ELSE 1

(* Mutant: no pause beyond the last interval.                               *)
sleepTimeNone(n) == IF n <= Len(RetryIntervals) THEN RetryIntervals[n] ELSE 0

sleepTime(n) == IF n <= Len(RetryIntervals) THEN RetryIntervals[n]
                ELSE RetryIntervals[Len(RetryIntervals)]

Count(pause) ==
    /\ failures' = failuresNow
    /\ lastErrorKey' = RetryKey(err)
    /\ history' = Append(history, [key |-> RetryKey(err), pause |-> pause])

MaxRetriesExceeded ==
    /\ pc = "classify" /\ IsRetryableError(err)
    /\ failuresNow >= MaxRetriesSameError
    /\ Count(NoPause)
    /\ Return("exceeded")
    /\ UNCHANGED <<cancelled, errVars>>

Pause ==
    /\ pc = "classify" /\ IsRetryableError(err)
    /\ failuresNow < MaxRetriesSameError
    /\ Count(sleepTime(failuresNow))
    /\ pc' = "sleep" /\ err' = NoError /\ origin' = "none"
    /\ UNCHANGED <<cancelled, result>>

Wake ==
    /\ pc = "sleep"
    /\ pc' = "top"
    /\ UNCHANGED <<cancelled, errVars, result, Counters>>

(* Mutant: the pause is not interrupted.                                    *)
PauseUninterruptible == FALSE

PauseCancelled ==
    /\ pc = "sleep" /\ cancelled
    /\ Return("nil")
    /\ UNCHANGED <<cancelled, errVars, Counters>>

Run == \/ CheckContext \/ FnFails \/ FnReturnsNil \/ CheckContextAfterFn
       \/ NonRetryable \/ MaxRetriesExceeded \/ Pause \/ PauseCancelled

Next == Cancel \/ Run \/ Wake

Spec == Init /\ [][Next]_vars
-----------------------------------------------------------------------------
(* The runner's state is of its kind, and every pause one of RetryIntervals. *)
TypeOK ==
    /\ pc \in {"top", "fn", "failed", "classify", "sleep", "returned"}
    /\ cancelled \in BOOLEAN
    /\ err \in SessionErrors \cup {NoError}
    /\ origin \in {"none", "scan", "learn", "imap"}
    /\ failures \in Nat
    /\ result \in {"none", "nil", "nonRetryable", "exceeded"}
    /\ (pc = "returned") <=> (result # "none")
    /\ \A i \in DOMAIN history :
         history[i].pause \in {NoPause} \cup {RetryIntervals[k] : k \in DOMAIN RetryIntervals}

(* failures is the number of failures at the end of the history that have   *)
(* the key of the last one: failures of different kinds are never added up, *)
(* and Run gives up exactly when MaxRetriesSameError of them are equal.     *)
FailuresAreConsecutive ==
    LET n == Len(history) IN
      /\ failures <= n
      /\ \A i \in (n - failures + 1)..n : history[i].key = lastErrorKey
      /\ failures < n => history[n - failures].key # lastErrorKey
      /\ result = "exceeded" => failures >= MaxRetriesSameError
      /\ result # "exceeded" => failures < MaxRetriesSameError \/ failures = 0

(* The pauses grow along RetryIntervals while the same error repeats, and   *)
(* start over when the error changes.                                       *)
BackoffFollowsIntervals ==
    \A i \in 1..Len(history) : history[i].pause # NoPause =>
      \/ history[i].pause = RetryIntervals[1]
           /\ (i > 1 => history[i - 1].key # history[i].key)
      \/ /\ i > 1 /\ history[i - 1].key = history[i].key
         /\ \E k \in 1..Len(RetryIntervals) :
              /\ history[i].pause = RetryIntervals[k]
              /\ \/ k > 1 /\ history[i - 1].pause = RetryIntervals[k - 1]
                 \/ /\ k = Len(RetryIntervals)
                    /\ history[i - 1].pause = RetryIntervals[k]

(* One temporary cause, wherever it is in the joined errors of a phase, is  *)
(* enough for another attempt, except for an I/O timeout: errors.As does    *)
(* not reach it behind another net.Error, and so a request to Rspamd that    *)
(* failed without an answer and without a timeout, whatever its cause, or a  *)
(* failed operation on a local file, hides a timeout of the IMAP server.    *)
TemporaryIsRetried ==
    result = "nonRetryable" =>
      \A i \in DOMAIN err : IsRetryableError(<<err[i]>>) =>
        err[i].kind = "ioTimeout" /\ Has(SubSeq(err, 1, i - 1), {"urlError", "netError"})

(* A mail that Rspamd refuses to learn is never an error that makes the      *)
(* daemon exit at once, unlike one it refuses to scan: learn drops the       *)
(* errors that Run would give up on, but for the one of a cancelled request, *)
(* which finds Run cancelled.  What learn passes on does end the daemon     *)
(* when it has repeated up to the limit of equal failures.                  *)
LearningIsSurvived == result = "nonRetryable" => origin # "learn"

(* A signal before a session has failed, or during the pause, never makes   *)
(* the daemon exit with an error.                                           *)
CleanShutdown ==
    [](cancelled /\ pc \in {"top", "fn", "failed", "sleep"} =>
         [](result \notin {"nonRetryable", "exceeded"}))

(* Run goes on, but a pause need not end. *)
FairSpec == Spec /\ WF_vars(Run)

(* Run returns after a signal, without waiting for the pause to end.        *)
ShutdownReturns == cancelled ~> pc = "returned"
=============================================================================

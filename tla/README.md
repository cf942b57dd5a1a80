# A TLA+ model of rspamd-iscan

rspamd-iscan is a daemon between an IMAP server and Rspamd. It watches a *scan
mailbox*, lets Rspamd check each new mail, moves the unmodified original to a
*backup mailbox* and uploads a variant with Rspamd's headers to the *inbox* or the
*spam mailbox*. The user reports mistakes by filing mails in the *ham* or the
*undetected* mailbox; these are sent to Rspamd for learning and moved on.

This directory holds its specification: TLA+ modules, the TLC configurations that
check them on small instances, and proofs checked by TLAPS. `PROJECT.json` lists the
runs, the source lines behind each definition, the hazards, the findings and the
theorems in machine-readable form.

    tlc -workers 2 -config MCMailFlow_flow.cfg MCMailFlow
    tlapm MailDeliveryProofs.tla

## 1. Inventory

| part | state | operations | interacts with |
|---|---|---|---|
| `iscan` mail flow (`internal/iscan/client.go`) | none that survives a pass: the lists of one pass (`scannedMails`, `malformedMailsUIDs`, `processedMsgUIDs`), temporary files. What survives is in the mailboxes. | `processScanBox`, `downloadAndScan`, `replaceWithModifiedMails`, `processHam`, `processSpam`, `learn` | calls `imapclt`, `mail` and `rspamc`; run by `runIMAPPhase` |
| `iscan` lifecycle (same file) | `ctx`, `wgRun`, `transportCloseOnce`, `stopOnce`, timers | `Monitor`, `runIMAPPhase`, `startMonitor`, `stopIDLE`, `closeTransport`, `Stop`, `RunOnce` | goroutines and channels around every call that may block in go-imap |
| `iscan` config | mailbox names, threshold | `validate` | read by the above |
| `imapclt` connection | the raw connection, `c.clt`, goroutines for STARTTLS and LOGIN | `ConnectContext`, `dialContext`, `dialInsecureContext`, `Close` | one per session, made by `main` |
| `imapclt` commands | `newMessagesCh` under `mu` | `Monitor` and its stop function, `mailboxUpdateHandler`, `Messages`, `Move`, `MarkSeen`, `Upload` | go-imap calls the handler from its reader goroutine; `Move` becomes one command or three |
| `mail` | files in `TempDir` and `os.TempDir()` | `AsHeader`, `AddHeaders`, `ReplaceHeader` | called per scanned mail |
| `rspamc` | none | `Check`, `Ham`, `Spam` | HTTP; its status errors are classified by `neterr` |
| `neterr` | none | `IsRetryableError`, `RetryKey` | used by `retry` and `learn` |
| `retry` | `lastErrorKey`, `failures` | `Run` | runs `main.monitor` again and again |
| `main` | signal context | `run`, `monitor`, `runOnceAndTerminate` | one connection and one `iscan.Client` per session |
| `config`, `log`, `testutils` | none | reading files, logging, test support | |

What is hard in this code:

* **No record of progress.** A mail is moved to the backup mailbox and then uploaded.
  A crash, a timeout, a lost answer or a refused command may come between any two
  steps, and the next session knows only what the mailboxes tell it.
* **Late effects.** A command whose connection broke may still be executed while the
  next session is already scanning.
* **A move in three parts.** Without the MOVE capability go-imap sends COPY, STORE and
  EXPUNGE without waiting; each may be refused on its own, and EXPUNGE may hit what
  another mail client has flagged.
* **Mails that fail each time.** A mail that cannot be scanned, rewritten or learned
  comes first again in every pass.
* **Streams.** The end of the header and the subject are searched for in chunks and
  lines of a stream, while files are created, renamed and removed around it.
* **Abandoned goroutines.** go-imap has no deadlines. A phase, a STARTTLS or a LOGIN
  that does not end is abandoned after its transport was closed, and lives on.
* **Shared transport and event channel.** IDLE and commands exclude each other; the
  reader sends on a channel the stop function closes; updates outside IDLE are lost.
* **Shutdown.** Every wait must be bounded although anything in go-imap may hang.
* **Classification.** Whether the daemon lives on depends on what joined errors are
  taken for, and on a counter nobody resets.

What makes the parts correct, and is stated below: each mail is delivered at most once
and only when its original is safe; filing follows the score; Rspamd learns what the
user said and nothing else; reported mails are not lost; the uploaded variant is the
mail with the new subject and the added headers and nothing else; temporary files have
an owner; what can be scanned does not stay in the scan mailbox; no connection leaks and
no password goes over a connection that must not carry it; no panic, no blocked command
and a bounded shutdown in the lifecycle; equal failures counted in a row, pauses along
the intervals, a clean exit on a signal in the retry loop.

## 2. Modules

| module | models | its state |
|---|---|---|
| `Mailboxes` | `iscan/config.go`, `isSpam`, which mailbox a phase reads and files to | constants only |
| `MailFlow` | sessions, their workers, commands in flight, the server, the user | see below |
| `MailDelivery` | abstract: what is promised for one mail | `stage`, `variants`, `verdict` per mail |
| `MailRewrite` | `downloadAndScan` step by step, `mail/mail.go` | bytes of the files, scanner flags, `pc` |
| `ImapMove` | `Client.Move` command by command, passes in UID order | mailboxes, flags, pipeline, answers |
| `ImapConnect` | `ConnectContext`, the sessions of `main.go` around it | connections, goroutines, `pc` |
| `ClientMonitor` | goroutines of one `iscan.Client`, IDLE, `Stop` | position of each goroutine, event channel, connection, mail counts |
| `NetErr` | `neterr/error.go`, `HTTPStatusError` | operators only |
| `Rspamc` | `rspamc/rspamc.go`: an HTTP exchange and its error | operators only |
| `RetryRunner` | `retry.Runner.Run` around `main.monitor` | `pc`, `cancelled`, `err`, `origin`, `lastErrorKey`, `failures`, `result`, `history` |
| `MC...` | values of the constants for TLC | |
| `MailFlowProofs`, `MailDeliveryProofs`, `MailFilingProofs` | theorems about `MailFlow`, each module on top of the one before | |
| `MailRewriteProofs`, `ImapMoveProofs`, `ImapConnectProofs`, `ClientMonitorProofs`, `RetryRunnerProofs` | theorems about the module of that name | |

How they fit together: `RetryRunner` calls sessions; what a session needs before its
client exists is `ImapConnect`; the client's goroutines are `ClientMonitor`; what its
phases do to the mailboxes is `MailFlow`, over many sessions; one step of `MailFlow`
(a scanned mail, a move) is taken apart in `MailRewrite` and `ImapMove`.

### MailFlow

A *session* is one call of `main.monitor`. Per session there is a connection (`conn`),
the command in flight on it and its answer (`request`, `reply`), the Monitor loop
(`mon`, `plan`: the phases still to run, `expired`: the phase's context has ended) and
the worker of the current phase (`work`). The server holds copies of mails: `<<m, 0>>`
is the original of `m`, `<<m, k>>` the k-th variant uploaded; `loc` is the mailbox of
each, `header` its score header. `learned` is what Rspamd was taught, `told` what the
user filed for learning.

* `Arrive`, `UserReportsSpam`, `UserReportsHam`: mails and the user.
* `ServerExecutes`, `ServerRefuses`, `RequestLost`, `ConnectionLost`: the server. A
  request outlives its connection and may be executed, unanswered, at any later time. A
  UID that has left the mailbox is ignored, as IMAP demands.
* `Messages` … `ScanLoopEnds`: the loop of `processScanBox` with `downloadAndScan`;
  `BackUp`, `Upload`, `UploadDone`, `ReplaceFails`, `ReplaceDone`, `MalformedDone`: the
  rest of it. `LearnOk` … `MoveLearnedDone`: `learn` for ham and spam.
* `Idle`, `NewMessages`, `LearnTimer`, `IdleFails`, `StartPhase`, `Expire`,
  `CloseTransport`, `Abandon`, `PhaseOk`, `PhaseFails`: Monitor and `runIMAPPhase`.
* `NewSession`, `Exit`, `Crash`, `Restart`: the process. A session that fails is either
  `"ended"`, with an error `retry.Runner` takes for a temporary one, and `NewSession`
  opens the next; or it is `"failed"`, and the daemon exits (`main.go:302-306`). Which
  of the two depends on the cause (`neterr/error.go:19-44`), and for a phase that fails
  `MonitorFails` allows both; an expired and abandoned phase is always retried. After
  `Exit` or `Crash` nothing in the code starts the daemon again: `Restart` is somebody
  outside who may do so.

Abstractions: the order in which FETCH yields messages is arbitrary (`ImapMove` has the
order); scores are two integers around the threshold; the server has the MOVE capability
(`ImapMove` has the others), and a MOVE of several mails moves those still present in
one step. That `retry.Runner` gives up after ten equal failures (`main.go:25`) lies
behind the bound on sessions; `RetryRunner` has it. Mails for which `downloadAndScan`
fails each time are a constant (`Unscannable`): `MailRewrite` says which these are. A
user who copies mails back from the backup mailbox is not modelled. `RunOnce` is a
prefix of a session; a signal is an expired context and the end of the process
(`Crash`). `closeTransport` closes the connection in one step: the goroutine that closes
it runs within the shutdown timeout (`ClientMonitor` has its steps one by one).

### MailRewrite

A mail is a sequence of bytes over a small alphabet: CR, LF, a space, a byte that stands
for `Subject:`, and any other. `disk` holds the mail's file and the two that
`ReplaceHeader` and `AddHeaders` create; `pos` is how far the current one has read.
`HeaderLine`, `SubjectLine`, `ContinuationLine`, `BlankLine`, `BodyLine` are the branches
of the loop of `replaceHeader`, with its three flags; `CopyChunk`, `InsertHeaders`,
`HeaderEndNotFound` those of `addHeaders`. `LineTooLong` is the scanner's limit. Every
call that opens, writes or renames a file may fail (`OpenFails`, `CopyFails`,
`RenameFails`), and each error path removes exactly what the code removes. `ChunkSize`
and `MaxLineLen` are 4096 and 16384 in the code.

The reference definitions look at the whole text instead of a stream: `Lines` splits
it, `FirstSubject` and `SubjectEnd` find the subject with its folded lines,
`WithNewSubject` and `InsertedAt` say what the result should be.

### ImapMove

A mail is its UID. `pipe` are the commands the server has not executed yet, in order;
`answer` is what the current `Move` has heard. A server has any subset of MOVE and
UIDPLUS. `MoveOk` is `MoveCommand.Wait` returning nil: every command was accepted.
`MoveFails` returns the first refusal, although later commands are still on their way
and are executed. `OtherClientFlags` is a mail client that marks messages `\Deleted`,
which an EXPUNGE without UIDPLUS removes as well. A pass takes the mails in front of the
first unscannable one, in the order of their UIDs; `errs` collects what went wrong in it.
`PassEnds` is a pass without an error or with one that is retried, which a refusal alone
never is; `Exit` is the end of the daemon, and `Restart` is outside of the code here too.

### ImapConnect

`pc` is the position of `main` from dialing to the end of the session. `starter` and
`login` are the goroutines of `NewStartTLS` and `Login` by attempt, which go on after
`ConnectContext` has returned; `reader` are go-imap's readers by connection; `Close`
waits for them, unless closing the connection reports an error. `conn` is our end of a
connection, `alive` are those whose other end is there, `secure` those with TLS, `sent`
those LOGIN was written to. `main` always passes `AllowInsecure = false`;
`allowInsecure` is free here, as the option is part of the package and used by its
tests.

### ClientMonitor

One client with everything that runs concurrently. `mon` is the position of Monitor,
including its waits inside `runIMAPPhase`, `startMonitor`, `stopIDLE` and
`closeTransport`; `worker`, `starter`, `stopper` and `closer` are the goroutines these
start, `stop` is `Stop`. `newMessagesCh`, `chClosed` and `buf` are the event channel,
`update` is an EXISTS on its way to the handler, `reported` says whether the client has
been told of the last change. Timers fire at any time. A phase is reduced to the
mails its FETCH has yielded (`fetched`) and to success or failure; mails that arrive
after the FETCH stay. `ConnectionLost`, refused commands and failing phases are counted
as `faults`. A goroutine whose result was received is forgotten.

### RetryRunner, NetErr and Rspamc

An error is the sequence of its causes, in the order `errors.Is` and `errors.As` visit
what is wrapped and joined. What a request to Rspamd failed with is always behind a
`url.Error` (`DoError`), which is a `net.Error` itself; a `"netError"` is any other that
is no timeout, such as a failed DNS lookup or the `syscall.Errno` of a local file; an
`"opaque"` cause is none, in particular what go-imap formats with `%v`. A session fails
with an error of IMAP or of a local file, with what `downloadAndScan` fails with for one
mail (an HTTP exchange with Rspamd, IMAP or the mail's file, `ScanErrors`), joined with
errors of the rest of the pass, or with what `learn` passes on of it (`learnError`);
`origin` remembers which. `RetryRunner` has one action per step of `Run`, and records
each counted failure with its key and the pause after it in `history`.

## 3. Runs

Passing runs (distinct states are rounded):

| run | bounds | shows |
|---|---|---|
| `flow` (1.5M) | 2 mails (symmetric) and one unscannable, 2 sessions, 2 faults, scores 9 and 10 with threshold 10, ham learning off | `TypeOK`, the inductive `FlowInv`, `AtMostOnceDelivery`, `DeliveredIsBackedUp`, `FiledByVerdict`, `TempFilesOwned`, `UnscannableStays`, `AbandonedIsSilent` |
| `learn` (4.7M) | 2 mails, one of them refused by Rspamd, and a malformed one, 2 reports of the user, 2 sessions, 1 fault | `TrainedAsTold`, `ReportsAreLearned` |
| `live` (190k) | 2 mails, one of which Rspamd refuses to learn, 2 reports, 2 sessions, 1 fault, fair | `DeliversMail` (refinement of `MailDelivery`), `ScanBoxDrains`, `ReportsAreHandled` |
| `rewrite` (2.4M) | all mails of up to 6 lines, 8-byte chunks, lines of up to 8 bytes, 1 failing call | `TypeOK`, `SubjectReplaced`, `HeadersInserted`, `GivenUpForCause`, `FilesRemoved` |
| `move` (610k) | 4 mails, the third unscannable, 2 faults, all four sets of capabilities, fair | `LostOnlyByFallback`, `UploadedIsKept`, `UploadedOnce`, `ScanMailboxDrains` |
| `connect` (150k) | 2 attempts, 3 faults, any configuration, fair | `NoConnectionLeaks`, `PasswordIsProtected`, `ConnectIsBounded`, `GoroutinesEnd` |
| `monitor` (470k) | 2 mails, 1 fault, 1 timeout; goroutines in go-imap may hang | `TypeOK`, `NoSendOnClosedChannel`, `TransportHasOneUser`, `EventChannelLives`, `StoppedIsStopped`, `CancelEndsMonitor`, `StopIsBounded`, `NewMailIsNoticed` |
| `retry` (720k) | 12 exchanges with Rspamd, joined with 4 errors of IMAP and local files, limit 4, 2 intervals, 5 calls, fair | `FailuresAreConsecutive`, `BackoffFollowsIntervals`, `TemporaryIsRetried`, `LearningIsSurvived`, `CleanShutdown`, `ShutdownReturns` |

What the less obvious properties say:

* `AbandonedIsSilent`: a worker that outlived its session never sends a command again;
  its connection was closed before it was abandoned.
* `TempFilesOwned`: every temporary file belongs to a worker that will still remove it,
  or to a crash.
* `SubjectReplaced` and `HeadersInserted` compare the stream algorithms with their
  definitions on the whole text, for every mail of the bound, well-formed or not.
  `HeadersInserted` states what the code does at chunk boundaries; that this is not what
  is wanted is the finding `split`.
* `GivenUpForCause`: a mail is left unscanned only when a call failed, the subject to be
  replaced is missing, a line is too long, the end of the header was not found or
  Rspamd's result makes no header.
* `LostOnlyByFallback`: an original leaves both mailboxes only without MOVE, when its
  COPY was refused, or another client had flagged it and the server lacks UIDPLUS.
* `UploadedIsKept`: with MOVE or UIDPLUS, what was uploaded has its original in the
  backup mailbox; `UploadedOnce`: a `Move` that did not remove the mail from the scan
  mailbox is never taken for a success.
* `NewMailIsNoticed`: although an EXISTS outside of IDLE is dropped, each mail is
  scanned or the session ends.
* `ScanBoxDrains`, `ReportsAreHandled`, `ScanMailboxDrains`: what a pass has left is
  handled by a later one, or the daemon has ended: a refused command, a refused SELECT or
  a failed local file is not retryable, and the code does not start itself again.
  `ReportsAreHandled` moreover has to except a mailbox that is `Blocked`: as long as a
  mail that Rspamd refuses to learn is in it, `learn` returns before it moves the mails it
  has learned (`iscan/client.go:203-208`), so a mail Rspamd accepts stays there as well.
* `TemporaryIsRetried`: one temporary cause anywhere in a joined error is enough for
  another attempt, with one exception. `errors.As` stops at the first `net.Error`, so a
  timeout that only shows in `Timeout()` (an IMAP write past its deadline) is hidden by
  any other in front: a request to Rspamd that failed, whatever its cause, unless that was
  a timeout too, or a local file that could not be read or written.
* `LearningIsSurvived`: unlike scanning, learning never makes the daemon exit at once
  with a non-retryable error, whatever Rspamd answers; up to the limit of equal failures.

Why the bounds suffice. Two mails are what a pass needs to fail between one mail and the
next; two sessions are needed for a late command or an abandoned worker to meet a
successor. `MaxUploads` is at least 2, so the bound never hides a second upload. The
fair runs of `MailFlow` have a session more than faults, so that the bound on sessions
never ends the retries. The scores are below and equal to the threshold. In `rewrite` a
mail has room for a header, a folded subject, a second one, the empty line and a body;
the chunk is long enough for the delimiter and short enough for every alignment with it;
a line is shorter than, as long as and longer than the buffer. In `move` one mail is
behind the unscannable one and two are in front, so that commands of a failed move meet
those of the next. In `connect` the second attempt meets the goroutines of the first,
and three faults allow for a refused STARTTLS, a failing fallback and a broken
connection. In `retry` there are more failures than intervals and one call more than the
limit. In `monitor` two mails make an update meet a full channel or an event that is
older than the mailbox. Deadlock checking is off everywhere: the bounds stop the system,
and a daemon that has been stopped stops.

Each property has a mutant, an operator with `Mutant` in its comment that changes one
definition as a plausible bug would; with it TLC finds the property violated.

### Fairness

* `MailFlow!FairSpec`: goroutines are scheduled, the server executes commands on an
  open connection, timers fire, the daemon is started once, and the retry loop opens a new
  session after a retryable error (`NewSession`), which `retry.Run` does without a further
  condition before the limit of equal failures; after any other error the process exits
  (`Exit`). No supervisor is assumed: `Restart` is possible, but not fair. Arrivals, the
  user and faults are not fair either.
* `RetryRunner!FairSpec`: the steps of `Run`, but not the end of a pause (`Wake`).
* `ImapMove!Fairness`: the client goes on and the server executes what it has received;
  refusals, lost connections, arrivals, the other mail client and `Restart` are not fair.
* `ImapConnect!Fairness`: only `main`, and goroutines whose connection is broken. The
  server need not answer anything: this is the point of the context.
* `ClientMonitor!BoundedSpec`: only Monitor, Stop and their timers. Nothing that runs in
  go-imap is fair.
* `ClientMonitor!NothingHangs`, the hypothesis of `NewMailIsNoticed`: every goroutine,
  the server's answers and the idle timer are weakly fair, the learn timer is not.
  `NewMessages` is strongly fair since Go's `select` picks at random among the cases
  that are ready.

### Findings

Four runs end with a counterexample to what the README or a comment of the repository
says:

* `undelivered` (`NewMailIsUploaded`): a fault between the move to the backup mailbox
  and the upload leaves the mail undelivered for good, although the daemon goes on.
* `split` (`HeadersAreInHeader`): when the empty line that ends the header lies across
  two 4096-byte reads, the headers are added in the body, or the mail is given up.
* `lost` (`OriginalIsKept`): without MOVE a refused COPY does not keep the pipelined
  STORE and EXPUNGE from deleting the mail, and its variant is dropped.
* `blocked` (`NewMailsAreScanned`): a mail that cannot be scanned keeps all mails with a
  higher UID unscanned, even if one pass follows the other for ever.

Observations without a run of their own:

* A mail Rspamd refuses to learn ends the pass of `learn` without moving the mails
  learned before it (`iscan/client.go:208`); they are learned again in every pass,
  although the README (lines 22-23) says they are moved. This is `Blocked` in
  `ReportsAreHandled`, which is violated without it.
* A comment in `validate` (`iscan/config.go:87-88`) calls one mailbox for spam and ham
  fine; with these constants `TrainedAsTold` is violated: what was classified as spam is
  learned as ham.
* `validate` accepts `BackupMailbox = ScanMailbox`. With these constants
  `AtMostOnceDelivery` is violated: each pass delivers the same mail again.
* `AddHeaders` and `ReplaceHeader` leave their file in `os.TempDir()` when `os.Open` or
  `os.Rename` fails (`mail/mail.go:79` and `100`); the rename always fails when `TempDir`
  is on another filesystem. `FilesRemoved` has this as its exception (`stray`).
* Mails below the threshold go to the inbox; a comment in the README's example
  configuration says `HamMailbox` (README.md:92).
* The limit of equal failures counts sessions that ended with an operation timeout
  although they worked for hours; the README (line 112) says of the operation only
  that it is retried.

## 4. Proofs

All theorems hold for every value of the constants that satisfies the named
assumptions of the modules; in particular for any number of mails, sessions, attempts,
faults and reports, and for buffers of any size. Two hypotheses on the configuration
are stated in the theorems that need them, as `validate` does not check them:

* `ScanAndBackupApart` (all of `MailDeliveryProofs` and `UnscannableNeverLost`): the scan
  mailbox is neither the backup nor the spam mailbox, and the backup mailbox has no other
  role. Without it `AtMostOnceDelivery` is false (section 3).
* `RolesApart` (`FiledByScore`, `TrainingAsReported`, `ReportsLearnedFirst`): moreover the
  inbox, the spam mailbox and the two learning mailboxes are different ones; the learning
  mailboxes may be unset. Without it `TrainedAsTold` is false: the program files a mail
  where it would learn it, as if the user had.

`RetryRunner!ErrorAssumption` says that only a request to Rspamd fails with a `url.Error`
(nothing else uses an HTTP client) or an `HTTPStatusError`, the only error type of the
program with a `Retryable` method. Any other cause may be anywhere in an error.

| theorem | states |
|---|---|
| `MailFlowProofs!TypeCorrect` | `Spec => [](TypeOK /\ ControlOK)` |
| `MailDeliveryProofs!FlowInvariant` | `Spec => []FlowInv` |
| `MailDeliveryProofs!AtMostOnce` | `Spec => []AtMostOnceDelivery` |
| `MailDeliveryProofs!BackedUpFirst` | `Spec => []DeliveredIsBackedUp` |
| `MailDeliveryProofs!BackupStays` | `Spec => BackupIsFinal` |
| `MailDeliveryProofs!ImplementsMailDelivery` | `Spec => DeliversMail` |
| `MailDeliveryProofs!AbandonedWorkersAreSilent` | `Spec => AbandonedIsSilent` |
| `MailFilingProofs!FilesAreOwned` | `Spec => []TempFilesOwned` |
| `MailFilingProofs!UnscannableNeverLost` | `Spec => []UnscannableStays` |
| `MailFilingProofs!FiledByScore` | `Spec => []FiledByVerdict` |
| `MailFilingProofs!TrainingAsReported` | `Spec => []TrainedAsTold` |
| `MailFilingProofs!ReportsLearnedFirst` | `Spec => []ReportsAreLearned` |
| `MailRewriteProofs!RewriteTypeCorrect` | `Spec => []TypeOK` |
| `MailRewriteProofs!FilesAreRemoved` | `Spec => []FilesRemoved` |
| `MailRewriteProofs!HeadersAreInserted` | `Spec => []HeadersInserted` |
| `MailRewriteProofs!SubjectIsReplaced` | `Spec => []SubjectReplaced` |
| `MailRewriteProofs!GivenUpOnlyForCause` | `Spec => []GivenUpForCause` |
| `ClientMonitorProofs!MonitorTypeCorrect` | `Spec => []TypeOK` |
| `ClientMonitorProofs!HandlerNeverPanics` | `Spec => []NoSendOnClosedChannel` |
| `ClientMonitorProofs!TransportExclusive` | `Spec => []TransportHasOneUser` |
| `ClientMonitorProofs!SelectNeverSpins` | `Spec => []EventChannelLives` |
| `ClientMonitorProofs!StopIsFinal` | `Spec => []StoppedIsStopped` |
| `RetryRunnerProofs!ConsecutiveFailures` | `Spec => []FailuresAreConsecutive` |
| `RetryRunnerProofs!BackoffIsFollowed` | `Spec => []BackoffFollowsIntervals` |
| `RetryRunnerProofs!RefusedLearningIsSurvived` | `Spec => []LearningIsSurvived` |
| `RetryRunnerProofs!ShutdownIsClean` | `Spec => CleanShutdown` |
| `RetryRunnerProofs!TemporaryErrorsRetried` | `Spec => []TemporaryIsRetried` |
| `RetryRunnerProofs!RetryTypeCorrect` | `Spec => []TypeOK` |
| `ImapConnectProofs!ConnectInvariant` | `Spec => []ConnectInv` |
| `ImapConnectProofs!ConnectTypeCorrect` | `Spec => []TypeOK` |
| `ImapConnectProofs!ConnectionsAreClosed` | `Spec => []NoConnectionLeaks` |
| `ImapConnectProofs!PasswordsAreProtected` | `Spec => []PasswordIsProtected` |
| `ImapMoveProofs!MoveInvariant` | `Spec => []MoveInv` |
| `ImapMoveProofs!MoveTypeCorrect` | `Spec => []TypeOK` |
| `ImapMoveProofs!OnlyTheFallbackLoses` | `Spec => []LostOnlyByFallback` |
| `ImapMoveProofs!UploadsAreBackedUp` | `Spec => []UploadedIsKept` |
| `ImapMoveProofs!UploadsAreUnique` | `Spec => []UploadedOnce` |

*Types of the mail flow.* `TypeOK` is not inductive by itself: a worker's step takes the
head of `plan` and the message in hand, so `ControlOK` says that where a worker is, its
phase and its message exist, and that sessions to come are untouched.

*At most once.* That a mail has not been uploaded twice says nothing of an upload in
flight or of a worker that holds the mail. `FlowInv` adds: only the latest session has
an open connection (`OpenIsCurrent`); no command in flight, whoever sent it, fills the
scan mailbox or empties the backup mailbox (`RequestsOK`); an APPEND in flight is the
only one of its mail, whose original is backed up (`AppendsOK`); what the current worker
may yet upload (`Pending`) has not been uploaded, is not being uploaded and is still in
the scan or the backup mailbox (`PendingOK`); and an answer `ok` to the move of a mail
means that it is in the backup mailbox (`CommandsOK`). Then a mail is taken from the scan
mailbox by a single successful move, and a later session, which reads the scan mailbox
only, cannot find it again. Most steps cannot make more mails pending: `Shrinks` states
this, and `ShrinkFlow` proves the invariant for all of them. What is left are the steps
that FETCH, send an APPEND or execute one.

*Refinement.* The stage of a mail is read off the location of its original, its
variants are the uploads, the verdict is the header of the first variant. A step of
the server is `BackUp`, `Deliver` or `Bypass`, all others stutter.

*Temporary files.* `TempInv` says of each session by itself which mails its worker owns
at which point of `processScanBox`, and that a worker that does not scan owns none; so no
step forgets the list of scanned mails before their files are removed.

*Filing and learning.* `StayInv` adds to `FlowInv` that no scanned mail and no move out
of the scan mailbox, in flight or not, names a mail that cannot be scanned. `FilingInv`
relates three places. On the server, what is in a learning mailbox was reported by the
user, and variants not uploaded yet are nowhere (`ServerFiling`). In flight, a move goes
from the scan mailbox to the backup or the inbox, or from a learning mailbox to where
that phase files, and then names only mails that were learned; an APPEND goes where its
score says (`RoutesOK`). And what a learning worker has in hand was reported, what it
has processed was learned (`LearnersOK`). `LearnersOK` is about mails and not about where
they are, so a stale list of messages cannot disturb it. Worker steps are summarised
once (`WorkerStepOK`) by the commands they send and what they hand over.

*Rewriting.* `FileInv` says which of the three files exist at which point; an error path
that leaves its file ends `downloadAndScan`. For the headers, `InsertInv` says of the
search that the new file is a copy of what was read, that reading stands at a multiple of
the buffer's size or at the end, and that no end of a header that lies in one chunk was
passed over (`NothingPassed`). `EndIsInChunk` and `FoundInChunk` show that the delimiters
of the current chunk are exactly such ends, by what division by the size of the buffer
yields; `Inserted` that the five parts which are written make up the mail with the
headers in it.

For the subject, `ReplaceInv` relates the loop of `replaceHeader` to the lines of the
whole mail: after `n` of them the lines that are left are those behind the first `n`
(`IsLeft`), and what was written is, by the flags, a copy of lines without a subject
(`BeforeSubject`), such a copy and the new subject (`InSubject`), or that followed by all
lines behind the old subject (`BehindSubject`). `Copied` says which flags go with which;
`skipContinuation` stays set at an empty line right after the subject and counts only
before `headerEnded`. Each turn of the loop takes the first of the lines that are left
(`LineStep`, `LineWritten`), and at the end the text is that of the reference definition,
whose least subject and greatest continuation are the ones the loop has met
(`SubjectIs`). The reference definition recurs over the text (`LinesFrom`, and `FlattenSeq`
in `Text`). That these functions exist and satisfy their equations is proved by an
induction over sets of numbers (`Induction`, from `LeastNatural`): `LinesFromDef`,
`FlattenDef`. `GivenUpOnlyForCause` follows from both invariants: the loop fails at an
empty line only before a subject (`SubjectMissing`), the line the scanner refuses is a
line of the mail (`LongLineOfMail`), and a search that has reached the end of the mail
has passed over nothing (`NoWholeEnd`).

*The client's goroutines.* `MonitorInv` says which goroutine Monitor waits for at each of
its positions, and that after a timeout it is that one which is left behind, on a closed
connection (`Waiting`); who may have set and who may close the event channel (`Channel`);
and how `wgRun`, the context and the state of `Stop` go together (`Stopping`). The
properties are parts of it. Nothing is assumed of the order in which the abandoned
goroutines go on.

*The retry loop.* `RunnerInv` says that the last `failures` entries of the history
have the key `lastErrorKey` and the one before has not, plus what the control state tells
about the limit. `BackoffInv` adds that the last recorded pause is the one the
counter yields, so that the next one is its successor in the table or the first. For
learning, what `learn` passes on is temporary or finds `Run` cancelled. A signal leads
to states (`ShuttingDown`) that no step leaves and in which no error is returned. For
`TemporaryErrorsRetried` a non-retryable result means that `IsRetryableError` was false of
the whole error; `errors.As` looks at the first cause of a class only, which exists since
every set of indices has a least one (`LeastNatural`), and `SessionErrorShape` says what
can be in front of it: a `url.Error` or an HTTP status is the first cause of
an error, or none.

*Connections.* That at most one connection is open is not inductive. `ConnectInv` says
whose it is: an open connection is the one being set up, or `c.clt` between LOGIN and
the end of the session (`OpenOwned`); STARTTLS closes the connection it fails on, and a
successful one is encrypted (`Setup`); attempts to come are untouched (`Fresh`); and
LOGIN was started only on connections it may be written to (`LoginAllowed`), where a
goroutine left behind by an earlier attempt keeps its own connection. All steps of
goroutines are handled by `GoroutineStep`; those of `main` are the end of something
with all connections closed, or the start of LOGIN.

*Moves.* The three properties depend on what is still on its way. `MoveInv` says: a
command in the pipe never names a mail that is yet to come in this pass, and those of the
current mail are in the order COPY, STORE, EXPUNGE, with no answer heard to any from there
on (`PipeOK`); nothing is flagged or expunged before its COPY was executed or refused
(`CopyFirst`); what was answered `ok` has happened to the current mail (`AnswersOK`); and
the mails still to be replaced are undelivered and, unless the server expunges what others
have flagged, in the scan mailbox (`TodoOK`). An executed and a refused command are
handled together: `Effect` is what either may do to the mailboxes.

Only model-checked: all liveness properties (fairness is out of the prover's reach).

## 5. Not modelled

* `config`: files and credentials are read and merged in straight-line code before
  anything runs; an error ends the program.
* `DryClient` and the debug writer: the first replaces every modifying command by a log
  entry and so changes no state, the second logs.
* The decoding of a FETCH response: `MailFlow` knows whether it succeeds (`Malformed`).
* The fields of Rspamd's JSON answer and the wording of headers: `MailRewrite` knows
  whether they can be written.
* go-imap, except where the order of its steps matters: the handling of a command on a
  connection, `Move`, STARTTLS, LOGIN, `Close` and the reader are translated from
  `src/vendor/github.com/emersion/go-imap/v2/imapclient`. The IMAP server and Rspamd are
  not part of the repository and modelled by what they may answer.
* Defaults of timeouts in `iscan/config.go`: all timers may fire at any time.
* `log` and `testutils`.

## 6. Plan

Every safety property of the passing runs is stated by a theorem. What is left rests on
fairness, which the prover does not handle. Its non-temporal half can be proved: for a
loop that liveness depends on, a measure that every step of it decreases (the lines left
to `replaceHeader`, the attempts left to `Run`, the commands left in the pipe of `Move`).

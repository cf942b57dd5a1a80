------------------------------- MODULE MailFlow -------------------------------
(***************************************************************************)
(* The flow of mails through an iscan client (internal/iscan/client.go).    *)
(*                                                                          *)
(* A session is one pass of main.monitor: an IMAP connection, a Client and  *)
(* its Monitor loop.  Monitor runs phases (processHam, processSpam,         *)
(* processScanBox) one after the other; runIMAPPhase runs each of them in a *)
(* worker goroutine, and when the phase's context expires it closes the     *)
(* transport and abandons a worker that does not return.  An abandoned      *)
(* worker lives on while the next session is already running.               *)
(*                                                                          *)
(* The IMAP server holds copies of mails: <<m, 0>> is the original of mail  *)
(* m, <<m, k>> the k-th modified variant the client has uploaded.  Commands *)
(* are in flight between a worker and the server, so a command whose        *)
(* connection breaks may still take effect, at any later time, unanswered.  *)
(* A UID names a message of the selected mailbox; a command that names one  *)
(* which has left the mailbox succeeds and changes nothing.                 *)
(***************************************************************************)
EXTENDS Mailboxes, Sequences, FiniteSets

CONSTANTS
    Mail,                    \* the mails that are ever delivered
    Malformed,               \* those of them the IMAP client cannot decode
    Unlearnable,             \* those of them Rspamd refuses to learn
    Unscannable,             \* those Rspamd refuses to scan or whose variant
                             \* cannot be written, each time (see MailRewrite)
    Scores,                  \* the scores Rspamd gives
    NoScore, NoMail, Nowhere,
    MarkLearnedAsSpamAsRead,
    KeepTempFiles,
    MaxSessions,             \* bound: sessions (connects and restarts)
    MaxUploads,              \* bound: uploads per mail
    MaxFaults,               \* bound: failures the environment inflicts
    MaxUserMoves             \* bound: mails the user re-files

ASSUME MailAssumption == /\ Malformed \subseteq Mail
                         /\ Unlearnable \subseteq Mail
                         /\ Unscannable \subseteq Mail
ASSUME ScoreAssumption == Scores \subseteq Int /\ NoScore \notin Scores
ASSUME NoneAssumption == Nowhere \notin Mailbox
ASSUME BoundAssumption == /\ MaxSessions \in Nat \ {0}
                          /\ MaxUploads \in Nat \ {0, 1}
                          /\ MaxFaults \in Nat
                          /\ MaxUserMoves \in Nat
ASSUME FlagAssumption == /\ MarkLearnedAsSpamAsRead \in BOOLEAN
                         /\ KeepTempFiles \in BOOLEAN

Session == 1..MaxSessions
Copy == Mail \X (0..MaxUploads)
Original(m) == <<m, 0>>

ASSUME NoMailAssumption == NoMail \notin Copy

VARIABLES
    (* the mail server *)
    loc,        \* the mailbox each copy is in
    header,     \* the X-rspamd-iscan-Score header of each copy
    uploads,    \* the number of variants of each mail that were appended
    seen,       \* the copies flagged \Seen by the client
    (* what Rspamd was taught, and what the user wanted it to be taught *)
    learned, told,
    (* per session: the connection and the command in flight on it *)
    conn, request, reply,
    (* per session: the Monitor loop and the worker of its current phase *)
    mon, plan, expired, work,
    tmp,        \* the temporary files on disk
    session,    \* the latest session
    faults, userMoves

serverVars == <<loc, header, uploads, seen>>
userVars == <<told, userMoves>>
connVars == <<conn, request, reply>>
monVars == <<mon, plan, expired, session>>
vars == <<serverVars, learned, userVars, connVars, monVars, work, tmp, faults>>

NoRequest == [op |-> "none", copies |-> {}, src |-> Nowhere,
              dest |-> Nowhere, score |-> NoScore]

(* The worker of a phase: where it is, the messages FETCH still has to      *)
(* yield, scannedMails with their scores, the UIDs in malformedMailsUIDs    *)
(* (scan) or processedMsgUIDs (learn), the message in hand, and whether     *)
(* errs is non-empty.                                                       *)
Worker(pc, err) ==
    [pc |-> pc, todo |-> {}, scanned |-> [c \in Copy |-> NoScore],
     uids |-> {}, cur |-> NoMail, failed |-> err]

Init ==
    /\ loc = [c \in Copy |-> Nowhere]
    /\ header = [c \in Copy |-> NoScore]
    /\ uploads = [m \in Mail |-> 0]
    /\ seen = {}
    /\ learned = {} /\ told = {}
    /\ conn = [s \in Session |-> "closed"]
    /\ request = [s \in Session |-> NoRequest]
    /\ reply = [s \in Session |-> "none"]
    /\ mon = [s \in Session |-> "off"]
    /\ plan = [s \in Session |-> <<>>]
    /\ expired = [s \in Session |-> FALSE]
    /\ work = [s \in Session |-> Worker("idle", FALSE)]
    /\ tmp = {}
    /\ session = 0 /\ faults = 0 /\ userMoves = 0

PhaseOf(s) == Head(plan[s])
scannedMails(s) == {c \in Copy : work[s].scanned[c] # NoScore}
TempFile(s, c) == <<s, c>>
Fault == faults < MaxFaults /\ faults' = faults + 1
-----------------------------------------------------------------------------
(* The mail server's side and the user.                                     *)

(* The MDA stores a new mail in the mailbox to be scanned.                  *)
Arrive(m) ==
    /\ loc[Original(m)] = Nowhere
    /\ loc' = [loc EXCEPT ![Original(m)] = ScanMailbox]
    /\ UNCHANGED <<header, uploads, seen, learned, userVars, connVars,
                   monVars, work, tmp, faults>>

(* The user files a mail where its mistaken classification is learned from. *)
UserReports(kind, c, from, to) ==
    /\ userMoves < MaxUserMoves
    /\ to # ""
    /\ loc[c] = from
    /\ loc' = [loc EXCEPT ![c] = to]
    /\ told' = told \cup {<<kind, c>>}
    /\ userMoves' = userMoves + 1
    /\ UNCHANGED <<header, uploads, seen, learned, connVars, monVars, work,
                   tmp, faults>>

UserReportsSpam(c) == UserReports("spam", c, InboxMailbox, UndetectedMailbox)
UserReportsHam(c)  == UserReports("ham", c, SpamMailbox, HamMailbox)

InMailbox(C, mbox) == {c \in C : loc[c] = mbox}

(* What the server does with a command of session s.                        *)
ApplyMove(r, C) ==
    /\ loc' = [c \in Copy |-> IF c \in InMailbox(C, r.src) THEN r.dest
                                                          ELSE loc[c]]
    /\ UNCHANGED <<header, uploads, seen>>

ApplyStore(r) ==
    /\ seen' = seen \cup InMailbox(r.copies, r.src)
    /\ UNCHANGED <<loc, header, uploads>>

ApplyAppend(r) ==
    \E c \in r.copies :
      LET m == c[1]
          new == <<m, uploads[m] + 1>>
      IN /\ uploads[m] < MaxUploads
         /\ uploads' = [uploads EXCEPT ![m] = @ + 1]
         /\ loc' = [loc EXCEPT ![new] = r.dest]
         /\ header' = [header EXCEPT ![new] = r.score]
         /\ UNCHANGED seen

(* The server answers; on a broken connection nobody hears it.              *)
Answer(s, r) ==
    /\ request' = [request EXCEPT ![s] = NoRequest]
    /\ reply' = [reply EXCEPT ![s] = IF conn[s] = "open" THEN r ELSE @]
    /\ UNCHANGED <<conn, learned, userVars, monVars, work, tmp>>

ServerExecutes(s) ==
    /\ \/ request[s].op = "move" /\ ApplyMove(request[s], request[s].copies)
       \/ request[s].op = "store" /\ ApplyStore(request[s])
       \/ request[s].op = "append" /\ ApplyAppend(request[s])
    /\ Answer(s, "ok")
    /\ UNCHANGED faults

(* A tagged NO.  A refused MOVE may have moved some of the messages.        *)
ServerRefuses(s) ==
    /\ \/ /\ request[s].op = "move"
          /\ \E C \in SUBSET request[s].copies :
                C # request[s].copies /\ ApplyMove(request[s], C)
       \/ request[s].op \in {"store", "append"} /\ UNCHANGED serverVars
    /\ Answer(s, "no")
    /\ Fault

(* A command that was on its way when the connection broke is lost.         *)
RequestLost(s) ==
    /\ request[s] # NoRequest /\ conn[s] = "closed"
    /\ request' = [request EXCEPT ![s] = NoRequest]
    /\ UNCHANGED <<serverVars, learned, userVars, conn, reply, monVars, work,
                   tmp, faults>>

ConnectionLost(s) ==
    /\ conn[s] = "open" /\ Fault
    /\ conn' = [conn EXCEPT ![s] = "closed"]
    /\ UNCHANGED <<serverVars, learned, userVars, request, reply, monVars,
                   work, tmp>>
-----------------------------------------------------------------------------
(* Steps of the worker.                                                     *)

(* Everything but the worker's own state and temporary files.               *)
LocalStep == UNCHANGED <<serverVars, userVars, conn, monVars>>

(* A command is sent; on a closed transport the write fails at once.        *)
Send(s, op, C, dest, score) ==
    /\ request' = [request EXCEPT ![s] =
                     IF conn[s] = "open"
                     THEN [op |-> op, copies |-> C, src |-> SourceOf(PhaseOf(s)),
                           dest |-> dest, score |-> score]
                     ELSE @]
    /\ reply' = [reply EXCEPT ![s] = "none"]

NoCommand == UNCHANGED <<request, reply>>

Succeeded(s) == reply[s] = "ok"
Failed(s) == reply[s] = "no" \/ conn[s] = "closed"

(* removeTempMail, cleanupScannedMails and errCleanupfn.                    *)
removeTempMails(s, C) ==
    tmp' = IF KeepTempFiles THEN tmp ELSE tmp \ {TempFile(s, c) : c \in C}

Return(s, err) == work' = [work EXCEPT ![s] = Worker("returned", err)]

(* Client.Messages: SELECT and FETCH 1:* of the source mailbox.             *)
Messages(s) ==
    /\ work[s].pc = "select" /\ conn[s] = "open"
    /\ work' = [work EXCEPT ![s].pc = "iterate",
                            ![s].todo = InMailbox(Copy, SourceOf(PhaseOf(s)))]
    /\ NoCommand /\ LocalStep /\ UNCHANGED <<learned, tmp, faults>>

(* The iterator yields an error that is not ErrMalformedMsg: SELECT or a    *)
(* FETCH item failed.                                                       *)
MessagesFails(s) ==
    /\ work[s].pc \in {"select", "iterate"}
    /\ (conn[s] = "closed" /\ UNCHANGED faults) \/ Fault
    /\ removeTempMails(s, scannedMails(s))
    /\ Return(s, TRUE)
    /\ NoCommand /\ LocalStep /\ UNCHANGED learned

(* Mutant: a cancelled phase forgets the mails it has scanned.              *)
ContextExpiredNoCleanup(s) ==
    /\ work[s].pc \in {"iterate", "replace"} /\ expired[s]
    /\ Return(s, TRUE)
    /\ NoCommand /\ LocalStep /\ UNCHANGED <<learned, tmp, faults>>

(* The ctx.Err() checks: at the top of the loops and after them.            *)
ContextExpired(s) ==
    /\ work[s].pc \in {"iterate", "replace"} /\ expired[s]
    /\ removeTempMails(s, scannedMails(s))
    /\ Return(s, TRUE)
    /\ NoCommand /\ LocalStep /\ UNCHANGED <<learned, faults>>

(* The iterator yields ErrMalformedMsg for c.                               *)
SkipMalformed(s, c) ==
    /\ work[s].pc = "iterate" /\ ~expired[s]
    /\ c \in work[s].todo /\ c[1] \in Malformed
    /\ work' = [work EXCEPT ![s].todo = @ \ {c}, ![s].uids = @ \cup {c}]
    /\ NoCommand /\ LocalStep /\ UNCHANGED <<learned, tmp, faults>>

(* The iterator yields message c; a phase hands it to Rspamd.  downloadAnd- *)
(* Scan writes it to a temporary file first.                                *)
TakeMessage(s, c) ==
    /\ work[s].pc = "iterate" /\ ~expired[s]
    /\ c \in work[s].todo /\ c[1] \notin Malformed
    /\ LET scan == PhaseOf(s) = "scan"
       IN /\ work' = [work EXCEPT ![s].todo = @ \ {c}, ![s].cur = c,
                                  ![s].pc = IF scan THEN "scan" ELSE "learn"]
          /\ tmp' = IF scan THEN tmp \cup {TempFile(s, c)} ELSE tmp
    /\ NoCommand /\ LocalStep /\ UNCHANGED <<learned, faults>>

(* downloadAndScan succeeds: the headers are added and the mail appended to *)
(* scannedMails.                                                            *)
ScanOk(s) ==
    /\ work[s].pc = "scan" /\ work[s].cur[1] \notin Unscannable
    /\ \E n \in Scores :
         work' = [work EXCEPT ![s].scanned[work[s].cur] = n,
                              ![s].cur = NoMail, ![s].pc = "iterate"]
    /\ NoCommand /\ LocalStep /\ UNCHANGED <<learned, tmp, faults>>

(* A failing downloadAndScan ends the loop; the mails scanned before it are *)
(* still replaced.                                                          *)
AbortLoop(s) ==
    work' = [work EXCEPT ![s].pc = "replace", ![s].todo = {},
                         ![s].cur = NoMail, ![s].failed = TRUE]

(* Mutant: the error of downloadAndScan is ignored.                         *)
ScanFailsIgnored(s) ==
    /\ work[s].pc = "scan" /\ work[s].cur[1] \in Unscannable
    /\ \E n \in Scores :
         work' = [work EXCEPT ![s].scanned[work[s].cur] = n,
                              ![s].cur = NoMail, ![s].pc = "iterate"]
    /\ NoCommand /\ LocalStep /\ UNCHANGED <<learned, tmp, faults>>

(* The files of the rewriting are MailRewrite's subject; here is the one of *)
(* the downloaded mail.                                                     *)
ScanFails(s) ==
    /\ work[s].pc = "scan"
    /\ \/ /\ expired[s] \/ work[s].cur[1] \in Unscannable
          /\ UNCHANGED faults
       \/ Fault
    /\ removeTempMails(s, {work[s].cur})
    /\ AbortLoop(s)
    /\ NoCommand /\ LocalStep /\ UNCHANGED learned

(* The scan loop ends: all messages were yielded, or the connection broke,  *)
(* which ends the iteration silently.                                       *)
ScanLoopEnds(s) ==
    /\ work[s].pc = "iterate" /\ PhaseOf(s) = "scan" /\ ~expired[s]
    /\ work[s].todo = {} \/ conn[s] = "closed"
    /\ work' = [work EXCEPT ![s].pc = "replace", ![s].todo = {}]
    /\ NoCommand /\ LocalStep /\ UNCHANGED <<learned, tmp, faults>>

(* replaceWithModifiedMails: move the original to the backup mailbox, ...   *)
BackUp(s, c) ==
    /\ work[s].pc = "replace" /\ ~expired[s]
    /\ c \in scannedMails(s)
    /\ Send(s, "move", {c}, BackupMailbox, NoScore)
    /\ work' = [work EXCEPT ![s].pc = "backup", ![s].cur = c]
    /\ LocalStep /\ UNCHANGED <<learned, tmp, faults>>

(* Mutant: the modified mail is uploaded although the move was refused.     *)
UploadUnchecked(s) ==
    /\ work[s].pc = "backup" /\ reply[s] # "none"
    /\ LET score == work[s].scanned[work[s].cur]
       IN Send(s, "append", {work[s].cur}, UploadDest(score), score)
    /\ work' = [work EXCEPT ![s].pc = "upload"]
    /\ LocalStep /\ UNCHANGED <<learned, tmp, faults>>

(* ... then upload the modified mail, by its score, ...                     *)
Upload(s) ==
    /\ work[s].pc = "backup" /\ Succeeded(s)
    /\ LET score == work[s].scanned[work[s].cur]
       IN Send(s, "append", {work[s].cur}, UploadDest(score), score)
    /\ work' = [work EXCEPT ![s].pc = "upload"]
    /\ LocalStep /\ UNCHANGED <<learned, tmp, faults>>

(* ... and go on with the next mail, also after a failed move or upload.    *)
NextScanned(s, err) ==
    /\ removeTempMails(s, {work[s].cur})
    /\ work' = [work EXCEPT ![s].pc = "replace", ![s].cur = NoMail,
                            ![s].scanned[work[s].cur] = NoScore,
                            ![s].failed = @ \/ err]
    /\ NoCommand /\ LocalStep /\ UNCHANGED <<learned, faults>>

UploadDone(s) == work[s].pc = "upload" /\ Succeeded(s) /\ NextScanned(s, FALSE)

ReplaceFails(s) ==
    work[s].pc \in {"backup", "upload"} /\ Failed(s) /\ NextScanned(s, TRUE)

(* The end of processScanBox: malformed mails go to the inbox unscanned.    *)
ReplaceDone(s) ==
    /\ work[s].pc = "replace" /\ scannedMails(s) = {}
    /\ \/ /\ work[s].uids = {}
          /\ Return(s, work[s].failed)
          /\ NoCommand
       \/ /\ work[s].uids # {} /\ ~expired[s]
          /\ Send(s, "move", work[s].uids, InboxMailbox, NoScore)
          /\ work' = [work EXCEPT ![s].pc = "malformed"]
    /\ LocalStep /\ UNCHANGED <<learned, tmp, faults>>

MalformedDone(s) ==
    /\ work[s].pc = "malformed"
    /\ \/ Succeeded(s) /\ Return(s, work[s].failed)
       \/ Failed(s) /\ Return(s, TRUE)
    /\ NoCommand /\ LocalStep /\ UNCHANGED <<learned, tmp, faults>>

(* learnFn returns nil (any 2xx, 208 "already learned" included).           *)
LearnOk(s) ==
    /\ work[s].pc = "learn" /\ work[s].cur[1] \notin Unlearnable
    /\ learned' = learned \cup {<<PhaseOf(s), work[s].cur>>}
    /\ work' = [work EXCEPT ![s].pc = "iterate", ![s].cur = NoMail,
                            ![s].uids = @ \cup {work[s].cur}]
    /\ NoCommand /\ LocalStep /\ UNCHANGED <<tmp, faults>>

(* learnFn fails with a context or retryable error; Rspamd may or may not   *)
(* have learned the mail.                                                   *)
LearnFails(s) ==
    /\ work[s].pc = "learn"
    /\ (expired[s] /\ UNCHANGED faults) \/ Fault
    /\ \/ UNCHANGED learned
       \/ learned' = learned \cup {<<PhaseOf(s), work[s].cur>>}
    /\ Return(s, TRUE)
    /\ NoCommand /\ LocalStep /\ UNCHANGED tmp

(* Mutant: a mail Rspamd refuses counts as processed.                       *)
LearnRejectedProcessed(s) ==
    /\ work[s].pc = "learn" /\ work[s].cur[1] \in Unlearnable
    /\ work' = [work EXCEPT ![s].pc = "iterate", ![s].cur = NoMail,
                            ![s].uids = @ \cup {work[s].cur}]
    /\ NoCommand /\ LocalStep /\ UNCHANGED <<learned, tmp, faults>>

(* Any other error ends the phase without an error and without moving the   *)
(* mails learned before.                                                    *)
LearnRejected(s) ==
    /\ work[s].pc = "learn" /\ work[s].cur[1] \in Unlearnable
    /\ Return(s, FALSE)
    /\ NoCommand /\ LocalStep /\ UNCHANGED <<learned, tmp, faults>>

MoveLearned(s) ==
    /\ Send(s, "move", work[s].uids, LearnDest(PhaseOf(s)), NoScore)
    /\ work' = [work EXCEPT ![s].pc = "move", ![s].todo = {}]

markAsSeen(phase) == phase = "spam" /\ MarkLearnedAsSpamAsRead

(* The learn loop ends; the processed mails are marked as seen and moved.   *)
LearnLoopEnds(s) ==
    /\ work[s].pc = "iterate" /\ PhaseOf(s) # "scan" /\ ~expired[s]
    /\ work[s].todo = {} \/ conn[s] = "closed"
    /\ \/ work[s].uids = {} /\ Return(s, FALSE) /\ NoCommand
       \/ /\ work[s].uids # {} /\ markAsSeen(PhaseOf(s))
          /\ Send(s, "store", work[s].uids, Nowhere, NoScore)
          /\ work' = [work EXCEPT ![s].pc = "mark", ![s].todo = {}]
       \/ work[s].uids # {} /\ ~markAsSeen(PhaseOf(s)) /\ MoveLearned(s)
    /\ LocalStep /\ UNCHANGED <<learned, tmp, faults>>

(* A failed MarkSeen is only logged.                                        *)
MarkSeenDone(s) ==
    /\ work[s].pc = "mark" /\ (Succeeded(s) \/ Failed(s))
    /\ MoveLearned(s)
    /\ LocalStep /\ UNCHANGED <<learned, tmp, faults>>

MoveLearnedDone(s) ==
    /\ work[s].pc = "move"
    /\ \/ Succeeded(s) /\ Return(s, FALSE)
       \/ Failed(s) /\ Return(s, TRUE)
    /\ NoCommand /\ LocalStep /\ UNCHANGED <<learned, tmp, faults>>
-----------------------------------------------------------------------------
(* Steps of main.monitor, Monitor and runIMAPPhase.                         *)

runOnce == <<"ham", "spam", "scan">>
(* Mutant: the periodic pass leaves the ham mailbox out. *)
periodicPassNoHam == <<"scan", "spam">>
runPeriodicPass == <<"scan", "ham", "spam">>

OpenSession ==
    /\ session < MaxSessions
    /\ session' = session + 1
    /\ conn' = [conn EXCEPT ![session + 1] = "open"]
    /\ mon' = [mon EXCEPT ![session + 1] = "running"]
    /\ plan' = [plan EXCEPT ![session + 1] = runOnce]
    /\ UNCHANGED <<serverVars, learned, userVars, request, reply, expired,
                   work, tmp, faults>>

(* The daemon is started, or its retry loop opens the next session after a  *)
(* retryable error.                                                         *)
NewSession ==
    /\ session > 0 => mon[session] = "ended"
    /\ OpenSession

(* Somebody starts the daemon again after it exited or died.                *)
Restart ==
    /\ session > 0 /\ mon[session] = "crashed"
    /\ OpenSession

MonStep == UNCHANGED <<serverVars, learned, userVars, request, reply, session,
                       tmp>>

Idle(s) == mon[s] = "running" /\ plan[s] = <<>>

(* An EventNewMessages arrives: the scan mailbox is not empty.              *)
NewMessages(s) ==
    /\ Idle(s) /\ conn[s] = "open"
    /\ InMailbox(Copy, ScanMailbox) # {}
    /\ plan' = [plan EXCEPT ![s] = <<"scan">>]
    /\ MonStep /\ UNCHANGED <<conn, mon, expired, work, faults>>

(* learnTimer fires.                                                        *)
LearnTimer(s) ==
    /\ Idle(s) /\ conn[s] = "open"
    /\ plan' = [plan EXCEPT ![s] = runPeriodicPass]
    /\ MonStep /\ UNCHANGED <<conn, mon, expired, work, faults>>

(* Mutant: Monitor does not watch the connection.                           *)
IdleUnwatched(s) == FALSE

(* Monitor returns an error.  IsRetryableError decides whether the session  *)
(* "ended" for retry.Runner to open another, or "failed" and the daemon     *)
(* exits.  Of a refused command, a local error, an answer of Rspamd and a   *)
(* lost connection, whose cause go-imap may keep as text only, each can be  *)
(* either, alone or joined with the others; see NetErr.                     *)
MonitorFails(s) ==
    \E end \in {"ended", "failed"} : mon' = [mon EXCEPT ![s] = end]

(* connectionDone fires, or starting or stopping IDLE fails.                *)
IdleFails(s) ==
    /\ Idle(s) /\ conn[s] = "closed"
    /\ MonitorFails(s)
    /\ MonStep /\ UNCHANGED <<conn, plan, expired, work, faults>>

(* runIMAPPhase starts the worker; a learning phase whose mailbox is not    *)
(* configured returns at once.                                              *)
StartPhase(s) ==
    /\ mon[s] = "running" /\ plan[s] # <<>> /\ work[s].pc = "idle"
    /\ expired' = [expired EXCEPT ![s] = FALSE]
    /\ LET pc == IF SourceOf(PhaseOf(s)) = "" THEN "returned" ELSE "select"
       IN work' = [work EXCEPT ![s] = Worker(pc, FALSE)]
    /\ MonStep /\ UNCHANGED <<conn, mon, plan, faults>>

(* opCtx ends: the operation timeout passed.                                *)
Expire(s) ==
    /\ mon[s] = "running" /\ work[s].pc # "idle" /\ ~expired[s]
    /\ Fault
    /\ expired' = [expired EXCEPT ![s] = TRUE]
    /\ MonStep /\ UNCHANGED <<conn, mon, plan, work>>

PhaseRunning(s) == mon[s] = "running" /\ work[s].pc \notin {"idle", "returned"}

(* closeTransport, when the result was not there at the deadline.           *)
CloseTransport(s) ==
    /\ PhaseRunning(s) /\ expired[s] /\ conn[s] = "open"
    /\ conn' = [conn EXCEPT ![s] = "closed"]
    /\ MonStep /\ UNCHANGED <<mon, plan, expired, work, faults>>

(* Mutant: the worker is abandoned with its transport still open.           *)
AbandonOpen(s) ==
    /\ PhaseRunning(s) /\ expired[s]
    /\ mon' = [mon EXCEPT ![s] = "ended"]
    /\ MonStep /\ UNCHANGED <<conn, plan, expired, work, faults>>

(* The worker does not return within the shutdown timeout either: Monitor   *)
(* ends without it, with DeadlineExceeded, which is retryable.              *)
Abandon(s) ==
    /\ PhaseRunning(s) /\ expired[s] /\ conn[s] = "closed"
    /\ mon' = [mon EXCEPT ![s] = "ended"]
    /\ MonStep /\ UNCHANGED <<conn, plan, expired, work, faults>>

PhaseOk(s) ==
    /\ mon[s] = "running" /\ work[s].pc = "returned" /\ ~work[s].failed
    /\ plan' = [plan EXCEPT ![s] = Tail(@)]
    /\ work' = [work EXCEPT ![s] = Worker("idle", FALSE)]
    /\ MonStep /\ UNCHANGED <<conn, mon, expired, faults>>

(* The phase failed, or it ended only after the transport was closed, with  *)
(* DeadlineExceeded: main.monitor stops the client and returns the error.   *)
PhaseFails(s) ==
    /\ mon[s] = "running" /\ work[s].pc = "returned"
    /\ \/ work[s].failed /\ MonitorFails(s)
       \/ /\ expired[s] /\ conn[s] = "closed"
          /\ mon' = [mon EXCEPT ![s] = "ended"]
    /\ conn' = [conn EXCEPT ![s] = "closed"]
    /\ work' = [work EXCEPT ![s] = Worker("idle", FALSE)]
    /\ MonStep /\ UNCHANGED <<plan, expired, faults>>

(* The process ends, with all its goroutines.                               *)
ProcessEnds ==
    /\ mon' = [s \in Session |-> IF s <= session THEN "crashed" ELSE mon[s]]
    /\ conn' = [s \in Session |-> "closed"]
    /\ reply' = [s \in Session |-> "none"]
    /\ work' = [s \in Session |-> Worker("idle", FALSE)]
    /\ UNCHANGED <<serverVars, learned, userVars, request, plan, expired,
                   session, tmp>>

Crash == session > 0 /\ Fault /\ ProcessEnds

(* retry.Runner returns a non-retryable error, and main exits with it.      *)
Exit ==
    /\ session > 0 /\ mon[session] = "failed"
    /\ ProcessEnds /\ UNCHANGED faults
-----------------------------------------------------------------------------
User(c) == UserReportsSpam(c) \/ UserReportsHam(c)

Server(s) == ServerExecutes(s) \/ ServerRefuses(s) \/ RequestLost(s)

WorkerStep(s) ==
    \/ Messages(s) \/ MessagesFails(s) \/ ContextExpired(s)
    \/ \E c \in Copy : SkipMalformed(s, c) \/ TakeMessage(s, c) \/ BackUp(s, c)
    \/ ScanOk(s) \/ ScanFails(s) \/ ScanLoopEnds(s)
    \/ Upload(s) \/ UploadDone(s) \/ ReplaceFails(s)
    \/ ReplaceDone(s) \/ MalformedDone(s)
    \/ LearnOk(s) \/ LearnFails(s) \/ LearnRejected(s) \/ LearnLoopEnds(s)
    \/ MarkSeenDone(s) \/ MoveLearnedDone(s)

Monitor(s) ==
    \/ NewMessages(s) \/ LearnTimer(s) \/ IdleFails(s) \/ StartPhase(s)
    \/ Expire(s) \/ CloseTransport(s) \/ Abandon(s)
    \/ PhaseOk(s) \/ PhaseFails(s)

Next ==
    \/ \E m \in Mail : Arrive(m)
    \/ \E c \in Copy : User(c)
    \/ \E s \in Session : Server(s) \/ ConnectionLost(s) \/ WorkerStep(s)
                                    \/ Monitor(s)
    \/ NewSession \/ Restart \/ Crash \/ Exit

Spec == Init /\ [][Next]_vars
-----------------------------------------------------------------------------
(* Properties.                                                              *)

Request == [op : {"none", "move", "store", "append"}, copies : SUBSET Copy,
            src : Mailbox \cup {Nowhere}, dest : Mailbox \cup {Nowhere},
            score : Scores \cup {NoScore}]

WorkerPC == {"idle", "select", "iterate", "scan", "learn", "replace", "backup",
             "upload", "malformed", "mark", "move", "returned"}

WorkerState == [pc : WorkerPC, todo : SUBSET Copy,
                scanned : [Copy -> Scores \cup {NoScore}],
                uids : SUBSET Copy, cur : Copy \cup {NoMail},
                failed : BOOLEAN]

ServerType ==
    /\ loc \in [Copy -> Mailbox \cup {Nowhere}]
    /\ header \in [Copy -> Scores \cup {NoScore}]
    /\ uploads \in [Mail -> 0..MaxUploads]
    /\ seen \subseteq Copy
LearnedType == learned \subseteq {"ham", "spam"} \X Copy
UserType == told \subseteq {"ham", "spam"} \X Copy /\ userMoves \in 0..MaxUserMoves
ConnType ==
    /\ conn \in [Session -> {"open", "closed"}]
    /\ request \in [Session -> Request]
    /\ reply \in [Session -> {"none", "ok", "no"}]
MonType ==
    /\ mon \in [Session -> {"off", "running", "ended", "failed", "crashed"}]
    /\ plan \in [Session -> Seq(Phase)]
    /\ expired \in [Session -> BOOLEAN]
    /\ session \in 0..MaxSessions
WorkType == work \in [Session -> WorkerState]
TmpType == tmp \subseteq Session \X Copy
FaultType == faults \in 0..MaxFaults

(* Every variable of the server, the sessions and their workers has a value *)
(* of its kind.                                                             *)
TypeOK ==
    /\ ServerType /\ LearnedType /\ UserType /\ ConnType /\ MonType
    /\ WorkType /\ TmpType /\ FaultType

(* The worker is at a point of the phase Monitor has started: with a message *)
(* in hand where one is used, in processScanBox or in learn.  A session that *)
(* has not begun has no worker.                                             *)
ControlOK ==
    \A s \in Session :
      /\ work[s].pc # "idle" => plan[s] # <<>>
      /\ work[s].pc \in {"scan", "learn", "backup", "upload"} =>
           work[s].cur \in Copy
      /\ work[s].pc \in {"scan", "replace", "backup", "upload", "malformed"} =>
           PhaseOf(s) = "scan"
      /\ work[s].pc \in {"learn", "mark", "move"} => PhaseOf(s) \in {"ham", "spam"}
      /\ s > session => /\ work[s].pc = "idle" /\ mon[s] = "off"
                        /\ conn[s] = "closed" /\ request[s] = NoRequest
                        /\ reply[s] = "none"

(* A mail is uploaded to the inbox or the spam mailbox at most once, however *)
(* often replaceWithModifiedMails is interrupted and a scan pass repeated.   *)
AtMostOnceDelivery == \A m \in Mail : uploads[m] <= 1

(* A modified mail exists only when its unmodified original is safe in the  *)
(* backup mailbox: replaceWithModifiedMails moves before it uploads.        *)
DeliveredIsBackedUp ==
    \A m \in Mail : uploads[m] > 0 => loc[Original(m)] = BackupMailbox

(* An uploaded mail is in the inbox only when its score is below the        *)
(* threshold, and in the spam mailbox only when it is not, unless the user  *)
(* said otherwise.                                                          *)
FiledByVerdict ==
    \A c \in Copy : header[c] # NoScore =>
      /\ loc[c] = InboxMailbox /\ isSpam(header[c]) => <<"ham", c>> \in told
      /\ loc[c] = SpamMailbox /\ ~isSpam(header[c]) => <<"spam", c>> \in told

(* Rspamd is trained with, and learn marks as read, only mails the user     *)
(* filed in the learning mailbox of that class.                             *)
TrainedAsTold ==
    /\ learned \subseteq told
    /\ \A c \in seen : <<"spam", c>> \in told

(* A mail the user reports stays in its learning mailbox until Rspamd has   *)
(* learned it: learn moves only UIDs it has processed.                      *)
ReportsAreLearned ==
    \A c \in Copy : c[1] \notin Malformed =>
      \A kind \in {"ham", "spam"} :
        <<kind, c>> \in told => \/ <<kind, c>> \in learned
                                \/ loc[c] = SourceOf(kind)

(* With KeepTempFiles off, every temporary file is in the hands of a worker  *)
(* that will remove it, or was left behind by a crash.                      *)
TempFilesOwned ==
    \A f \in tmp : \/ mon[f[1]] = "crashed"
                   \/ KeepTempFiles
                   \/ f[2] \in scannedMails(f[1]) \cup {work[f[1]].cur}

(* A mail that cannot be scanned or rewritten stays where it is: neither the *)
(* pass that fails for it, which replaces the mails scanned before, nor a    *)
(* later one moves it away unscanned.                                       *)
UnscannableStays ==
    \A m \in Unscannable \ Malformed :
      loc[Original(m)] \in {Nowhere, ScanMailbox}

(* No command leaves a session that Monitor has given up: the worker that    *)
(* runIMAPPhase abandons has lost its transport before.                     *)
AbandonedIsSilent ==
    [][\A s \in Session : mon[s] # "running" =>
          request'[s] \in {request[s], NoRequest}]_vars

(* An original in the backup mailbox is never moved again.                  *)
BackupIsFinal ==
    [][\A m \in Mail : loc[Original(m)] = BackupMailbox =>
          loc'[Original(m)] = BackupMailbox]_vars
-----------------------------------------------------------------------------
(* The inductive invariant behind AtMostOnceDelivery, DeliveredIsBackedUp,  *)
(* BackupIsFinal and the refinement of MailDelivery; it needs               *)
(* ScanAndBackupApart.                                                      *)

(* Only the latest session has a transport, and only while Monitor runs.    *)
OpenIsCurrent ==
    \A s \in Session : conn[s] = "open" => s = session /\ mon[s] = "running"

(* Nothing the client uploads gets into the scan mailbox.                   *)
ScanHoldsOriginals == \A c \in Copy : loc[c] = ScanMailbox => c[2] = 0

Appending(s, c) == request[s].op = "append" /\ c \in request[s].copies

(* Wherever a command in flight comes from, it neither fills the scan       *)
(* mailbox nor empties the backup mailbox; only single scanned mails go     *)
(* from the one to the other, and only malformed ones leave it otherwise.   *)
RequestOK(r) ==
    /\ r.op \in {"move", "append"} => r.dest \in Mailbox \ {ScanMailbox}
    /\ r.op = "move" =>
         /\ r.src \in Mailbox \ {BackupMailbox}
         /\ r.src = ScanMailbox /\ r.dest # BackupMailbox =>
              \A c \in r.copies : c[1] \in Malformed
         /\ r.dest = BackupMailbox =>
              /\ r.src = ScanMailbox
              /\ \E c \in Copy : r.copies = {c} /\ c[1] \notin Malformed
    /\ r.op = "append" => r.score \in Scores /\ \E c \in Copy : r.copies = {c}

RequestsOK == \A s \in Session : RequestOK(request[s])

(* An upload in flight is the only one of its mail, now or before, and the  *)
(* original is in the backup mailbox.                                       *)
AppendsOK ==
    \A s \in Session, c \in Copy : Appending(s, c) =>
      /\ c[2] = 0 /\ c[1] \notin Malformed
      /\ uploads[c[1]] = 0
      /\ loc[c] = BackupMailbox
      /\ \A t \in Session : Appending(t, c) => t = s

DeliveredOK ==
    \A m \in Mail : uploads[m] > 0 => /\ uploads[m] = 1
                                      /\ loc[Original(m)] = BackupMailbox

(* The mails the worker of s may yet upload: not yet looked at, at Rspamd,  *)
(* or scanned and not yet sent.                                             *)
Pending(s, c) ==
    \/ c \in work[s].todo /\ c[1] \notin Malformed /\ PhaseOf(s) = "scan"
    \/ work[s].pc = "scan" /\ c = work[s].cur
    \/ c \in scannedMails(s) /\ ~(work[s].pc = "upload" /\ c = work[s].cur)

PendingOK ==
    \A s \in Session, c \in Copy : conn[s] = "open" /\ Pending(s, c) =>
      /\ c[2] = 0 /\ c[1] \notin Malformed
      /\ uploads[c[1]] = 0
      /\ loc[c] \in {ScanMailbox, BackupMailbox}
      /\ \A t \in Session : ~Appending(t, c)

(* The command on an open connection is the one its worker waits for.       *)
CommandAt(s) ==
    conn[s] = "open" =>
      /\ request[s] # NoRequest => reply[s] = "none"
      /\ request[s] # NoRequest =>
           work[s].pc \in {"backup", "upload", "malformed", "mark", "move"}
      /\ work[s].pc = "backup" =>
           /\ work[s].cur \in scannedMails(s)
           /\ reply[s] = "ok" => loc[work[s].cur] = BackupMailbox
           /\ request[s] # NoRequest =>
                /\ request[s].op = "move" /\ request[s].copies = {work[s].cur}
                /\ request[s].src = ScanMailbox /\ request[s].dest = BackupMailbox

CommandsOK == \A s \in Session : CommandAt(s)

(* A worker collects malformed mails only, and has seen all messages when   *)
(* it starts to move them.                                                  *)
WorkerAt(s) ==
    /\ work[s].pc = "idle" => work[s] = Worker("idle", FALSE)
    /\ work[s].pc \in {"replace", "backup", "upload", "malformed"} =>
         work[s].todo = {}
    /\ work[s].pc # "idle" /\ PhaseOf(s) = "scan" =>
         \A c \in work[s].uids : c[1] \in Malformed

WorkersOK == \A s \in Session : WorkerAt(s)

(* However sessions, late commands, crashes and the user interleave, a mail *)
(* has at most one uploader at a time, and none once it has been delivered. *)
FlowInv ==
    /\ OpenIsCurrent /\ ScanHoldsOriginals /\ RequestsOK /\ AppendsOK
    /\ DeliveredOK /\ PendingOK /\ CommandsOK /\ WorkersOK
-----------------------------------------------------------------------------
(* The abstract specification MailDelivery, seen through the location of    *)
(* the originals and the number of uploads.                                 *)

stageOf(m) ==
    LET l == loc[Original(m)]
    IN  IF l = Nowhere THEN "absent"
        ELSE IF l = ScanMailbox THEN "unscanned"
        ELSE IF l = BackupMailbox THEN "backedUp"
        ELSE "bypassed"

Delivery == INSTANCE MailDelivery
              WITH stage <- [m \in Mail |-> stageOf(m)],
                   variants <- uploads,
                   verdict <- [m \in Mail |-> header[<<m, 1>>]]

(* Every step of sessions, workers, server and user is, for the mails in    *)
(* the scan mailbox, a step MailDelivery allows.                            *)
DeliversMail == Delivery!Spec
-----------------------------------------------------------------------------
(* Liveness.  Goroutines are scheduled, the server answers, the daemon is   *)
(* started once, and its retry loop opens a session after a retryable error. *)
(* Nobody has to start it again after it exited or died; faults, arrivals   *)
(* and the user are not fair.                                               *)

Fairness ==
    /\ WF_vars(NewSession) /\ WF_vars(Exit)
    /\ \A s \in Session :
         /\ WF_vars(ServerExecutes(s))
         /\ WF_vars(WorkerStep(s) /\ UNCHANGED faults)
         /\ WF_vars(NewMessages(s) \/ IdleFails(s))
         /\ WF_vars(LearnTimer(s))
         /\ WF_vars(StartPhase(s) \/ CloseTransport(s) \/ PhaseOk(s)
                      \/ PhaseFails(s))

FairSpec == Spec /\ Fairness

DaemonEnded == session > 0 /\ mon[session] = "crashed"

(* Every mail in the scan mailbox leaves it when all can be scanned, unless  *)
(* the daemon ends: a pass that failed for a retryable error is repeated by *)
(* the next session, and so is one that was given up.                       *)
ScanBoxDrains ==
    Unscannable \subseteq Malformed =>
      \A m \in Mail : loc[Original(m)] = ScanMailbox ~>
                      loc[Original(m)] # ScanMailbox \/ DaemonEnded

(* learn returns at a mail Rspamd refuses, before it moves those learned in  *)
(* the same pass: none of them leaves the mailbox as long as it is there.   *)
Blocked(mbox) ==
    \E c \in InMailbox(Copy, mbox) : c[1] \in Unlearnable \ Malformed

(* Every mail the user filed for learning leaves the learning mailbox, if   *)
(* there is no mail in it that Rspamd refuses, unless the daemon ends.      *)
ReportsAreHandled ==
    \A c \in Copy, kind \in {"ham", "spam"} :
      (<<kind, c>> \in told /\ loc[c] = SourceOf(kind)) ~>
      loc[c] # SourceOf(kind) \/ Blocked(SourceOf(kind)) \/ DaemonEnded
-----------------------------------------------------------------------------
(* What comments and the README of the repository say and the code does not *)
(* do; each is the subject of a run that ends with a counterexample.        *)

(* README: "When a new mail arrives, [...] the modified mail is uploaded to  *)
(* either the SpamMailbox or the InboxMailbox"; as long as the daemon runs. *)
NewMailIsUploaded ==
    \A m \in Mail : loc[Original(m)] = BackupMailbox ~>
                    uploads[m] > 0 \/ DaemonEnded
=============================================================================

--------------------------- MODULE MailFilingProofs ---------------------------
(***************************************************************************)
(* Proofs about what MailFlow does with the mails besides delivering them:   *)
(* temporary files, mails that cannot be scanned, and, for configurations in *)
(* which every mailbox has one role (RolesApart), filing and learning.       *)
(***************************************************************************)
EXTENDS MailDeliveryProofs

Learning == {"ham", "spam"}

(* Besides ScanAndBackupApart: the inbox, the spam mailbox and the learning  *)
(* mailboxes are different ones; both learning mailboxes may be unset.       *)
RolesApart ==
    /\ ScanAndBackupApart
    /\ InboxMailbox # SpamMailbox
    /\ {HamMailbox, UndetectedMailbox} \cap {InboxMailbox, SpamMailbox} = {}
    /\ HamMailbox = UndetectedMailbox => HamMailbox = ""
-----------------------------------------------------------------------------
(* Temporary files.                                                         *)

(* The worker of a phase that does not scan, or that has replaced what it   *)
(* scanned, has no scanned mails.                                           *)
NothingScanned(s) ==
    \/ work[s].pc \in {"idle", "select", "returned", "learn", "mark", "move", "malformed"}
    \/ work[s].pc = "iterate" /\ PhaseOf(s) # "scan"
    => scannedMails(s) = {}

(* A file is the one of the mail at Rspamd or of a scanned mail.            *)
FileOwned(s, c) ==
    \/ c \in scannedMails(s)
    \/ work[s].pc = "scan" /\ c = work[s].cur

Disowned(s) == mon[s] = "crashed" \/ KeepTempFiles

FilesOwned(s) ==
    \A c \in Copy : TempFile(s, c) \in tmp => Disowned(s) \/ FileOwned(s, c)

TempAt(s) == NothingScanned(s) /\ FilesOwned(s)
TempInv == \A s \in Session : TempAt(s)

(* A worker that returns has removed its files or had none.                 *)
LEMMA ReturnTemp ==
    ASSUME Inv1, NEW s \in Session, NEW err, Return(s, err), UNCHANGED mon,
           \A c \in Copy : TempFile(s, c) \in tmp' => Disowned(s)
    PROVE  TempAt(s)'
<1>1. work'[s] = Worker("returned", err)
  BY DEF Return, Inv1, TypeOK, WorkType
<1>2. work'[s].pc = "returned" /\ \A c \in Copy : work'[s].scanned[c] = NoScore
  BY <1>1 DEF Worker
<1>3. scannedMails(s)' = {}
  BY <1>2 DEF scannedMails
<1>4. Disowned(s)' <=> Disowned(s)
  BY DEF Disowned
<1> QED
  BY <1>2, <1>3, <1>4 DEF TempAt, NothingScanned, FilesOwned, TempFile

LEMMA RemovedFiles ==
    ASSUME NEW s \in Session, NEW C, removeTempMails(s, C)
    PROVE  /\ \A c \in Copy : TempFile(s, c) \in tmp' /\ ~KeepTempFiles =>
                                TempFile(s, c) \in tmp /\ c \notin C
           /\ \A t \in Session \ {s}, c \in Copy :
                TempFile(t, c) \in tmp' => TempFile(t, c) \in tmp
BY DEF removeTempMails, TempFile

(* The worker's own session.                                                *)
LEMMA WorkerTempOwn ==
    ASSUME Inv1, NEW s \in Session, TempAt(s), WorkerStep(s)
    PROVE  TempAt(s)'
<1> DEFINE w == work[s]
<1>w. work \in [Session -> WorkerState] /\ w \in WorkerState
  BY DEF Inv1, TypeOK, WorkType
<1>c. /\ w.pc \in {"scan", "learn", "backup", "upload"} => w.cur \in Copy
      /\ w.pc \in {"scan", "replace", "backup", "upload", "malformed"} =>
           PhaseOf(s) = "scan"
      /\ w.pc \in {"learn", "mark", "move"} => PhaseOf(s) # "scan"
  BY DEF Inv1, ControlOK
<1>u. UNCHANGED <<mon, plan>>
  BY WorkerStepOK DEF LocalStep, monVars
<1>v. (Disowned(s)' <=> Disowned(s)) /\ PhaseOf(s)' = PhaseOf(s)
  BY <1>u DEF Disowned, PhaseOf
<1>t. NothingScanned(s) /\ FilesOwned(s)
  BY DEF TempAt
<1>n. ASSUME UNCHANGED tmp, w.pc # "scan", scannedMails(s) = {}
      PROVE  \A c \in Copy : TempFile(s, c) \in tmp' => Disowned(s)
  BY <1>n, <1>t DEF FilesOwned, FileOwned
<1>1. CASE MessagesFails(s) \/ ContextExpired(s)
  <2>1. removeTempMails(s, scannedMails(s)) /\ w.pc # "scan" /\ Return(s, TRUE)
    BY <1>1 DEF MessagesFails, ContextExpired
  <2>2. \A c \in Copy : TempFile(s, c) \in tmp' => Disowned(s)
    BY <2>1, <1>t, RemovedFiles DEF FilesOwned, FileOwned, Disowned
  <2> QED
    BY <2>1, <2>2, <1>u, ReturnTemp
<1>2. CASE LearnFails(s) \/ LearnRejected(s) \/ MalformedDone(s) \/ MoveLearnedDone(s)
  <2>1. /\ w.pc \in {"learn", "malformed", "move"} /\ UNCHANGED tmp
        /\ \E err : Return(s, err)
    BY <1>2 DEF LearnFails, LearnRejected, MalformedDone, MoveLearnedDone
  <2>2. scannedMails(s) = {}
    BY <2>1, <1>t DEF NothingScanned
  <2> QED
    BY <2>1, <2>2, <1>n, <1>u, ReturnTemp
<1>3. ASSUME UNCHANGED <<tmp, scannedMails(s)>>, work'[s].pc # "scan", w.pc # "scan",
             NothingScanned(s)'
      PROVE  TempAt(s)'
  BY <1>3, <1>t, <1>v DEF TempAt, FilesOwned, FileOwned, TempFile
<1>4. CASE Messages(s) \/ \E c \in Copy : SkipMalformed(s, c)
  <2>1. UNCHANGED tmp /\ w.pc \in {"select", "iterate"} /\ work'[s].pc = "iterate"
        /\ (w.pc = "iterate" \/ scannedMails(s) = {})
    BY <1>4, <1>w, <1>t DEF Messages, SkipMalformed, NothingScanned, WorkerState
  <2>2. work'[s].scanned = w.scanned
    BY <1>4, <1>w DEF Messages, SkipMalformed, WorkerState
  <2>3. scannedMails(s)' = scannedMails(s)
    BY <2>2 DEF scannedMails
  <2> QED
    BY <2>1, <2>3, <1>3, <1>t, <1>v DEF NothingScanned
<1>5. ASSUME NEW c \in Copy, TakeMessage(s, c) PROVE TempAt(s)'
  <2>1. /\ w.pc = "iterate" /\ work'[s].scanned = w.scanned /\ work'[s].cur = c
        /\ work'[s].pc = IF PhaseOf(s) = "scan" THEN "scan" ELSE "learn"
        /\ tmp' = IF PhaseOf(s) = "scan" THEN tmp \cup {TempFile(s, c)} ELSE tmp
    BY <1>5, <1>w DEF TakeMessage, WorkerState
  <2>2. scannedMails(s)' = scannedMails(s)
    BY <2>1 DEF scannedMails
  <2>3. CASE PhaseOf(s) = "scan"
    BY <2>1, <2>2, <2>3, <1>t, <1>v
       DEF TempAt, NothingScanned, FilesOwned, FileOwned, TempFile
  <2>4. CASE PhaseOf(s) # "scan"
    BY <2>1, <2>2, <2>4, <1>3, <1>t DEF NothingScanned
  <2> QED
    BY <2>3, <2>4
<1>6. CASE ScanOk(s)
  <2>1. PICK n \in Scores :
          work' = [work EXCEPT ![s].scanned[work[s].cur] = n,
                               ![s].cur = NoMail, ![s].pc = "iterate"]
    BY <1>6 DEF ScanOk
  <2>2. w.pc = "scan" /\ w.cur \in Copy /\ UNCHANGED tmp /\ PhaseOf(s) = "scan"
    BY <1>6, <1>c DEF ScanOk
  <2>3. /\ work'[s].pc = "iterate"
        /\ work'[s].scanned = [w.scanned EXCEPT ![w.cur] = n]
    BY <2>1, <1>w DEF WorkerState
  <2>4. scannedMails(s)' = scannedMails(s) \cup {w.cur}
    <3>1. w.scanned \in [Copy -> Scores \cup {NoScore}]
      BY <1>w DEF WorkerState
    <3> QED
      BY <2>2, <2>3, <3>1, ScoreAssumption DEF scannedMails
  <2> QED
    BY <2>2, <2>3, <2>4, <1>t, <1>v
       DEF TempAt, NothingScanned, FilesOwned, FileOwned, TempFile
<1>7. CASE ScanFails(s)
  <2>1. /\ w.pc = "scan" /\ w.cur \in Copy /\ removeTempMails(s, {w.cur})
        /\ work'[s].scanned = w.scanned /\ work'[s].pc = "replace"
    BY <1>7, <1>w, <1>c DEF ScanFails, AbortLoop, WorkerState
  <2>2. scannedMails(s)' = scannedMails(s)
    BY <2>1 DEF scannedMails
  <2>3. \A c \in Copy : TempFile(s, c) \in tmp' =>
          Disowned(s) \/ (TempFile(s, c) \in tmp /\ c # w.cur)
    BY <2>1, RemovedFiles DEF Disowned
  <2>4. FilesOwned(s)'
    BY <2>2, <2>3, <1>t, <1>v DEF FilesOwned, FileOwned, TempFile
  <2> QED
    BY <2>1, <2>4 DEF TempAt, NothingScanned
<1>8. CASE ScanLoopEnds(s) \/ (\E c \in Copy : BackUp(s, c)) \/ Upload(s)
  <2>1. /\ UNCHANGED tmp /\ work'[s].scanned = w.scanned
        /\ work'[s].pc \in {"replace", "backup", "upload"} /\ w.pc # "scan"
    <3>1. CASE ScanLoopEnds(s)
      BY <3>1, <1>w DEF ScanLoopEnds, WorkerState
    <3>2. ASSUME NEW c \in Copy, BackUp(s, c)
          PROVE  /\ UNCHANGED tmp /\ work'[s].scanned = w.scanned
                 /\ work'[s].pc = "backup" /\ w.pc # "scan"
      BY <3>2, <1>w DEF BackUp, WorkerState
    <3>3. CASE Upload(s)
      BY <3>3, <1>w DEF Upload, WorkerState
    <3> QED
      BY <1>8, <3>1, <3>2, <3>3
  <2>2. scannedMails(s)' = scannedMails(s)
    BY <2>1 DEF scannedMails
  <2> QED
    BY <2>1, <2>2, <1>3 DEF NothingScanned
<1>9. CASE UploadDone(s) \/ ReplaceFails(s)
  <2>1. w.pc \in {"backup", "upload"} /\ w.cur \in Copy /\ removeTempMails(s, {w.cur})
    BY <1>9, <1>c DEF UploadDone, ReplaceFails, NextScanned
  <2>2. /\ work'[s].scanned = [w.scanned EXCEPT ![w.cur] = NoScore]
        /\ work'[s].pc = "replace"
    BY <1>9, <1>w DEF UploadDone, ReplaceFails, NextScanned, WorkerState
  <2>3. scannedMails(s)' = scannedMails(s) \ {w.cur}
    <3>1. w.scanned \in [Copy -> Scores \cup {NoScore}]
      BY <1>w DEF WorkerState
    <3> QED
      BY <2>1, <2>2, <3>1 DEF scannedMails
  <2>4. \A c \in Copy : TempFile(s, c) \in tmp' =>
          Disowned(s) \/ (TempFile(s, c) \in tmp /\ c # w.cur)
    BY <2>1, RemovedFiles DEF Disowned
  <2>5. FilesOwned(s)'
    BY <2>1, <2>3, <2>4, <1>t, <1>v DEF FilesOwned, FileOwned, TempFile
  <2> QED
    BY <2>2, <2>5 DEF TempAt, NothingScanned
<1>10. CASE ReplaceDone(s)
  <2>1. w.pc = "replace" /\ scannedMails(s) = {} /\ UNCHANGED tmp
    BY <1>10 DEF ReplaceDone
  <2>2. CASE Return(s, w.failed)
    BY <2>1, <2>2, <1>n, <1>u, ReturnTemp
  <2>3. CASE work' = [work EXCEPT ![s].pc = "malformed"]
    <3>1. work'[s].scanned = w.scanned /\ work'[s].pc = "malformed"
      BY <2>3, <1>w DEF WorkerState
    <3>2. scannedMails(s)' = scannedMails(s)
      BY <3>1 DEF scannedMails
    <3> QED
      BY <2>1, <3>1, <3>2, <1>3 DEF NothingScanned
  <2> QED
    BY <1>10, <2>2, <2>3 DEF ReplaceDone
<1>11. CASE LearnOk(s)
  <2>1. /\ w.pc = "learn" /\ UNCHANGED tmp /\ work'[s].scanned = w.scanned
        /\ work'[s].pc = "iterate"
    BY <1>11, <1>w DEF LearnOk, WorkerState
  <2>2. scannedMails(s)' = scannedMails(s)
    BY <2>1 DEF scannedMails
  <2> QED
    BY <2>1, <2>2, <1>3, <1>t DEF NothingScanned
<1>12. CASE LearnLoopEnds(s) \/ MarkSeenDone(s)
  <2>1. UNCHANGED tmp /\ w.pc # "scan" /\ scannedMails(s) = {}
    BY <1>12, <1>t DEF LearnLoopEnds, MarkSeenDone, NothingScanned
  <2>2. CASE \E err : Return(s, err)
    BY <2>1, <2>2, <1>n, <1>u, ReturnTemp
  <2>3. CASE ~\E err : Return(s, err)
    <3>1. work'[s].scanned = w.scanned /\ work'[s].pc \in {"mark", "move"}
      BY <1>12, <2>3, <1>w DEF LearnLoopEnds, MarkSeenDone, MoveLearned, WorkerState
    <3>2. scannedMails(s)' = scannedMails(s)
      BY <3>1 DEF scannedMails
    <3> QED
      BY <2>1, <3>1, <3>2, <1>3 DEF NothingScanned
  <2> QED
    BY <2>2, <2>3
<1> QED
  BY <1>1, <1>2, <1>4, <1>5, <1>6, <1>7, <1>8, <1>9, <1>10, <1>11, <1>12
     DEF WorkerStep

(* The other sessions are not concerned.                                    *)
LEMMA OtherFiles ==
    ASSUME NEW s \in Session, WorkerStep(s), NEW t \in Session \ {s}, NEW c \in Copy,
           TempFile(t, c) \in tmp'
    PROVE  TempFile(t, c) \in tmp
<1>1. \/ UNCHANGED tmp
      \/ \E C : removeTempMails(s, C)
      \/ \E d \in Copy : tmp' \subseteq tmp \cup {TempFile(s, d)}
  <2>1. ASSUME NEW d \in Copy, TakeMessage(s, d)
        PROVE  tmp' \subseteq tmp \cup {TempFile(s, d)}
    BY <2>1 DEF TakeMessage
  <2> QED
    BY <2>1 DEF WorkerStep, Messages, MessagesFails, ContextExpired, SkipMalformed,
       BackUp, ScanOk, ScanFails, ScanLoopEnds, Upload, UploadDone, ReplaceFails,
       NextScanned, ReplaceDone, MalformedDone, LearnOk, LearnFails, LearnRejected,
       LearnLoopEnds, MarkSeenDone, MoveLearnedDone
<1>2. \A d \in Copy : TempFile(s, d) # TempFile(t, c)
  BY DEF TempFile
<1> QED
  BY <1>1, <1>2, RemovedFiles

(* What TempAt says of a session depends on its worker only.                *)
LEMMA SameTemp ==
    ASSUME NEW t \in Session, TempAt(t), UNCHANGED <<work[t], plan[t]>>,
           mon[t] = "crashed" => mon'[t] = "crashed",
           \A c \in Copy : TempFile(t, c) \in tmp' => TempFile(t, c) \in tmp
    PROVE  TempAt(t)'
<1>1. scannedMails(t)' = scannedMails(t) /\ PhaseOf(t)' = PhaseOf(t)
  BY DEF scannedMails, PhaseOf
<1>2. Disowned(t) => Disowned(t)'
  BY DEF Disowned
<1> QED
  BY <1>1, <1>2 DEF TempAt, NothingScanned, FilesOwned, FileOwned, TempFile

(* A worker that has nothing in hand, or died, is replaced by a new one.    *)
LEMMA FreshTemp ==
    ASSUME NEW t \in Session, TempAt(t), UNCHANGED tmp,
           \E pc \in {"idle", "select", "returned"} : work'[t] = Worker(pc, FALSE),
           \/ mon'[t] = "crashed"
           \/ work[t].pc \in {"idle", "returned"} /\ mon[t] # "crashed"
    PROVE  TempAt(t)'
<1>1. PICK pc \in {"idle", "select", "returned"} : work'[t] = Worker(pc, FALSE)
  OBVIOUS
<1>2. work'[t].pc = pc /\ \A c \in Copy : work'[t].scanned[c] = NoScore
  BY <1>1 DEF Worker
<1>3. scannedMails(t)' = {}
  BY <1>2 DEF scannedMails
<1>4. \A c \in Copy : TempFile(t, c) \in tmp => Disowned(t)'
  BY DEF TempAt, NothingScanned, FilesOwned, FileOwned, Disowned
<1> QED
  BY <1>2, <1>3, <1>4 DEF TempAt, NothingScanned, FilesOwned, TempFile

LEMMA NextTemp == Inv1 /\ TempInv /\ [Next]_vars => TempInv'
<1> SUFFICES ASSUME Inv1, TempInv, [Next]_vars, NEW t \in Session
             PROVE  TempAt(t)'
  BY DEF TempInv
<1>t. TempAt(t) /\ MonType /\ WorkType /\ ControlOK
  BY DEF TempInv, Inv1, TypeOK
<1>1. ASSUME NEW s \in Session, WorkerStep(s) PROVE TempAt(t)'
  <2>1. UNCHANGED <<mon, plan>> /\ \A r \in Session \ {s} : work'[r] = work[r]
    BY <1>1, WorkerStepOK DEF WorkerOK, LocalStep, monVars
  <2>2. CASE t = s
    BY <1>1, <1>t, <2>2, WorkerTempOwn
  <2>3. CASE t # s
    BY <1>1, <1>t, <2>1, <2>3, OtherFiles, SameTemp
  <2> QED
    BY <2>2, <2>3
<1>2. CASE \/ \E m \in Mail : Arrive(m)
           \/ \E c \in Copy : User(c)
           \/ \E s \in Session : Server(s) \/ ConnectionLost(s)
           \/ UNCHANGED vars
  <2>1. UNCHANGED <<work, plan, mon, tmp>>
    BY <1>2 DEF Arrive, User, UserReportsSpam, UserReportsHam, UserReports, Server,
       ServerExecutes, ServerRefuses, Answer, RequestLost, ConnectionLost, monVars, vars
  <2> QED
    BY <2>1, <1>t, SameTemp
<1>3. ASSUME NEW s \in Session, Monitor(s) PROVE TempAt(t)'
  <2>1. /\ UNCHANGED tmp
        /\ mon[t] = "crashed" => mon'[t] = "crashed" /\ t # s
    BY <1>3, <1>t DEF Monitor, NewMessages, LearnTimer, IdleFails, MonitorFails,
       StartPhase, Expire,
       CloseTransport, Abandon, PhaseOk, PhaseFails, MonStep, Idle, PhaseRunning,
       MonType
  <2>2. CASE t # s
    <3>1. UNCHANGED <<work[t], plan[t]>>
      BY <1>3, <1>t, <2>2 DEF Monitor, NewMessages, LearnTimer, IdleFails,
         MonitorFails, StartPhase,
         Expire, CloseTransport, Abandon, PhaseOk, PhaseFails, MonType, WorkType
    <3> QED
      BY <2>1, <3>1, <1>t, SameTemp
  <2>3. CASE t = s /\ (NewMessages(s) \/ LearnTimer(s))
    <3>1. work'[t] = work[t] /\ work[t].pc = "idle"
      BY <1>t, <2>3 DEF NewMessages, LearnTimer, Idle, ControlOK
    <3>2. scannedMails(t)' = scannedMails(t)
      BY <3>1 DEF scannedMails
    <3>3. Disowned(t) => Disowned(t)'
      BY <2>1 DEF Disowned
    <3> QED
      BY <1>t, <2>1, <3>1, <3>2, <3>3
         DEF TempAt, NothingScanned, FilesOwned, FileOwned, TempFile
  <2>4. CASE t = s /\ (IdleFails(s) \/ Abandon(s) \/ Expire(s) \/ CloseTransport(s))
    <3>1. UNCHANGED <<work[t], plan[t]>>
      BY <2>4 DEF IdleFails, MonitorFails, Abandon, Expire, CloseTransport
    <3> QED
      BY <2>1, <3>1, <1>t, SameTemp
  <2>5. CASE t = s /\ (StartPhase(s) \/ PhaseOk(s) \/ PhaseFails(s))
    <3>1. /\ work[t].pc \in {"idle", "returned"}
          /\ \E pc \in {"idle", "select", "returned"} : work'[t] = Worker(pc, FALSE)
      BY <2>5, <1>t DEF StartPhase, PhaseOk, PhaseFails, MonitorFails, WorkType
    <3> QED
      BY <2>1, <2>5, <3>1, <1>t, FreshTemp
  <2> QED
    BY <1>3, <2>2, <2>3, <2>4, <2>5 DEF Monitor
<1>4. CASE NewSession \/ Restart
  <2>1. session + 1 \in Session /\ session + 1 > session
    BY <1>4, <1>t, BoundAssumption DEF NewSession, Restart, OpenSession, MonType,
       Session
  <2>2. UNCHANGED <<work, tmp>> /\ (mon[t] = "crashed" => mon'[t] = "crashed")
    BY <1>4, <1>t, <2>1 DEF NewSession, Restart, OpenSession, ControlOK, MonType
  <2>3. CASE t = session + 1
    <3>1. work[t].pc = "idle"
      BY <1>t, <2>1, <2>3 DEF ControlOK
    <3>2. scannedMails(t)' = scannedMails(t)
      BY <2>2 DEF scannedMails
    <3>3. Disowned(t) => Disowned(t)'
      BY <2>2 DEF Disowned
    <3> QED
      BY <1>t, <2>2, <3>1, <3>2, <3>3
         DEF TempAt, NothingScanned, FilesOwned, FileOwned, TempFile
  <2>4. CASE t # session + 1
    <3>1. plan'[t] = plan[t]
      BY <1>4, <1>t, <2>1, <2>4 DEF NewSession, Restart, OpenSession, MonType
    <3> QED
      BY <2>2, <3>1, <1>t, SameTemp
  <2> QED
    BY <2>3, <2>4
<1>5. CASE Crash \/ Exit
  <2>1. UNCHANGED tmp /\ work'[t] = Worker("idle", FALSE)
        /\ mon'[t] = IF t <= session THEN "crashed" ELSE mon[t]
    BY <1>5 DEF Crash, Exit, ProcessEnds
  <2>2. ~(t <= session) => work[t].pc = "idle" /\ mon[t] # "crashed"
    BY <1>t DEF ControlOK, MonType, Session
  <2> QED
    BY <2>1, <2>2, <1>t, FreshTemp
<1> QED
  BY <1>1, <1>2, <1>3, <1>4, <1>5 DEF Next

(* With KeepTempFiles off, the temporary file of every mail a worker has     *)
(* downloaded is in the hands of a worker that will remove it, on every path *)
(* through processScanBox, abandoned workers included; only a crash leaves   *)
(* files behind.                                                            *)
THEOREM FilesAreOwned == Spec => []TempFilesOwned
<1>1. Init => TempInv
  <2> SUFFICES ASSUME Init, NEW s \in Session PROVE TempAt(s)
    BY DEF TempInv
  <2>1. tmp = {} /\ \A c \in Copy : work[s].scanned[c] = NoScore
    BY DEF Init, Worker
  <2> QED
    BY <2>1 DEF TempAt, NothingScanned, FilesOwned, scannedMails
<1>2. Inv1 /\ TempInv /\ [Next]_vars => TempInv'
  BY NextTemp
<1>3. Inv1 /\ TempInv => TempFilesOwned
  <2> SUFFICES ASSUME TmpType, TempInv, NEW f \in tmp
               PROVE  \/ mon[f[1]] = "crashed"
                      \/ KeepTempFiles
                      \/ f[2] \in scannedMails(f[1]) \cup {work[f[1]].cur}
    BY DEF Inv1, TypeOK, TempFilesOwned
  <2>1. f[1] \in Session /\ f[2] \in Copy /\ f = TempFile(f[1], f[2])
    BY DEF TmpType, TempFile
  <2> QED
    BY <2>1 DEF TempInv, TempAt, FilesOwned, FileOwned, Disowned
<1>4. Inv1 <=> TypeOK /\ ControlOK
  BY DEF Inv1
<1> QED
  BY <1>1, <1>2, <1>3, <1>4, TypeCorrect, PTL DEF Spec
-----------------------------------------------------------------------------
(* What the steps do to the commands in flight and to what workers hold.    *)

(* A new command of the worker of session s.                                *)
NewRequest(s, r) ==
    /\ r.src = SourceOf(PhaseOf(s))
    /\ \/ /\ PhaseOf(s) = "scan" /\ r.op = "move"
          /\ \/ r.dest = BackupMailbox /\ r.copies \subseteq scannedMails(s)
             \/ r.dest = InboxMailbox /\ r.copies = work[s].uids
       \/ PhaseOf(s) = "scan" /\ r.op = "append" /\ r.dest = UploadDest(r.score)
       \/ PhaseOf(s) = "spam" /\ r.op = "store"
       \/ /\ PhaseOf(s) \in Learning /\ r.op = "move"
          /\ r.dest = LearnDest(PhaseOf(s)) /\ r.copies = work[s].uids

LEMMA SentRequest ==
    ASSUME Inv1, NEW s \in Session, NEW op, NEW C, NEW dest, NEW n,
           Send(s, op, C, dest, n)
    PROVE  \/ request'[s] = request[s]
           \/ /\ request'[s].op = op /\ request'[s].copies = C
              /\ request'[s].src = SourceOf(PhaseOf(s))
              /\ request'[s].dest = dest /\ request'[s].score = n
<1>1. \/ request'[s] = request[s]
      \/ request'[s] = [op |-> op, copies |-> C, src |-> SourceOf(PhaseOf(s)),
                        dest |-> dest, score |-> n]
  BY DEF Send, Inv1, TypeOK, ConnType
<1> QED
  BY <1>1

LEMMA RequestStep ==
    ASSUME Inv1, NEW s \in Session, WorkerStep(s)
    PROVE  request'[s] = request[s] \/ NewRequest(s, request'[s])
<1>c. /\ work[s].pc \in {"scan", "replace", "backup", "upload", "malformed"} =>
           PhaseOf(s) = "scan"
      /\ work[s].pc \in {"learn", "mark", "move"} => PhaseOf(s) \in Learning
  BY DEF Inv1, ControlOK, Learning
<1>p. PhaseOf(s) # "scan" => PhaseOf(s) \in Learning
  BY WorkerNotIdle, PhaseTypes DEF Phase, Learning
<1>1. ASSUME NEW c \in Copy, BackUp(s, c)
      PROVE  request'[s] = request[s] \/ NewRequest(s, request'[s])
  <2>1. Send(s, "move", {c}, BackupMailbox, NoScore) /\ PhaseOf(s) = "scan"
        /\ {c} \subseteq scannedMails(s)
    BY <1>1, <1>c DEF BackUp
  <2> QED
    BY <2>1, SentRequest DEF NewRequest
<1>2. CASE Upload(s)
  <2>1. PICK n : Send(s, "append", {work[s].cur}, UploadDest(n), n)
    BY <1>2 DEF Upload
  <2>2. PhaseOf(s) = "scan"
    BY <1>2, <1>c DEF Upload
  <2> QED
    BY <2>1, <2>2, SentRequest DEF NewRequest
<1>3. CASE ReplaceDone(s)
  <2>1. PhaseOf(s) = "scan"
    BY <1>3, <1>c DEF ReplaceDone
  <2>2. CASE Send(s, "move", work[s].uids, InboxMailbox, NoScore)
    BY <2>1, <2>2, SentRequest DEF NewRequest
  <2> QED
    BY <1>3, <2>2 DEF ReplaceDone, NoCommand
<1>4. ASSUME MoveLearned(s), PhaseOf(s) \in Learning
      PROVE  request'[s] = request[s] \/ NewRequest(s, request'[s])
  <2>1. Send(s, "move", work[s].uids, LearnDest(PhaseOf(s)), NoScore)
    BY <1>4 DEF MoveLearned
  <2> QED
    BY <1>4, <2>1, SentRequest DEF NewRequest
<1>5. CASE LearnLoopEnds(s)
  <2>1. CASE /\ markAsSeen(PhaseOf(s))
             /\ Send(s, "store", work[s].uids, Nowhere, NoScore)
    BY <2>1, SentRequest DEF NewRequest, markAsSeen
  <2>2. CASE MoveLearned(s)
    BY <1>5, <2>2, <1>4, <1>p DEF LearnLoopEnds
  <2> QED
    BY <1>5, <2>1, <2>2 DEF LearnLoopEnds, NoCommand
<1>6. CASE MarkSeenDone(s)
  BY <1>6, <1>4, <1>c DEF MarkSeenDone
<1>7. CASE NoCommand
  BY <1>7 DEF NoCommand
<1> QED
  BY <1>1, <1>2, <1>3, <1>5, <1>6, <1>7
     DEF WorkerStep, Messages, MessagesFails, ContextExpired, SkipMalformed,
         TakeMessage, ScanOk, ScanFails, ScanLoopEnds, UploadDone, ReplaceFails,
         NextScanned, MalformedDone, LearnOk, LearnFails, LearnRejected,
         MoveLearnedDone

(* What a worker adds to scannedMails is not unscannable; to todo, it is in  *)
(* the mailbox of the phase; to the UIDs, it is malformed or just learned.   *)
HandOver(s) ==
    /\ \A c \in Copy : work'[s].scanned[c] # NoScore =>
         c \in scannedMails(s) \/ c[1] \notin Unscannable
    /\ \A c \in work'[s].todo : c \in work[s].todo \/ loc[c] = SourceOf(PhaseOf(s))
    /\ work'[s].pc = "learn" => work'[s].cur \in work[s].todo
    /\ \A c \in work'[s].uids : \/ c \in work[s].uids \/ c[1] \in Malformed
                                \/ <<PhaseOf(s), c>> \in learned'
    /\ learned \subseteq learned'
    /\ \A x \in learned' : \/ x \in learned
                           \/ work[s].pc = "learn" /\ x = <<PhaseOf(s), work[s].cur>>

LEMMA HandOverStep ==
    ASSUME Inv1, NEW s \in Session, WorkerStep(s)
    PROVE  HandOver(s)
<1> DEFINE w == work[s]
<1>w. /\ work \in [Session -> WorkerState] /\ w \in WorkerState
      /\ w.scanned \in [Copy -> Scores \cup {NoScore}]
  BY DEF Inv1, TypeOK, WorkType, WorkerState
<1>c. w.pc \in {"scan", "learn", "backup", "upload"} => w.cur \in Copy
  BY DEF Inv1, ControlOK
<1>s. \A c \in Copy : w.scanned[c] # NoScore => c \in scannedMails(s)
  BY DEF scannedMails
<1>r. ASSUME NEW err, Return(s, err), learned \subseteq learned',
             \A x \in learned' : \/ x \in learned
                                 \/ w.pc = "learn" /\ x = <<PhaseOf(s), w.cur>>
      PROVE  HandOver(s)
  <2>1. work'[s] = Worker("returned", err)
    BY <1>r, <1>w DEF Return
  <2>2. /\ work'[s].pc = "returned" /\ work'[s].todo = {} /\ work'[s].uids = {}
        /\ \A c \in Copy : work'[s].scanned[c] = NoScore
    BY <2>1 DEF Worker
  <2> QED
    BY <1>r, <2>2 DEF HandOver
<1>1. CASE LearnFails(s)
  BY <1>1, <1>r DEF LearnFails
<1>2. CASE MessagesFails(s) \/ ContextExpired(s) \/ LearnRejected(s)
           \/ MalformedDone(s) \/ MoveLearnedDone(s)
  BY <1>2, <1>r DEF MessagesFails, ContextExpired, LearnRejected, MalformedDone,
                    MoveLearnedDone
<1>3. CASE Messages(s)
  <2>1. /\ work'[s].scanned = w.scanned /\ work'[s].uids = w.uids
        /\ work'[s].pc = "iterate" /\ learned' = learned
        /\ work'[s].todo = InMailbox(Copy, SourceOf(PhaseOf(s)))
    BY <1>3, <1>w DEF Messages, WorkerState
  <2> QED
    BY <2>1, <1>s DEF HandOver, InMailbox
<1>4. ASSUME NEW c \in Copy, SkipMalformed(s, c) PROVE HandOver(s)
  <2>1. /\ work'[s].scanned = w.scanned /\ work'[s].uids = w.uids \cup {c}
        /\ work'[s].pc = "iterate" /\ learned' = learned /\ c[1] \in Malformed
        /\ work'[s].todo = w.todo \ {c}
    BY <1>4, <1>w DEF SkipMalformed, WorkerState
  <2> QED
    BY <2>1, <1>s DEF HandOver
<1>5. ASSUME NEW c \in Copy, TakeMessage(s, c) PROVE HandOver(s)
  <2>1. /\ work'[s].scanned = w.scanned /\ work'[s].uids = w.uids
        /\ work'[s].cur = c /\ c \in w.todo /\ learned' = learned
        /\ work'[s].todo = w.todo \ {c}
    BY <1>5, <1>w DEF TakeMessage, WorkerState
  <2> QED
    BY <2>1, <1>s DEF HandOver
<1>6. CASE ScanOk(s)
  <2>1. PICK n \in Scores :
          work' = [work EXCEPT ![s].scanned[work[s].cur] = n,
                               ![s].cur = NoMail, ![s].pc = "iterate"]
    BY <1>6 DEF ScanOk
  <2>2. /\ work'[s].scanned = [w.scanned EXCEPT ![w.cur] = n]
        /\ work'[s].uids = w.uids /\ work'[s].todo = w.todo
        /\ work'[s].pc = "iterate" /\ learned' = learned
        /\ w.cur[1] \notin Unscannable /\ w.cur \in Copy
    BY <1>6, <2>1, <1>w, <1>c DEF ScanOk, WorkerState
  <2> QED
    BY <2>2, <1>s, <1>w DEF HandOver
<1>7. CASE ScanFails(s) \/ ScanLoopEnds(s)
  <2>1. /\ work'[s].scanned = w.scanned /\ work'[s].uids = w.uids
        /\ work'[s].pc = "replace" /\ learned' = learned /\ work'[s].todo = {}
    BY <1>7, <1>w DEF ScanFails, AbortLoop, ScanLoopEnds, WorkerState
  <2> QED
    BY <2>1, <1>s DEF HandOver
<1>8. ASSUME NEW c \in Copy, BackUp(s, c) PROVE HandOver(s)
  <2>1. /\ work'[s].scanned = w.scanned /\ work'[s].uids = w.uids
        /\ work'[s].pc = "backup" /\ learned' = learned /\ work'[s].todo = w.todo
    BY <1>8, <1>w DEF BackUp, WorkerState
  <2> QED
    BY <2>1, <1>s DEF HandOver
<1>9. CASE Upload(s)
  <2>1. /\ work'[s].scanned = w.scanned /\ work'[s].uids = w.uids
        /\ work'[s].pc = "upload" /\ learned' = learned /\ work'[s].todo = w.todo
    BY <1>9, <1>w DEF Upload, WorkerState
  <2> QED
    BY <2>1, <1>s DEF HandOver
<1>10. CASE UploadDone(s) \/ ReplaceFails(s)
  <2>1. /\ work'[s].scanned = [w.scanned EXCEPT ![w.cur] = NoScore]
        /\ work'[s].uids = w.uids /\ work'[s].todo = w.todo
        /\ work'[s].pc = "replace" /\ learned' = learned
    BY <1>10, <1>w DEF UploadDone, ReplaceFails, NextScanned, WorkerState
  <2> QED
    BY <2>1, <1>s, <1>w DEF HandOver
<1>11. CASE ReplaceDone(s)
  <2>1. learned' = learned
    BY <1>11 DEF ReplaceDone
  <2>2. CASE work' = [work EXCEPT ![s].pc = "malformed"]
    <3>1. /\ work'[s].scanned = w.scanned /\ work'[s].uids = w.uids
          /\ work'[s].pc = "malformed" /\ work'[s].todo = w.todo
      BY <2>2, <1>w DEF WorkerState
    <3> QED
      BY <2>1, <3>1, <1>s DEF HandOver
  <2> QED
    BY <1>11, <2>1, <2>2, <1>r DEF ReplaceDone
<1>12. CASE LearnOk(s)
  <2>1. /\ work'[s].scanned = w.scanned /\ work'[s].uids = w.uids \cup {w.cur}
        /\ work'[s].pc = "iterate" /\ work'[s].todo = w.todo /\ w.pc = "learn"
        /\ learned' = learned \cup {<<PhaseOf(s), w.cur>>}
    BY <1>12, <1>w DEF LearnOk, WorkerState
  <2> QED
    BY <2>1, <1>s DEF HandOver
<1>13. CASE LearnLoopEnds(s) \/ MarkSeenDone(s)
  <2>1. learned' = learned
    BY <1>13 DEF LearnLoopEnds, MarkSeenDone
  <2>2. CASE \E pc \in {"mark", "move"} :
               work' = [work EXCEPT ![s].pc = pc, ![s].todo = {}]
    <3>1. /\ work'[s].scanned = w.scanned /\ work'[s].uids = w.uids
          /\ work'[s].pc \in {"mark", "move"} /\ work'[s].todo = {}
      BY <2>2, <1>w DEF WorkerState
    <3> QED
      BY <2>1, <3>1, <1>s DEF HandOver
  <2> QED
    BY <1>13, <2>1, <2>2, <1>r DEF LearnLoopEnds, MarkSeenDone, MoveLearned
<1> QED
  BY <1>1, <1>2, <1>3, <1>4, <1>5, <1>6, <1>7, <1>8, <1>9, <1>10, <1>11, <1>12, <1>13
     DEF WorkerStep

(* Every other step leaves a worker alone or replaces it by a new one, and  *)
(* only takes commands away.                                                *)
NewWorker(t) == \E pc \in {"idle", "select", "returned"} : work'[t] = Worker(pc, FALSE)

QuietStep ==
    /\ UNCHANGED learned
    /\ \A t \in Session : request'[t] = request[t] \/ request'[t] = NoRequest
    /\ \A t \in Session :
         \/ work'[t] = work[t] /\ (plan'[t] = plan[t] \/ work[t].pc = "idle")
         \/ NewWorker(t)

LEMMA QuietSteps ==
    ASSUME Inv1, [Next]_vars
    PROVE  QuietStep \/ \E s \in Session : WorkerStep(s)
<1>t. ConnType /\ MonType /\ WorkType /\ ControlOK
  BY DEF Inv1, TypeOK
<1>1. CASE \/ \E m \in Mail : Arrive(m)
           \/ \E c \in Copy : User(c)
           \/ UNCHANGED vars
  BY <1>1 DEF Arrive, User, UserReportsSpam, UserReportsHam, UserReports, connVars,
     monVars, vars, QuietStep
<1>2. ASSUME NEW s \in Session, Server(s) \/ ConnectionLost(s) PROVE QuietStep
  <2>1. UNCHANGED <<learned, work, plan>>
    BY <1>2 DEF Server, ServerExecutes, ServerRefuses, Answer, RequestLost,
       ConnectionLost, monVars
  <2>2. UNCHANGED request \/ request' = [request EXCEPT ![s] = NoRequest]
    BY <1>2 DEF Server, ServerExecutes, ServerRefuses, Answer, RequestLost,
       ConnectionLost
  <2> QED
    BY <2>1, <2>2, <1>t DEF QuietStep, ConnType
<1>3. ASSUME NEW s \in Session, Monitor(s) PROVE QuietStep
  <2>1. UNCHANGED <<learned, request>>
    BY <1>3 DEF Monitor, NewMessages, LearnTimer, IdleFails, MonitorFails, StartPhase,
       Expire,
       CloseTransport, Abandon, PhaseOk, PhaseFails, MonStep
  <2>2. CASE NewMessages(s) \/ LearnTimer(s)
    <3>1. work[s].pc = "idle" /\ work' = work
      BY <2>2, <1>t DEF NewMessages, LearnTimer, Idle, ControlOK
    <3>2. \A t \in Session \ {s} : plan'[t] = plan[t]
      BY <2>2, <1>t DEF NewMessages, LearnTimer, MonType
    <3> QED
      BY <2>1, <3>1, <3>2 DEF QuietStep
  <2>3. CASE IdleFails(s) \/ Abandon(s) \/ Expire(s) \/ CloseTransport(s)
    BY <2>1, <2>3 DEF IdleFails, MonitorFails, Abandon, Expire, CloseTransport,
       QuietStep
  <2>4. CASE StartPhase(s) \/ PhaseOk(s) \/ PhaseFails(s)
    <3>1. PICK pc \in {"idle", "select", "returned"} :
            work' = [work EXCEPT ![s] = Worker(pc, FALSE)]
      BY <2>4 DEF StartPhase, PhaseOk, PhaseFails, MonitorFails
    <3>2. NewWorker(s) /\ \A t \in Session \ {s} : work'[t] = work[t]
      BY <3>1, <1>t DEF NewWorker, WorkType
    <3>3. \A t \in Session \ {s} : plan'[t] = plan[t]
      BY <2>4, <1>t DEF StartPhase, PhaseOk, PhaseFails, MonitorFails, MonType
    <3> QED
      BY <2>1, <3>2, <3>3 DEF QuietStep
  <2> QED
    BY <1>3, <2>2, <2>3, <2>4 DEF Monitor
<1>4. CASE NewSession \/ Restart
  <2>1. session + 1 \in Session /\ session + 1 > session
    BY <1>4, <1>t, BoundAssumption DEF NewSession, Restart, OpenSession, MonType,
       Session
  <2>2. work[session + 1].pc = "idle"
    BY <1>t, <2>1 DEF ControlOK
  <2>3. \A t \in Session \ {session + 1} : plan'[t] = plan[t]
    BY <1>4, <1>t, <2>1 DEF NewSession, Restart, OpenSession, MonType
  <2> QED
    BY <1>4, <2>2, <2>3 DEF NewSession, Restart, OpenSession, QuietStep
<1>5. CASE Crash \/ Exit
  BY <1>5 DEF Crash, Exit, ProcessEnds, QuietStep, NewWorker
<1> QED
  BY <1>1, <1>2, <1>3, <1>4, <1>5 DEF Next

-----------------------------------------------------------------------------
(* Mails that cannot be scanned.                                            *)

(* No such mail gets into scannedMails, and no MOVE takes one out of the    *)
(* scan mailbox but with the malformed ones.                                *)
ScannedOK == \A s \in Session : \A c \in scannedMails(s) : c[1] \notin Unscannable

ScanMovesOK ==
    \A s \in Session :
      request[s].op = "move" /\ request[s].src = ScanMailbox =>
        \A c \in request[s].copies : c[1] \notin Unscannable \/ c[1] \in Malformed

StayInv == ScannedOK /\ ScanMovesOK /\ UnscannableStays

LEMMA StayWorker ==
    ASSUME ScanAndBackupApart, Inv2, StayInv, NEW s \in Session, WorkerStep(s)
    PROVE  StayInv'
<1>i. Inv1 /\ WorkersOK
  BY DEF Inv2, FlowInv
<1>w. WorkerOK(s) /\ CommandOK(s) /\ LocalStep
  BY <1>i, WorkerStepOK
<1>1. ScannedOK'
  <2> SUFFICES ASSUME NEW t \in Session, NEW c \in scannedMails(t)'
               PROVE  c[1] \notin Unscannable
    BY DEF ScannedOK
  <2>1. c \in Copy /\ work'[t].scanned[c] # NoScore
    BY DEF scannedMails
  <2>2. c \in scannedMails(t) \/ (t = s /\ c[1] \notin Unscannable)
    BY <2>1, <1>i, <1>w, HandOverStep DEF HandOver, WorkerOK, scannedMails
  <2> QED
    BY <2>2 DEF StayInv, ScannedOK
<1>2. ScanMovesOK'
  <2> SUFFICES ASSUME NEW t \in Session, request'[t].op = "move",
                      request'[t].src = ScanMailbox, NEW c \in request'[t].copies
               PROVE  c[1] \notin Unscannable \/ c[1] \in Malformed
    BY DEF ScanMovesOK
  <2>1. CASE request'[t] = request[t]
    BY <2>1 DEF StayInv, ScanMovesOK
  <2>2. CASE t = s /\ NewRequest(s, request'[s])
    <3>1. PhaseOf(s) = "scan"
      BY <2>2, Roles DEF NewRequest, Learning
    <3>2. \/ c \in scannedMails(s)
          \/ c \in work[s].uids
      BY <2>2, <3>1 DEF NewRequest, Learning
    <3>3. \A d \in work[s].uids : d[1] \in Malformed
      BY <1>i, <3>1, WorkerNotIdle DEF WorkersOK, WorkerAt
    <3> QED
      BY <3>2, <3>3 DEF StayInv, ScannedOK
  <2> QED
    BY <1>i, <1>w, <2>1, <2>2, RequestStep DEF CommandOK
<1>3. UnscannableStays'
  BY <1>w DEF LocalStep, serverVars, StayInv, UnscannableStays
<1> QED
  BY <1>1, <1>2, <1>3 DEF StayInv

LEMMA StayQuiet ==
    ASSUME StayInv, QuietStep
    PROVE  ScannedOK' /\ ScanMovesOK'
<1>1. ScannedOK'
  <2> SUFFICES ASSUME NEW t \in Session, NEW c \in scannedMails(t)'
               PROVE  c[1] \notin Unscannable
    BY DEF ScannedOK
  <2>1. c \in Copy /\ work'[t].scanned[c] # NoScore
    BY DEF scannedMails
  <2>2. ~NewWorker(t)
    BY <2>1 DEF NewWorker, Worker
  <2>3. c \in scannedMails(t)
    BY <2>1, <2>2 DEF QuietStep, scannedMails
  <2> QED
    BY <2>3 DEF StayInv, ScannedOK
<1>2. ScanMovesOK'
  BY DEF QuietStep, StayInv, ScanMovesOK, NoRequest
<1> QED
  BY <1>1, <1>2

LEMMA StayLoc ==
    ASSUME ScanAndBackupApart, Inv2, StayInv, [Next]_vars
    PROVE  UnscannableStays'
<1> SUFFICES ASSUME NEW m \in Unscannable \ Malformed
             PROVE  loc'[Original(m)] \in {Nowhere, ScanMailbox}
  BY DEF UnscannableStays
<1>t. loc \in [Copy -> Mailbox \cup {Nowhere}]
  BY DEF Inv2, Inv1, TypeOK, ServerType
<1>o. Original(m) \in Copy /\ Original(m)[1] = m /\ Original(m)[2] = 0
  BY CopyFacts, MailAssumption
<1>l. loc[Original(m)] \in {Nowhere, ScanMailbox}
  BY DEF StayInv, UnscannableStays
<1>1. ASSUME NEW k \in Mail, Arrive(k) PROVE loc'[Original(m)] \in {Nowhere, ScanMailbox}
  <2>1. loc' = [loc EXCEPT ![Original(k)] = ScanMailbox]
    BY <1>1 DEF Arrive
  <2> QED
    BY <2>1, <1>t, <1>o, <1>l
<1>2. ASSUME NEW c \in Copy, User(c) PROVE loc'[Original(m)] \in {Nowhere, ScanMailbox}
  <2>1. PICK to \in {HamMailbox, UndetectedMailbox} :
          loc[c] \in {InboxMailbox, SpamMailbox} /\ loc' = [loc EXCEPT ![c] = to]
    BY <1>2 DEF User, UserReportsSpam, UserReportsHam, UserReports
  <2> QED
    BY <2>1, <1>t, <1>o, <1>l, Roles
<1>3. CASE Moves
  <2>1. PICK s \in Session, C \in SUBSET Copy :
          /\ request[s].op = "move" /\ C \subseteq request[s].copies
          /\ ApplyMove(request[s], C)
    BY <1>3 DEF Moves
  <2>2. \/ loc'[Original(m)] = loc[Original(m)]
        \/ Original(m) \in request[s].copies /\ loc[Original(m)] = request[s].src
    BY <2>1, <1>o DEF ApplyMove, InMailbox
  <2>3. request[s].src # Nowhere
    BY <2>1, Roles DEF Inv2, FlowInv, RequestsOK, RequestOK
  <2>4. ~(Original(m) \in request[s].copies /\ request[s].src = ScanMailbox)
    BY <2>1, <1>o DEF StayInv, ScanMovesOK
  <2> QED
    BY <2>2, <2>3, <2>4, <1>l
<1>4. CASE Appends
  BY <1>4, <1>o, <1>l, AppendStep
<1> QED
  BY <1>1, <1>2, <1>3, <1>4, <1>l, VisibleSteps

(* A mail that cannot be scanned or rewritten is never lost from view: with  *)
(* the scan and the backup mailbox apart, no pass, no late command of an     *)
(* abandoned worker and no learning phase takes it out of the scan mailbox.  *)
THEOREM UnscannableNeverLost ==
    ASSUME ScanAndBackupApart
    PROVE  Spec => []UnscannableStays
<1>1. Init => StayInv
  <2> SUFFICES ASSUME Init PROVE StayInv
    OBVIOUS
  <2>1. \A s \in Session, c \in Copy : work[s].scanned[c] = NoScore
    BY DEF Init, Worker
  <2>2. ScannedOK /\ ScanMovesOK
    BY <2>1 DEF Init, NoRequest, ScannedOK, ScanMovesOK, scannedMails
  <2>3. UnscannableStays
    BY CopyFacts, MailAssumption DEF Init, UnscannableStays
  <2> QED
    BY <2>2, <2>3 DEF StayInv
<1>2. Inv1 /\ FlowInv /\ StayInv /\ [Next]_vars => StayInv'
  <2> SUFFICES ASSUME Inv2, StayInv, [Next]_vars PROVE StayInv'
    BY DEF Inv2
  <2>1. CASE QuietStep
    BY <2>1, StayQuiet, StayLoc DEF StayInv
  <2>2. CASE \E s \in Session : WorkerStep(s)
    BY <2>2, StayWorker
  <2> QED
    BY <2>1, <2>2, QuietSteps DEF Inv2
<1>3. StayInv => UnscannableStays
  BY DEF StayInv
<1>4. Inv1 <=> TypeOK /\ ControlOK
  BY DEF Inv1
<1> QED
  BY <1>1, <1>2, <1>3, <1>4, FlowInvariant, TypeCorrect, PTL DEF Spec
-----------------------------------------------------------------------------
(* Filing and learning.                                                     *)

(* Nobody but the user fills the learning mailboxes.                        *)
Reported ==
    \A c \in Copy, k \in Learning :
      loc[c] = SourceOf(k) => SourceOf(k) # "" /\ <<k, c>> \in told

(* Variants that were not uploaded are nowhere, and only variants have the  *)
(* score header.                                                            *)
NotYetUploaded == \A c \in Copy : c[2] > uploads[c[1]] => loc[c] = Nowhere
OnlyVariants == \A c \in Copy : header[c] # NoScore => c[2] > 0

(* What a command in flight may do.                                         *)
Learned(k, C) == \A c \in C : c[1] \in Malformed \/ <<k, c>> \in learned

LearnMove(r, k) == /\ r.src = SourceOf(k) /\ r.dest = LearnDest(k)
                   /\ Learned(k, r.copies)

RouteOK(r) ==
    /\ r.op = "move" =>
         \/ r.src = ScanMailbox /\ r.dest \in {BackupMailbox, InboxMailbox}
         \/ \E k \in Learning : LearnMove(r, k)
    /\ r.op = "store" => r.src = UndetectedMailbox
    /\ r.op = "append" => r.dest = UploadDest(r.score)

RoutesOK == \A s \in Session : RouteOK(request[s])

(* What the worker of a learning phase has in hand, the user has reported,  *)
(* and what it has processed, Rspamd has learned.                           *)
LearnerOK(s) ==
    work[s].pc # "idle" => \A k \in Learning : PhaseOf(s) = k =>
      /\ \A c \in work[s].todo : <<k, c>> \in told
      /\ work[s].pc = "learn" => <<k, work[s].cur>> \in told
      /\ Learned(k, work[s].uids)

LearnersOK == \A s \in Session : LearnerOK(s)

ServerFiling ==
    /\ Reported /\ NotYetUploaded /\ OnlyVariants
    /\ FiledByVerdict /\ TrainedAsTold /\ ReportsAreLearned

FilingInv == ServerFiling /\ RoutesOK /\ LearnersOK

(* What the roles exclude besides.                                          *)
LEMMA FilingRoles ==
    ASSUME RolesApart
    PROVE  /\ ScanAndBackupApart /\ InboxMailbox # SpamMailbox
           /\ BackupMailbox \notin {InboxMailbox, SpamMailbox}
           /\ ScanMailbox \notin {InboxMailbox, SpamMailbox}
           /\ \A k \in Learning :
                /\ SourceOf(k) \in Mailbox \ {InboxMailbox, SpamMailbox, ScanMailbox,
                                              BackupMailbox}
                /\ LearnDest(k) \in {InboxMailbox, SpamMailbox}
                /\ LearnDest(k) = InboxMailbox => k = "ham"
                /\ LearnDest(k) = SpamMailbox => k = "spam"
           /\ \A j, k \in Learning : SourceOf(j) = SourceOf(k) => j = k \/ SourceOf(j) = ""
           /\ SourceOf("spam") = UndetectedMailbox /\ SourceOf("ham") = HamMailbox
BY Roles, ConfigAccepted
   DEF RolesApart, ScanAndBackupApart, validate, Learning, SourceOf, LearnDest

LEMMA FilingWorker ==
    ASSUME RolesApart, Inv2, FilingInv, NEW s \in Session, WorkerStep(s)
    PROVE  FilingInv'
<1>i. Inv1 /\ WorkersOK
  BY DEF Inv2, FlowInv
<1>w. WorkerOK(s) /\ CommandOK(s) /\ LocalStep /\ HandOver(s) /\ work[s].pc # "idle"
  BY <1>i, WorkerStepOK, HandOverStep, WorkerNotIdle
<1>u. UNCHANGED <<loc, header, uploads, seen, told, plan>> /\ learned \subseteq learned'
  BY <1>w DEF LocalStep, serverVars, userVars, monVars, HandOver
<1>p. \A t \in Session : PhaseOf(t)' = PhaseOf(t)
  BY <1>u DEF PhaseOf
<1>s. PhaseOf(s) # "scan" => PhaseOf(s) \in Learning
  BY <1>i, <1>w, PhaseTypes DEF Phase, Learning
<1>m. \A k, C : Learned(k, C) => Learned(k, C)'
  BY <1>u DEF Learned
<1>1. ServerFiling'
  <2>1. Reported' /\ NotYetUploaded' /\ OnlyVariants' /\ FiledByVerdict'
    BY <1>u DEF FilingInv, ServerFiling, Reported, NotYetUploaded, OnlyVariants,
       FiledByVerdict
  <2>2. TrainedAsTold'
    <3>1. work[s].pc = "learn" => <<PhaseOf(s), work[s].cur>> \in told
      BY <1>i, <1>w DEF FilingInv, LearnersOK, LearnerOK, Inv1, ControlOK, Learning
    <3>2. learned' \subseteq told
      BY <1>w, <3>1 DEF HandOver, FilingInv, ServerFiling, TrainedAsTold
    <3> QED
      BY <1>u, <3>2 DEF FilingInv, ServerFiling, TrainedAsTold
  <2>3. ReportsAreLearned'
    BY <1>u DEF FilingInv, ServerFiling, ReportsAreLearned
  <2> QED
    BY <2>1, <2>2, <2>3 DEF ServerFiling
<1>2. RoutesOK'
  <2> SUFFICES ASSUME NEW t \in Session PROVE RouteOK(request[t])'
    BY DEF RoutesOK
  <2>1. CASE request'[t] = request[t]
    <3>1. RouteOK(request[t])
      BY DEF FilingInv, RoutesOK
    <3>2. \A k \in Learning : LearnMove(request[t], k) => LearnMove(request[t], k)'
      BY <2>1, <1>u DEF LearnMove, Learned
    <3> QED
      BY <2>1, <3>1, <3>2 DEF RouteOK
  <2>2. CASE t = s /\ NewRequest(s, request'[s])
    <3>1. CASE PhaseOf(s) = "scan"
      BY <2>2, <3>1, FilingRoles, Roles DEF RouteOK, NewRequest, Learning
    <3>2. CASE PhaseOf(s) \in Learning
      <4>1. Learned(PhaseOf(s), work[s].uids)
        BY <1>w, <3>2 DEF FilingInv, LearnersOK, LearnerOK
      <4>2. \A c \in work[s].uids : c[1] \in Malformed \/ <<PhaseOf(s), c>> \in learned'
        BY <4>1, <1>u DEF Learned
      <4>3. request'[s].op = "move" =>
              /\ request'[s].src = SourceOf(PhaseOf(s))
              /\ request'[s].dest = LearnDest(PhaseOf(s))
              /\ request'[s].copies = work[s].uids
        BY <2>2, <3>2 DEF NewRequest, Learning
      <4>4. request'[s].op = "move" => \E k \in Learning : LearnMove(request[s], k)'
        BY <3>2, <4>2, <4>3 DEF LearnMove, Learned
      <4>5. request'[s].op = "store" => request'[s].src = UndetectedMailbox
        BY <2>2, <3>2, FilingRoles DEF NewRequest, Learning
      <4>6. request'[s].op # "append"
        BY <2>2, <3>2 DEF NewRequest, Learning
      <4> QED
        BY <2>2, <4>4, <4>5, <4>6 DEF RouteOK
    <3> QED
      BY <1>s, <3>1, <3>2
  <2> QED
    BY <1>i, <1>w, <2>1, <2>2, RequestStep DEF CommandOK
<1>3. LearnersOK'
  <2> SUFFICES ASSUME NEW t \in Session, NEW k \in Learning, PhaseOf(t)' = k,
                      work'[t].pc # "idle"
               PROVE  /\ \A c \in work'[t].todo : <<k, c>> \in told'
                      /\ work'[t].pc = "learn" => <<k, work'[t].cur>> \in told'
                      /\ Learned(k, work[t].uids)'
    BY DEF LearnersOK, LearnerOK
  <2>1. CASE t # s
    <3>1. work'[t] = work[t] /\ PhaseOf(t) = k
      BY <1>w, <1>p, <2>1 DEF WorkerOK
    <3> QED
      BY <3>1, <1>u DEF FilingInv, LearnersOK, LearnerOK, Learned
  <2>2. CASE t = s
    <3>1. PhaseOf(s) = k
      BY <1>p, <2>2
    <3>2. /\ \A c \in work[s].todo : <<k, c>> \in told
          /\ Learned(k, work[s].uids)
      BY <1>w, <3>1 DEF FilingInv, LearnersOK, LearnerOK
    <3>3. \A c \in Copy : loc[c] = SourceOf(k) => <<k, c>> \in told
      BY DEF FilingInv, ServerFiling, Reported
    <3>4. work'[s].todo \subseteq Copy
      BY <1>w DEF WorkerOK, WorkType, WorkerState
    <3> QED
      BY <1>u, <1>w, <2>2, <3>1, <3>2, <3>3, <3>4 DEF HandOver, Learned
  <2> QED
    BY <2>1, <2>2
<1> QED
  BY <1>1, <1>2, <1>3 DEF FilingInv

LEMMA FilingQuiet ==
    ASSUME FilingInv, QuietStep, told \subseteq told'
    PROVE  RoutesOK' /\ LearnersOK'
<1>u. learned' = learned
  BY DEF QuietStep
<1>1. RoutesOK'
  <2> SUFFICES ASSUME NEW t \in Session PROVE RouteOK(request[t])'
    BY DEF RoutesOK
  <2>1. CASE request'[t] = request[t]
    BY <2>1, <1>u DEF FilingInv, RoutesOK, RouteOK, LearnMove, Learned
  <2>2. CASE request'[t] = NoRequest
    BY <2>2 DEF RouteOK, NoRequest
  <2> QED
    BY <2>1, <2>2 DEF QuietStep
<1>2. LearnersOK'
  <2> SUFFICES ASSUME NEW t \in Session PROVE LearnerOK(t)'
    BY DEF LearnersOK
  <2>1. CASE NewWorker(t)
    <3>1. work'[t].todo = {} /\ work'[t].uids = {} /\ work'[t].pc # "learn"
      BY <2>1 DEF NewWorker, Worker
    <3> QED
      BY <3>1 DEF LearnerOK, Learned
  <2>2. CASE work'[t] = work[t] /\ (plan'[t] = plan[t] \/ work[t].pc = "idle")
    BY <2>2, <1>u DEF FilingInv, LearnersOK, LearnerOK, Learned, PhaseOf
  <2> QED
    BY <2>1, <2>2 DEF QuietStep
<1> QED
  BY <1>1, <1>2

LEMMA FilingArrive ==
    ASSUME RolesApart, Inv2, FilingInv, NEW m \in Mail, Arrive(m)
    PROVE  ServerFiling'
<1>t. loc \in [Copy -> Mailbox \cup {Nowhere}]
  BY DEF Inv2, Inv1, TypeOK, ServerType
<1>1. /\ loc[Original(m)] = Nowhere
      /\ \A c \in Copy : loc'[c] = IF c = Original(m) THEN ScanMailbox ELSE loc[c]
      /\ UNCHANGED <<header, uploads, seen, learned, told>>
  BY <1>t DEF Arrive, userVars
<1>2. Original(m) \in Copy /\ Original(m)[1] = m /\ Original(m)[2] = 0
      /\ uploads[m] \in Nat
  BY CopyFacts DEF Inv2, Inv1, TypeOK, ServerType
<1>3. Nowhere \notin Mailbox
  BY NoneAssumption
<1>4. Reported' /\ FiledByVerdict'
  BY <1>1, FilingRoles DEF FilingInv, ServerFiling, Reported, FiledByVerdict
<1>5. NotYetUploaded' /\ OnlyVariants'
  BY <1>1, <1>2 DEF FilingInv, ServerFiling, NotYetUploaded, OnlyVariants
<1>6. TrainedAsTold'
  BY <1>1 DEF FilingInv, ServerFiling, TrainedAsTold
<1>7. ReportsAreLearned'
  BY <1>1, <1>3, FilingRoles DEF FilingInv, ServerFiling, ReportsAreLearned, Learning
<1> QED
  BY <1>4, <1>5, <1>6, <1>7 DEF ServerFiling

LEMMA FilingUser ==
    ASSUME RolesApart, Inv2, FilingInv, NEW c \in Copy, User(c)
    PROVE  ServerFiling'
<1>t. loc \in [Copy -> Mailbox \cup {Nowhere}]
  BY DEF Inv2, Inv1, TypeOK, ServerType
<1>1. PICK kind \in Learning :
        /\ loc[c] \in {InboxMailbox, SpamMailbox} /\ SourceOf(kind) # ""
        /\ loc' = [loc EXCEPT ![c] = SourceOf(kind)]
        /\ told' = told \cup {<<kind, c>>}
        /\ UNCHANGED <<header, uploads, seen, learned>>
  BY FilingRoles
     DEF User, UserReportsSpam, UserReportsHam, UserReports, Learning
<1>2. \A d \in Copy : loc'[d] = IF d = c THEN SourceOf(kind) ELSE loc[d]
  BY <1>1, <1>t
<1>3. Reported'
  BY <1>1, <1>2, FilingRoles DEF FilingInv, ServerFiling, Reported
<1>4. NotYetUploaded' /\ OnlyVariants'
  BY <1>1, <1>2, Roles, FilingRoles
     DEF FilingInv, ServerFiling, NotYetUploaded, OnlyVariants
<1>5. FiledByVerdict'
  BY <1>1, <1>2, FilingRoles DEF FilingInv, ServerFiling, FiledByVerdict
<1>6. TrainedAsTold'
  BY <1>1 DEF FilingInv, ServerFiling, TrainedAsTold
<1>7. ReportsAreLearned'
  <2> SUFFICES ASSUME NEW d \in Copy, d[1] \notin Malformed, NEW k \in Learning,
                      <<k, d>> \in told'
               PROVE  <<k, d>> \in learned' \/ loc'[d] = SourceOf(k)
    BY DEF ReportsAreLearned, Learning
  <2>1. CASE <<k, d>> \in told
    <3>1. <<k, d>> \in learned \/ loc[d] = SourceOf(k)
      BY <2>1 DEF FilingInv, ServerFiling, ReportsAreLearned, Learning
    <3> QED
      BY <3>1, <1>1, <1>2, FilingRoles
  <2>2. CASE k = kind /\ d = c
    BY <2>2, <1>2
  <2> QED
    BY <2>1, <2>2, <1>1
<1> QED
  BY <1>3, <1>4, <1>5, <1>6, <1>7 DEF ServerFiling

LEMMA FilingMove ==
    ASSUME RolesApart, Inv2, FilingInv, Moves, UNCHANGED <<learned, told>>
    PROVE  ServerFiling'
<1>1. PICK s \in Session, C \in SUBSET Copy :
        /\ request[s].op = "move" /\ C \subseteq request[s].copies
        /\ ApplyMove(request[s], C)
  BY DEF Moves
<1>2. RequestOK(request[s]) /\ RouteOK(request[s])
  BY DEF Inv2, FlowInv, RequestsOK, FilingInv, RoutesOK
<1>3. UNCHANGED <<header, uploads, seen, learned, told>>
  BY <1>1 DEF ApplyMove
<1>4. \A c \in Copy :
        \/ loc'[c] = loc[c]
        \/ /\ loc[c] = ScanMailbox /\ c[2] = 0
           /\ loc'[c] \in {BackupMailbox, InboxMailbox}
        \/ \E k \in Learning :
             /\ loc[c] = SourceOf(k) /\ loc'[c] = LearnDest(k)
             /\ SourceOf(k) # "" /\ <<k, c>> \in told
             /\ c[1] \in Malformed \/ <<k, c>> \in learned
  <2> SUFFICES ASSUME NEW c \in Copy, loc'[c] # loc[c]
               PROVE  \/ /\ loc[c] = ScanMailbox /\ c[2] = 0
                         /\ loc'[c] \in {BackupMailbox, InboxMailbox}
                      \/ \E k \in Learning :
                           /\ loc[c] = SourceOf(k) /\ loc'[c] = LearnDest(k)
                           /\ SourceOf(k) # "" /\ <<k, c>> \in told
                           /\ c[1] \in Malformed \/ <<k, c>> \in learned
    OBVIOUS
  <2>1. c \in request[s].copies /\ loc[c] = request[s].src /\ loc'[c] = request[s].dest
    BY <1>1 DEF ApplyMove, InMailbox
  <2>2. CASE /\ request[s].src = ScanMailbox
             /\ request[s].dest \in {BackupMailbox, InboxMailbox}
    BY <2>1, <2>2 DEF Inv2, FlowInv, ScanHoldsOriginals
  <2>3. ASSUME NEW k \in Learning, LearnMove(request[s], k)
        PROVE  /\ loc[c] = SourceOf(k) /\ loc'[c] = LearnDest(k)
               /\ SourceOf(k) # "" /\ <<k, c>> \in told
               /\ c[1] \in Malformed \/ <<k, c>> \in learned
    BY <2>1, <2>3 DEF LearnMove, Learned, FilingInv, ServerFiling, Reported
  <2> QED
    BY <1>1, <1>2, <2>2, <2>3 DEF RouteOK
<1>5. Reported'
  BY <1>3, <1>4, FilingRoles DEF FilingInv, ServerFiling, Reported
<1>6. NotYetUploaded' /\ OnlyVariants'
  BY <1>3, <1>4, FilingRoles, Roles
     DEF FilingInv, ServerFiling, NotYetUploaded, OnlyVariants
<1>7. FiledByVerdict'
  <2> SUFFICES ASSUME NEW c \in Copy, header[c] # NoScore
               PROVE  /\ loc'[c] = InboxMailbox /\ isSpam(header[c]) => <<"ham", c>> \in told
                      /\ loc'[c] = SpamMailbox /\ ~isSpam(header[c]) =>
                           <<"spam", c>> \in told
    BY <1>3 DEF FiledByVerdict
  <2>1. c[2] # 0
    BY DEF FilingInv, ServerFiling, OnlyVariants
  <2>2. CASE loc'[c] = loc[c]
    BY <2>2 DEF FilingInv, ServerFiling, FiledByVerdict
  <2>3. CASE \E k \in Learning : loc'[c] = LearnDest(k) /\ <<k, c>> \in told
    BY <2>3, FilingRoles
  <2> QED
    BY <1>4, <2>1, <2>2, <2>3
<1>8. TrainedAsTold'
  BY <1>3 DEF FilingInv, ServerFiling, TrainedAsTold
<1>9. ReportsAreLearned'
  <2> SUFFICES ASSUME NEW c \in Copy, c[1] \notin Malformed, NEW k \in Learning,
                      <<k, c>> \in told
               PROVE  <<k, c>> \in learned \/ loc'[c] = SourceOf(k)
    BY <1>3 DEF ReportsAreLearned, Learning
  <2>1. <<k, c>> \in learned \/ loc[c] = SourceOf(k)
    BY DEF FilingInv, ServerFiling, ReportsAreLearned, Learning
  <2> QED
    BY <1>4, <2>1, FilingRoles
<1> QED
  BY <1>5, <1>6, <1>7, <1>8, <1>9 DEF ServerFiling

LEMMA FilingAppend ==
    ASSUME RolesApart, Inv2, FilingInv, Appends, UNCHANGED <<learned, told>>
    PROVE  ServerFiling'
<1>t. ServerType /\ ConnType
  BY DEF Inv2, Inv1, TypeOK
<1>1. PICK s \in Session : request[s].op = "append" /\ ApplyAppend(request[s])
  BY DEF Appends
<1> DEFINE n == request[s].score
<1>2. PICK c \in request[s].copies :
        /\ uploads' = [uploads EXCEPT ![c[1]] = @ + 1]
        /\ loc' = [loc EXCEPT ![<<c[1], uploads[c[1]] + 1>>] = request[s].dest]
        /\ header' = [header EXCEPT ![<<c[1], uploads[c[1]] + 1>>] = n]
        /\ UNCHANGED seen
  BY <1>1 DEF ApplyAppend
<1> DEFINE m == c[1]
           new == <<m, 1>>
<1>3. c \in Copy /\ Appending(s, c)
  BY <1>1, <1>2, <1>t DEF Appending, ConnType, Request
<1>4. m \in Mail /\ uploads[m] = 0
  BY <1>3, CopyFacts DEF Inv2, FlowInv, AppendsOK
<1>5. new \in Copy /\ new[1] = m /\ new[2] = 1
  BY <1>4, BoundAssumption DEF Copy
<1>6. request[s].dest = UploadDest(n)
  BY <1>1 DEF FilingInv, RoutesOK, RouteOK
<1>7. /\ \A d \in Copy : loc'[d] = IF d = new THEN UploadDest(n) ELSE loc[d]
      /\ \A d \in Copy : header'[d] = IF d = new THEN n ELSE header[d]
      /\ \A k \in Mail : uploads'[k] = IF k = m THEN 1 ELSE uploads[k]
  BY <1>2, <1>4, <1>5, <1>6, <1>t DEF ServerType
<1>8. loc[new] = Nowhere /\ Nowhere \notin Mailbox
  BY <1>4, <1>5, NoneAssumption DEF FilingInv, ServerFiling, NotYetUploaded
<1>9. /\ UploadDest(n) \in {InboxMailbox, SpamMailbox}
      /\ UploadDest(n) = InboxMailbox => ~isSpam(n)
      /\ UploadDest(n) = SpamMailbox => isSpam(n)
  BY FilingRoles DEF UploadDest
<1> HIDE DEF n, m, new
<1>10. Reported'
  BY <1>7, <1>9, FilingRoles DEF FilingInv, ServerFiling, Reported
<1>11. NotYetUploaded'
  <2> SUFFICES ASSUME NEW d \in Copy, d[2] > uploads'[d[1]] PROVE loc'[d] = Nowhere
    BY DEF NotYetUploaded
  <2>1. d[1] \in Mail /\ d[2] \in Nat /\ d[2] > uploads[d[1]]
    BY <1>4, <1>7, <1>t, CopyFacts DEF ServerType
  <2>2. d # new
    BY <1>4, <1>5, <1>7
  <2> QED
    BY <1>7, <2>1, <2>2 DEF FilingInv, ServerFiling, NotYetUploaded
<1>12. OnlyVariants'
  BY <1>5, <1>7 DEF FilingInv, ServerFiling, OnlyVariants
<1>13. FiledByVerdict'
  BY <1>7, <1>9 DEF FilingInv, ServerFiling, FiledByVerdict
<1>14. TrainedAsTold'
  BY <1>2 DEF FilingInv, ServerFiling, TrainedAsTold
<1>15. ReportsAreLearned'
  <2> SUFFICES ASSUME NEW d \in Copy, d[1] \notin Malformed, NEW k \in Learning,
                      <<k, d>> \in told
               PROVE  <<k, d>> \in learned \/ loc'[d] = SourceOf(k)
    BY DEF ReportsAreLearned, Learning
  <2>1. <<k, d>> \in learned \/ loc[d] = SourceOf(k)
    BY DEF FilingInv, ServerFiling, ReportsAreLearned, Learning
  <2> QED
    BY <1>7, <1>8, <2>1, FilingRoles
<1> QED
  BY <1>10, <1>11, <1>12, <1>13, <1>14, <1>15 DEF ServerFiling

(* The steps of the server that FilingInv sees.                             *)
Stores == \E s \in Session : request[s].op = "store" /\ ApplyStore(request[s])

LEMMA FilingSteps ==
    ASSUME Inv2, [Next]_vars
    PROVE  \/ \E m \in Mail : Arrive(m)
           \/ \E c \in Copy : User(c)
           \/ \E s \in Session : WorkerStep(s)
           \/ (Moves \/ Appends \/ Stores) /\ UNCHANGED <<learned, told>>
           \/ UNCHANGED <<loc, header, uploads, seen, learned, told>>
<1> DEFINE Same == UNCHANGED <<loc, header, uploads, seen, learned, told>>
<1>1. ASSUME NEW s \in Session, Server(s)
      PROVE  ((Moves \/ Appends \/ Stores) /\ UNCHANGED <<learned, told>>) \/ Same
  <2>1. request[s].copies \in SUBSET Copy
    BY DEF Inv2, Inv1, TypeOK, ConnType, Request
  <2>2. UNCHANGED <<learned, told>>
    BY <1>1 DEF Server, ServerExecutes, ServerRefuses, Answer, RequestLost, userVars
  <2>3. CASE ServerExecutes(s)
    BY <2>1, <2>2, <2>3 DEF ServerExecutes, Moves, Appends, Stores
  <2>4. CASE ServerRefuses(s)
    BY <2>1, <2>2, <2>4 DEF ServerRefuses, Moves, serverVars
  <2>5. CASE RequestLost(s)
    BY <2>2, <2>5 DEF RequestLost, serverVars
  <2> QED
    BY <1>1, <2>3, <2>4, <2>5 DEF Server
<1>2. ASSUME NEW s \in Session, ConnectionLost(s) \/ Monitor(s) PROVE Same
  BY <1>2 DEF ConnectionLost, Monitor, NewMessages, LearnTimer, IdleFails,
     MonitorFails, StartPhase,
     Expire, CloseTransport, Abandon, PhaseOk, PhaseFails, MonStep, serverVars, userVars
<1>3. NewSession \/ Restart \/ Crash \/ Exit \/ UNCHANGED vars => Same
  BY DEF NewSession, Restart, OpenSession, Crash, Exit, ProcessEnds, vars, serverVars,
     userVars
<1> QED
  BY <1>1, <1>2, <1>3 DEF Next

LEMMA NextFiling ==
    ASSUME RolesApart, Inv2, FilingInv, [Next]_vars
    PROVE  FilingInv'
<1>1. CASE \E s \in Session : WorkerStep(s)
  BY <1>1, FilingWorker
<1>2. CASE QuietStep /\ ~\E s \in Session : WorkerStep(s)
  <2>1. told \subseteq told'
    BY <1>2, FilingSteps
       DEF Arrive, User, UserReportsSpam, UserReportsHam, UserReports, userVars
  <2>2. ASSUME Stores, UNCHANGED <<learned, told>> PROVE ServerFiling'
    <3>1. PICK s \in Session : request[s].op = "store" /\ ApplyStore(request[s])
      BY <2>2 DEF Stores
    <3>2. request[s].src = SourceOf("spam") /\ request[s].copies \subseteq Copy
      BY <3>1, FilingRoles DEF FilingInv, RoutesOK, RouteOK, Inv2, Inv1, TypeOK,
         ConnType, Request
    <3>3. \A c \in seen' : <<"spam", c>> \in told
      BY <3>1, <3>2 DEF ApplyStore, InMailbox, FilingInv, ServerFiling, Reported,
         TrainedAsTold, Learning
    <3>4. UNCHANGED <<loc, header, uploads>>
      BY <3>1 DEF ApplyStore
    <3> QED
      BY <2>2, <3>3, <3>4 DEF FilingInv, ServerFiling, Reported, NotYetUploaded,
         OnlyVariants, FiledByVerdict, TrainedAsTold, ReportsAreLearned
  <2>3. ASSUME UNCHANGED <<loc, header, uploads, seen, learned, told>>
        PROVE  ServerFiling'
    BY <2>3 DEF FilingInv, ServerFiling, Reported, NotYetUploaded, OnlyVariants,
       FiledByVerdict, TrainedAsTold, ReportsAreLearned
  <2>4. ServerFiling'
    BY <1>2, <2>2, <2>3, FilingSteps, FilingArrive, FilingUser, FilingMove, FilingAppend
  <2> QED
    BY <1>2, <2>1, <2>4, FilingQuiet DEF FilingInv
<1> QED
  BY <1>1, <1>2, QuietSteps DEF Inv2

(* With every mailbox in one role, the commands in flight, the workers and   *)
(* the mailboxes agree on what was reported, learned and filed.             *)
LEMMA FilingInvariant ==
    ASSUME RolesApart
    PROVE  Spec => []FilingInv
<1>1. Init => FilingInv
  <2> SUFFICES ASSUME Init PROVE FilingInv
    OBVIOUS
  <2>1. ServerFiling
    BY FilingRoles, NoneAssumption
       DEF Init, ServerFiling, Reported, NotYetUploaded, OnlyVariants, FiledByVerdict,
           TrainedAsTold, ReportsAreLearned
  <2>2. RoutesOK
    BY DEF Init, RoutesOK, RouteOK, NoRequest
  <2>3. \A s \in Session : work[s].pc = "idle"
    BY DEF Init, Worker
  <2> QED
    BY <2>1, <2>2, <2>3 DEF FilingInv, LearnersOK, LearnerOK
<1>2. Inv1 /\ FlowInv /\ FilingInv /\ [Next]_vars => FilingInv'
  BY NextFiling DEF Inv2
<1>3. Inv1 <=> TypeOK /\ ControlOK
  BY DEF Inv1
<1>4. ScanAndBackupApart
  BY DEF RolesApart
<1> QED
  BY <1>1, <1>2, <1>3, <1>4, FlowInvariant, TypeCorrect, PTL DEF Spec

(* Every uploaded mail is where its score says, or where the user's report   *)
(* took it: no late command, learning phase or repeated pass puts spam into  *)
(* the inbox or ham into the spam mailbox.                                  *)
THEOREM FiledByScore ==
    ASSUME RolesApart
    PROVE  Spec => []FiledByVerdict
<1>1. FilingInv => FiledByVerdict
  BY DEF FilingInv, ServerFiling
<1> QED
  BY <1>1, FilingInvariant, PTL

(* Rspamd is trained only with mails the user filed for it, in the class the *)
(* user meant, and only those are marked as read, also by workers whose      *)
(* list of messages is out of date.                                         *)
THEOREM TrainingAsReported ==
    ASSUME RolesApart
    PROVE  Spec => []TrainedAsTold
<1>1. FilingInv => TrainedAsTold
  BY DEF FilingInv, ServerFiling
<1> QED
  BY <1>1, FilingInvariant, PTL

(* learn takes a reported mail out of the learning mailbox only after Rspamd *)
(* has learned it, in whatever session, pass or late command that happens.   *)
THEOREM ReportsLearnedFirst ==
    ASSUME RolesApart
    PROVE  Spec => []ReportsAreLearned
<1>1. FilingInv => ReportsAreLearned
  BY DEF FilingInv, ServerFiling
<1> QED
  BY <1>1, FilingInvariant, PTL
=============================================================================

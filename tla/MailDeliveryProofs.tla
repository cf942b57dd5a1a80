-------------------------- MODULE MailDeliveryProofs --------------------------
(***************************************************************************)
(* Proof that MailFlow delivers a mail at most once, and only after its     *)
(* original has been backed up, for configurations in which the scan and    *)
(* the backup mailbox have no other role (ScanAndBackupApart).              *)
(***************************************************************************)
EXTENDS MailFlowProofs

Inv2 == Inv1 /\ FlowInv

(* Copies are pairs; the original of a mail is its copy number 0.           *)
LEMMA CopyFacts ==
    /\ \A c \in Copy : c[1] \in Mail /\ c[2] \in 0..MaxUploads /\ c = <<c[1], c[2]>>
    /\ \A c \in Copy : c[2] = 0 => c = Original(c[1])
    /\ \A m \in Mail : Original(m) \in Copy /\ Original(m)[1] = m
                                            /\ Original(m)[2] = 0
BY BoundAssumption DEF Copy, Original

(* What the roles of the mailboxes exclude.                                 *)
LEMMA Roles ==
    ASSUME ScanAndBackupApart
    PROVE  /\ InboxMailbox \in Mailbox \ {ScanMailbox, BackupMailbox}
           /\ SpamMailbox \in Mailbox \ {ScanMailbox, BackupMailbox}
           /\ HamMailbox \in Mailbox \ {ScanMailbox, BackupMailbox}
           /\ UndetectedMailbox \in Mailbox \ {ScanMailbox, BackupMailbox}
           /\ ScanMailbox \in Mailbox /\ BackupMailbox \in Mailbox
           /\ ScanMailbox # BackupMailbox
           /\ Nowhere \notin Mailbox
           /\ SourceOf("scan") = ScanMailbox
           /\ \A p \in {"ham", "spam"} :
                /\ SourceOf(p) \in Mailbox \ {ScanMailbox, BackupMailbox}
                /\ LearnDest(p) \in Mailbox \ {ScanMailbox, BackupMailbox}
           /\ \A n : UploadDest(n) \in Mailbox \ {ScanMailbox, BackupMailbox}
BY ConfigAccepted, NoneAssumption
   DEF ScanAndBackupApart, validate, Mailbox, SourceOf, LearnDest, UploadDest

(* How a step may move originals: not out of the backup mailbox, scannable  *)
(* ones not out of the scan mailbox but to the backup, and nothing but      *)
(* originals into the scan mailbox.                                         *)
LocStep ==
    \A c \in Copy :
      /\ c[2] = 0 /\ loc[c] = BackupMailbox => loc'[c] = BackupMailbox
      /\ c[2] = 0 /\ c[1] \notin Malformed /\ loc[c] = ScanMailbox =>
           loc'[c] \in {ScanMailbox, BackupMailbox}
      /\ loc'[c] = ScanMailbox => c[2] = 0 \/ loc[c] = ScanMailbox

(* A step after which no mail is pending that was not pending before, and   *)
(* which sends no APPEND.                                                   *)
Shrinks ==
    /\ LocStep
    /\ UNCHANGED uploads
    /\ \A s \in Session : \/ request'[s] = request[s]
                          \/ RequestOK(request'[s]) /\ request'[s].op # "append"
    /\ \A s \in Session, c \in Copy :
         conn'[s] = "open" /\ Pending(s, c)' => conn[s] = "open" /\ Pending(s, c)

LEMMA ShrinkFlow ==
    ASSUME Inv2, Shrinks
    PROVE  ScanHoldsOriginals' /\ RequestsOK' /\ AppendsOK' /\ DeliveredOK' /\ PendingOK'
<1>f. ScanHoldsOriginals /\ RequestsOK /\ AppendsOK /\ DeliveredOK /\ PendingOK
  BY DEF Inv2, FlowInv
<1>1. ScanHoldsOriginals'
  BY <1>f DEF Shrinks, LocStep, ScanHoldsOriginals
<1>2. RequestsOK'
  <2> SUFFICES ASSUME NEW s \in Session PROVE RequestOK(request[s])'
    BY DEF RequestsOK
  <2>1. CASE request'[s] = request[s]
    BY <1>f, <2>1 DEF RequestsOK, RequestOK
  <2>2. CASE RequestOK(request'[s])
    BY <2>2 DEF RequestOK
  <2> QED
    BY <2>1, <2>2 DEF Shrinks
<1>3. \A s \in Session, c \in Copy : Appending(s, c)' => Appending(s, c)
  BY DEF Shrinks, Appending
<1>4. AppendsOK'
  BY <1>f, <1>3 DEF Shrinks, LocStep, AppendsOK
<1>5. DeliveredOK'
  BY <1>f, CopyFacts DEF Shrinks, LocStep, DeliveredOK
<1>6. PendingOK'
  BY <1>f, <1>3 DEF Shrinks, LocStep, PendingOK
<1> QED
  BY <1>1, <1>2, <1>4, <1>5, <1>6

(* It is enough to look at the session whose worker takes the step.         *)
WorkerShrinks(s) ==
    /\ \A c \in Copy : conn[s] = "open" /\ Pending(s, c)' => Pending(s, c)
    /\ \/ request'[s] = request[s]
       \/ RequestOK(request'[s]) /\ request'[s].op # "append"

LEMMA OtherWorkers ==
    ASSUME Inv2, NEW s \in Session, WorkerStep(s), NEW t \in Session \ {s}
    PROVE  /\ \A c \in Copy : Pending(t, c)' <=> Pending(t, c)
           /\ request'[t] = request[t]
           /\ CommandAt(t)' /\ WorkerAt(t)'
<1>1. WorkerOK(s) /\ CommandOK(s) /\ LocalStep
  BY WorkerStepOK DEF Inv2
<1>2. /\ UNCHANGED <<loc, conn, plan>>
      /\ work'[t] = work[t] /\ request'[t] = request[t] /\ reply'[t] = reply[t]
  BY <1>1 DEF WorkerOK, CommandOK, LocalStep, serverVars, monVars
<1>3. PhaseOf(t)' = PhaseOf(t) /\ scannedMails(t)' = scannedMails(t)
  BY <1>2 DEF PhaseOf, scannedMails
<1>4. CommandAt(t) /\ WorkerAt(t)
  BY DEF Inv2, FlowInv, CommandsOK, WorkersOK
<1>5. \A c \in Copy : Pending(t, c)' <=> Pending(t, c)
  BY <1>2, <1>3 DEF Pending
<1>6. CommandAt(t)'
  BY <1>2, <1>3, <1>4 DEF CommandAt
<1>7. WorkerAt(t)'
  BY <1>2, <1>3, <1>4 DEF WorkerAt, Worker
<1> QED
  BY <1>2, <1>5, <1>6, <1>7

LEMMA WorkerShrinkFlow ==
    ASSUME Inv2, NEW s \in Session, WorkerStep(s),
           WorkerShrinks(s), CommandAt(s)', WorkerAt(s)'
    PROVE  FlowInv'
<1>1. UNCHANGED <<loc, uploads, conn, mon, session>>
  BY WorkerStepOK DEF Inv2, LocalStep, serverVars, monVars
<1>2. LocStep
  BY <1>1 DEF LocStep
<1>3. Shrinks
  BY <1>1, <1>2, OtherWorkers DEF Shrinks, WorkerShrinks
<1>4. OpenIsCurrent'
  BY <1>1 DEF Inv2, FlowInv, OpenIsCurrent
<1>5. CommandsOK' /\ WorkersOK'
  BY OtherWorkers DEF CommandsOK, WorkersOK
<1> QED
  BY <1>3, <1>4, <1>5, ShrinkFlow DEF FlowInv

(* A worker that is not waiting, or has its answer, has no command in       *)
(* flight on an open connection.                                            *)
LEMMA NoCommandOpen ==
    ASSUME Inv2, NEW s \in Session, conn[s] = "open",
           \/ work[s].pc \notin {"backup", "upload", "malformed", "mark", "move"}
           \/ Succeeded(s) \/ Failed(s)
    PROVE  request[s] = NoRequest
BY DEF Inv2, FlowInv, CommandsOK, CommandAt, Succeeded, Failed

LEMMA ReturnFlow ==
    ASSUME Inv2, NEW s \in Session, NEW err \in BOOLEAN, Return(s, err), NoCommand,
           conn[s] = "open" => request[s] = NoRequest, UNCHANGED <<conn, plan>>
    PROVE  WorkerShrinks(s) /\ CommandAt(s)' /\ WorkerAt(s)'
<1>1. work'[s] = Worker("returned", err)
  BY DEF Return, Inv2, Inv1, TypeOK, WorkType
<1>2. /\ work'[s].pc = "returned" /\ work'[s].todo = {} /\ work'[s].uids = {}
      /\ \A c \in Copy : work'[s].scanned[c] = NoScore
  BY <1>1 DEF Worker
<1>3. scannedMails(s)' = {}
  BY <1>2 DEF scannedMails
<1>4. request'[s] = request[s]
  BY DEF NoCommand
<1>5. WorkerShrinks(s)
  BY <1>2, <1>3, <1>4 DEF WorkerShrinks, Pending
<1>6. CommandAt(s)'
  BY <1>2, <1>4 DEF CommandAt
<1>7. WorkerAt(s)'
  BY <1>2 DEF WorkerAt
<1> QED
  BY <1>5, <1>6, <1>7

(* The steps of the scan loop pass a pending mail on, from todo to Rspamd   *)
(* and from there to scannedMails, or drop it.                              *)
LEMMA ScanLoopFlow ==
    ASSUME ScanAndBackupApart, Inv2, NEW s \in Session,
           \/ \E c \in Copy : SkipMalformed(s, c) \/ TakeMessage(s, c)
           \/ ScanOk(s) \/ ScanFails(s) \/ ScanLoopEnds(s)
           \/ LearnOk(s)
    PROVE  WorkerShrinks(s) /\ CommandAt(s)' /\ WorkerAt(s)'
<1> DEFINE w == work[s]
           Goal == WorkerShrinks(s) /\ CommandAt(s)' /\ WorkerAt(s)'
<1>w. work \in [Session -> WorkerState] /\ w \in WorkerState
  BY DEF Inv2, Inv1, TypeOK, WorkType
<1>c. /\ w.pc \in {"scan", "learn"} => w.cur \in Copy
      /\ w.pc = "scan" => PhaseOf(s) = "scan"
      /\ w.pc = "learn" => PhaseOf(s) \in {"ham", "spam"}
  BY DEF Inv2, Inv1, ControlOK
<1>a. CommandAt(s) /\ WorkerAt(s)
  BY DEF Inv2, FlowInv, CommandsOK, WorkersOK
<1>u. UNCHANGED <<loc, conn, plan, request, reply>>
  BY DEF SkipMalformed, TakeMessage, ScanOk, ScanFails, ScanLoopEnds,
         LearnOk, LocalStep, NoCommand, serverVars, monVars
<1>p. PhaseOf(s)' = PhaseOf(s)
  BY <1>u DEF PhaseOf
<1>n. w.pc \in {"iterate", "scan", "learn"}
  BY DEF SkipMalformed, TakeMessage, ScanOk, ScanFails, ScanLoopEnds,
         LearnOk
<1>r. conn[s] = "open" => request[s] = NoRequest
  BY <1>n, NoCommandOpen
<1>g. ASSUME work'[s].pc \in {"iterate", "scan", "learn", "replace"},
             \A c \in Copy : Pending(s, c)' => Pending(s, c), WorkerAt(s)'
      PROVE  Goal
  BY <1>g, <1>u, <1>r DEF WorkerShrinks, CommandAt
<1>1. ASSUME NEW c \in Copy, SkipMalformed(s, c) PROVE Goal
  <2>1. /\ work'[s].pc = "iterate" /\ work'[s].todo \subseteq w.todo
        /\ work'[s].scanned = w.scanned /\ work'[s].uids = w.uids \cup {c}
        /\ c[1] \in Malformed /\ w.pc = "iterate"
    BY <1>1, <1>w DEF SkipMalformed, WorkerState
  <2>2. scannedMails(s)' = scannedMails(s)
    BY <2>1 DEF scannedMails
  <2>3. \A d \in Copy : Pending(s, d)' => Pending(s, d)
    BY <2>1, <2>2, <1>p DEF Pending
  <2>4. WorkerAt(s)'
    BY <2>1, <1>a, <1>p DEF WorkerAt
  <2> QED
    BY <1>g, <2>1, <2>3, <2>4
<1>2. ASSUME NEW c \in Copy, TakeMessage(s, c) PROVE Goal
  <2>1. /\ work'[s].pc = (IF PhaseOf(s) = "scan" THEN "scan" ELSE "learn")
        /\ work'[s].todo = w.todo \ {c} /\ work'[s].cur = c
        /\ work'[s].scanned = w.scanned /\ work'[s].uids = w.uids
        /\ c \in w.todo /\ c[1] \notin Malformed /\ w.pc = "iterate"
    BY <1>2, <1>w DEF TakeMessage, WorkerState
  <2>2. scannedMails(s)' = scannedMails(s)
    BY <2>1 DEF scannedMails
  <2>3. \A d \in Copy : Pending(s, d)' => Pending(s, d)
    BY <2>1, <2>2, <1>p DEF Pending
  <2>4. WorkerAt(s)'
    BY <2>1, <1>a, <1>p DEF WorkerAt
  <2> QED
    BY <1>g, <2>1, <2>3, <2>4
<1>3. CASE ScanOk(s)
  <2>1. PICK n \in Scores :
          work' = [work EXCEPT ![s].scanned[work[s].cur] = n,
                               ![s].cur = NoMail, ![s].pc = "iterate"]
    BY <1>3 DEF ScanOk
  <2>2. w.pc = "scan" /\ w.cur \in Copy
    BY <1>3, <1>c DEF ScanOk
  <2>3. /\ work'[s].pc = "iterate" /\ work'[s].todo = w.todo
        /\ work'[s].uids = w.uids
        /\ work'[s].scanned = [w.scanned EXCEPT ![w.cur] = n]
    BY <2>1, <1>w DEF WorkerState
  <2>4. scannedMails(s)' \subseteq scannedMails(s) \cup {w.cur}
    BY <2>3, <1>w DEF scannedMails, WorkerState
  <2>5. \A d \in Copy : Pending(s, d)' => Pending(s, d)
    BY <2>2, <2>3, <2>4, <1>p DEF Pending
  <2>6. WorkerAt(s)'
    BY <2>2, <2>3, <1>a, <1>p DEF WorkerAt
  <2> QED
    BY <1>g, <2>3, <2>5, <2>6
<1>4. CASE ScanFails(s) \/ ScanLoopEnds(s)
  <2>1. /\ work'[s].pc = "replace" /\ work'[s].todo = {}
        /\ work'[s].uids = w.uids /\ work'[s].scanned = w.scanned
        /\ w.pc \in {"scan", "iterate"}
    BY <1>4, <1>w DEF ScanFails, ScanLoopEnds, AbortLoop, WorkerState
  <2>2. scannedMails(s)' = scannedMails(s)
    BY <2>1 DEF scannedMails
  <2>3. \A d \in Copy : Pending(s, d)' => Pending(s, d)
    BY <2>1, <2>2, <1>p DEF Pending
  <2>4. WorkerAt(s)'
    BY <2>1, <1>a, <1>p DEF WorkerAt
  <2> QED
    BY <1>g, <2>1, <2>3, <2>4
<1>5. CASE LearnOk(s)
  <2>1. /\ work'[s].pc = "iterate" /\ work'[s].todo = w.todo
        /\ work'[s].scanned = w.scanned /\ w.pc = "learn"
    BY <1>5, <1>w DEF LearnOk, WorkerState
  <2>2. scannedMails(s)' = scannedMails(s)
    BY <2>1 DEF scannedMails
  <2>3. \A d \in Copy : Pending(s, d)' => Pending(s, d)
    BY <2>1, <2>2, <1>p DEF Pending
  <2>4. PhaseOf(s)' # "scan"
    BY <2>1, <1>c, <1>p
  <2>5. WorkerAt(s)'
    BY <2>1, <2>4 DEF WorkerAt
  <2> QED
    BY <1>g, <2>1, <2>3, <2>5
<1> QED
  BY <1>1, <1>2, <1>3, <1>4, <1>5

(* What a worker sends, other than an APPEND, is harmless.                  *)
LEMMA SendFlow ==
    ASSUME Inv2, NEW s \in Session, NEW op \in {"move", "store"}, NEW C, NEW dest,
           Send(s, op, C, dest, NoScore)
    PROVE  /\ reply'[s] = "none"
           /\ conn[s] = "open" =>
                request'[s] = [op |-> op, copies |-> C, src |-> SourceOf(PhaseOf(s)),
                               dest |-> dest, score |-> NoScore]
           /\ conn[s] # "open" => request'[s] = request[s]
BY DEF Send, Inv2, Inv1, TypeOK, ConnType

LEMMA BackUpFlow ==
    ASSUME ScanAndBackupApart, Inv2, NEW s \in Session, NEW c \in Copy, BackUp(s, c)
    PROVE  WorkerShrinks(s) /\ CommandAt(s)' /\ WorkerAt(s)'
<1>w. work \in [Session -> WorkerState] /\ work[s] \in WorkerState
  BY DEF Inv2, Inv1, TypeOK, WorkType
<1>a. WorkerAt(s)
  BY DEF Inv2, FlowInv, WorkersOK
<1>1. /\ work[s].pc = "replace" /\ PhaseOf(s) = "scan" /\ c \in scannedMails(s)
      /\ work'[s].pc = "backup" /\ work'[s].cur = c
      /\ work'[s].todo = work[s].todo /\ work'[s].uids = work[s].uids
      /\ work'[s].scanned = work[s].scanned
      /\ UNCHANGED <<loc, conn, plan>>
  BY <1>w DEF BackUp, WorkerState, LocalStep, serverVars, monVars, Inv2, Inv1, ControlOK
<1>2. PhaseOf(s)' = PhaseOf(s) /\ scannedMails(s)' = scannedMails(s)
  BY <1>1 DEF PhaseOf, scannedMails
<1>3. /\ reply'[s] = "none"
      /\ conn[s] = "open" =>
           request'[s] = [op |-> "move", copies |-> {c}, src |-> ScanMailbox,
                          dest |-> BackupMailbox, score |-> NoScore]
      /\ conn[s] # "open" => request'[s] = request[s]
  <2>1. Send(s, "move", {c}, BackupMailbox, NoScore)
    BY DEF BackUp
  <2>2. SourceOf(PhaseOf(s)) = ScanMailbox
    BY <1>1, Roles
  <2> QED
    BY <2>1, <2>2, SendFlow
<1>4. conn[s] = "open" => c[1] \notin Malformed
  BY <1>1 DEF Inv2, FlowInv, PendingOK, Pending
<1>5. conn[s] = "open" => RequestOK(request'[s]) /\ request'[s].op # "append"
  BY <1>3, <1>4, Roles DEF RequestOK
<1>6. WorkerShrinks(s)
  BY <1>1, <1>2, <1>3, <1>5 DEF WorkerShrinks, Pending
<1>7. CommandAt(s)'
  BY <1>1, <1>2, <1>3 DEF CommandAt
<1>8. WorkerAt(s)'
  BY <1>1, <1>2, <1>a DEF WorkerAt
<1> QED
  BY <1>6, <1>7, <1>8

(* The other commands: flagging and moving what was learned, and moving     *)
(* malformed mails to the inbox.                                            *)
LEMMA OtherSendFlow ==
    ASSUME Inv2, NEW s \in Session, NEW op \in {"move", "store"}, NEW C, NEW dest,
           Send(s, op, C, dest, NoScore), UNCHANGED <<conn, plan>>,
           work'[s].pc \in {"malformed", "mark", "move"}, work[s].pc # "upload",
           work'[s].todo \subseteq work[s].todo,
           work'[s].scanned = work[s].scanned,
           RequestOK([op |-> op, copies |-> C, src |-> SourceOf(PhaseOf(s)),
                      dest |-> dest, score |-> NoScore]),
           WorkerAt(s)'
    PROVE  WorkerShrinks(s) /\ CommandAt(s)' /\ WorkerAt(s)'
<1>1. PhaseOf(s)' = PhaseOf(s) /\ scannedMails(s)' = scannedMails(s)
  BY DEF PhaseOf, scannedMails
<1>2. /\ reply'[s] = "none"
      /\ conn[s] = "open" =>
           request'[s] = [op |-> op, copies |-> C, src |-> SourceOf(PhaseOf(s)),
                          dest |-> dest, score |-> NoScore]
      /\ conn[s] # "open" => request'[s] = request[s]
  BY SendFlow
<1>3. conn[s] = "open" => RequestOK(request'[s]) /\ request'[s].op # "append"
  BY <1>2
<1>4. WorkerShrinks(s)
  BY <1>1, <1>2, <1>3 DEF WorkerShrinks, Pending
<1>5. CommandAt(s)'
  BY <1>2 DEF CommandAt
<1> QED
  BY <1>4, <1>5

LEMMA MoveLearnedFlow ==
    ASSUME ScanAndBackupApart, Inv2, NEW s \in Session, MoveLearned(s),
           PhaseOf(s) \in {"ham", "spam"}, work[s].pc \in {"iterate", "mark"},
           UNCHANGED <<conn, plan>>
    PROVE  WorkerShrinks(s) /\ CommandAt(s)' /\ WorkerAt(s)'
<1>w. work \in [Session -> WorkerState] /\ work[s] \in WorkerState
  BY DEF Inv2, Inv1, TypeOK, WorkType
<1>1. /\ work'[s].pc = "move" /\ work'[s].todo = {}
      /\ work'[s].scanned = work[s].scanned
  BY <1>w DEF MoveLearned, WorkerState
<1>2. PhaseOf(s)' = PhaseOf(s)
  BY DEF PhaseOf
<1>3. WorkerAt(s)'
  BY <1>1, <1>2 DEF WorkerAt
<1>4. Send(s, "move", work[s].uids, LearnDest(PhaseOf(s)), NoScore)
  BY DEF MoveLearned
<1>5. RequestOK([op |-> "move", copies |-> work[s].uids,
                 src |-> SourceOf(PhaseOf(s)), dest |-> LearnDest(PhaseOf(s)),
                 score |-> NoScore])
  BY Roles DEF RequestOK
<1> QED
  BY <1>1, <1>3, <1>4, <1>5, OtherSendFlow

LEMMA MalformedFlow ==
    ASSUME ScanAndBackupApart, Inv2, NEW s \in Session, work[s].pc = "replace",
           Send(s, "move", work[s].uids, InboxMailbox, NoScore),
           work' = [work EXCEPT ![s].pc = "malformed"], UNCHANGED <<conn, plan>>
    PROVE  WorkerShrinks(s) /\ CommandAt(s)' /\ WorkerAt(s)'
<1>w. work \in [Session -> WorkerState] /\ work[s] \in WorkerState
  BY DEF Inv2, Inv1, TypeOK, WorkType
<1>a. WorkerAt(s) /\ PhaseOf(s) = "scan"
  BY DEF Inv2, FlowInv, WorkersOK, Inv1, ControlOK
<1>1. /\ work'[s].pc = "malformed" /\ work'[s].todo = work[s].todo
      /\ work'[s].scanned = work[s].scanned /\ work'[s].uids = work[s].uids
  BY <1>w DEF WorkerState
<1>2. PhaseOf(s)' = PhaseOf(s)
  BY DEF PhaseOf
<1>3. WorkerAt(s)'
  BY <1>1, <1>2, <1>a DEF WorkerAt
<1>4. RequestOK([op |-> "move", copies |-> work[s].uids,
                 src |-> SourceOf(PhaseOf(s)), dest |-> InboxMailbox,
                 score |-> NoScore])
  BY <1>a, Roles DEF RequestOK, WorkerAt
<1> QED
  BY <1>1, <1>3, <1>4, OtherSendFlow

LEMMA MarkSeenFlow ==
    ASSUME Inv2, NEW s \in Session, work[s].pc = "iterate", PhaseOf(s) # "scan",
           Send(s, "store", work[s].uids, Nowhere, NoScore),
           work' = [work EXCEPT ![s].pc = "mark", ![s].todo = {}],
           UNCHANGED <<conn, plan>>
    PROVE  WorkerShrinks(s) /\ CommandAt(s)' /\ WorkerAt(s)'
<1>w. work \in [Session -> WorkerState] /\ work[s] \in WorkerState
  BY DEF Inv2, Inv1, TypeOK, WorkType
<1>1. /\ work'[s].pc = "mark" /\ work'[s].todo = {}
      /\ work'[s].scanned = work[s].scanned
  BY <1>w DEF WorkerState
<1>2. PhaseOf(s)' = PhaseOf(s)
  BY DEF PhaseOf
<1>3. WorkerAt(s)'
  BY <1>1, <1>2 DEF WorkerAt
<1>4. RequestOK([op |-> "store", copies |-> work[s].uids,
                 src |-> SourceOf(PhaseOf(s)), dest |-> Nowhere,
                 score |-> NoScore])
  BY DEF RequestOK
<1> QED
  BY <1>1, <1>3, <1>4, OtherSendFlow

(* A mail whose replacement ended, either way, is no longer pending.        *)
LEMMA NextScannedFlow ==
    ASSUME Inv2, NEW s \in Session, NEW err \in BOOLEAN,
           work[s].pc \in {"backup", "upload"}, Succeeded(s) \/ Failed(s),
           NextScanned(s, err)
    PROVE  WorkerShrinks(s) /\ CommandAt(s)' /\ WorkerAt(s)'
<1>w. work \in [Session -> WorkerState] /\ work[s] \in WorkerState
  BY DEF Inv2, Inv1, TypeOK, WorkType
<1>a. WorkerAt(s) /\ work[s].cur \in Copy
  BY DEF Inv2, FlowInv, WorkersOK, Inv1, ControlOK
<1>1. /\ work'[s].pc = "replace" /\ work'[s].todo = work[s].todo
      /\ work'[s].uids = work[s].uids
      /\ work'[s].scanned = [work[s].scanned EXCEPT ![work[s].cur] = NoScore]
      /\ UNCHANGED <<conn, plan, request, reply>>
  BY <1>w DEF NextScanned, WorkerState, LocalStep, NoCommand, monVars
<1>2. PhaseOf(s)' = PhaseOf(s)
  BY <1>1 DEF PhaseOf
<1>3. scannedMails(s)' = scannedMails(s) \ {work[s].cur}
  BY <1>1, <1>w, <1>a DEF scannedMails, WorkerState
<1>4. WorkerShrinks(s)
  BY <1>1, <1>2, <1>3 DEF WorkerShrinks, Pending
<1>5. conn[s] = "open" => request[s] = NoRequest
  BY NoCommandOpen
<1>6. CommandAt(s)'
  BY <1>1, <1>5 DEF CommandAt
<1>7. WorkerAt(s)'
  BY <1>1, <1>2, <1>a DEF WorkerAt
<1> QED
  BY <1>4, <1>6, <1>7

(* FETCH finds originals in the scan mailbox: nobody has delivered them, and *)
(* nobody is about to.                                                      *)
LEMMA MessagesFlow ==
    ASSUME ScanAndBackupApart, Inv2, NEW s \in Session, Messages(s)
    PROVE  FlowInv'
<1>f. /\ ScanHoldsOriginals /\ RequestsOK /\ AppendsOK /\ DeliveredOK /\ PendingOK
      /\ OpenIsCurrent /\ CommandAt(s) /\ WorkerAt(s)
  BY DEF Inv2, FlowInv, CommandsOK, WorkersOK
<1>w. work \in [Session -> WorkerState] /\ work[s] \in WorkerState
  BY DEF Inv2, Inv1, TypeOK, WorkType
<1>s. WorkerStep(s)
  BY DEF WorkerStep
<1>1. /\ work[s].pc = "select" /\ work'[s].pc = "iterate"
      /\ work'[s].todo = {c \in Copy : loc[c] = SourceOf(PhaseOf(s))}
      /\ work'[s].scanned = work[s].scanned /\ work'[s].uids = work[s].uids
      /\ conn[s] = "open"
  BY <1>w DEF Messages, InMailbox, WorkerState
<1>2. UNCHANGED <<loc, uploads, conn, mon, plan, session, request, reply>>
  BY DEF Messages, LocalStep, NoCommand, serverVars, monVars
<1>3. PhaseOf(s)' = PhaseOf(s) /\ scannedMails(s)' = scannedMails(s)
  BY <1>1, <1>2 DEF PhaseOf, scannedMails
<1>4. \A t \in Session, c \in Copy : Appending(t, c)' <=> Appending(t, c)
  BY <1>2 DEF Appending
<1>5. ScanHoldsOriginals' /\ RequestsOK' /\ AppendsOK' /\ DeliveredOK' /\ OpenIsCurrent'
  BY <1>f, <1>2, <1>4 DEF ScanHoldsOriginals, RequestsOK, RequestOK, AppendsOK,
     DeliveredOK, OpenIsCurrent
<1>6. ASSUME NEW c \in Copy, loc[c] = ScanMailbox
      PROVE  /\ c[2] = 0 /\ uploads[c[1]] = 0
             /\ \A t \in Session : ~Appending(t, c)
  <2>1. c[2] = 0 /\ c = Original(c[1]) /\ c[1] \in Mail
    BY <1>6, <1>f, CopyFacts DEF ScanHoldsOriginals
  <2>2. ~(uploads[c[1]] > 0)
    BY <1>6, <1>f, <2>1, Roles DEF DeliveredOK
  <2>3. uploads[c[1]] \in Nat
    BY <2>1, BoundAssumption DEF Inv2, Inv1, TypeOK, ServerType
  <2>4. \A t \in Session : ~Appending(t, c)
    BY <1>6, <1>f, Roles DEF AppendsOK
  <2> QED
    BY <2>1, <2>2, <2>3, <2>4
<1>7. PendingOK'
  <2> SUFFICES ASSUME NEW t \in Session, NEW c \in Copy,
                      conn'[t] = "open", Pending(t, c)'
               PROVE  /\ c[2] = 0 /\ c[1] \notin Malformed
                      /\ uploads'[c[1]] = 0
                      /\ loc'[c] \in {ScanMailbox, BackupMailbox}
                      /\ \A u \in Session : ~Appending(u, c)'
    BY DEF PendingOK
  <2>1. CASE Pending(t, c)
    BY <2>1, <1>f, <1>2, <1>4 DEF PendingOK
  <2>2. CASE ~Pending(t, c)
    <3>1. t = s
      BY <2>2, <1>s, OtherWorkers
    <3>2. c \in work'[s].todo /\ c[1] \notin Malformed /\ PhaseOf(s) = "scan"
      BY <2>2, <3>1, <1>1, <1>3 DEF Pending
    <3>3. loc[c] = ScanMailbox
      BY <3>2, <1>1, Roles
    <3> QED
      BY <3>2, <3>3, <1>2, <1>4, <1>6
  <2> QED
    BY <2>1, <2>2
<1>8. CommandAt(s)'
  BY <1>1, <1>2, <1>f DEF CommandAt
<1>9. WorkerAt(s)'
  BY <1>1, <1>3, <1>f DEF WorkerAt
<1> QED
  BY <1>5, <1>7, <1>8, <1>9, <1>s, OtherWorkers DEF FlowInv, CommandsOK, WorkersOK

(* An upload is sent for a pending mail whose original has been backed up;   *)
(* it stops being pending in the same step.                                 *)
LEMMA UploadFlow ==
    ASSUME ScanAndBackupApart, Inv2, NEW s \in Session, Upload(s)
    PROVE  FlowInv'
<1> DEFINE c == work[s].cur
           n == work[s].scanned[c]
<1>f. /\ ScanHoldsOriginals /\ RequestsOK /\ AppendsOK /\ DeliveredOK /\ PendingOK
      /\ OpenIsCurrent /\ CommandAt(s) /\ WorkerAt(s)
  BY DEF Inv2, FlowInv, CommandsOK, WorkersOK
<1>w. work \in [Session -> WorkerState] /\ work[s] \in WorkerState
  BY DEF Inv2, Inv1, TypeOK, WorkType
<1>s. WorkerStep(s)
  BY DEF WorkerStep
<1>1. /\ work[s].pc = "backup" /\ work'[s].pc = "upload" /\ work'[s].cur = c
      /\ work'[s].todo = work[s].todo /\ work[s].todo = {}
      /\ work'[s].scanned = work[s].scanned /\ work'[s].uids = work[s].uids
      /\ reply[s] = "ok" /\ c \in Copy
  BY <1>w, <1>f DEF Upload, WorkerState, Succeeded, WorkerAt, Inv2, Inv1, ControlOK
<1>2. UNCHANGED <<loc, uploads, conn, mon, plan, session>>
  BY DEF Upload, LocalStep, serverVars, monVars
<1>3. PhaseOf(s)' = PhaseOf(s) /\ scannedMails(s)' = scannedMails(s)
  BY <1>1, <1>2 DEF PhaseOf, scannedMails
<1>4. \A t \in Session \ {s} : request'[t] = request[t]
  BY <1>s, OtherWorkers
<1>5. WorkerAt(s)'
  BY <1>1, <1>3, <1>f DEF WorkerAt
<1>6. \A t \in Session, d \in Copy :
        Pending(t, d)' => Pending(t, d) /\ (t = s => d # c)
  <2>1. \A d \in Copy : Pending(s, d)' => Pending(s, d) /\ d # c
    BY <1>1, <1>3 DEF Pending
  <2> QED
    BY <2>1, <1>s, OtherWorkers
<1>7. CASE conn[s] # "open"
  <2>1. request'[s] = request[s]
    BY <1>7 DEF Upload, Send, Inv2, Inv1, TypeOK, ConnType
  <2>2. WorkerShrinks(s)
    BY <2>1, <1>6 DEF WorkerShrinks
  <2>3. CommandAt(s)'
    BY <1>7, <1>2 DEF CommandAt
  <2> QED
    BY <1>s, <1>5, <2>2, <2>3, WorkerShrinkFlow
<1>8. CASE conn[s] = "open"
  <2>1. /\ reply'[s] = "none"
        /\ request'[s] = [op |-> "append", copies |-> {c},
                          src |-> SourceOf(PhaseOf(s)), dest |-> UploadDest(n),
                          score |-> n]
    BY <1>8 DEF Upload, Send, Inv2, Inv1, TypeOK, ConnType
  <2>2. c \in scannedMails(s) /\ loc[c] = BackupMailbox
    BY <1>1, <1>8, <1>f DEF CommandAt
  <2>3. n \in Scores
    BY <2>2, <1>w, <1>1 DEF scannedMails, WorkerState
  <2>4. RequestsOK'
    <3>1. RequestOK(request'[s])
      BY <2>1, <2>3, <1>1, Roles DEF RequestOK
    <3> QED
      BY <3>1, <1>4, <1>f DEF RequestsOK, RequestOK
  <2>5. Pending(s, c)
    BY <2>2, <1>1 DEF Pending
  <2>6. /\ c[2] = 0 /\ c[1] \notin Malformed /\ uploads[c[1]] = 0
        /\ \A t \in Session : ~Appending(t, c)
    BY <2>5, <1>1, <1>8, <1>f DEF PendingOK
  <2>7. \A t \in Session, d \in Copy :
          Appending(t, d)' => Appending(t, d) \/ (t = s /\ d = c)
    BY <2>1, <1>4 DEF Appending
  <2>8. AppendsOK'
    BY <2>2, <2>6, <2>7, <1>2, <1>f DEF AppendsOK
  <2>9. PendingOK'
    <3> SUFFICES ASSUME NEW t \in Session, NEW d \in Copy,
                        conn'[t] = "open", Pending(t, d)'
                 PROVE  /\ d[2] = 0 /\ d[1] \notin Malformed
                        /\ uploads'[d[1]] = 0
                        /\ loc'[d] \in {ScanMailbox, BackupMailbox}
                        /\ \A u \in Session : ~Appending(u, d)'
      BY DEF PendingOK
    <3>1. t = s
      BY <1>2, <1>8, <1>f DEF OpenIsCurrent
    <3>2. Pending(s, d) /\ d # c
      BY <3>1, <1>6
    <3> QED
      BY <3>1, <3>2, <2>7, <1>2, <1>8, <1>f DEF PendingOK
  <2>10. ScanHoldsOriginals' /\ DeliveredOK' /\ OpenIsCurrent'
    BY <1>2, <1>f DEF ScanHoldsOriginals, DeliveredOK, OpenIsCurrent
  <2>11. CommandAt(s)'
    BY <2>1, <1>1 DEF CommandAt
  <2> QED
    BY <2>4, <2>8, <2>9, <2>10, <2>11, <1>5, <1>s, OtherWorkers
       DEF FlowInv, CommandsOK, WorkersOK
<1> QED
  BY <1>7, <1>8

LEMMA WorkerFlow ==
    ASSUME ScanAndBackupApart, Inv2, NEW s \in Session, WorkerStep(s)
    PROVE  FlowInv'
<1> DEFINE Goal == WorkerShrinks(s) /\ CommandAt(s)' /\ WorkerAt(s)'
<1>w. work[s].failed \in BOOLEAN
  BY DEF Inv2, Inv1, TypeOK, WorkType, WorkerState
<1>p. work[s].pc \in {"mark", "move"} => PhaseOf(s) \in {"ham", "spam"}
  BY DEF Inv2, Inv1, ControlOK
<1>q. work[s].pc = "iterate" /\ PhaseOf(s) # "scan" => PhaseOf(s) \in {"ham", "spam"}
  BY PhaseTypes DEF Inv2, Phase
<1>r. LocalStep => UNCHANGED <<conn, plan>>
  BY DEF LocalStep, monVars
<1>1. CASE Messages(s)
  BY <1>1, MessagesFlow
<1>2. CASE Upload(s)
  BY <1>2, UploadFlow
<1>3. CASE \/ MessagesFails(s) \/ ContextExpired(s) \/ LearnFails(s)
           \/ LearnRejected(s) \/ MalformedDone(s) \/ MoveLearnedDone(s)
  <2>1. PICK err \in BOOLEAN : Return(s, err)
    BY <1>3, <1>w DEF MessagesFails, ContextExpired, LearnFails, LearnRejected,
                      MalformedDone, MoveLearnedDone
  <2>2. NoCommand /\ UNCHANGED <<conn, plan>>
    BY <1>3, <1>r DEF MessagesFails, ContextExpired, LearnFails, LearnRejected,
                      MalformedDone, MoveLearnedDone
  <2>3. conn[s] = "open" => request[s] = NoRequest
    BY <1>3, NoCommandOpen DEF MessagesFails, ContextExpired, LearnFails,
       LearnRejected, MalformedDone, MoveLearnedDone
  <2> QED
    BY <2>1, <2>2, <2>3, ReturnFlow, WorkerShrinkFlow
<1>4. CASE \/ \E c \in Copy : SkipMalformed(s, c) \/ TakeMessage(s, c)
           \/ ScanOk(s) \/ ScanFails(s) \/ ScanLoopEnds(s)
           \/ LearnOk(s)
  BY <1>4, ScanLoopFlow, WorkerShrinkFlow
<1>5. ASSUME NEW c \in Copy, BackUp(s, c) PROVE FlowInv'
  BY <1>5, BackUpFlow, WorkerShrinkFlow
<1>6. CASE UploadDone(s) \/ ReplaceFails(s)
  BY <1>6, NextScannedFlow, WorkerShrinkFlow DEF UploadDone, ReplaceFails
<1>7. CASE ReplaceDone(s)
  <2>1. CASE Return(s, work[s].failed) /\ NoCommand
    <3>1. conn[s] = "open" => request[s] = NoRequest
      BY <1>7, NoCommandOpen DEF ReplaceDone
    <3> QED
      BY <1>7, <2>1, <3>1, <1>r, <1>w, ReturnFlow, WorkerShrinkFlow DEF ReplaceDone
  <2>2. CASE /\ Send(s, "move", work[s].uids, InboxMailbox, NoScore)
             /\ work' = [work EXCEPT ![s].pc = "malformed"]
    BY <1>7, <2>2, <1>r, MalformedFlow, WorkerShrinkFlow DEF ReplaceDone
  <2> QED
    BY <1>7, <2>1, <2>2 DEF ReplaceDone
<1>8. CASE LearnLoopEnds(s)
  <2>1. CASE Return(s, FALSE) /\ NoCommand
    <3>1. conn[s] = "open" => request[s] = NoRequest
      BY <1>8, NoCommandOpen DEF LearnLoopEnds
    <3> QED
      BY <1>8, <2>1, <3>1, <1>r, ReturnFlow, WorkerShrinkFlow DEF LearnLoopEnds
  <2>2. CASE /\ Send(s, "store", work[s].uids, Nowhere, NoScore)
             /\ work' = [work EXCEPT ![s].pc = "mark", ![s].todo = {}]
    BY <1>8, <2>2, <1>r, MarkSeenFlow, WorkerShrinkFlow DEF LearnLoopEnds
  <2>3. CASE MoveLearned(s)
    BY <1>8, <2>3, <1>r, <1>q, MoveLearnedFlow, WorkerShrinkFlow DEF LearnLoopEnds
  <2> QED
    BY <1>8, <2>1, <2>2, <2>3 DEF LearnLoopEnds
<1>9. CASE MarkSeenDone(s)
  BY <1>9, <1>p, <1>r, MoveLearnedFlow, WorkerShrinkFlow DEF MarkSeenDone
<1> QED
  BY <1>1, <1>2, <1>3, <1>4, <1>5, <1>6, <1>7, <1>8, <1>9 DEF WorkerStep

(* A step that leaves the workers alone, moves mails as LocStep allows and   *)
(* only takes commands and transports away.                                 *)
LEMMA QuietFlow ==
    ASSUME Inv2, LocStep, UNCHANGED <<uploads, work, plan, session, mon>>,
           \A t \in Session : request'[t] \in {request[t], NoRequest},
           \A t \in Session : conn'[t] = "open" => conn[t] = "open",
           \A t \in Session : \/ reply'[t] = reply[t] /\ request'[t] = request[t]
                              \/ CommandAt(t)'
    PROVE  FlowInv'
<1>f. OpenIsCurrent /\ PendingOK /\ CommandsOK /\ WorkersOK
  BY DEF Inv2, FlowInv
<1>1. \A t \in Session : PhaseOf(t)' = PhaseOf(t) /\ scannedMails(t)' = scannedMails(t)
  BY DEF PhaseOf, scannedMails
<1>2. \A t \in Session, c \in Copy : Pending(t, c)' <=> Pending(t, c)
  BY <1>1 DEF Pending
<1>3. RequestOK(NoRequest) /\ NoRequest.op # "append"
  BY DEF RequestOK, NoRequest
<1>4. Shrinks
  BY <1>2, <1>3 DEF Shrinks
<1>5. OpenIsCurrent' /\ WorkersOK'
  BY <1>f, <1>1 DEF OpenIsCurrent, WorkersOK, WorkerAt, Worker
<1>6. CommandsOK'
  <2> SUFFICES ASSUME NEW t \in Session PROVE CommandAt(t)'
    BY DEF CommandsOK
  <2>1. CASE reply'[t] = reply[t] /\ request'[t] = request[t] /\ conn'[t] = "open"
    <3>1. CommandAt(t) /\ conn[t] = "open"
      BY <1>f, <2>1 DEF CommandsOK
    <3>2. work[t].pc = "backup" =>
            work[t].cur \in Copy /\ Pending(t, work[t].cur)
      BY <3>1 DEF CommandAt, Pending, scannedMails
    <3>3. work[t].pc = "backup" => work[t].cur[2] = 0
      BY <3>1, <3>2, <1>f DEF PendingOK
    <3> QED
      BY <2>1, <3>1, <3>2, <3>3, <1>1 DEF CommandAt, LocStep
  <2>2. CASE conn'[t] # "open"
    BY <2>2 DEF CommandAt
  <2> QED
    BY <2>1, <2>2
<1> QED
  BY <1>4, <1>5, <1>6, ShrinkFlow DEF FlowInv

(* A MOVE in flight, executed in part or as a whole, is a LocStep.          *)
LEMMA MoveLoc ==
    ASSUME ScanAndBackupApart, Inv2, NEW s \in Session, request[s].op = "move",
           NEW C \in SUBSET request[s].copies, ApplyMove(request[s], C)
    PROVE  LocStep
<1>1. RequestOK(request[s])
  BY DEF Inv2, FlowInv, RequestsOK
<1>2. \A c \in Copy : \/ loc'[c] = loc[c]
                      \/ /\ c \in request[s].copies /\ loc[c] = request[s].src
                         /\ loc'[c] = request[s].dest
  BY DEF ApplyMove, InMailbox
<1> QED
  BY <1>1, <1>2, Roles DEF RequestOK, LocStep

LEMMA AnswerFlow ==
    ASSUME Inv2, NEW s \in Session, NEW r \in {"ok", "no"}, Answer(s, r), LocStep,
           UNCHANGED uploads, request[s] # NoRequest,
           conn[s] = "open" /\ work[s].pc = "backup" /\ r = "ok" =>
             loc'[work[s].cur] = BackupMailbox
    PROVE  FlowInv'
<1>1. ConnType
  BY DEF Inv2, Inv1, TypeOK
<1>2. /\ request'[s] = NoRequest
      /\ conn[s] = "open" => reply'[s] = r
      /\ \A t \in Session \ {s} : request'[t] = request[t] /\ reply'[t] = reply[t]
      /\ UNCHANGED <<work, plan, session, mon, conn>>
  BY <1>1 DEF Answer, ConnType, monVars
<1>3. CommandAt(s)
  BY DEF Inv2, FlowInv, CommandsOK
<1>4. scannedMails(s)' = scannedMails(s)
  BY <1>2 DEF scannedMails
<1>5. CommandAt(s)'
  BY <1>2, <1>3, <1>4 DEF CommandAt
<1> QED
  BY <1>2, <1>5, QuietFlow

LEMMA ExecuteMoveFlow ==
    ASSUME ScanAndBackupApart, Inv2, NEW s \in Session, request[s].op = "move",
           ApplyMove(request[s], request[s].copies), Answer(s, "ok")
    PROVE  FlowInv'
<1>1. LocStep
  BY MoveLoc
<1>2. ASSUME conn[s] = "open", work[s].pc = "backup"
      PROVE  loc'[work[s].cur] = BackupMailbox
  <2>0. request[s] # NoRequest
    BY DEF NoRequest
  <2>1. /\ work[s].cur \in scannedMails(s) /\ request[s].copies = {work[s].cur}
        /\ request[s].src = ScanMailbox /\ request[s].dest = BackupMailbox
    BY <1>2, <2>0 DEF Inv2, FlowInv, CommandsOK, CommandAt
  <2>2. work[s].cur \in Copy /\ Pending(s, work[s].cur)
    BY <1>2, <2>1 DEF scannedMails, Pending
  <2>3. loc[work[s].cur] \in {ScanMailbox, BackupMailbox}
    BY <1>2, <2>2 DEF Inv2, FlowInv, PendingOK
  <2> QED
    BY <2>1, <2>2, <2>3 DEF ApplyMove, InMailbox
<1>3. request[s] # NoRequest
  BY DEF NoRequest
<1>4. UNCHANGED uploads
  BY DEF ApplyMove
<1> QED
  BY <1>1, <1>2, <1>3, <1>4, AnswerFlow

(* The APPEND of a mail is the only one: once it is executed, no other is in *)
(* flight and no worker has the mail.                                       *)
LEMMA ExecuteAppendFlow ==
    ASSUME ScanAndBackupApart, Inv2, NEW s \in Session, request[s].op = "append",
           ApplyAppend(request[s]), Answer(s, "ok")
    PROVE  FlowInv'
<1>f. /\ ScanHoldsOriginals /\ RequestsOK /\ AppendsOK /\ DeliveredOK /\ PendingOK
      /\ OpenIsCurrent /\ CommandsOK /\ WorkersOK
  BY DEF Inv2, FlowInv
<1>t. ServerType /\ ConnType
  BY DEF Inv2, Inv1, TypeOK
<1>1. PICK c \in request[s].copies :
        /\ uploads[c[1]] < MaxUploads
        /\ uploads' = [uploads EXCEPT ![c[1]] = @ + 1]
        /\ loc' = [loc EXCEPT ![<<c[1], uploads[c[1]] + 1>>] = request[s].dest]
  BY DEF ApplyAppend
<1>2. c \in Copy /\ Appending(s, c) /\ request[s].copies \subseteq Copy
  BY <1>t DEF Appending, ConnType, Request
<1>3. /\ c[2] = 0 /\ c[1] \in Mail /\ uploads[c[1]] = 0 /\ c = Original(c[1])
      /\ loc[c] = BackupMailbox
  BY <1>2, <1>f, CopyFacts DEF AppendsOK
<1>4. /\ request[s].dest \in Mailbox \ {ScanMailbox}
      /\ \E d \in Copy : request[s].copies = {d}
  BY <1>f DEF RequestsOK, RequestOK
<1>5. \A d \in Copy : d[2] = 0 => loc'[d] = loc[d]
  BY <1>1, <1>3, <1>t, CopyFacts DEF ServerType
<1>6. \A d \in Copy : loc'[d] = loc[d] \/ loc'[d] # ScanMailbox
  BY <1>1, <1>4, <1>t DEF ServerType
<1>7. /\ request'[s] = NoRequest
      /\ conn[s] = "open" => reply'[s] = "ok"
      /\ \A t \in Session \ {s} : request'[t] = request[t] /\ reply'[t] = reply[t]
      /\ UNCHANGED <<work, plan, session, mon, conn>>
  BY <1>t DEF Answer, ConnType, monVars
<1>8. \A t \in Session : PhaseOf(t)' = PhaseOf(t) /\ scannedMails(t)' = scannedMails(t)
  BY <1>7 DEF PhaseOf, scannedMails
<1>9. \A t \in Session, d \in Copy : Pending(t, d)' <=> Pending(t, d)
  BY <1>7, <1>8 DEF Pending
<1>10. \A t \in Session, d \in Copy : Appending(t, d)' => Appending(t, d) /\ t # s
  BY <1>7 DEF Appending, NoRequest
<1>11. \A m \in Mail : uploads'[m] = (IF m = c[1] THEN 1 ELSE uploads[m])
  BY <1>1, <1>3, <1>t DEF ServerType
<1>12. \A d \in Copy : d[2] = 0 /\ d # c => d[1] # c[1] /\ d[1] \in Mail
  BY <1>3, CopyFacts
<1>13. ScanHoldsOriginals'
  BY <1>6, <1>f DEF ScanHoldsOriginals
<1>14. RequestsOK'
  BY <1>7, <1>f DEF RequestsOK, RequestOK, NoRequest
<1>15. AppendsOK'
  <2> SUFFICES ASSUME NEW t \in Session, NEW d \in Copy, Appending(t, d)'
               PROVE  /\ d[2] = 0 /\ d[1] \notin Malformed
                      /\ uploads'[d[1]] = 0
                      /\ loc'[d] = BackupMailbox
                      /\ \A u \in Session : Appending(u, d)' => u = t
    BY DEF AppendsOK
  <2>1. Appending(t, d) /\ t # s
    BY <1>10
  <2>2. d # c
    BY <1>2, <2>1, <1>f DEF AppendsOK
  <2> QED
    BY <2>1, <2>2, <1>5, <1>10, <1>11, <1>12, <1>f DEF AppendsOK
<1>16. DeliveredOK'
  BY <1>3, <1>5, <1>11, <1>f, CopyFacts DEF DeliveredOK
<1>17. PendingOK'
  <2> SUFFICES ASSUME NEW t \in Session, NEW d \in Copy,
                      conn'[t] = "open", Pending(t, d)'
               PROVE  /\ d[2] = 0 /\ d[1] \notin Malformed
                      /\ uploads'[d[1]] = 0
                      /\ loc'[d] \in {ScanMailbox, BackupMailbox}
                      /\ \A u \in Session : ~Appending(u, d)'
    BY DEF PendingOK
  <2>1. Pending(t, d) /\ conn[t] = "open"
    BY <1>7, <1>9
  <2>2. /\ d[2] = 0 /\ d[1] \notin Malformed /\ uploads[d[1]] = 0
        /\ loc[d] \in {ScanMailbox, BackupMailbox}
        /\ \A u \in Session : ~Appending(u, d)
    BY <2>1, <1>f DEF PendingOK
  <2>3. d # c
    BY <1>2, <2>2
  <2> QED
    BY <2>2, <2>3, <1>5, <1>10, <1>11, <1>12
<1>18. CommandsOK'
  <2> SUFFICES ASSUME NEW t \in Session, conn'[t] = "open" PROVE CommandAt(t)'
    BY DEF CommandsOK, CommandAt
  <2>1. CommandAt(t) /\ conn[t] = "open"
    BY <1>7, <1>f DEF CommandsOK
  <2>2. CASE t = s
    <3>1. request[s] # NoRequest
      BY DEF NoRequest
    <3>2. work[s].pc # "backup"
      BY <2>1, <2>2, <3>1 DEF CommandAt
    <3> QED
      BY <2>2, <3>2, <1>7 DEF CommandAt
  <2>3. CASE t # s
    <3>1. work[t].pc = "backup" => work[t].cur \in Copy /\ Pending(t, work[t].cur)
      BY <2>1 DEF CommandAt, Pending, scannedMails
    <3>2. work[t].pc = "backup" => work[t].cur[2] = 0
      BY <2>1, <3>1, <1>f DEF PendingOK
    <3> QED
      BY <2>1, <2>3, <3>1, <3>2, <1>5, <1>7, <1>8 DEF CommandAt
  <2> QED
    BY <2>2, <2>3
<1>19. OpenIsCurrent' /\ WorkersOK'
  BY <1>7, <1>8, <1>f DEF OpenIsCurrent, WorkersOK, WorkerAt, Worker
<1> QED
  BY <1>13, <1>14, <1>15, <1>16, <1>17, <1>18, <1>19 DEF FlowInv

LEMMA ServerFlow ==
    ASSUME ScanAndBackupApart, Inv2, NEW s \in Session,
           Server(s) \/ ConnectionLost(s)
    PROVE  FlowInv'
<1>u. UNCHANGED loc => LocStep
  BY DEF LocStep
<1>n. request[s].op # "none" => request[s] # NoRequest
  BY DEF NoRequest
<1>b. conn[s] = "open" /\ work[s].pc = "backup" /\ request[s] # NoRequest =>
        request[s].op = "move"
  BY DEF Inv2, FlowInv, CommandsOK, CommandAt
<1>1. CASE ServerExecutes(s)
  <2>1. CASE request[s].op = "move" /\ ApplyMove(request[s], request[s].copies)
    BY <1>1, <2>1, ExecuteMoveFlow DEF ServerExecutes
  <2>2. CASE request[s].op = "store" /\ ApplyStore(request[s])
    BY <1>1, <2>2, <1>u, <1>n, <1>b, AnswerFlow DEF ServerExecutes, ApplyStore
  <2>3. CASE request[s].op = "append" /\ ApplyAppend(request[s])
    BY <1>1, <2>3, ExecuteAppendFlow DEF ServerExecutes
  <2> QED
    BY <1>1, <2>1, <2>2, <2>3 DEF ServerExecutes
<1>2. CASE ServerRefuses(s)
  <2>1. ASSUME NEW C \in SUBSET request[s].copies, request[s].op = "move",
               ApplyMove(request[s], C)
        PROVE  FlowInv'
    <3>1. LocStep /\ UNCHANGED uploads
      BY <2>1, MoveLoc DEF ApplyMove
    <3> QED
      BY <1>2, <2>1, <3>1, <1>n, AnswerFlow DEF ServerRefuses
  <2>2. CASE request[s].op \in {"store", "append"} /\ UNCHANGED serverVars
    <3>1. UNCHANGED <<loc, uploads>>
      BY <2>2 DEF serverVars
    <3> QED
      BY <1>2, <2>2, <3>1, <1>u, <1>n, AnswerFlow DEF ServerRefuses
  <2> QED
    BY <1>2, <2>1, <2>2 DEF ServerRefuses
<1>3. CASE RequestLost(s)
  <2>1. UNCHANGED <<loc, uploads, work, plan, session, mon, conn, reply>>
    BY <1>3 DEF RequestLost, serverVars, monVars
  <2>2. request' = [request EXCEPT ![s] = NoRequest] /\ conn[s] = "closed"
    BY <1>3 DEF RequestLost
  <2>3. CommandAt(s)'
    BY <2>1, <2>2 DEF CommandAt
  <2>4. \A t \in Session : request'[t] \in {request[t], NoRequest}
                           /\ (t # s => request'[t] = request[t])
    BY <2>2 DEF Inv2, Inv1, TypeOK, ConnType
  <2> QED
    BY <2>1, <2>3, <2>4, <1>u, QuietFlow
<1>4. CASE ConnectionLost(s)
  <2>1. UNCHANGED <<loc, uploads, work, plan, session, mon, request, reply>>
    BY <1>4 DEF ConnectionLost, serverVars, monVars
  <2>2. \A t \in Session : conn'[t] = "open" => conn[t] = "open"
    BY <1>4 DEF ConnectionLost, Inv2, Inv1, TypeOK, ConnType
  <2> QED
    BY <2>1, <2>2, <1>u, QuietFlow
<1> QED
  BY <1>1, <1>2, <1>3, <1>4 DEF Server

(* New mails enter the scan mailbox as originals, and the user takes mails   *)
(* from the inbox and the spam mailbox only.                                *)
LEMMA EnvironmentFlow ==
    ASSUME ScanAndBackupApart, Inv2,
           \/ \E m \in Mail : Arrive(m)
           \/ \E c \in Copy : User(c)
    PROVE  FlowInv'
<1>t. loc \in [Copy -> Mailbox \cup {Nowhere}]
  BY DEF Inv2, Inv1, TypeOK, ServerType
<1>1. UNCHANGED <<uploads, work, plan, session, mon, conn, request, reply>>
  BY DEF Arrive, User, UserReportsSpam, UserReportsHam, UserReports, connVars, monVars
<1>2. ASSUME NEW m \in Mail, Arrive(m) PROVE LocStep
  <2>1. loc[Original(m)] = Nowhere /\ loc' = [loc EXCEPT ![Original(m)] = ScanMailbox]
    BY <1>2 DEF Arrive
  <2>2. Original(m) \in Copy /\ Original(m)[2] = 0
    BY CopyFacts
  <2> QED
    BY <2>1, <2>2, <1>t, Roles DEF LocStep
<1>3. ASSUME NEW c \in Copy, User(c) PROVE LocStep
  <2>1. PICK from \in {InboxMailbox, SpamMailbox},
             to \in {UndetectedMailbox, HamMailbox} :
          loc[c] = from /\ loc' = [loc EXCEPT ![c] = to]
    BY <1>3 DEF User, UserReportsSpam, UserReportsHam, UserReports
  <2> QED
    BY <2>1, <1>t, Roles DEF LocStep
<1>4. LocStep
  BY <1>2, <1>3
<1> QED
  BY <1>1, <1>4, QuietFlow

(* A step of Monitor, a new session or a crash: sessions lose their         *)
(* transport, or their worker is replaced by one that has nothing in hand.  *)
FreshWorker(t) ==
    /\ \E pc \in {"idle", "select", "returned"} : work'[t] = Worker(pc, FALSE)
    /\ conn'[t] = "open" => request[t] = NoRequest

SameWorker(t) ==
    /\ UNCHANGED <<work[t], plan[t], reply[t]>>
    /\ conn'[t] = "open" => conn[t] = "open"

LEMMA ResetFlow ==
    ASSUME Inv2, UNCHANGED <<loc, uploads, request>>, OpenIsCurrent',
           \A t \in Session : SameWorker(t) \/ FreshWorker(t)
    PROVE  FlowInv'
<1>f. CommandsOK /\ WorkersOK
  BY DEF Inv2, FlowInv
<1>1. ASSUME NEW t \in Session, FreshWorker(t)
      PROVE  CommandAt(t)' /\ WorkerAt(t)' /\ \A c \in Copy : ~Pending(t, c)'
  <2>1. PICK pc \in {"idle", "select", "returned"} : work'[t] = Worker(pc, FALSE)
    BY <1>1 DEF FreshWorker
  <2>2. /\ work'[t].pc = pc /\ work'[t].todo = {} /\ work'[t].uids = {}
        /\ \A c \in Copy : work'[t].scanned[c] = NoScore
    BY <2>1 DEF Worker
  <2>3. scannedMails(t)' = {}
    BY <2>2 DEF scannedMails
  <2>4. \A c \in Copy : ~Pending(t, c)'
    BY <2>2, <2>3 DEF Pending
  <2>5. CommandAt(t)'
    BY <2>2, <1>1 DEF CommandAt, FreshWorker
  <2>6. WorkerAt(t)'
    BY <2>1, <2>2 DEF WorkerAt, Worker
  <2> QED
    BY <2>4, <2>5, <2>6
<1>2. ASSUME NEW t \in Session, SameWorker(t)
      PROVE  /\ CommandAt(t)' /\ WorkerAt(t)'
             /\ \A c \in Copy : Pending(t, c)' <=> Pending(t, c)
  <2>1. PhaseOf(t)' = PhaseOf(t) /\ scannedMails(t)' = scannedMails(t)
    BY <1>2 DEF SameWorker, PhaseOf, scannedMails
  <2>2. CommandAt(t) /\ WorkerAt(t)
    BY <1>f DEF CommandsOK, WorkersOK
  <2>3. \A c \in Copy : Pending(t, c)' <=> Pending(t, c)
    BY <1>2, <2>1 DEF SameWorker, Pending
  <2>4. CommandAt(t)'
    BY <1>2, <2>1, <2>2 DEF SameWorker, CommandAt
  <2>5. WorkerAt(t)'
    BY <1>2, <2>1, <2>2 DEF SameWorker, WorkerAt, Worker
  <2> QED
    BY <2>3, <2>4, <2>5
<1>3. LocStep
  BY DEF LocStep
<1>4. \A t \in Session, c \in Copy :
        conn'[t] = "open" /\ Pending(t, c)' => conn[t] = "open" /\ Pending(t, c)
  BY <1>1, <1>2 DEF SameWorker
<1>5. Shrinks
  BY <1>3, <1>4 DEF Shrinks
<1>6. CommandsOK' /\ WorkersOK'
  BY <1>1, <1>2 DEF CommandsOK, WorkersOK
<1> QED
  BY <1>5, <1>6, ShrinkFlow DEF FlowInv

LEMMA MonitorFlow ==
    ASSUME ScanAndBackupApart, Inv2, NEW s \in Session, Monitor(s)
    PROVE  FlowInv'
<1>t. ConnType /\ MonType /\ WorkType /\ OpenIsCurrent
  BY DEF Inv2, Inv1, TypeOK, FlowInv
<1>m. UNCHANGED <<loc, uploads, request, reply, session>>
  BY DEF Monitor, NewMessages, LearnTimer, IdleFails, MonitorFails, StartPhase, Expire,
         CloseTransport, Abandon, PhaseOk, PhaseFails, MonStep, serverVars
<1>i. work[s].pc = "idle" => work[s] = Worker("idle", FALSE)
  BY DEF Inv2, FlowInv, WorkersOK, WorkerAt
<1>r. conn[s] = "open" /\ work[s].pc \in {"idle", "returned"} => request[s] = NoRequest
  BY NoCommandOpen
<1>1. CASE NewMessages(s) \/ LearnTimer(s)
  <2>1. UNCHANGED <<work, conn, mon>> /\ plan[s] = <<>>
    BY <1>1 DEF NewMessages, LearnTimer, Idle
  <2>2. work[s].pc = "idle"
    BY <2>1 DEF Inv2, Inv1, ControlOK
  <2>3. FreshWorker(s)
    BY <2>1, <2>2, <1>i, <1>r DEF FreshWorker
  <2>4. \A t \in Session \ {s} : SameWorker(t)
    BY <1>1, <1>m, <1>t, <2>1 DEF NewMessages, LearnTimer, SameWorker, MonType
  <2>5. OpenIsCurrent'
    BY <1>t, <1>m, <2>1 DEF OpenIsCurrent
  <2> QED
    BY <1>m, <2>3, <2>4, <2>5, ResetFlow
<1>2. CASE IdleFails(s) \/ Abandon(s) \/ Expire(s) \/ CloseTransport(s)
  <2>1. UNCHANGED <<work, plan>>
    BY <1>2 DEF IdleFails, MonitorFails, Abandon, Expire, CloseTransport
  <2>2. \A t \in Session : conn'[t] = "open" => conn[t] = "open" /\ mon'[t] = mon[t]
    BY <1>2, <1>t DEF IdleFails, MonitorFails, Abandon, Expire, CloseTransport,
       ConnType, MonType
  <2>3. \A t \in Session : SameWorker(t)
    BY <1>m, <2>1, <2>2 DEF SameWorker
  <2>4. OpenIsCurrent'
    BY <1>t, <1>m, <2>2 DEF OpenIsCurrent
  <2> QED
    BY <1>m, <2>3, <2>4, ResetFlow
<1>3. CASE StartPhase(s) \/ PhaseOk(s) \/ PhaseFails(s)
  <2>1. /\ work[s].pc \in {"idle", "returned"}
        /\ \E pc \in {"idle", "select", "returned"} :
             work' = [work EXCEPT ![s] = Worker(pc, FALSE)]
    BY <1>3 DEF StartPhase, PhaseOk, PhaseFails, MonitorFails
  <2>2. \A t \in Session : conn'[t] = "open" => conn[t] = "open" /\ mon'[t] = mon[t]
    BY <1>3, <1>t DEF StartPhase, PhaseOk, PhaseFails, MonitorFails, ConnType, MonType
  <2>3. FreshWorker(s)
    BY <2>1, <2>2, <1>r, <1>t DEF FreshWorker, WorkType
  <2>4. \A t \in Session \ {s} : work'[t] = work[t] /\ plan'[t] = plan[t]
    BY <1>3, <2>1, <1>t DEF WorkType, MonType, StartPhase, PhaseOk, PhaseFails,
       MonitorFails
  <2>5. \A t \in Session \ {s} : SameWorker(t)
    BY <1>m, <2>2, <2>4 DEF SameWorker
  <2>6. OpenIsCurrent'
    BY <1>t, <1>m, <2>2 DEF OpenIsCurrent
  <2> QED
    BY <1>m, <2>3, <2>5, <2>6, ResetFlow
<1> QED
  BY <1>1, <1>2, <1>3 DEF Monitor

LEMMA NewSessionFlow ==
    ASSUME Inv2, NewSession \/ Restart
    PROVE  FlowInv'
<1> DEFINE n == session + 1
<1>t. ConnType /\ MonType /\ OpenIsCurrent /\ WorkersOK /\ ControlOK
  BY DEF Inv2, Inv1, TypeOK, FlowInv
<1>1. n \in Session /\ n > session /\ session \in Nat
  BY <1>t, BoundAssumption DEF NewSession, Restart, OpenSession, MonType, Session
<1>2. /\ UNCHANGED <<loc, uploads, request, reply, work>> /\ session' = n
      /\ conn' = [conn EXCEPT ![n] = "open"]
      /\ mon' = [mon EXCEPT ![n] = "running"]
      /\ plan' = [plan EXCEPT ![n] = runOnce]
  BY DEF NewSession, Restart, OpenSession, serverVars
<1>3. work[n].pc = "idle" /\ request[n] = NoRequest
  BY <1>t, <1>1 DEF ControlOK
<1>4. FreshWorker(n)
  BY <1>1, <1>2, <1>3, <1>t DEF FreshWorker, WorkersOK, WorkerAt
<1>5. \A t \in Session \ {n} : SameWorker(t)
  BY <1>1, <1>2, <1>t DEF SameWorker, ConnType, MonType
<1>6. \A t \in Session : conn[t] # "open"
  <2>1. session > 0 => mon[session] # "running"
    BY DEF NewSession, Restart, OpenSession
  <2> QED
    BY <2>1, <1>t DEF OpenIsCurrent, Session
<1>7. OpenIsCurrent'
  BY <1>1, <1>2, <1>6, <1>t DEF OpenIsCurrent, ConnType, MonType
<1> QED
  BY <1>2, <1>4, <1>5, <1>7, ResetFlow

LEMMA CrashFlow ==
    ASSUME Inv2, Crash \/ Exit
    PROVE  FlowInv'
<1>1. UNCHANGED <<loc, uploads, request>>
  BY DEF Crash, Exit, ProcessEnds, serverVars
<1>2. \A t \in Session : work'[t] = Worker("idle", FALSE) /\ conn'[t] = "closed"
  BY DEF Crash, Exit, ProcessEnds
<1>3. OpenIsCurrent' /\ \A t \in Session : FreshWorker(t)
  BY <1>2 DEF OpenIsCurrent, FreshWorker
<1> QED
  BY <1>1, <1>3, ResetFlow

LEMMA StutterFlow ==
    ASSUME Inv2, UNCHANGED vars
    PROVE  FlowInv'
<1>1. UNCHANGED <<loc, uploads, work, plan, session, mon, conn, request, reply>>
  BY DEF vars, serverVars, connVars, monVars
<1>2. LocStep
  BY <1>1 DEF LocStep
<1> QED
  BY <1>1, <1>2, QuietFlow

LEMMA InitFlow == Init => FlowInv
<1> SUFFICES ASSUME Init PROVE FlowInv
  OBVIOUS
<1>1. OpenIsCurrent /\ CommandsOK /\ PendingOK
  BY DEF Init, OpenIsCurrent, CommandsOK, CommandAt, PendingOK
<1>2. ScanHoldsOriginals
  BY NoneAssumption DEF Init, ScanHoldsOriginals, Mailbox
<1>3. RequestsOK /\ AppendsOK
  BY DEF Init, RequestsOK, RequestOK, AppendsOK, Appending, NoRequest
<1>4. DeliveredOK
  BY DEF Init, DeliveredOK
<1>5. WorkersOK
  <2>1. \A s \in Session : work[s].pc = "idle" /\ work[s] = Worker("idle", FALSE)
    BY DEF Init, Worker
  <2> QED
    BY <2>1 DEF WorkersOK, WorkerAt
<1> QED
  BY <1>1, <1>2, <1>3, <1>4, <1>5 DEF FlowInv

LEMMA NextInv2 ==
    ASSUME ScanAndBackupApart
    PROVE  Inv2 /\ [Next]_vars => Inv2'
<1> SUFFICES ASSUME Inv2, [Next]_vars PROVE Inv2'
  OBVIOUS
<1>1. Inv1'
  BY NextInv1 DEF Inv2
<1>2. FlowInv'
  BY EnvironmentFlow, ServerFlow, WorkerFlow, MonitorFlow, NewSessionFlow, CrashFlow,
     StutterFlow DEF Next
<1> QED
  BY <1>1, <1>2 DEF Inv2

(* With the scan and the backup mailbox apart, the protocol of               *)
(* replaceWithModifiedMails, runIMAPPhase and the retry loop keeps FlowInv:  *)
(* however sessions, abandoned workers, late commands, crashes and the user  *)
(* interleave, a mail has at most one uploader, and none once delivered.     *)
THEOREM FlowInvariant ==
    ASSUME ScanAndBackupApart
    PROVE  Spec => []FlowInv
<1>1. Init => Inv2
  BY InitInv1, InitFlow DEF Inv2
<1>2. Inv2 /\ [Next]_vars => Inv2'
  BY NextInv2
<1>3. Inv2 => FlowInv
  BY DEF Inv2
<1> QED
  BY <1>1, <1>2, <1>3, PTL DEF Spec

(* No mail is uploaded twice, in any number of passes, sessions and restarts *)
(* over the same mailboxes.                                                 *)
THEOREM AtMostOnce ==
    ASSUME ScanAndBackupApart
    PROVE  Spec => []AtMostOnceDelivery
<1>1. Inv1 /\ FlowInv => AtMostOnceDelivery
  BY DEF Inv1, TypeOK, ServerType, FlowInv, DeliveredOK, AtMostOnceDelivery
<1>2. Inv1 <=> TypeOK /\ ControlOK
  BY DEF Inv1
<1> QED
  BY <1>1, <1>2, FlowInvariant, TypeCorrect, PTL

(* Whenever a modified mail exists, its original is in the backup mailbox.  *)
THEOREM BackedUpFirst ==
    ASSUME ScanAndBackupApart
    PROVE  Spec => []DeliveredIsBackedUp
<1>1. FlowInv => DeliveredIsBackedUp
  BY DEF FlowInv, DeliveredOK, DeliveredIsBackedUp
<1> QED
  BY <1>1, FlowInvariant, PTL
-----------------------------------------------------------------------------
(* The steps that change what the abstract specification MailDelivery sees. *)
Moves == \E s \in Session, C \in SUBSET Copy :
           /\ request[s].op = "move" /\ C \subseteq request[s].copies
           /\ ApplyMove(request[s], C)
Appends == \E s \in Session : request[s].op = "append" /\ ApplyAppend(request[s])

LEMMA VisibleSteps ==
    ASSUME Inv2, [Next]_vars
    PROVE  \/ \E m \in Mail : Arrive(m)
           \/ \E c \in Copy : User(c)
           \/ Moves \/ Appends
           \/ UNCHANGED <<loc, uploads, header>>
<1> DEFINE Same == UNCHANGED <<loc, uploads, header>>
<1>1. UNCHANGED serverVars => Same
  BY DEF serverVars
<1>2. ASSUME NEW s \in Session, Server(s) PROVE Moves \/ Appends \/ Same
  <2>1. request[s].copies \in SUBSET Copy
    BY DEF Inv2, Inv1, TypeOK, ConnType, Request
  <2>2. CASE ServerExecutes(s)
    BY <2>1, <2>2 DEF ServerExecutes, Moves, Appends, ApplyStore
  <2>3. CASE ServerRefuses(s)
    BY <2>1, <2>3, <1>1 DEF ServerRefuses, Moves
  <2>4. CASE RequestLost(s)
    BY <2>4, <1>1 DEF RequestLost
  <2> QED
    BY <1>2, <2>2, <2>3, <2>4 DEF Server
<1>3. ASSUME NEW s \in Session, ConnectionLost(s) PROVE Same
  BY <1>1, <1>3 DEF ConnectionLost
<1>4. ASSUME NEW s \in Session, WorkerStep(s) PROVE Same
  BY <1>1, <1>4, WorkerStepOK DEF LocalStep, Inv2
<1>5. ASSUME NEW s \in Session, Monitor(s) PROVE Same
  BY <1>1, <1>5 DEF Monitor, NewMessages, LearnTimer, IdleFails, MonitorFails,
     StartPhase, Expire,
     CloseTransport, Abandon, PhaseOk, PhaseFails, MonStep
<1>6. NewSession \/ Restart \/ Crash \/ Exit \/ UNCHANGED vars => Same
  BY <1>1 DEF NewSession, Restart, OpenSession, Crash, Exit, ProcessEnds, vars
<1> QED
  BY <1>2, <1>3, <1>4, <1>5, <1>6 DEF Next

(* A MOVE leaves the originals in the backup mailbox there, takes from the  *)
(* scan mailbox one scannable mail to the backup, or malformed ones to      *)
(* other mailboxes, and nothing to the scan mailbox.                        *)
LEMMA MoveStep ==
    ASSUME ScanAndBackupApart, Inv2, Moves
    PROVE  /\ UNCHANGED <<uploads, header>>
           /\ \A c \in Copy : loc'[c] \in Mailbox \cup {Nowhere}
           /\ \/ \E c \in Copy :
                   /\ c[1] \notin Malformed
                   /\ loc[c] = ScanMailbox /\ loc'[c] = BackupMailbox
                   /\ \A d \in Copy \ {c} : loc'[d] = loc[d]
              \/ \A c \in Copy :
                   \/ loc'[c] = loc[c]
                   \/ /\ loc[c] \in Mailbox \ {BackupMailbox}
                      /\ loc'[c] \in Mailbox \ {ScanMailbox, BackupMailbox}
                      /\ loc[c] = ScanMailbox => c[1] \in Malformed
<1>1. PICK s \in Session, C \in SUBSET Copy :
        /\ request[s].op = "move" /\ C \subseteq request[s].copies
        /\ ApplyMove(request[s], C)
  BY DEF Moves
<1>2. RequestOK(request[s])
  BY DEF Inv2, FlowInv, RequestsOK
<1>3. /\ loc' = [c \in Copy |-> IF c \in C /\ loc[c] = request[s].src
                                 THEN request[s].dest ELSE loc[c]]
      /\ UNCHANGED <<uploads, header>>
  BY <1>1 DEF ApplyMove, InMailbox
<1>4. /\ request[s].dest \in Mailbox \ {ScanMailbox}
      /\ request[s].src \in Mailbox \ {BackupMailbox}
  BY <1>1, <1>2 DEF RequestOK
<1>5. \A c \in Copy : loc[c] \in Mailbox \cup {Nowhere}
  BY DEF Inv2, Inv1, TypeOK, ServerType
<1>6. CASE request[s].dest = BackupMailbox
  <2>1. PICK c \in Copy : request[s].copies = {c} /\ c[1] \notin Malformed
    BY <1>1, <1>2, <1>6 DEF RequestOK
  <2>2. request[s].src = ScanMailbox
    BY <1>1, <1>2, <1>6 DEF RequestOK
  <2>3. CASE c \in C /\ loc[c] = ScanMailbox
    BY <1>1, <1>3, <1>4, <1>5, <1>6, <2>1, <2>2, <2>3
  <2>4. CASE ~(c \in C /\ loc[c] = ScanMailbox)
    BY <1>1, <1>3, <1>4, <1>5, <2>1, <2>2, <2>4
  <2> QED
    BY <2>3, <2>4
<1>7. CASE request[s].dest # BackupMailbox
  <2>1. request[s].src = ScanMailbox => \A c \in C : c[1] \in Malformed
    BY <1>1, <1>2, <1>7 DEF RequestOK
  <2> QED
    BY <1>1, <1>3, <1>4, <1>5, <1>7, <2>1
<1> QED
  BY <1>6, <1>7

(* The APPEND of a mail creates its first variant and changes nothing else. *)
LEMMA AppendStep ==
    ASSUME ScanAndBackupApart, Inv2, Appends
    PROVE  \E m \in Mail, n \in Scores :
             /\ loc[Original(m)] = BackupMailbox /\ uploads[m] = 0
             /\ uploads' = [uploads EXCEPT ![m] = 1]
             /\ header' = [header EXCEPT ![<<m, 1>>] = n]
             /\ \A d \in Copy : d[2] = 0 => loc'[d] = loc[d]
<1>t. ServerType /\ ConnType
  BY DEF Inv2, Inv1, TypeOK
<1>1. PICK s \in Session : request[s].op = "append" /\ ApplyAppend(request[s])
  BY DEF Appends
<1>2. PICK c \in request[s].copies :
        /\ uploads' = [uploads EXCEPT ![c[1]] = @ + 1]
        /\ loc' = [loc EXCEPT ![<<c[1], uploads[c[1]] + 1>>] = request[s].dest]
        /\ header' = [header EXCEPT ![<<c[1], uploads[c[1]] + 1>>] = request[s].score]
  BY <1>1 DEF ApplyAppend
<1>3. c \in Copy /\ Appending(s, c)
  BY <1>1, <1>2, <1>t DEF Appending, ConnType, Request
<1>4. c[1] \in Mail /\ uploads[c[1]] = 0 /\ loc[c] = BackupMailbox
      /\ c = Original(c[1]) /\ c[2] = 0
  BY <1>3, CopyFacts DEF Inv2, FlowInv, AppendsOK
<1>5. request[s].score \in Scores
  BY <1>1 DEF Inv2, FlowInv, RequestsOK, RequestOK
<1>6. uploads' = [uploads EXCEPT ![c[1]] = 1]
  BY <1>2, <1>4, <1>t DEF ServerType
<1>7. header' = [header EXCEPT ![<<c[1], 1>>] = request[s].score]
  BY <1>2, <1>4
<1>8. \A d \in Copy : d[2] = 0 => loc'[d] = loc[d]
  BY <1>2, <1>4, <1>t, CopyFacts DEF ServerType
<1> QED
  BY <1>4, <1>5, <1>6, <1>7, <1>8
LEMMA BackupStep ==
    ASSUME ScanAndBackupApart, Inv2, [Next]_vars, NEW m \in Mail,
           loc[Original(m)] = BackupMailbox
    PROVE  loc'[Original(m)] = BackupMailbox
<1>t. loc \in [Copy -> Mailbox \cup {Nowhere}]
  BY DEF Inv2, Inv1, TypeOK, ServerType
<1>o. Original(m) \in Copy /\ Original(m)[2] = 0
  BY CopyFacts
<1>1. ASSUME NEW k \in Mail, Arrive(k) PROVE loc'[Original(m)] = BackupMailbox
  <2>1. loc[Original(k)] = Nowhere /\ loc' = [loc EXCEPT ![Original(k)] = ScanMailbox]
    BY <1>1 DEF Arrive
  <2> QED
    BY <2>1, <1>t, <1>o, Roles
<1>2. ASSUME NEW c \in Copy, User(c) PROVE loc'[Original(m)] = BackupMailbox
  <2>1. PICK from \in {InboxMailbox, SpamMailbox},
                to \in {HamMailbox, UndetectedMailbox} :
          loc[c] = from /\ loc' = [loc EXCEPT ![c] = to]
    BY <1>2 DEF User, UserReportsSpam, UserReportsHam, UserReports
  <2> QED
    BY <2>1, <1>t, <1>o, Roles
<1>3. CASE Moves
  BY <1>3, <1>o, MoveStep, Roles
<1>4. CASE Appends
  BY <1>4, <1>o, AppendStep
<1> QED
  BY <1>1, <1>2, <1>3, <1>4, VisibleSteps

(* The client never takes an original out of the backup mailbox again: what  *)
(* a late MOVE of an abandoned session, or a learning phase, does there is   *)
(* nothing.                                                                 *)
THEOREM BackupStays ==
    ASSUME ScanAndBackupApart
    PROVE  Spec => BackupIsFinal
<1>1. Inv1 /\ FlowInv /\ [Next]_vars =>
        [\A m \in Mail : loc[Original(m)] = BackupMailbox =>
             loc'[Original(m)] = BackupMailbox]_vars
  BY BackupStep DEF Inv2
<1>2. Inv1 <=> TypeOK /\ ControlOK
  BY DEF Inv1
<1> QED
  BY <1>1, <1>2, FlowInvariant, TypeCorrect, PTL DEF Spec, BackupIsFinal

(* The abstract stage of a mail, as the step that changes it sees it.       *)
LEMMA StageOf ==
    ASSUME ScanAndBackupApart, NEW m \in Mail
    PROVE  /\ loc[Original(m)] = Nowhere => stageOf(m) = "absent"
           /\ loc[Original(m)] = ScanMailbox => stageOf(m) = "unscanned"
           /\ loc[Original(m)] = BackupMailbox => stageOf(m) = "backedUp"
           /\ loc[Original(m)] \notin {Nowhere, ScanMailbox, BackupMailbox} =>
                stageOf(m) = "bypassed"
           /\ loc'[Original(m)] = loc[Original(m)] => stageOf(m)' = stageOf(m)
           /\ loc'[Original(m)] = ScanMailbox => stageOf(m)' = "unscanned"
           /\ loc'[Original(m)] = BackupMailbox => stageOf(m)' = "backedUp"
           /\ loc'[Original(m)] \notin {Nowhere, ScanMailbox, BackupMailbox} =>
                stageOf(m)' = "bypassed"
BY Roles DEF stageOf

Stages == [m \in Mail |-> stageOf(m)]
Verdicts == [m \in Mail |-> header[<<m, 1>>]]

LEMMA RefineArrive ==
    ASSUME ScanAndBackupApart, Inv2, NEW m \in Mail, Arrive(m)
    PROVE  Delivery!Arrive(m)
<1>t. loc \in [Copy -> Mailbox \cup {Nowhere}]
  BY DEF Inv2, Inv1, TypeOK, ServerType
<1>o. \A k \in Mail : Original(k) \in Copy /\ Original(k)[1] = k
  BY CopyFacts
<1>1. /\ loc[Original(m)] = Nowhere /\ loc' = [loc EXCEPT ![Original(m)] = ScanMailbox]
      /\ UNCHANGED <<uploads, header>>
  BY DEF Arrive
<1>2. loc'[Original(m)] = ScanMailbox
      /\ \A k \in Mail \ {m} : loc'[Original(k)] = loc[Original(k)]
  BY <1>1, <1>t, <1>o
<1>3. stageOf(m) = "absent" /\ stageOf(m)' = "unscanned"
      /\ \A k \in Mail \ {m} : stageOf(k)' = stageOf(k)
  BY <1>1, <1>2, StageOf
<1>4. Stages' = [Stages EXCEPT ![m] = "unscanned"]
  BY <1>3 DEF Stages
<1>5. Verdicts' = Verdicts
  BY <1>1 DEF Verdicts
<1> QED
  BY <1>1, <1>3, <1>4, <1>5 DEF Delivery!Arrive, Stages, Verdicts
LEMMA RefineMove ==
    ASSUME ScanAndBackupApart, Inv2, Moves
    PROVE  \/ \E m \in Mail : Delivery!BackUp(m)
           \/ \E M \in SUBSET Malformed : Delivery!Bypass(M)
           \/ UNCHANGED <<Stages, uploads, Verdicts>>
<1>o. \A k \in Mail : Original(k) \in Copy /\ Original(k)[1] = k
                                          /\ Original(k)[2] = 0
  BY CopyFacts
<1>u. UNCHANGED <<uploads, header>>
  BY MoveStep
<1>v. Verdicts' = Verdicts
  BY <1>u DEF Verdicts
<1>1. ASSUME NEW c \in Copy, c[1] \notin Malformed, loc[c] = ScanMailbox,
             loc'[c] = BackupMailbox, \A d \in Copy \ {c} : loc'[d] = loc[d]
      PROVE  \E m \in Mail : Delivery!BackUp(m)
  <2>1. c[2] = 0 /\ c[1] \in Mail /\ c = Original(c[1])
    BY <1>1, CopyFacts DEF Inv2, FlowInv, ScanHoldsOriginals
  <2>2. \A k \in Mail \ {c[1]} : loc'[Original(k)] = loc[Original(k)]
    BY <1>1, <1>o
  <2>3. /\ stageOf(c[1]) = "unscanned" /\ stageOf(c[1])' = "backedUp"
        /\ \A k \in Mail \ {c[1]} : stageOf(k)' = stageOf(k)
    BY <1>1, <2>1, <2>2, StageOf
  <2>4. Stages' = [Stages EXCEPT ![c[1]] = "backedUp"]
    BY <2>3 DEF Stages
  <2>5. Delivery!BackUp(c[1])
    BY <1>1, <1>u, <1>v, <2>1, <2>3, <2>4 DEF Delivery!BackUp, Stages, Verdicts
  <2> QED
    BY <2>1, <2>5
<1>2. ASSUME \A c \in Copy :
               \/ loc'[c] = loc[c]
               \/ /\ loc[c] \in Mailbox \ {BackupMailbox}
                  /\ loc'[c] \in Mailbox \ {ScanMailbox, BackupMailbox}
                  /\ loc[c] = ScanMailbox => c[1] \in Malformed
      PROVE  \E M \in SUBSET Malformed : Delivery!Bypass(M)
  <2> DEFINE M == {m \in Malformed : /\ loc[Original(m)] = ScanMailbox
                                     /\ loc'[Original(m)] # ScanMailbox}
  <2>1. Malformed \subseteq Mail
    BY MailAssumption
  <2>2. \A m \in M : stageOf(m) = "unscanned" /\ stageOf(m)' = "bypassed"
    <3> SUFFICES ASSUME NEW m \in M
                 PROVE  stageOf(m) = "unscanned" /\ stageOf(m)' = "bypassed"
      OBVIOUS
    <3>1. m \in Mail /\ Original(m) \in Copy
      BY <2>1, <1>o
    <3>2. loc'[Original(m)] \in Mailbox \ {ScanMailbox, BackupMailbox}
      BY <1>2, <3>1
    <3>3. loc'[Original(m)] \notin {Nowhere, ScanMailbox, BackupMailbox}
      BY <3>2, NoneAssumption
    <3> QED
      BY <3>1, <3>3, StageOf
  <2>3. \A m \in Mail \ M : stageOf(m)' = stageOf(m)
    <3> SUFFICES ASSUME NEW m \in Mail \ M PROVE stageOf(m)' = stageOf(m)
      OBVIOUS
    <3>1. CASE loc'[Original(m)] = loc[Original(m)]
      BY <3>1, StageOf
    <3>2. CASE loc'[Original(m)] # loc[Original(m)]
      <4>1. /\ loc[Original(m)] \in Mailbox \ {BackupMailbox}
            /\ loc'[Original(m)] \in Mailbox \ {ScanMailbox, BackupMailbox}
            /\ loc[Original(m)] = ScanMailbox => m \in Malformed
        BY <1>2, <1>o, <3>2
      <4>2. loc[Original(m)] # ScanMailbox
        BY <4>1
      <4>3. /\ loc[Original(m)] \notin {Nowhere, ScanMailbox, BackupMailbox}
            /\ loc'[Original(m)] \notin {Nowhere, ScanMailbox, BackupMailbox}
        BY <4>1, <4>2, NoneAssumption
      <4> QED
        BY <4>3, StageOf
    <3> QED
      BY <3>1, <3>2
  <2>4. Stages' = [m \in Mail |-> IF m \in M THEN "bypassed" ELSE Stages[m]]
    BY <2>2, <2>3 DEF Stages
  <2>5. \A m \in M : Stages[m] = "unscanned"
    BY <2>1, <2>2 DEF Stages
  <2>6. Delivery!Bypass(M)
    BY <1>u, <1>v, <2>4, <2>5 DEF Delivery!Bypass, Stages, Verdicts
  <2> QED
    BY <2>6
<1> QED
  BY <1>1, <1>2, MoveStep

LEMMA RefineAppend ==
    ASSUME ScanAndBackupApart, Inv2, Appends
    PROVE  \E m \in Mail, n \in Scores : Delivery!Deliver(m, n)
<1>1. PICK m \in Mail, n \in Scores :
        /\ loc[Original(m)] = BackupMailbox /\ uploads[m] = 0
        /\ uploads' = [uploads EXCEPT ![m] = 1]
        /\ header' = [header EXCEPT ![<<m, 1>>] = n]
        /\ \A d \in Copy : d[2] = 0 => loc'[d] = loc[d]
  BY AppendStep
<1>2. header \in [Copy -> Scores \cup {NoScore}]
  BY DEF Inv2, Inv1, TypeOK, ServerType
<1>3. \A k \in Mail : <<k, 1>> \in Copy
  BY BoundAssumption DEF Copy
<1>4. Verdicts' = [Verdicts EXCEPT ![m] = n]
  BY <1>1, <1>2, <1>3 DEF Verdicts
<1>5. stageOf(m) = "backedUp" /\ \A k \in Mail : stageOf(k)' = stageOf(k)
  BY <1>1, StageOf, CopyFacts
<1>6. Stages' = Stages
  BY <1>5 DEF Stages
<1>7. Delivery!Deliver(m, n)
  BY <1>1, <1>4, <1>5, <1>6 DEF Delivery!Deliver, Stages, Verdicts
<1> QED
  BY <1>7

LEMMA RefineUser ==
    ASSUME ScanAndBackupApart, Inv2, NEW c \in Copy, User(c)
    PROVE  UNCHANGED <<Stages, uploads, Verdicts>>
<1>t. loc \in [Copy -> Mailbox \cup {Nowhere}]
  BY DEF Inv2, Inv1, TypeOK, ServerType
<1>1. PICK from \in {InboxMailbox, SpamMailbox},
           to \in {UndetectedMailbox, HamMailbox} :
        /\ loc[c] = from /\ loc' = [loc EXCEPT ![c] = to]
        /\ UNCHANGED <<uploads, header>>
  BY DEF User, UserReportsSpam, UserReportsHam, UserReports
<1>2. \A k \in Mail : stageOf(k)' = stageOf(k)
  <2> SUFFICES ASSUME NEW k \in Mail PROVE stageOf(k)' = stageOf(k)
    OBVIOUS
  <2>1. CASE c = Original(k)
    <3>1. loc[Original(k)] = from /\ loc'[Original(k)] = to
      BY <1>1, <1>t, <2>1
    <3> QED
      BY <3>1, Roles, StageOf
  <2>2. CASE c # Original(k)
    BY <1>1, <1>t, <2>2, StageOf, CopyFacts
  <2> QED
    BY <2>1, <2>2
<1> QED
  BY <1>1, <1>2 DEF Stages, Verdicts

(* Behind the sessions, commands and retries, the client implements          *)
(* MailDelivery: back up, then deliver once, with the verdict of Rspamd;    *)
(* only mails that cannot be decoded bypass the scan.                       *)
THEOREM ImplementsMailDelivery ==
    ASSUME ScanAndBackupApart
    PROVE  Spec => DeliversMail
<1>1. Init => Delivery!Init
  <2> SUFFICES ASSUME Init PROVE Delivery!Init
    OBVIOUS
  <2>1. \A m \in Mail : stageOf(m) = "absent" /\ header[<<m, 1>>] = NoScore
    <3>1. \A m \in Mail : Original(m) \in Copy /\ <<m, 1>> \in Copy
      BY BoundAssumption DEF Copy, Original
    <3> QED
      BY <3>1 DEF Init, stageOf
  <2> QED
    BY <2>1 DEF Init, Delivery!Init
<1>2. Inv1 /\ FlowInv /\ [Next]_vars => [Delivery!Next]_(Delivery!vars)
  <2> SUFFICES ASSUME Inv2, [Next]_vars PROVE [Delivery!Next]_(Delivery!vars)
    BY DEF Inv2
  <2>1. UNCHANGED <<Stages, uploads, Verdicts>> => UNCHANGED Delivery!vars
    BY DEF Delivery!vars, Stages, Verdicts
  <2>2. UNCHANGED <<loc, uploads, header>> => UNCHANGED <<Stages, uploads, Verdicts>>
    BY DEF Stages, Verdicts, stageOf
  <2> QED
    BY <2>1, <2>2, VisibleSteps, RefineArrive, RefineMove, RefineAppend, RefineUser
       DEF Delivery!Next
<1>3. Inv1 <=> TypeOK /\ ControlOK
  BY DEF Inv1
<1> QED
  BY <1>1, <1>2, <1>3, FlowInvariant, TypeCorrect, PTL
     DEF Spec, DeliversMail, Delivery!Spec
-----------------------------------------------------------------------------
(* Without a transport a worker sends nothing.                              *)
LEMMA ClosedIsSilent ==
    ASSUME Inv2, NEW s \in Session, WorkerStep(s), conn[s] # "open"
    PROVE  request'[s] = request[s]
<1>t. request \in [Session -> Request]
  BY DEF Inv2, Inv1, TypeOK, ConnType
<1>1. \A op, C, dest, n : Send(s, op, C, dest, n) => request'[s] = request[s]
  BY <1>t DEF Send
<1>2. NoCommand => request'[s] = request[s]
  BY DEF NoCommand
<1>3. ASSUME NEW c \in Copy, SkipMalformed(s, c) \/ TakeMessage(s, c) \/ BackUp(s, c)
      PROVE  request'[s] = request[s]
  BY <1>1, <1>2, <1>3 DEF SkipMalformed, TakeMessage, BackUp
<1>4. CASE \/ Messages(s) \/ MessagesFails(s) \/ ContextExpired(s)
           \/ ScanOk(s) \/ ScanFails(s) \/ ScanLoopEnds(s)
           \/ UploadDone(s) \/ ReplaceFails(s) \/ MalformedDone(s)
           \/ LearnOk(s) \/ LearnFails(s) \/ LearnRejected(s) \/ MoveLearnedDone(s)
  BY <1>2, <1>4 DEF Messages, MessagesFails, ContextExpired, ScanOk, ScanFails,
     ScanLoopEnds, UploadDone, ReplaceFails, NextScanned, MalformedDone,
     LearnOk, LearnFails, LearnRejected, MoveLearnedDone
<1>5. CASE Upload(s) \/ ReplaceDone(s) \/ LearnLoopEnds(s) \/ MarkSeenDone(s)
  BY <1>1, <1>2, <1>5 DEF Upload, ReplaceDone, LearnLoopEnds, MarkSeenDone, MoveLearned
<1> QED
  BY <1>3, <1>4, <1>5 DEF WorkerStep

LEMMA SilentStep ==
    ASSUME Inv2, [Next]_vars, NEW t \in Session, mon[t] # "running"
    PROVE  request'[t] \in {request[t], NoRequest}
<1>1. conn[t] # "open"
  BY DEF Inv2, FlowInv, OpenIsCurrent
<1>t. request \in [Session -> Request]
  BY DEF Inv2, Inv1, TypeOK, ConnType
<1>2. ASSUME NEW s \in Session, WorkerStep(s) PROVE request'[t] = request[t]
  <2>1. CASE s = t
    BY <1>1, <1>2, <2>1, ClosedIsSilent
  <2>2. CASE s # t
    BY <1>2, <2>2, WorkerStepOK DEF Inv2, CommandOK
  <2> QED
    BY <2>1, <2>2
<1>3. ASSUME NEW s \in Session, Server(s)
      PROVE  request'[t] \in {request[t], NoRequest}
  BY <1>3, <1>t DEF Server, ServerExecutes, ServerRefuses, RequestLost, Answer
<1>4. ASSUME NEW s \in Session, ConnectionLost(s) \/ Monitor(s)
      PROVE  request'[t] = request[t]
  BY <1>4 DEF ConnectionLost, Monitor, NewMessages, LearnTimer, IdleFails,
     MonitorFails, StartPhase,
     Expire, CloseTransport, Abandon, PhaseOk, PhaseFails, MonStep
<1>5. ASSUME \/ \E m \in Mail : Arrive(m)
             \/ \E c \in Copy : User(c)
      PROVE  request'[t] = request[t]
  BY <1>5 DEF Arrive, User, UserReportsSpam, UserReportsHam, UserReports, connVars
<1>6. NewSession \/ Restart \/ Crash \/ Exit \/ UNCHANGED vars => request'[t] = request[t]
  BY DEF NewSession, Restart, OpenSession, Crash, Exit, ProcessEnds, vars, connVars
<1> QED
  BY <1>2, <1>3, <1>4, <1>5, <1>6 DEF Next

(* The worker that runIMAPPhase abandons, and every other goroutine of a     *)
(* session Monitor has given up, sends no further command: its transport    *)
(* was closed before.                                                       *)
THEOREM AbandonedWorkersAreSilent ==
    ASSUME ScanAndBackupApart
    PROVE  Spec => AbandonedIsSilent
<1>1. Inv1 /\ FlowInv /\ [Next]_vars =>
        [\A s \in Session : mon[s] # "running" =>
             request'[s] \in {request[s], NoRequest}]_vars
  BY SilentStep DEF Inv2
<1>2. Inv1 <=> TypeOK /\ ControlOK
  BY DEF Inv1
<1> QED
  BY <1>1, <1>2, FlowInvariant, TypeCorrect, PTL DEF Spec, AbandonedIsSilent
=============================================================================

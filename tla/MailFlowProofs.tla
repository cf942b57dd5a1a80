---------------------------- MODULE MailFlowProofs ----------------------------
(***************************************************************************)
(* Proofs about MailFlow for every number of mails, sessions, faults and    *)
(* user actions.                                                            *)
(***************************************************************************)
EXTENDS MailFlow, TLAPS

Inv1 == TypeOK /\ ControlOK

(* Where the worker of a session is, its phase names a mailbox of the       *)
(* configuration, and a score a place to upload to.                         *)
LEMMA DestTypes ==
    /\ \A p \in Phase : SourceOf(p) \in Mailbox /\ LearnDest(p) \in Mailbox
    /\ \A n : UploadDest(n) \in Mailbox
BY DEF Phase, SourceOf, LearnDest, UploadDest, Mailbox

LEMMA PhaseTypes ==
    ASSUME Inv1, NEW s \in Session, work[s].pc # "idle"
    PROVE  /\ PhaseOf(s) \in Phase
           /\ plan[s] \in Seq(Phase)
           /\ plan[s] # <<>>
           /\ SourceOf(PhaseOf(s)) \in Mailbox
<1>1. plan[s] \in Seq(Phase) /\ plan[s] # <<>>
  BY DEF Inv1, TypeOK, MonType, ControlOK
<1>2. Head(plan[s]) \in Phase
  BY <1>1
<1> QED
  BY <1>1, <1>2, DestTypes DEF PhaseOf

LEMMA WorkerTypes ==
    ASSUME NEW pc \in WorkerPC, NEW err \in BOOLEAN
    PROVE  Worker(pc, err) \in WorkerState
BY DEF Worker, WorkerState

LEMMA InitInv1 == Init => Inv1
<1> SUFFICES ASSUME Init PROVE Inv1
  OBVIOUS
<1>1. Worker("idle", FALSE) \in WorkerState
  BY WorkerTypes DEF WorkerPC
<1>2. NoRequest \in Request
  BY DEF NoRequest, Request
<1>3. ServerType
  BY BoundAssumption DEF Init, ServerType
<1>4. ConnType
  BY <1>2 DEF Init, ConnType
<1>5. MonType
  <2>1. plan \in [Session -> Seq(Phase)]
    BY DEF Init
  <2> QED
    BY <2>1, BoundAssumption DEF Init, MonType
<1>6. WorkType /\ TmpType /\ LearnedType
  BY <1>1 DEF Init, WorkType, TmpType, LearnedType
<1>7. UserType /\ FaultType
  BY BoundAssumption DEF Init, UserType, FaultType
<1>8. ControlOK
  BY DEF Init, ControlOK, Worker
<1> QED
  BY <1>3, <1>4, <1>5, <1>6, <1>7, <1>8 DEF Inv1, TypeOK

(* A step of the worker of session s, seen from outside: it changes nothing  *)
(* of the server, the user or Monitor, and nothing of another session, and   *)
(* it leaves the worker at a point of its phase.                            *)
WorkerOK(s) ==
    /\ WorkType'
    /\ \A t \in Session \ {s} : work'[t] = work[t]
    /\ work'[s].pc # "idle"
    /\ work'[s].pc \in {"scan", "learn", "backup", "upload"} =>
         work'[s].cur \in Copy
    /\ work'[s].pc \in {"scan", "replace", "backup", "upload", "malformed"} =>
         PhaseOf(s) = "scan"
    /\ work'[s].pc \in {"learn", "mark", "move"} => PhaseOf(s) \in {"ham", "spam"}

CommandOK(s) ==
    /\ ConnType'
    /\ \A t \in Session \ {s} : request'[t] = request[t] /\ reply'[t] = reply[t]

LEMMA SendCommand ==
    ASSUME Inv1, NEW s \in Session, work[s].pc # "idle", UNCHANGED conn,
           NEW op \in {"move", "store", "append"}, NEW C \in SUBSET Copy,
           NEW dest \in Mailbox \cup {Nowhere}, NEW n \in Scores \cup {NoScore},
           Send(s, op, C, dest, n)
    PROVE  CommandOK(s)
<1>1. SourceOf(PhaseOf(s)) \in Mailbox
  BY PhaseTypes
<1>2. ConnType
  BY DEF Inv1, TypeOK
<1>3. [op |-> op, copies |-> C, src |-> SourceOf(PhaseOf(s)), dest |-> dest,
       score |-> n] \in Request
  BY <1>1 DEF Request
<1> QED
  BY <1>2, <1>3 DEF Send, ConnType, CommandOK

LEMMA NoSend ==
    ASSUME Inv1, NEW s \in Session, UNCHANGED conn, NoCommand
    PROVE  CommandOK(s)
BY DEF Inv1, TypeOK, ConnType, NoCommand, CommandOK

LEMMA ReturnOK ==
    ASSUME Inv1, NEW s \in Session, NEW err \in BOOLEAN, Return(s, err)
    PROVE  WorkerOK(s)
<1>1. Worker("returned", err) \in WorkerState
  BY WorkerTypes DEF WorkerPC
<1>2. WorkType
  BY DEF Inv1, TypeOK
<1>3. work'[s] = Worker("returned", err)
  BY <1>2 DEF Return, WorkType
<1>4. work'[s].pc = "returned"
  BY <1>3 DEF Worker
<1>5. WorkType' /\ \A t \in Session \ {s} : work'[t] = work[t]
  BY <1>1, <1>2 DEF Return, WorkType
<1> QED
  BY <1>4, <1>5 DEF WorkerOK

LEMMA FaultOK ==
    ASSUME Inv1, Fault \/ UNCHANGED faults
    PROVE  FaultType'
BY BoundAssumption DEF Inv1, TypeOK, FaultType, Fault

LEMMA RemoveTempOK ==
    ASSUME Inv1, NEW s, NEW C, removeTempMails(s, C) \/ UNCHANGED tmp
    PROVE  TmpType'
BY DEF Inv1, TypeOK, TmpType, removeTempMails

(* Where a worker that takes a step is.                                     *)
LEMMA WorkerNotIdle ==
    ASSUME Inv1, NEW s \in Session, WorkerStep(s)
    PROVE  work[s].pc # "idle"
BY DEF WorkerStep, Messages, MessagesFails, ContextExpired, SkipMalformed,
       TakeMessage, BackUp, ScanOk, ScanFails, ScanLoopEnds,
       Upload, UploadDone, ReplaceFails, ReplaceDone, MalformedDone, LearnOk,
       LearnFails, LearnRejected, LearnLoopEnds, MarkSeenDone, MoveLearnedDone

LEMMA WorkerStepOK ==
    ASSUME Inv1, NEW s \in Session, WorkerStep(s)
    PROVE  /\ WorkerOK(s) /\ CommandOK(s) /\ LocalStep
           /\ LearnedType' /\ TmpType' /\ FaultType'
<1> DEFINE w == work[s]
           Goal == /\ WorkerOK(s) /\ CommandOK(s) /\ LocalStep
                   /\ LearnedType' /\ TmpType' /\ FaultType'
<1>w. work \in [Session -> WorkerState] /\ w \in WorkerState
  BY DEF Inv1, TypeOK, WorkType
<1>n. w.pc # "idle"
  BY WorkerNotIdle
<1>p. /\ PhaseOf(s) \in Phase
      /\ PhaseOf(s) # "scan" => PhaseOf(s) \in {"ham", "spam"}
      /\ LearnDest(PhaseOf(s)) \in Mailbox
  BY <1>n, PhaseTypes, DestTypes DEF Phase
<1>c. /\ w.pc \in {"scan", "learn", "backup", "upload"} => w.cur \in Copy
      /\ w.pc \in {"scan", "replace", "backup", "upload", "malformed"} =>
           PhaseOf(s) = "scan"
      /\ w.pc \in {"learn", "mark", "move"} => PhaseOf(s) \in {"ham", "spam"}
  BY DEF Inv1, ControlOK
<1>t. LearnedType /\ TmpType /\ FaultType
  BY DEF Inv1, TypeOK
<1>m. UNCHANGED learned => LearnedType'
  BY <1>t DEF LearnedType
<1>k. InboxMailbox \in Mailbox /\ BackupMailbox \in Mailbox
  BY DEF Mailbox
<1>1. CASE Messages(s)
  <2>1. WorkerOK(s)
    BY <1>1, <1>w, <1>c DEF Messages, WorkerOK, WorkType, WorkerState, WorkerPC,
       InMailbox
  <2> QED
    BY <1>1, <1>m, <2>1, NoSend, RemoveTempOK, FaultOK DEF Messages, LocalStep
<1>2. CASE MessagesFails(s)
  BY <1>2, <1>m, ReturnOK, NoSend, RemoveTempOK, FaultOK
     DEF MessagesFails, LocalStep
<1>3. CASE ContextExpired(s)
  BY <1>3, <1>m, ReturnOK, NoSend, RemoveTempOK, FaultOK
     DEF ContextExpired, LocalStep
<1>4. ASSUME NEW c \in Copy, SkipMalformed(s, c) PROVE Goal
  <2>1. WorkerOK(s)
    BY <1>4, <1>w, <1>c DEF SkipMalformed, WorkerOK, WorkType, WorkerState
  <2> QED
    BY <1>4, <1>m, <2>1, NoSend, RemoveTempOK, FaultOK
       DEF SkipMalformed, LocalStep
<1>5. ASSUME NEW c \in Copy, TakeMessage(s, c) PROVE Goal
  <2>1. WorkerOK(s)
    BY <1>5, <1>w, <1>p DEF TakeMessage, WorkerOK, WorkType, WorkerState, WorkerPC
  <2>2. TmpType'
    BY <1>5, <1>t DEF TakeMessage, TmpType, TempFile
  <2> QED
    BY <1>5, <1>m, <2>1, <2>2, NoSend, FaultOK DEF TakeMessage, LocalStep
<1>6. ASSUME NEW c \in Copy, BackUp(s, c) PROVE Goal
  <2>1. WorkerOK(s)
    BY <1>6, <1>w, <1>c DEF BackUp, WorkerOK, WorkType, WorkerState, WorkerPC
  <2>2. CommandOK(s)
    BY <1>6, <1>n, <1>k, SendCommand DEF BackUp, LocalStep
  <2> QED
    BY <1>6, <1>m, <2>1, <2>2, RemoveTempOK, FaultOK DEF BackUp, LocalStep
<1>7. CASE ScanOk(s)
  <2>1. PICK n \in Scores :
          work' = [work EXCEPT ![s].scanned[work[s].cur] = n,
                               ![s].cur = NoMail, ![s].pc = "iterate"]
    BY <1>7 DEF ScanOk
  <2>2. WorkerOK(s)
    BY <2>1, <1>7, <1>w, <1>c DEF ScanOk, WorkerOK, WorkType, WorkerState, WorkerPC
  <2> QED
    BY <1>7, <1>m, <2>2, NoSend, RemoveTempOK, FaultOK DEF ScanOk, LocalStep
<1>8. CASE ScanFails(s)
  <2>1. WorkerOK(s)
    BY <1>8, <1>w, <1>c
       DEF ScanFails, AbortLoop, WorkerOK, WorkType, WorkerState, WorkerPC
  <2> QED
    BY <1>8, <1>m, <2>1, NoSend, RemoveTempOK, FaultOK DEF ScanFails, LocalStep
<1>10. CASE ScanLoopEnds(s)
  <2>1. WorkerOK(s)
    BY <1>10, <1>w, <1>c DEF ScanLoopEnds, WorkerOK, WorkType, WorkerState, WorkerPC
  <2> QED
    BY <1>10, <1>m, <2>1, NoSend, RemoveTempOK, FaultOK DEF ScanLoopEnds, LocalStep
<1>11. CASE Upload(s)
  <2>1. WorkerOK(s)
    BY <1>11, <1>w, <1>c DEF Upload, WorkerOK, WorkType, WorkerState, WorkerPC
  <2>2. w.cur \in Copy /\ w.scanned[w.cur] \in Scores \cup {NoScore}
    BY <1>11, <1>w, <1>c DEF Upload, WorkerState
  <2>3. CommandOK(s)
    BY <1>11, <1>n, <2>2, DestTypes, SendCommand DEF Upload, LocalStep
  <2> QED
    BY <1>11, <1>m, <2>1, <2>3, RemoveTempOK, FaultOK DEF Upload, LocalStep
<1>12. ASSUME NEW err \in BOOLEAN, w.pc \in {"backup", "upload"},
              NextScanned(s, err)
       PROVE  Goal
  <2>1. WorkerOK(s)
    BY <1>12, <1>w, <1>c DEF NextScanned, WorkerOK, WorkType, WorkerState, WorkerPC
  <2> QED
    BY <1>12, <1>m, <2>1, NoSend, RemoveTempOK, FaultOK DEF NextScanned, LocalStep
<1>13. CASE UploadDone(s)
  BY <1>12, <1>13 DEF UploadDone
<1>14. CASE ReplaceFails(s)
  BY <1>12, <1>14 DEF ReplaceFails
<1>15. CASE ReplaceDone(s)
  <2>1. w.failed \in BOOLEAN /\ w.uids \in SUBSET Copy
    BY <1>w DEF WorkerState
  <2>2. CASE Return(s, w.failed) /\ NoCommand
    BY <1>15, <1>m, <2>1, <2>2, ReturnOK, NoSend, RemoveTempOK, FaultOK
       DEF ReplaceDone, LocalStep
  <2>3. CASE /\ Send(s, "move", w.uids, InboxMailbox, NoScore)
             /\ work' = [work EXCEPT ![s].pc = "malformed"]
    <3>1. WorkerOK(s)
      BY <1>15, <2>3, <1>w, <1>c
         DEF ReplaceDone, WorkerOK, WorkType, WorkerState, WorkerPC
    <3>2. CommandOK(s)
      BY <1>15, <2>3, <1>n, <1>k, <2>1, SendCommand DEF ReplaceDone, LocalStep
    <3> QED
      BY <1>15, <1>m, <3>1, <3>2, RemoveTempOK, FaultOK DEF ReplaceDone, LocalStep
  <2> QED
    BY <1>15, <2>2, <2>3 DEF ReplaceDone
<1>16. CASE MalformedDone(s)
  <2>1. w.failed \in BOOLEAN
    BY <1>w DEF WorkerState
  <2> QED
    BY <1>16, <1>m, <2>1, ReturnOK, NoSend, RemoveTempOK, FaultOK
       DEF MalformedDone, LocalStep
<1>17. CASE LearnOk(s)
  <2>1. WorkerOK(s)
    BY <1>17, <1>w, <1>c DEF LearnOk, WorkerOK, WorkType, WorkerState, WorkerPC
  <2>2. LearnedType'
    BY <1>17, <1>c, <1>t DEF LearnOk, LearnedType
  <2> QED
    BY <1>17, <2>1, <2>2, NoSend, RemoveTempOK, FaultOK DEF LearnOk, LocalStep
<1>18. CASE LearnFails(s)
  <2>1. LearnedType'
    BY <1>18, <1>c, <1>t DEF LearnFails, LearnedType
  <2> QED
    BY <1>18, <2>1, ReturnOK, NoSend, RemoveTempOK, FaultOK
       DEF LearnFails, LocalStep
<1>19. CASE LearnRejected(s)
  BY <1>19, <1>m, ReturnOK, NoSend, RemoveTempOK, FaultOK
     DEF LearnRejected, LocalStep
<1>20. ASSUME MoveLearned(s), UNCHANGED conn, PhaseOf(s) # "scan"
       PROVE  WorkerOK(s) /\ CommandOK(s)
  <2>1. WorkerOK(s)
    BY <1>20, <1>w, <1>p DEF MoveLearned, WorkerOK, WorkType, WorkerState, WorkerPC
  <2>2. w.uids \in SUBSET Copy
    BY <1>w DEF WorkerState
  <2>3. CommandOK(s)
    BY <1>20, <1>n, <1>p, <2>2, SendCommand DEF MoveLearned
  <2> QED
    BY <2>1, <2>3
<1>21. CASE LearnLoopEnds(s)
  <2>1. CASE Return(s, FALSE) /\ NoCommand
    BY <1>21, <1>m, <2>1, ReturnOK, NoSend, RemoveTempOK, FaultOK
       DEF LearnLoopEnds, LocalStep
  <2>2. CASE /\ Send(s, "store", w.uids, Nowhere, NoScore)
             /\ work' = [work EXCEPT ![s].pc = "mark", ![s].todo = {}]
    <3>1. WorkerOK(s)
      BY <1>21, <2>2, <1>w, <1>p
         DEF LearnLoopEnds, WorkerOK, WorkType, WorkerState, WorkerPC
    <3>2. w.uids \in SUBSET Copy
      BY <1>w DEF WorkerState
    <3>3. CommandOK(s)
      BY <1>21, <2>2, <1>n, <3>2, SendCommand DEF LearnLoopEnds, LocalStep
    <3> QED
      BY <1>21, <1>m, <3>1, <3>3, RemoveTempOK, FaultOK DEF LearnLoopEnds, LocalStep
  <2>3. CASE MoveLearned(s)
    BY <1>21, <1>m, <1>20, <2>3, RemoveTempOK, FaultOK DEF LearnLoopEnds, LocalStep
  <2> QED
    BY <1>21, <2>1, <2>2, <2>3 DEF LearnLoopEnds
<1>22. CASE MarkSeenDone(s)
  <2>1. PhaseOf(s) # "scan"
    BY <1>22, <1>c DEF MarkSeenDone
  <2> QED
    BY <1>22, <1>m, <1>20, <2>1, RemoveTempOK, FaultOK DEF MarkSeenDone, LocalStep
<1>23. CASE MoveLearnedDone(s)
  BY <1>23, <1>m, ReturnOK, NoSend, RemoveTempOK, FaultOK
     DEF MoveLearnedDone, LocalStep
<1> QED
  BY <1>1, <1>2, <1>3, <1>4, <1>5, <1>6, <1>7, <1>8, <1>10, <1>11, <1>13,
     <1>14, <1>15, <1>16, <1>17, <1>18, <1>19, <1>21, <1>22, <1>23
     DEF WorkerStep

(* The steps of a worker keep Inv1.                                         *)
LEMMA WorkerInv1 ==
    ASSUME Inv1, NEW s \in Session, WorkerStep(s)
    PROVE  Inv1'
<1>1. /\ WorkerOK(s) /\ CommandOK(s) /\ LocalStep
      /\ LearnedType' /\ TmpType' /\ FaultType'
  BY WorkerStepOK
<1>2. ServerType' /\ UserType' /\ MonType'
  BY <1>1 DEF Inv1, TypeOK, LocalStep, serverVars, userVars, monVars, ServerType,
              UserType, MonType
<1>3. TypeOK'
  BY <1>1, <1>2 DEF TypeOK, WorkerOK, CommandOK
<1>4. ~(s > session)
  BY WorkerNotIdle DEF Inv1, ControlOK
<1>5. UNCHANGED <<plan, session, conn, mon>>
  BY <1>1 DEF LocalStep, monVars
<1>6. plan[s] # <<>>
  BY PhaseTypes, WorkerNotIdle
<1>7. ControlOK'
  <2> SUFFICES ASSUME NEW t \in Session PROVE ControlOK!(t)'
    BY DEF ControlOK
  <2>1. CASE t = s
    BY <1>1, <1>4, <1>5, <1>6, <2>1 DEF WorkerOK, PhaseOf
  <2>2. CASE t # s
    BY <1>1, <1>5, <2>2 DEF Inv1, ControlOK, WorkerOK, CommandOK, PhaseOf
  <2> QED
    BY <2>1, <2>2
<1> QED
  BY <1>3, <1>7 DEF Inv1

(* So do the steps of the server, ...                                       *)
LEMMA MoveTypes ==
    ASSUME Inv1, NEW r \in Request, NEW C \in SUBSET Copy, ApplyMove(r, C)
    PROVE  ServerType'
BY DEF Inv1, TypeOK, ServerType, ApplyMove, Request

LEMMA StoreTypes ==
    ASSUME Inv1, NEW r \in Request, ApplyStore(r)
    PROVE  ServerType'
BY DEF Inv1, TypeOK, ServerType, ApplyStore, InMailbox, Request

LEMMA AppendTypes ==
    ASSUME Inv1, NEW r \in Request, ApplyAppend(r)
    PROVE  ServerType'
<1>1. PICK c \in r.copies :
        /\ uploads[c[1]] < MaxUploads
        /\ uploads' = [uploads EXCEPT ![c[1]] = @ + 1]
        /\ loc' = [loc EXCEPT ![<<c[1], uploads[c[1]] + 1>>] = r.dest]
        /\ header' = [header EXCEPT ![<<c[1], uploads[c[1]] + 1>>] = r.score]
        /\ UNCHANGED seen
  BY DEF ApplyAppend
<1>2. c \in Copy /\ c[1] \in Mail /\ r.dest \in Mailbox \cup {Nowhere}
      /\ r.score \in Scores \cup {NoScore}
  BY DEF Request, Copy
<1>3. ServerType
  BY DEF Inv1, TypeOK
<1>4. uploads[c[1]] + 1 \in 0..MaxUploads
  BY <1>1, <1>2, <1>3, BoundAssumption DEF ServerType
<1>5. uploads' \in [Mail -> 0..MaxUploads]
  BY <1>1, <1>2, <1>3, <1>4 DEF ServerType
<1>6. loc' \in [Copy -> Mailbox \cup {Nowhere}]
  BY <1>1, <1>2, <1>3 DEF ServerType
<1>7. header' \in [Copy -> Scores \cup {NoScore}]
  BY <1>1, <1>2, <1>3 DEF ServerType
<1> QED
  BY <1>1, <1>3, <1>5, <1>6, <1>7 DEF ServerType

LEMMA ServerInv1 ==
    ASSUME Inv1, NEW s \in Session, Server(s) \/ ConnectionLost(s)
    PROVE  Inv1'
<1>t. ServerType /\ LearnedType /\ UserType /\ ConnType /\ MonType /\ WorkType
      /\ TmpType /\ FaultType /\ ControlOK
  BY DEF Inv1, TypeOK
<1>r. request[s] \in Request /\ NoRequest \in Request
  BY <1>t DEF ConnType, NoRequest, Request
<1>u. ASSUME UNCHANGED <<learned, userVars, monVars, work, tmp>>
      PROVE  LearnedType' /\ UserType' /\ MonType' /\ WorkType' /\ TmpType'
  BY <1>t, <1>u DEF LearnedType, userVars, UserType, monVars, MonType, WorkType,
                    TmpType
<1>v. UNCHANGED serverVars => ServerType'
  BY <1>t DEF serverVars, ServerType
<1>1. ASSUME NEW r \in {"ok", "no"}, Answer(s, r), ServerType', FaultType',
             request[s] # NoRequest
      PROVE  Inv1'
  <2>1. ConnType'
    BY <1>1, <1>t, <1>r DEF Answer, ConnType
  <2>2. ~(s > session)
    BY <1>1, <1>t DEF ControlOK
  <2>3. ControlOK'
    BY <1>1, <1>t, <2>2 DEF Answer, ControlOK, ConnType, monVars, PhaseOf
  <2> QED
    BY <1>1, <1>u, <2>1, <2>3 DEF Answer, Inv1, TypeOK
<1>2. CASE ServerExecutes(s)
  <2>1. request[s] # NoRequest
    BY <1>2 DEF ServerExecutes, NoRequest
  <2>2. request[s].copies \in SUBSET Copy
    BY <1>r DEF Request
  <2>3. ServerType'
    BY <1>2, <1>r, <2>2, MoveTypes, StoreTypes, AppendTypes DEF ServerExecutes
  <2> QED
    BY <1>1, <1>2, <2>1, <2>3, FaultOK DEF ServerExecutes
<1>3. CASE ServerRefuses(s)
  <2>1. request[s] # NoRequest
    BY <1>3 DEF ServerRefuses, NoRequest
  <2>2. request[s].copies \in SUBSET Copy
    BY <1>r DEF Request
  <2>3. ServerType'
    BY <1>3, <1>r, <1>v, <2>2, MoveTypes DEF ServerRefuses
  <2> QED
    BY <1>1, <1>3, <2>1, <2>3, FaultOK DEF ServerRefuses
<1>4. CASE RequestLost(s)
  <2>1. ConnType'
    BY <1>4, <1>t, <1>r DEF RequestLost, ConnType
  <2>2. ControlOK'
    BY <1>4, <1>t DEF RequestLost, ControlOK, ConnType, monVars, PhaseOf
  <2> QED
    BY <1>4, <1>u, <1>v, <2>1, <2>2, FaultOK DEF RequestLost, Inv1, TypeOK
<1>5. CASE ConnectionLost(s)
  <2>1. ConnType'
    BY <1>5, <1>t DEF ConnectionLost, ConnType
  <2>2. ControlOK'
    BY <1>5, <1>t DEF ConnectionLost, ControlOK, ConnType, monVars, PhaseOf
  <2> QED
    BY <1>5, <1>u, <1>v, <2>1, <2>2, FaultOK DEF ConnectionLost, Inv1, TypeOK
<1> QED
  BY <1>2, <1>3, <1>4, <1>5 DEF Server

(* ... of Monitor and runIMAPPhase, ...                                     *)
LEMMA MonitorInv1 ==
    ASSUME Inv1, NEW s \in Session, Monitor(s)
    PROVE  Inv1'
<1>t. ServerType /\ LearnedType /\ UserType /\ ConnType /\ MonType /\ WorkType
      /\ TmpType /\ FaultType /\ ControlOK
  BY DEF Inv1, TypeOK
<1>u. MonStep
  BY DEF Monitor, NewMessages, LearnTimer, IdleFails, MonitorFails, StartPhase, Expire,
         CloseTransport, Abandon, PhaseOk, PhaseFails
<1>v. ServerType' /\ LearnedType' /\ UserType' /\ TmpType'
  BY <1>t, <1>u DEF MonStep, serverVars, userVars, ServerType, LearnedType,
                    UserType, TmpType
<1>f. FaultType'
  BY FaultOK DEF Monitor, NewMessages, LearnTimer, IdleFails, MonitorFails, StartPhase,
         Expire, CloseTransport, Abandon, PhaseOk, PhaseFails
<1>w. \A pc \in {"idle", "select", "returned"} : Worker(pc, FALSE) \in WorkerState
  BY WorkerTypes DEF WorkerPC
<1>x. \A pc : Worker(pc, FALSE).pc = pc
  BY DEF Worker
<1>y. mon[s] = "running" => ~(s > session)
  BY <1>t DEF ControlOK
<1>q. <<"scan">> \in Seq(Phase) /\ runPeriodicPass \in Seq(Phase)
  BY DEF Phase, runPeriodicPass
<1> SUFFICES ConnType' /\ MonType' /\ WorkType' /\ ControlOK'
  BY <1>v, <1>f DEF Inv1, TypeOK
<1>1. CASE NewMessages(s) \/ LearnTimer(s)
  <2>1. PICK p \in Seq(Phase) : plan' = [plan EXCEPT ![s] = p]
    BY <1>1, <1>q DEF NewMessages, LearnTimer
  <2>2. UNCHANGED <<conn, request, reply, mon, expired, session, work>>
    BY <1>1, <1>u DEF MonStep, NewMessages, LearnTimer
  <2>3. work[s].pc = "idle"
    BY <1>1, <1>t DEF NewMessages, LearnTimer, Idle, ControlOK
  <2>4. ConnType' /\ WorkType'
    BY <2>2, <1>t DEF ConnType, WorkType
  <2>5. MonType'
    BY <2>1, <2>2, <1>t DEF MonType
  <2>6. ControlOK'
    BY <2>1, <2>2, <2>3, <1>t DEF ControlOK, MonType, PhaseOf
  <2> QED
    BY <2>4, <2>5, <2>6
<1>2. CASE IdleFails(s) \/ Abandon(s)
  <2>1. /\ \E end \in {"ended", "failed"} : mon' = [mon EXCEPT ![s] = end]
        /\ UNCHANGED <<conn, request, reply, plan, expired, session, work>>
    BY <1>2, <1>u DEF MonStep, IdleFails, MonitorFails, Abandon
  <2>2. ~(s > session)
    BY <1>2, <1>y DEF IdleFails, MonitorFails, Abandon, Idle, PhaseRunning
  <2> QED
    BY <2>1, <2>2, <1>t DEF ConnType, MonType, WorkType, ControlOK, PhaseOf
<1>3. CASE StartPhase(s)
  <2>1. PICK pc \in {"returned", "select"} :
          work' = [work EXCEPT ![s] = Worker(pc, FALSE)]
    BY <1>3 DEF StartPhase
  <2>2. /\ expired' = [expired EXCEPT ![s] = FALSE]
        /\ UNCHANGED <<conn, request, reply, mon, plan, session>>
    BY <1>3, <1>u DEF MonStep, StartPhase
  <2>3. WorkType'
    BY <2>1, <1>t, <1>w DEF WorkType
  <2>4. ConnType' /\ MonType'
    BY <2>2, <1>t DEF ConnType, MonType
  <2>5. plan[s] # <<>> /\ ~(s > session)
    BY <1>3, <1>y DEF StartPhase
  <2>6. work'[s].pc = pc /\ \A t \in Session \ {s} : work'[t] = work[t]
    BY <2>1, <1>t, <1>x DEF WorkType
  <2>7. ControlOK'
    BY <2>1, <2>2, <2>5, <2>6, <1>t DEF ControlOK, PhaseOf
  <2> QED
    BY <2>3, <2>4, <2>7
<1>4. CASE Expire(s)
  <2>1. expired' = [expired EXCEPT ![s] = TRUE]
        /\ UNCHANGED <<conn, request, reply, mon, plan, session, work>>
    BY <1>4, <1>u DEF MonStep, Expire
  <2> QED
    BY <2>1, <1>t DEF ConnType, MonType, WorkType, ControlOK, PhaseOf
<1>5. CASE CloseTransport(s)
  <2>1. conn' = [conn EXCEPT ![s] = "closed"]
        /\ UNCHANGED <<request, reply, mon, plan, expired, session, work>>
    BY <1>5, <1>u DEF MonStep, CloseTransport
  <2> QED
    BY <2>1, <1>t DEF ConnType, MonType, WorkType, ControlOK, PhaseOf
<1>6. CASE PhaseOk(s) \/ PhaseFails(s)
  <2>1. work' = [work EXCEPT ![s] = Worker("idle", FALSE)]
    BY <1>6 DEF PhaseOk, PhaseFails, MonitorFails
  <2>2. WorkType'
    BY <2>1, <1>t, <1>w DEF WorkType
  <2>3. work'[s].pc = "idle" /\ \A t \in Session \ {s} : work'[t] = work[t]
    BY <2>1, <1>t, <1>x DEF WorkType
  <2>4. plan[s] \in Seq(Phase) /\ plan[s] # <<>>
    BY <1>6, PhaseTypes DEF PhaseOk, PhaseFails, MonitorFails
  <2>5. Tail(plan[s]) \in Seq(Phase)
    BY <2>4
  <2>6. /\ plan' \in [Session -> Seq(Phase)]
        /\ \A t \in Session \ {s} : plan'[t] = plan[t]
    BY <1>6, <2>5, <1>t DEF PhaseOk, PhaseFails, MonitorFails, MonType
  <2>a. UNCHANGED mon \/ \E end \in {"ended", "failed"} :
                            mon' = [mon EXCEPT ![s] = end]
    BY <1>6 DEF PhaseOk, PhaseFails, MonitorFails
  <2>b. /\ mon' \in [Session -> {"off", "running", "ended", "failed", "crashed"}]
        /\ \A t \in Session \ {s} : mon'[t] = mon[t]
    BY <2>a, <1>t DEF MonType
  <2>7. /\ conn' \in [Session -> {"open", "closed"}]
        /\ \A t \in Session \ {s} : conn'[t] = conn[t]
        /\ conn'[s] \in {conn[s], "closed"}
        /\ ~(s > session)
    BY <1>y, <1>6, <1>t DEF PhaseOk, PhaseFails, ConnType
  <2>8. UNCHANGED <<request, reply, session, expired>>
    BY <1>6, <1>u DEF MonStep, PhaseOk, PhaseFails, MonitorFails
  <2>9. ConnType' /\ MonType'
    BY <2>6, <2>7, <2>8, <2>b, <1>t DEF ConnType, MonType
  <2>10. ControlOK'
    <3> SUFFICES ASSUME NEW t \in Session PROVE ControlOK!(t)'
      BY DEF ControlOK
    <3>1. CASE t = s
      BY <2>3, <2>7, <2>8, <3>1
    <3>2. CASE t # s
      <4>1. /\ work'[t] = work[t] /\ plan'[t] = plan[t] /\ conn'[t] = conn[t]
            /\ mon'[t] = mon[t] /\ UNCHANGED <<session, request, reply>>
        BY <2>3, <2>6, <2>7, <2>8, <2>b, <3>2
      <4> QED
        BY <4>1, <1>t DEF ControlOK, PhaseOf
    <3> QED
      BY <3>1, <3>2
  <2> QED
    BY <2>2, <2>9, <2>10
<1> QED
  BY <1>1, <1>2, <1>3, <1>4, <1>5, <1>6 DEF Monitor

(* ... of the environment, and a new session or an exit.                    *)
LEMMA UserTypes ==
    ASSUME UserType, NEW k \in {"ham", "spam"}, NEW d \in Copy,
           userMoves < MaxUserMoves,
           told' = told \cup {<<k, d>>}, userMoves' = userMoves + 1
    PROVE  UserType'
<1>1. userMoves' \in 0..MaxUserMoves
  BY BoundAssumption DEF UserType
<1>2. told' \subseteq {"ham", "spam"} \X Copy
  BY DEF UserType
<1> QED
  BY <1>1, <1>2 DEF UserType

LEMMA EnvironmentInv1 ==
    ASSUME Inv1,
           \/ \E m \in Mail : Arrive(m)
           \/ \E c \in Copy : User(c)
    PROVE  Inv1'
<1>t. ServerType /\ LearnedType /\ UserType /\ ConnType /\ MonType /\ WorkType
      /\ TmpType /\ FaultType /\ ControlOK
  BY DEF Inv1, TypeOK
<1> DEFINE Rest == <<header, uploads, seen, learned, connVars, monVars, work, tmp,
                     faults>>
           Step == /\ UNCHANGED Rest
                   /\ loc' \in [Copy -> Mailbox \cup {Nowhere}]
                   /\ UserType'
<1>u. Step
  <2>1. ASSUME NEW m \in Mail, Arrive(m) PROVE Step
    <3>1. ScanMailbox \in Mailbox
      BY DEF Mailbox
    <3>2. loc' \in [Copy -> Mailbox \cup {Nowhere}]
      BY <2>1, <3>1, <1>t DEF Arrive, ServerType
    <3> QED
      BY <2>1, <3>2, <1>t DEF Arrive, UserType, userVars
  <2>2. ASSUME NEW c \in Copy, NEW kind \in {"ham", "spam"}, NEW from,
               NEW to \in Mailbox, UserReports(kind, c, from, to)
        PROVE  Step
    <3>1. loc' \in [Copy -> Mailbox \cup {Nowhere}]
      BY <2>2, <1>t DEF UserReports, ServerType
    <3>2. UserType'
      BY <2>2, <1>t, UserTypes DEF UserReports
    <3> QED
      BY <2>2, <3>1, <3>2 DEF UserReports
  <2> QED
    BY <2>1, <2>2 DEF User, UserReportsSpam, UserReportsHam, Mailbox
<1> QED
  BY <1>t, <1>u DEF Inv1, TypeOK, ServerType, LearnedType, ConnType, MonType,
     WorkType, TmpType, FaultType, ControlOK, connVars, monVars, PhaseOf

LEMMA NewSessionInv1 ==
    ASSUME Inv1, NewSession \/ Restart
    PROVE  Inv1'
<1>t. ServerType /\ LearnedType /\ UserType /\ ConnType /\ MonType /\ WorkType
      /\ TmpType /\ FaultType /\ ControlOK
  BY DEF Inv1, TypeOK
<1>1. session + 1 \in Session /\ session + 1 > session /\ session \in Nat
  BY <1>t, BoundAssumption DEF NewSession, Restart, OpenSession, MonType, Session
<1>2. ServerType' /\ LearnedType' /\ UserType' /\ TmpType' /\ FaultType' /\ WorkType'
  BY <1>t DEF NewSession, Restart, OpenSession, serverVars, userVars, ServerType,
     LearnedType, UserType,
              TmpType, FaultType, WorkType
<1>3. ConnType'
  BY <1>t, <1>1 DEF NewSession, Restart, OpenSession, ConnType
<1>4. MonType'
  <2>1. runOnce \in Seq(Phase)
    BY DEF runOnce, Phase
  <2>2. session' \in 0..MaxSessions
    BY <1>t, BoundAssumption DEF NewSession, Restart, OpenSession, MonType
  <2> QED
    BY <1>t, <1>1, <2>1, <2>2 DEF NewSession, Restart, OpenSession, MonType
<1>5. ControlOK'
  <2> SUFFICES ASSUME NEW t \in Session PROVE ControlOK!(t)'
    BY DEF ControlOK
  <2>1. CASE t = session + 1
    BY <1>t, <1>1, <2>1 DEF NewSession, Restart, OpenSession, ControlOK
  <2>2. CASE t # session + 1
    <3>1. t > session + 1 => t > session
      BY <1>1 DEF Session
    <3> QED
      BY <1>t, <1>1, <2>2, <3>1 DEF NewSession, Restart, OpenSession, ControlOK,
         MonType, ConnType, PhaseOf
  <2> QED
    BY <2>1, <2>2
<1> QED
  BY <1>2, <1>3, <1>4, <1>5 DEF Inv1, TypeOK

LEMMA CrashInv1 ==
    ASSUME Inv1, Crash \/ Exit
    PROVE  Inv1'
<1>t. ServerType /\ LearnedType /\ UserType /\ ConnType /\ MonType /\ WorkType
      /\ TmpType /\ FaultType /\ ControlOK
  BY DEF Inv1, TypeOK
<1>p. ProcessEnds
  BY DEF Crash, Exit
<1>1. Worker("idle", FALSE) \in WorkerState /\ Worker("idle", FALSE).pc = "idle"
  BY WorkerTypes DEF WorkerPC, Worker
<1>2. ServerType' /\ LearnedType' /\ UserType' /\ TmpType'
  BY <1>p, <1>t DEF ProcessEnds, serverVars, userVars, ServerType, LearnedType,
     UserType, TmpType
<1>3. WorkType' /\ ConnType'
  BY <1>p, <1>t, <1>1 DEF ProcessEnds, WorkType, ConnType
<1>4. MonType'
  BY <1>p, <1>t DEF ProcessEnds, MonType
<1>5. FaultType'
  BY FaultOK, <1>t DEF Crash, Exit, FaultType
<1>6. ControlOK'
  <2> SUFFICES ASSUME NEW t \in Session PROVE ControlOK!(t)'
    BY DEF ControlOK
  <2>1. /\ work'[t].pc = "idle" /\ conn'[t] = "closed" /\ reply'[t] = "none"
        /\ UNCHANGED <<session, request>>
    BY <1>p, <1>1 DEF ProcessEnds
  <2>2. t > session => mon'[t] = mon[t]
    BY <1>p, <1>t DEF ProcessEnds, MonType, Session
  <2> QED
    BY <2>1, <2>2, <1>t DEF ControlOK
<1> QED
  BY <1>2, <1>3, <1>4, <1>5, <1>6 DEF Inv1, TypeOK

LEMMA StutterInv1 ==
    ASSUME Inv1, UNCHANGED vars
    PROVE  Inv1'
BY DEF Inv1, TypeOK, ServerType, LearnedType, UserType, ConnType, MonType, WorkType,
       TmpType, FaultType, ControlOK, PhaseOf, vars, serverVars, userVars, connVars,
       monVars

LEMMA NextInv1 == Inv1 /\ [Next]_vars => Inv1'
BY WorkerInv1, ServerInv1, MonitorInv1, EnvironmentInv1, NewSessionInv1, CrashInv1,
   StutterInv1 DEF Next

(* The state of the server, of the sessions and of their workers stays well  *)
(* typed, for every set of mails and scores and every bound; the worker of a *)
(* phase is always at a point of that phase, with a message in hand wherever *)
(* the code uses one.                                                       *)
THEOREM TypeCorrect == Spec => [](TypeOK /\ ControlOK)
<1>1. Init => Inv1
  BY InitInv1
<1>2. Inv1 /\ [Next]_vars => Inv1'
  BY NextInv1
<1> QED
  BY <1>1, <1>2, PTL DEF Spec, Inv1
=============================================================================

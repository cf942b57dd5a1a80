---------------------------- MODULE ClientMonitor ----------------------------
(***************************************************************************)
(* The goroutines of one iscan.Client: Monitor, the goroutines it starts to  *)
(* bound what may block in go-imap (the worker of runIMAPPhase, those of     *)
(* startMonitor and stopIDLE, the one that closes the transport), the reader *)
(* that calls mailboxUpdateHandler, and Stop (internal/iscan/client.go,      *)
(* Monitor of internal/imapclt/client.go).                                  *)
(*                                                                          *)
(* Timers fire at any time.  A goroutine in go-imap may hang for ever.  The  *)
(* mailboxes are reduced to the number of mails to be scanned.              *)
(***************************************************************************)
EXTENDS Naturals, Sequences

CONSTANTS MaxMails,     \* bound: mails that arrive in the scan mailbox
          MaxFaults,    \* bound: lost connections and failing phases
          MaxTimeouts   \* bound: operation timeouts

ASSUME BoundAssumption == {MaxMails, MaxFaults, MaxTimeouts} \subseteq Nat

VARIABLES
    (* the Client *)
    ctxDone,        \* c.ctx is cancelled
    running,        \* wgRun > 0
    mon,            \* where Monitor is
    plan,           \* the phases it still has to run
    after,          \* what it does when IDLE is stopped
    (* its goroutines *)
    worker,         \* runIMAPPhase: "none", "running", "filing", "ok", "failed"
    fetched,        \* the mails of the scan mailbox its FETCH has yielded
    starter,        \* startMonitor: "none", "select", "setCh", "idle", "done", "failed"
    stopper,        \* stopIDLE: "none", "close", "setNil", "closeCh", "done"
    stopFailed,     \* the error of idlecmd.Close and Wait
    closer,         \* closeTransport: "none", "closing", "closed", "done"
    stop, stopTimedOut,     \* Stop, and whether it returns DeadlineExceeded
    (* imapclt.Client *)
    newMessagesCh,  \* whether c.newMessagesCh is set to the channel
    chClosed, buf,  \* the latest event channel and its buffer
    (* the server and the connection *)
    conn, idling,
    box, arrived,   \* mails in the scan mailbox, mails that ever arrived
    reported,       \* the client was told the number of mails
    update,         \* the EXISTS response in transit
    faults, timeouts

clientVars == <<ctxDone, running, mon, plan, after>>
chanVars == <<newMessagesCh, chClosed, buf>>
boxVars == <<box, arrived, reported, update>>
stopVars == <<stop, stopTimedOut>>
idleVars == <<starter, stopper, stopFailed, idling>>
countVars == <<faults, timeouts>>
workVars == <<worker, fetched>>
vars == <<clientVars, workVars, idleVars, closer, stopVars, chanVars, conn, boxVars,
          countVars>>

runOnce == <<"ham", "spam", "scan">>
runPeriodicPass == <<"scan", "ham", "spam">>

ChanCap == 1        \* defChanBufSiz

Init ==
    /\ ctxDone = FALSE /\ running = FALSE
    /\ mon = "new" /\ plan = <<>> /\ after = "loop"
    /\ worker = "none" /\ fetched = 0 /\ closer = "none"
    /\ starter = "none" /\ stopper = "none" /\ stopFailed = FALSE
    /\ stop = "none" /\ stopTimedOut = FALSE
    /\ newMessagesCh = FALSE /\ chClosed = FALSE /\ buf = <<>>
    /\ conn = "open" /\ idling = FALSE
    /\ box = 0 /\ arrived = 0 /\ reported = TRUE /\ update = <<>>
    /\ faults = 0 /\ timeouts = 0

Fault == faults < MaxFaults /\ faults' = faults + 1 /\ UNCHANGED timeouts
-----------------------------------------------------------------------------
(* The server, the network and other mail clients.                          *)
Elsewhere == UNCHANGED <<clientVars, worker, starter, stopper, stopFailed, closer,
                         stopVars>>
Environment == Elsewhere /\ UNCHANGED fetched

Arrive ==
    /\ arrived < MaxMails
    /\ arrived' = arrived + 1 /\ box' = box + 1 /\ reported' = FALSE
    /\ Environment /\ UNCHANGED <<chanVars, conn, idling, update, countVars>>

(* Another mail client removes the mails of the scan mailbox.               *)
Removed ==
    /\ box > 0
    /\ box' = 0 /\ fetched' = 0 /\ reported' = FALSE
    /\ Elsewhere /\ UNCHANGED <<chanVars, conn, idling, arrived, update, countVars>>

(* The server reports the number of messages; during IDLE it has to.        *)
SendExists ==
    /\ conn = "open" /\ ~reported /\ update = <<>>
    /\ update' = <<box>> /\ reported' = TRUE
    /\ Environment /\ UNCHANGED <<chanVars, conn, idling, box, arrived, countVars>>

ConnectionLost ==
    /\ conn = "open" /\ Fault
    /\ conn' = "closed" /\ idling' = FALSE
    /\ Environment /\ UNCHANGED <<chanVars, boxVars>>

(* Mutant: an update is queued although the channel is full.                *)
mailboxUpdateQueued ==
    /\ update # <<>>
    /\ update' = <<>>
    /\ buf' = IF newMessagesCh THEN buf \o update ELSE buf
    /\ Environment /\ UNCHANGED <<newMessagesCh, chClosed, conn, idling, box, arrived,
                                  reported, countVars>>

(* mailboxUpdateHandler, in go-imap's reader; a full or missing channel      *)
(* loses the update.                                                        *)
mailboxUpdateHandler ==
    /\ update # <<>>
    /\ update' = <<>>
    /\ buf' = IF newMessagesCh /\ Len(buf) < ChanCap THEN buf \o update ELSE buf
    /\ Environment /\ UNCHANGED <<newMessagesCh, chClosed, conn, idling, box, arrived,
                                  reported, countVars>>
-----------------------------------------------------------------------------
(* The goroutine of closeTransport: Close closes the connection and waits    *)
(* for the reader.                                                          *)
CloserStep ==
    /\ \/ /\ closer = "closing" /\ closer' = "closed"
          /\ conn' = "closed" /\ idling' = FALSE
       \/ closer = "closed" /\ closer' = "done" /\ UNCHANGED <<conn, idling>>
    /\ UNCHANGED <<clientVars, workVars, starter, stopper, stopFailed, stopVars,
                   chanVars, boxVars, countVars>>

closeTransport == closer' = IF closer = "none" THEN "closing" ELSE closer

(* The goroutine of runIMAPPhase.                                           *)
Phase == UNCHANGED <<clientVars, idleVars, closer, stopVars, chanVars, conn, arrived>>

InPhase == worker \in {"running", "filing"}

(* SELECT and FETCH of the scan mailbox: mails that arrive later stay.       *)
FetchScanBox ==
    /\ worker = "running" /\ Head(plan) = "scan" /\ conn = "open" /\ ~idling
    /\ worker' = "filing"
    /\ fetched' = box /\ reported' = TRUE
    /\ Phase /\ UNCHANGED <<box, update, countVars>>

PhaseSucceeds ==
    /\ \/ worker = "filing"
       \/ worker = "running" /\ Head(plan) # "scan"
    /\ conn = "open" /\ ~idling
    /\ worker' = "ok"
    /\ box' = box - fetched /\ fetched' = 0
    /\ Phase /\ UNCHANGED <<reported, update, countVars>>

(* The phase gives up; some of the mails are filed already.                 *)
PhaseFails ==
    /\ InPhase
    /\ ((conn = "closed" \/ ctxDone) /\ UNCHANGED countVars) \/ Fault
    /\ worker' = "failed" /\ fetched' = 0
    /\ box' \in (box - fetched)..box
    /\ Phase /\ UNCHANGED <<reported, update>>

(* imapclt.Client.Monitor, in the goroutine of startMonitor.                 *)
Starter == UNCHANGED <<clientVars, workVars, stopper, stopFailed, closer, stopVars, conn,
                       box, arrived, update>>

(* Mutant: the channel is closed without the event.                         *)
SelectMailboxSilent ==
    /\ starter = "select" /\ conn = "open"
    /\ reported' = TRUE
    /\ buf' = <<>> /\ chClosed' = (box > 0)
    /\ starter' = IF box > 0 THEN "done" ELSE "setCh"
    /\ Starter /\ UNCHANGED <<newMessagesCh, idling, countVars>>

(* SELECT; in a mailbox with mails no IDLE is started.                      *)
SelectMailbox ==
    /\ starter = "select" /\ conn = "open"
    /\ reported' = TRUE
    /\ IF box > 0
       THEN starter' = "done" /\ buf' = <<box>> /\ chClosed' = TRUE
       ELSE starter' = "setCh" /\ buf' = <<>> /\ chClosed' = FALSE
    /\ Starter /\ UNCHANGED <<newMessagesCh, idling, countVars>>

setNewMessagesCH ==
    /\ starter = "setCh"
    /\ starter' = "idle" /\ newMessagesCh' = TRUE
    /\ Starter /\ UNCHANGED <<chClosed, buf, idling, reported, countVars>>

BeginIdle ==
    /\ starter = "idle" /\ conn = "open"
    /\ starter' = "done" /\ idling' = TRUE
    /\ Starter /\ UNCHANGED <<chanVars, reported, countVars>>

(* SELECT or IDLE is refused, or the connection is broken.                  *)
StartFails ==
    /\ (conn = "closed" /\ UNCHANGED countVars) \/ Fault
    /\ \/ starter = "select" /\ UNCHANGED chanVars
       \/ /\ starter = "idle"
          /\ newMessagesCh' = FALSE /\ chClosed' = TRUE /\ UNCHANGED buf
    /\ starter' = "failed"
    /\ Starter /\ UNCHANGED <<idling, reported>>

(* The stop function of Monitor, in the goroutine of stopIDLE.               *)
Stopper == UNCHANGED <<clientVars, workVars, starter, closer, stopVars, conn, boxVars>>

EndIdle ==
    /\ stopper = "close"
    /\ \/ conn = "open" /\ stopFailed' = FALSE /\ UNCHANGED countVars
       \/ conn = "closed" /\ stopFailed' \in BOOLEAN /\ UNCHANGED countVars
       \/ stopFailed' = TRUE /\ Fault
    /\ idling' = FALSE
    /\ stopper' = "setNil"
    /\ Stopper /\ UNCHANGED chanVars

(* Mutant: the channel is closed while the handler may still send to it.    *)
CloseChannelFirst ==
    /\ \/ /\ stopper = "setNil" /\ stopper' = "closeCh"
          /\ chClosed' = TRUE /\ UNCHANGED newMessagesCh
       \/ /\ stopper = "closeCh" /\ stopper' = "done"
          /\ newMessagesCh' = FALSE /\ UNCHANGED chClosed
    /\ Stopper /\ UNCHANGED <<buf, stopFailed, idling, countVars>>

CloseChannel ==
    /\ \/ /\ stopper = "setNil" /\ stopper' = "closeCh"
          /\ newMessagesCh' = FALSE /\ UNCHANGED chClosed
       \/ /\ stopper = "closeCh" /\ stopper' = "done"
          /\ chClosed' = TRUE /\ UNCHANGED newMessagesCh
    /\ Stopper /\ UNCHANGED <<buf, stopFailed, idling, countVars>>
-----------------------------------------------------------------------------
(* Monitor.                                                                 *)
Others == UNCHANGED <<stopVars, fetched, newMessagesCh, chClosed, conn, idling, boxVars,
                      faults>>

Goto(pc) == mon' = pc
End == mon' = "ended" /\ running' = FALSE

(* Mutant: Monitor is not registered with wgRun.                            *)
MonitorCalledUnregistered ==
    /\ mon = "new"
    /\ IF ctxDone THEN Goto("ended") /\ UNCHANGED <<running, plan>>
       ELSE Goto("run") /\ plan' = runOnce /\ UNCHANGED running
    /\ Others /\ UNCHANGED <<ctxDone, after, worker, starter, stopper, stopFailed,
                             closer, buf, timeouts>>

(* Under runMu. *)
MonitorCalled ==
    /\ mon = "new"
    /\ IF ctxDone THEN Goto("ended") /\ UNCHANGED <<running, plan>>
       ELSE Goto("run") /\ plan' = runOnce /\ running' = TRUE
    /\ Others /\ UNCHANGED <<ctxDone, after, worker, starter, stopper, stopFailed,
                             closer, buf, timeouts>>

(* The start of runIMAPPhase.                                               *)
StartPhase ==
    /\ mon = "run" /\ plan # <<>>
    /\ IF ctxDone THEN End /\ UNCHANGED worker
       ELSE Goto("phase") /\ worker' = "running" /\ UNCHANGED running
    /\ Others /\ UNCHANGED <<ctxDone, plan, after, starter, stopper, stopFailed, closer,
                             buf, timeouts>>

PhaseResult ==
    /\ mon \in {"phase", "phaseGrace"} /\ worker \in {"ok", "failed"}
    /\ IF mon = "phase" /\ worker = "ok"
       THEN Goto("run") /\ plan' = Tail(plan) /\ UNCHANGED running
       ELSE End /\ UNCHANGED plan
    /\ worker' = "none"
    /\ Others /\ UNCHANGED <<ctxDone, after, starter, stopper, stopFailed, closer, buf,
                             timeouts>>

(* opCtx ends, by its deadline or with c.ctx.                               *)
Deadline ==
    \/ ctxDone /\ UNCHANGED timeouts
    \/ timeouts < MaxTimeouts /\ timeouts' = timeouts + 1

PhaseTimeout ==
    /\ mon = "phase" /\ InPhase /\ Deadline
    /\ closeTransport /\ Goto("closePhase")
    /\ Others /\ UNCHANGED <<ctxDone, running, plan, after, worker, starter, stopper,
                             stopFailed, buf>>

(* The loop: startMonitor.                                                  *)
StartMonitor ==
    /\ mon = "run" /\ plan = <<>>
    /\ IF ctxDone THEN End /\ UNCHANGED starter
       ELSE Goto("start") /\ starter' = "select" /\ UNCHANGED running
    /\ Others /\ UNCHANGED <<ctxDone, plan, after, worker, stopper, stopFailed, closer,
                             buf, timeouts>>

StartResult ==
    /\ mon = "start" /\ starter \in {"done", "failed"}
    /\ IF starter = "done" THEN Goto("select") /\ UNCHANGED running ELSE End
    /\ starter' = "none"
    /\ Others /\ UNCHANGED <<ctxDone, plan, after, worker, stopper, stopFailed, closer,
                             buf, timeouts>>

StartTimeout ==
    /\ mon = "start" /\ starter \notin {"done", "failed"} /\ Deadline
    /\ closeTransport /\ Goto("closeStart")
    /\ Others /\ UNCHANGED <<ctxDone, running, plan, after, worker, starter, stopper,
                             stopFailed, buf>>

(* The select of Monitor; whatever it finds, IDLE is stopped first.  The     *)
(* stop function of a mailbox with mails does nothing.                      *)
StopIdleThen(todo) ==
    /\ mon = "select"
    /\ Goto("stopping") /\ after' = todo
    /\ stopper' = IF newMessagesCh THEN "close" ELSE "done"
    /\ stopFailed' = FALSE
    /\ Others /\ UNCHANGED <<ctxDone, running, plan, worker, starter, closer, timeouts>>

(* Mutant: the scan starts while IDLE is running.                           *)
NewMessagesUnstopped ==
    /\ mon = "select" /\ buf # <<>>
    /\ buf' = Tail(buf)
    /\ Goto("run") /\ plan' = <<"scan">>
    /\ Others /\ UNCHANGED <<ctxDone, running, after, worker, starter, stopper,
                             stopFailed, closer, timeouts>>

NewMessages ==
    /\ buf # <<>> /\ buf' = Tail(buf)
    /\ StopIdleThen(IF Head(buf) = 0 THEN "loop" ELSE "scan")

(* Mutant: a quiet IDLE is never restarted. *)
IdleTimerNever == FALSE

IdleTimer == StopIdleThen("loop") /\ UNCHANGED buf
LearnTimer == StopIdleThen("periodic") /\ UNCHANGED buf
SelectEnds == (ctxDone \/ conn = "closed") /\ StopIdleThen("return") /\ UNCHANGED buf

StopIdleResult ==
    /\ mon \in {"stopping", "stopGrace"} /\ stopper = "done"
    /\ IF stopFailed \/ after = "return" THEN End /\ UNCHANGED plan
       ELSE /\ Goto("run") /\ UNCHANGED running
            /\ plan' = CASE after = "loop" -> <<>>
                         [] after = "periodic" -> runPeriodicPass
                         [] after = "scan" -> <<"scan">>
    /\ stopper' = "none" /\ stopFailed' = FALSE /\ after' = "loop" /\ buf' = <<>>
    /\ Others /\ UNCHANGED <<ctxDone, worker, starter, closer, timeouts>>

(* The shutdown timers: of stopIDLE, ...                                    *)
StopIdleTimeout ==
    /\ mon = "stopping" /\ stopper # "done"
    /\ closeTransport /\ Goto("closeStop")
    /\ Others /\ UNCHANGED <<ctxDone, running, plan, after, worker, starter, stopper,
                             stopFailed, buf, timeouts>>

(* Mutant: closeTransport waits for Close without a timer.                  *)
TransportClosedUnbounded ==
    /\ mon \in {"closePhase", "closeStart", "closeStop"} /\ closer = "done"
    /\ CASE mon = "closePhase" -> Goto("phaseGrace") /\ UNCHANGED running
         [] mon = "closeStart" -> End
         [] mon = "closeStop" -> Goto("stopGrace") /\ UNCHANGED running
    /\ Others /\ UNCHANGED <<ctxDone, plan, after, worker, starter, stopper, stopFailed,
                             closer, buf, timeouts>>

(* ... of closeTransport, which returns when Close does or its timer fires, *)
TransportClosed ==
    /\ mon \in {"closePhase", "closeStart", "closeStop"}
    /\ CASE mon = "closePhase" -> Goto("phaseGrace") /\ UNCHANGED running
         [] mon = "closeStart" -> End
         [] mon = "closeStop" -> Goto("stopGrace") /\ UNCHANGED running
    /\ Others /\ UNCHANGED <<ctxDone, plan, after, worker, starter, stopper, stopFailed,
                             closer, buf, timeouts>>

(* ... and of the last wait for an abandoned goroutine.                     *)
GraceExpires ==
    /\ \/ mon = "phaseGrace" /\ InPhase
       \/ mon = "stopGrace" /\ stopper # "done"
    /\ End
    /\ Others /\ UNCHANGED <<ctxDone, plan, after, worker, starter, stopper, stopFailed,
                             closer, buf, timeouts>>
-----------------------------------------------------------------------------
(* The signal, and Stop.                                                    *)
Shutdown == UNCHANGED <<running, mon, plan, after, workVars, idleVars, chanVars, conn,
                        boxVars, countVars>>

Signal ==
    /\ ~ctxDone /\ ctxDone' = TRUE
    /\ Shutdown /\ UNCHANGED <<closer, stopVars>>

StopCalled ==
    /\ stop = "none" /\ stop' = "cancelled" /\ ctxDone' = TRUE
    /\ Shutdown /\ UNCHANGED <<closer, stopTimedOut>>

StopCloses ==
    /\ stop = "cancelled" /\ stop' = "closing" /\ closeTransport
    /\ Shutdown /\ UNCHANGED <<ctxDone, stopTimedOut>>

(* Mutant: Stop waits for Close without a timer.                            *)
StopClosedUnbounded ==
    /\ stop = "closing" /\ closer = "done" /\ stop' = "waiting"
    /\ Shutdown /\ UNCHANGED <<ctxDone, closer, stopTimedOut>>

(* closeTransport returns, when Close does or after the shutdown timeout.   *)
StopClosed ==
    /\ stop = "closing" /\ stop' = "waiting"
    /\ Shutdown /\ UNCHANGED <<ctxDone, closer, stopTimedOut>>

(* wgRun.Wait returns, or the shutdown timer fires.                         *)
StopReturns ==
    /\ stop = "waiting" /\ stop' = "returned"
    /\ stopTimedOut' = running
    /\ Shutdown /\ UNCHANGED <<ctxDone, closer>>
-----------------------------------------------------------------------------
Server == Arrive \/ Removed \/ SendExists \/ ConnectionLost

(* What runs in, or waits for, go-imap.                                     *)
Goroutines ==
    \/ mailboxUpdateHandler \/ CloserStep \/ FetchScanBox \/ PhaseSucceeds \/ PhaseFails
    \/ SelectMailbox \/ setNewMessagesCH \/ BeginIdle \/ StartFails
    \/ EndIdle \/ CloseChannel

(* Monitor, but for the learn timer, which is set to half an hour.         *)
MonitorStep ==
    \/ MonitorCalled \/ StartPhase \/ PhaseResult \/ PhaseTimeout
    \/ StartMonitor \/ StartResult \/ StartTimeout
    \/ NewMessages \/ IdleTimer \/ SelectEnds
    \/ StopIdleResult \/ StopIdleTimeout \/ TransportClosed \/ GraceExpires

Monitor == MonitorStep \/ LearnTimer

Stop == StopCalled \/ StopCloses \/ StopClosed \/ StopReturns

Next == Server \/ Goroutines \/ Monitor \/ Signal \/ Stop

Spec == Init /\ [][Next]_vars
-----------------------------------------------------------------------------
(* Monitor, its goroutines and Stop are at one of their steps, and the       *)
(* buffer of the event channel is never overfull.                           *)
TypeOK ==
    /\ {ctxDone, running, stopFailed, stopTimedOut, newMessagesCh, chClosed, idling,
        reported} \subseteq BOOLEAN
    /\ mon \in {"new", "run", "phase", "closePhase", "phaseGrace", "start",
                "closeStart", "select", "stopping", "closeStop", "stopGrace", "ended"}
    /\ plan \in {SubSeq(runOnce, i, 3) : i \in 1..4}
                  \cup {SubSeq(runPeriodicPass, i, 3) : i \in 1..4} \cup {<<"scan">>}
    /\ after \in {"loop", "periodic", "scan", "return"}
    /\ worker \in {"none", "running", "filing", "ok", "failed"}
    /\ starter \in {"none", "select", "setCh", "idle", "done", "failed"}
    /\ stopper \in {"none", "close", "setNil", "closeCh", "done"}
    /\ closer \in {"none", "closing", "closed", "done"}
    /\ stop \in {"none", "cancelled", "closing", "waiting", "returned"}
    /\ conn \in {"open", "closed"}
    /\ Len(buf) <= ChanCap /\ Len(update) <= 1
    /\ box \in 0..MaxMails /\ fetched \in 0..box /\ arrived \in 0..MaxMails
    /\ faults \in 0..MaxFaults /\ timeouts \in 0..MaxTimeouts

(* mailboxUpdateHandler never sends on a closed channel, which would panic:  *)
(* the stop function and a failing Idle unset newMessagesCh first.          *)
NoSendOnClosedChannel == newMessagesCh => ~chClosed

(* No command is sent while IDLE runs or is being started or stopped: such a *)
(* command would block for ever.                                            *)
TransportHasOneUser ==
    conn = "open" /\ InPhase =>
      /\ ~idling
      /\ starter \notin {"select", "setCh", "idle"}
      /\ stopper # "close"

(* Monitor never finds its event channel closed and empty: nothing but its   *)
(* own stop function closes a channel without an event in it.               *)
EventChannelLives == mon = "select" => ~(chClosed /\ buf = <<>>)

(* When Stop returns without a timeout Monitor has returned, and a later     *)
(* call of it returns at once: no phase is started on the closed transport.  *)
StoppedIsStopped ==
    stop = "returned" /\ ~stopTimedOut => mon \in {"new", "ended"}

(* Monitor's steps and the timers but the learn timer are fair, goroutines   *)
(* in go-imap are not.                                                      *)
BoundedSpec ==
    /\ Spec
    /\ WF_vars(MonitorStep)
    /\ WF_vars(StopCloses \/ StopClosed \/ StopReturns)

(* A signal ends Monitor even if all of go-imap hangs: every wait has a      *)
(* timer.                                                                   *)
CancelEndsMonitor == ctxDone /\ mon # "new" ~> mon = "ended"

(* Stop returns even if all of go-imap hangs.                               *)
StopIsBounded == stop # "none" ~> stop = "returned"

(* Every goroutine is fair, also go-imap's, and so is the idle timer, not the *)
(* learn timer.  Go's select chooses at random between cases that are ready, *)
(* so that an event which is ready time and again is taken.                 *)
NothingHangs ==
    /\ WF_vars(Goroutines /\ UNCHANGED countVars)
    /\ WF_vars(MonitorCalled \/ StartPhase \/ PhaseResult \/ StartMonitor \/ StartResult)
    /\ WF_vars(StopIdleResult \/ TransportClosed \/ GraceExpires)
    /\ SF_vars(NewMessages) /\ WF_vars(SelectEnds) /\ WF_vars(IdleTimer)

(* If nothing hangs, a mail in the scan mailbox is scanned or the session   *)
(* ends: an EXISTS that arrives before newMessagesCh is set is made up for  *)
(* when IDLE is restarted.                                                  *)
NewMailIsNoticed == NothingHangs => (box > 0 ~> box = 0 \/ mon = "ended")
=============================================================================

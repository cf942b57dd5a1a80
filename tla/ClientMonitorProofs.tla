------------------------- MODULE ClientMonitorProofs -------------------------
(***************************************************************************)
(* Proofs about ClientMonitor for any number of mails, faults and timeouts:   *)
(* the goroutines of a Client, one of which may be abandoned in go-imap, do   *)
(* not meet on the event channel or on the transport, and Stop is final.     *)
(***************************************************************************)
EXTENDS ClientMonitor, SequenceTheorems, TLAPS

Plans == {SubSeq(runOnce, i, 3) : i \in 1..4}
           \cup {SubSeq(runPeriodicPass, i, 3) : i \in 1..4} \cup {<<"scan">>}

(* The buffers hold numbers of mails, and no mail is counted that did not    *)
(* arrive.                                                                  *)
Counts == /\ buf \in Seq(Nat) /\ update \in Seq(Nat)
          /\ box <= arrived

(* Monitor waits for the goroutine it has started last; when it gives up,   *)
(* that one may be left behind, and no other.                               *)
Waiting ==
    /\ mon \in {"new", "run", "select"} =>
         worker = "none" /\ starter = "none" /\ stopper = "none"
    /\ mon \in {"phase", "closePhase", "phaseGrace"} =>
         worker # "none" /\ starter = "none" /\ stopper = "none" /\ plan # <<>>
    /\ mon \in {"start", "closeStart"} =>
         worker = "none" /\ starter # "none" /\ stopper = "none"
    /\ mon \in {"stopping", "closeStop", "stopGrace"} =>
         worker = "none" /\ starter = "none" /\ stopper # "none"
    /\ mon = "ended" =>
         \/ worker = "none" /\ starter = "none"
         \/ worker = "none" /\ stopper = "none"
         \/ starter = "none" /\ stopper = "none"

(* While the handler may send to the channel IDLE is being started, runs or  *)
(* is being stopped; a channel that was closed meanwhile holds its event.    *)
Channel ==
    /\ newMessagesCh =>
         /\ ~chClosed
         /\ starter \in {"idle", "done"} \/ mon = "select" \/ stopper \in {"close", "setNil"}
    /\ starter = "setCh" => ~chClosed
    /\ starter = "idle" => newMessagesCh
    /\ stopper \in {"close", "setNil"} => newMessagesCh
    /\ chClosed /\ (starter = "done" \/ mon = "select") => buf # <<>>
    /\ idling =>
         /\ conn = "open" /\ newMessagesCh
         /\ starter = "done" \/ mon = "select" \/ stopper = "close"

(* wgRun counts Monitor; what Stop has cancelled stays cancelled.           *)
Stopping ==
    /\ running <=> mon \notin {"new", "ended"}
    /\ stop # "none" => ctxDone
    /\ stop = "returned" /\ ~stopTimedOut => ~running

MonitorInv == TypeOK /\ Counts /\ Waiting /\ Channel /\ Stopping

(* TypeOK, in parts that different provers understand.                      *)
Flags ==
    /\ ctxDone \in BOOLEAN /\ running \in BOOLEAN /\ stopFailed \in BOOLEAN
    /\ stopTimedOut \in BOOLEAN /\ newMessagesCh \in BOOLEAN /\ chClosed \in BOOLEAN
    /\ idling \in BOOLEAN /\ reported \in BOOLEAN

Points ==
    /\ mon \in {"new", "run", "phase", "closePhase", "phaseGrace", "start",
                "closeStart", "select", "stopping", "closeStop", "stopGrace", "ended"}
    /\ after \in {"loop", "periodic", "scan", "return"}
    /\ worker \in {"none", "running", "filing", "ok", "failed"}
    /\ starter \in {"none", "select", "setCh", "idle", "done", "failed"}
    /\ stopper \in {"none", "close", "setNil", "closeCh", "done"}
    /\ closer \in {"none", "closing", "closed", "done"}
    /\ stop \in {"none", "cancelled", "closing", "waiting", "returned"}
    /\ conn \in {"open", "closed"}

Buffers == Len(buf) <= ChanCap /\ Len(update) <= 1

Numbers ==
    /\ box \in 0..MaxMails /\ fetched \in 0..box /\ arrived \in 0..MaxMails
    /\ faults \in 0..MaxFaults /\ timeouts \in 0..MaxTimeouts

LEMMA TypeParts ==
    TypeOK <=> Flags /\ Points /\ plan \in Plans /\ Buffers /\ Numbers
<1>1. {ctxDone, running, stopFailed, stopTimedOut, newMessagesCh, chClosed, idling,
       reported} \subseteq BOOLEAN <=> Flags
  BY Zenon DEF Flags
<1> QED
  BY <1>1, Zenon DEF TypeOK, Points, Plans, Buffers, Numbers

LEMMA TypePartsPrime ==
    TypeOK' <=> Flags' /\ Points' /\ (plan \in Plans)' /\ Buffers' /\ Numbers'
<1>1. ({ctxDone, running, stopFailed, stopTimedOut, newMessagesCh, chClosed, idling,
       reported} \subseteq BOOLEAN)' <=> Flags'
  BY Zenon DEF Flags
<1> QED
  BY <1>1, Zenon DEF TypeOK, Points, Plans, Buffers, Numbers

(* The plans are runOnce and runPeriodicPass, as far as they are still to be *)
(* run.                                                                     *)
LEMMA PlanTail ==
    /\ <<>> \in Plans /\ runOnce \in Plans /\ runPeriodicPass \in Plans
    /\ <<"scan">> \in Plans
    /\ \A p \in Plans : p # <<>> => Tail(p) \in Plans
<1> DEFINE S == {"ham", "spam", "scan"}
<1>1. /\ runOnce \in Seq(S) /\ Len(runOnce) = 3
      /\ runPeriodicPass \in Seq(S) /\ Len(runPeriodicPass) = 3
  BY DEF runOnce, runPeriodicPass
<1> HIDE DEF S
<1>2. ASSUME NEW s \in Seq(S), Len(s) = 3
      PROVE  /\ SubSeq(s, 1, 3) = s /\ SubSeq(s, 4, 3) = <<>>
             /\ \A i \in 1..3 : Tail(SubSeq(s, i, 3)) = SubSeq(s, i + 1, 3)
  <2>1. SubSeq(s, 1, 3) = s
    BY <1>2, SubSeqFull, Zenon
  <2>2. SubSeq(s, 4, 3) = <<>>
    BY SubSeqEmpty
  <2>3. ASSUME NEW i \in 1..3 PROVE Tail(SubSeq(s, i, 3)) = SubSeq(s, i + 1, 3)
    <3>1. i \in 1..Len(s) /\ 3 \in i..Len(s)
      BY <1>2, <2>3
    <3> QED
      BY <3>1, HeadTailOfSubSeq
  <2> QED
    BY <2>1, <2>2, <2>3
<1>3. <<>> \in Plans /\ runOnce \in Plans /\ runPeriodicPass \in Plans
  BY <1>1, <1>2 DEF Plans
<1>4. <<"scan">> \in Plans
  BY DEF Plans
<1>5. ASSUME NEW p \in Plans, p # <<>> PROVE Tail(p) \in Plans
  <2>1. CASE p = <<"scan">>
    <3>1. Tail(p) = <<>>
      BY <2>1
    <3> QED
      BY <3>1, <1>3
  <2>2. CASE \E i \in 1..4 : p = SubSeq(runOnce, i, 3)
    <3>1. PICK i \in 1..4 : p = SubSeq(runOnce, i, 3)
      BY <2>2
    <3>2. i \in 1..3 /\ i + 1 \in 1..4
      BY <3>1, <1>1, <1>2, <1>5
    <3> QED
      BY <3>1, <3>2, <1>1, <1>2 DEF Plans
  <2>3. CASE \E i \in 1..4 : p = SubSeq(runPeriodicPass, i, 3)
    <3>1. PICK i \in 1..4 : p = SubSeq(runPeriodicPass, i, 3)
      BY <2>3
    <3>2. i \in 1..3 /\ i + 1 \in 1..4
      BY <3>1, <1>1, <1>2, <1>5
    <3> QED
      BY <3>1, <3>2, <1>1, <1>2 DEF Plans
  <2> QED
    BY <1>5, <2>1, <2>2, <2>3 DEF Plans
<1> QED
  BY <1>3, <1>4, <1>5

LEMMA InitMonitor == Init => MonitorInv
<1> SUFFICES ASSUME Init PROVE MonitorInv
  OBVIOUS
<1>1. Flags
  BY Zenon DEF Init, Flags
<1>2. Points
  BY DEF Init, Points
<1>3. plan \in Plans
  BY PlanTail DEF Init
<1>4. Buffers /\ Counts
  BY DEF Init, Buffers, Counts, ChanCap
<1>5. Numbers
  BY BoundAssumption DEF Init, Numbers
<1>6. Waiting /\ Channel /\ Stopping
  BY DEF Init, Waiting, Channel, Stopping
<1> QED
  BY <1>1, <1>2, <1>3, <1>4, <1>5, <1>6, TypeParts DEF MonitorInv

-----------------------------------------------------------------------------
(* What every step preserves.                                               *)

(* Every goroutine is at one of its steps.                                  *)
LEMMA PointsStep ==
    ASSUME Points, [Next]_vars
    PROVE  Points'
<1> USE DEF Points, clientVars, chanVars, boxVars, stopVars,
        idleVars, countVars, workVars
<1>1. CASE Server
  BY <1>1 DEF Server, Arrive, Removed, SendExists, ConnectionLost, Environment,
      Elsewhere
<1>2. CASE mailboxUpdateHandler \/ CloserStep
  BY <1>2 DEF mailboxUpdateHandler, CloserStep, Environment, Elsewhere
<1>3. CASE FetchScanBox \/ PhaseSucceeds \/ PhaseFails
  BY <1>3 DEF FetchScanBox, PhaseSucceeds, PhaseFails, Phase, InPhase
<1>4. CASE SelectMailbox \/ setNewMessagesCH \/ BeginIdle \/ StartFails
  BY <1>4 DEF SelectMailbox, setNewMessagesCH, BeginIdle, StartFails, Starter
<1>5. CASE EndIdle \/ CloseChannel
  BY <1>5 DEF EndIdle, CloseChannel, Stopper
<1>6. CASE MonitorCalled \/ StartPhase \/ PhaseResult \/ PhaseTimeout
  BY <1>6 DEF MonitorCalled, StartPhase, PhaseResult, PhaseTimeout, InPhase,
      closeTransport, Goto, End, Others
<1>7. CASE StartMonitor \/ StartResult \/ StartTimeout
  BY <1>7 DEF StartMonitor, StartResult, StartTimeout, closeTransport, Goto, End,
      Others
<1>8. CASE NewMessages \/ IdleTimer \/ LearnTimer \/ SelectEnds
  BY <1>8 DEF NewMessages, IdleTimer, LearnTimer, SelectEnds, StopIdleThen, Goto,
      Others
<1>9. CASE StopIdleResult \/ StopIdleTimeout
  BY <1>9 DEF StopIdleResult, StopIdleTimeout, closeTransport, Goto, End, Others
<1>10. CASE TransportClosed \/ GraceExpires
  BY <1>10 DEF TransportClosed, GraceExpires, InPhase, Goto, End, Others
<1>11. CASE Signal \/ Stop
  BY <1>11 DEF Signal, Stop, StopCalled, StopCloses, StopClosed, StopReturns,
      closeTransport, Shutdown
<1>12. CASE UNCHANGED vars
  BY <1>12 DEF vars
<1> QED
  BY <1>1, <1>2, <1>3, <1>4, <1>5, <1>6, <1>7, <1>8, <1>9, <1>10, <1>11, <1>12 DEF
      Next, Goroutines, Monitor, MonitorStep

LEMMA FlagsStep ==
    ASSUME Flags, [Next]_vars
    PROVE  Flags'
<1> USE DEF Flags, Fault, Deadline, clientVars, chanVars, boxVars, stopVars,
        idleVars, countVars, workVars
<1>1. CASE Server
  BY <1>1, Zenon DEF Server, Arrive, Removed, SendExists, ConnectionLost,
      Environment, Elsewhere
<1>2. CASE mailboxUpdateHandler \/ CloserStep
  BY <1>2, Zenon DEF mailboxUpdateHandler, CloserStep, Environment, Elsewhere
<1>3. CASE FetchScanBox \/ PhaseSucceeds \/ PhaseFails
  BY <1>3, Zenon DEF FetchScanBox, PhaseSucceeds, PhaseFails, Phase, InPhase
<1>4. CASE SelectMailbox \/ setNewMessagesCH \/ BeginIdle \/ StartFails
  BY <1>4, Zenon DEF SelectMailbox, setNewMessagesCH, BeginIdle, StartFails,
      Starter
<1>5. CASE EndIdle \/ CloseChannel
  BY <1>5, Zenon DEF EndIdle, CloseChannel, Stopper
<1>6. CASE MonitorCalled \/ StartPhase \/ PhaseResult \/ PhaseTimeout
  BY <1>6, Zenon DEF MonitorCalled, StartPhase, PhaseResult, PhaseTimeout, InPhase,
      closeTransport, Goto, End, Others
<1>7. CASE StartMonitor \/ StartResult \/ StartTimeout
  BY <1>7, Zenon DEF StartMonitor, StartResult, StartTimeout, closeTransport, Goto,
      End, Others
<1>8. CASE NewMessages \/ IdleTimer \/ LearnTimer \/ SelectEnds
  BY <1>8, Zenon DEF NewMessages, IdleTimer, LearnTimer, SelectEnds, StopIdleThen,
      Goto, Others
<1>9. CASE StopIdleResult \/ StopIdleTimeout
  BY <1>9, Zenon DEF StopIdleResult, StopIdleTimeout, closeTransport, Goto, End,
      Others
<1>10. CASE TransportClosed \/ GraceExpires
  BY <1>10, Zenon DEF TransportClosed, GraceExpires, InPhase, Goto, End, Others
<1>11. CASE Signal \/ Stop
  BY <1>11, Zenon DEF Signal, Stop, StopCalled, StopCloses, StopClosed,
      StopReturns, closeTransport, Shutdown
<1>12. CASE UNCHANGED vars
  BY <1>12, Zenon DEF vars
<1> QED
  BY <1>1, <1>2, <1>3, <1>4, <1>5, <1>6, <1>7, <1>8, <1>9, <1>10, <1>11, <1>12 DEF
      Next, Goroutines, Monitor, MonitorStep

(* No more mails are counted than arrived.                                  *)
LEMMA NumbersStep ==
    ASSUME Numbers, Counts, [Next]_vars
    PROVE  Numbers' /\ (box <= arrived)'
<1> USE BoundAssumption DEF Numbers, Counts, Fault, Deadline, clientVars, chanVars, boxVars, stopVars,
        idleVars, countVars, workVars
<1>1. CASE Server
  <2>1. CASE Arrive
    <3>1. arrived' \in 0..MaxMails /\ box' \in 0..MaxMails /\ box' <= arrived'
      BY <2>1 DEF Arrive
    <3>2. fetched' \in 0..box'
      BY <2>1 DEF Arrive, Environment
    <3> QED
      BY <2>1, <3>1, <3>2 DEF Arrive
  <2>2. CASE Removed
    BY <2>2 DEF Removed
  <2>3. CASE SendExists \/ ConnectionLost
    BY <2>3 DEF SendExists, ConnectionLost, Environment
  <2> QED
    BY <1>1, <2>1, <2>2, <2>3 DEF Server
<1>2. CASE mailboxUpdateHandler \/ CloserStep
  BY <1>2 DEF mailboxUpdateHandler, CloserStep, Environment, Elsewhere
<1>3. CASE FetchScanBox \/ PhaseSucceeds \/ PhaseFails
  BY <1>3 DEF FetchScanBox, PhaseSucceeds, PhaseFails, Phase, InPhase
<1>4. CASE SelectMailbox \/ setNewMessagesCH \/ BeginIdle \/ StartFails
  <2>1. CASE SelectMailbox \/ setNewMessagesCH
    BY <2>1 DEF SelectMailbox, setNewMessagesCH, Starter
  <2>2. CASE BeginIdle
    BY <2>2 DEF BeginIdle, Starter
  <2>3. CASE StartFails
    BY <2>3 DEF StartFails, Starter
  <2> QED
    BY <1>4, <2>1, <2>2, <2>3
<1>5. CASE EndIdle \/ CloseChannel
  BY <1>5 DEF EndIdle, CloseChannel, Stopper
<1>6. CASE MonitorCalled \/ StartPhase \/ PhaseResult \/ PhaseTimeout
  BY <1>6 DEF MonitorCalled, StartPhase, PhaseResult, PhaseTimeout, InPhase,
      closeTransport, Goto, End, Others
<1>7. CASE StartMonitor \/ StartResult \/ StartTimeout
  BY <1>7 DEF StartMonitor, StartResult, StartTimeout, closeTransport, Goto, End,
      Others
<1>8. CASE NewMessages \/ IdleTimer \/ LearnTimer \/ SelectEnds
  BY <1>8 DEF NewMessages, IdleTimer, LearnTimer, SelectEnds, StopIdleThen, Goto,
      Others
<1>9. CASE StopIdleResult \/ StopIdleTimeout
  BY <1>9 DEF StopIdleResult, StopIdleTimeout, closeTransport, Goto, End, Others
<1>10. CASE TransportClosed \/ GraceExpires
  BY <1>10 DEF TransportClosed, GraceExpires, InPhase, Goto, End, Others
<1>11. CASE Signal \/ Stop
  BY <1>11 DEF Signal, Stop, StopCalled, StopCloses, StopClosed, StopReturns,
      closeTransport, Shutdown
<1>12. CASE UNCHANGED vars
  BY <1>12 DEF vars
<1> QED
  BY <1>1, <1>2, <1>3, <1>4, <1>5, <1>6, <1>7, <1>8, <1>9, <1>10, <1>11, <1>12 DEF
      Next, Goroutines, Monitor, MonitorStep

LEMMA PlanStep ==
    ASSUME plan \in Plans, Points, Waiting, [Next]_vars
    PROVE  (plan \in Plans)'
<1> USE PlanTail DEF Points, Waiting, clientVars, chanVars, boxVars, stopVars,
        idleVars, countVars, workVars
<1>1. CASE Server
  BY <1>1 DEF Server, Arrive, Removed, SendExists, ConnectionLost, Environment,
      Elsewhere
<1>2. CASE mailboxUpdateHandler \/ CloserStep
  BY <1>2 DEF mailboxUpdateHandler, CloserStep, Environment, Elsewhere
<1>3. CASE FetchScanBox \/ PhaseSucceeds \/ PhaseFails
  BY <1>3 DEF FetchScanBox, PhaseSucceeds, PhaseFails, Phase, InPhase
<1>4. CASE SelectMailbox \/ setNewMessagesCH \/ BeginIdle \/ StartFails
  BY <1>4 DEF SelectMailbox, setNewMessagesCH, BeginIdle, StartFails, Starter
<1>5. CASE EndIdle \/ CloseChannel
  BY <1>5 DEF EndIdle, CloseChannel, Stopper
<1>6. CASE MonitorCalled \/ StartPhase \/ PhaseResult \/ PhaseTimeout
  BY <1>6 DEF MonitorCalled, StartPhase, PhaseResult, PhaseTimeout, InPhase,
      closeTransport, Goto, End, Others
<1>7. CASE StartMonitor \/ StartResult \/ StartTimeout
  BY <1>7 DEF StartMonitor, StartResult, StartTimeout, closeTransport, Goto, End,
      Others
<1>8. CASE NewMessages \/ IdleTimer \/ LearnTimer \/ SelectEnds
  BY <1>8 DEF NewMessages, IdleTimer, LearnTimer, SelectEnds, StopIdleThen, Goto,
      Others
<1>9. CASE StopIdleResult \/ StopIdleTimeout
  BY <1>9 DEF StopIdleResult, StopIdleTimeout, closeTransport, Goto, End, Others
<1>10. CASE TransportClosed \/ GraceExpires
  BY <1>10 DEF TransportClosed, GraceExpires, InPhase, Goto, End, Others
<1>11. CASE Signal \/ Stop
  BY <1>11 DEF Signal, Stop, StopCalled, StopCloses, StopClosed, StopReturns,
      closeTransport, Shutdown
<1>12. CASE UNCHANGED vars
  BY <1>12 DEF vars
<1> QED
  BY <1>1, <1>2, <1>3, <1>4, <1>5, <1>6, <1>7, <1>8, <1>9, <1>10, <1>11, <1>12 DEF
      Next, Goroutines, Monitor, MonitorStep

LEMMA BuffersStep ==
    ASSUME Buffers, Counts, Numbers, [Next]_vars
    PROVE  Buffers' /\ (buf \in Seq(Nat))' /\ (update \in Seq(Nat))'
<1> USE DEF Buffers, Counts, Numbers, ChanCap, clientVars, chanVars, boxVars, stopVars,
        idleVars, countVars, workVars
<1>1. CASE Server
  <2>1. CASE SendExists
    <3>1. <<box>> \in Seq(Nat) /\ Len(<<box>>) = 1
      OBVIOUS
    <3> QED
      BY <2>1, <3>1 DEF SendExists
  <2>2. CASE ~SendExists
    BY <1>1, <2>2 DEF Server, Arrive, Removed, ConnectionLost
  <2> QED
    BY <2>1, <2>2
<1>2. CASE mailboxUpdateHandler \/ CloserStep
  <2>1. CASE mailboxUpdateHandler
    <3>1. <<>> \in Seq(Nat) /\ Len(<<>>) = 0
      OBVIOUS
    <3>2. /\ buf \o update \in Seq(Nat)
          /\ Len(buf \o update) = Len(buf) + Len(update)
      BY ConcatProperties
    <3>3. Len(buf) \in Nat /\ Len(update) \in Nat
      BY LenProperties
    <3> QED
      BY <2>1, <3>1, <3>2, <3>3 DEF mailboxUpdateHandler
  <2>2. CASE CloserStep
    BY <2>2 DEF CloserStep
  <2> QED
    BY <1>2, <2>1, <2>2
<1>3. CASE FetchScanBox \/ PhaseSucceeds \/ PhaseFails
  BY <1>3 DEF FetchScanBox, PhaseSucceeds, PhaseFails, Phase, InPhase
<1>4. CASE SelectMailbox \/ setNewMessagesCH \/ BeginIdle \/ StartFails
  <2>1. CASE SelectMailbox
    <3>1. <<box>> \in Seq(Nat) /\ Len(<<box>>) = 1
      OBVIOUS
    <3>2. <<>> \in Seq(Nat) /\ Len(<<>>) = 0
      OBVIOUS
    <3>3. buf' = <<box>> \/ buf' = <<>>
      BY <2>1 DEF SelectMailbox
    <3>4. update' = update
      BY <2>1 DEF SelectMailbox, Starter
    <3>5. buf' \in Seq(Nat) /\ (Len(buf') = 0 \/ Len(buf') = 1)
      BY <3>1, <3>2, <3>3, Zenon
    <3>6. Len(buf') <= ChanCap
      <4>1. 0 <= 1 /\ 1 <= 1
        OBVIOUS
      <4> QED
        BY <3>5, <4>1, Zenon
    <3> QED
      BY <3>4, <3>5, <3>6, Zenon
  <2>2. CASE ~SelectMailbox
    BY <1>4, <2>2 DEF setNewMessagesCH, BeginIdle, StartFails, Starter
  <2> QED
    BY <2>1, <2>2
<1>5. CASE EndIdle \/ CloseChannel
  BY <1>5 DEF EndIdle, CloseChannel, Stopper
<1>6. CASE MonitorCalled \/ StartPhase \/ PhaseResult \/ PhaseTimeout
  BY <1>6 DEF MonitorCalled, StartPhase, PhaseResult, PhaseTimeout, InPhase,
      closeTransport, Goto, End, Others
<1>7. CASE StartMonitor \/ StartResult \/ StartTimeout
  BY <1>7 DEF StartMonitor, StartResult, StartTimeout, closeTransport, Goto, End,
      Others
<1>8. CASE NewMessages \/ IdleTimer \/ LearnTimer \/ SelectEnds
  BY <1>8 DEF NewMessages, IdleTimer, LearnTimer, SelectEnds, StopIdleThen, Goto,
      Others
<1>9. CASE StopIdleResult \/ StopIdleTimeout
  <2>1. <<>> \in Seq(Nat) /\ Len(<<>>) = 0
    OBVIOUS
  <2>2. buf' = <<>> \/ buf' = buf
    BY <1>9 DEF StopIdleResult, StopIdleTimeout
  <2>3. update' = update
    BY <1>9 DEF StopIdleResult, StopIdleTimeout, Others
  <2>4. buf' \in Seq(Nat) /\ (Len(buf') = 0 \/ Len(buf') = Len(buf))
    BY <2>1, <2>2, Zenon
  <2> QED
    BY <2>3, <2>4
<1>10. CASE TransportClosed \/ GraceExpires
  BY <1>10 DEF TransportClosed, GraceExpires, InPhase, Goto, End, Others
<1>11. CASE Signal \/ Stop
  BY <1>11 DEF Signal, Stop, StopCalled, StopCloses, StopClosed, StopReturns,
      closeTransport, Shutdown
<1>12. CASE UNCHANGED vars
  BY <1>12 DEF vars
<1> QED
  BY <1>1, <1>2, <1>3, <1>4, <1>5, <1>6, <1>7, <1>8, <1>9, <1>10, <1>11, <1>12 DEF
      Next, Goroutines, Monitor, MonitorStep

(* Monitor has at most one goroutine besides the closer.                    *)
LEMMA WaitingStep ==
    ASSUME Points, Waiting, [Next]_vars
    PROVE  Waiting'
<1> USE DEF Points, Waiting, clientVars, chanVars, boxVars, stopVars,
        idleVars, countVars, workVars
<1>1. CASE Server
  BY <1>1 DEF Server, Arrive, Removed, SendExists, ConnectionLost, Environment,
      Elsewhere
<1>2. CASE mailboxUpdateHandler \/ CloserStep
  BY <1>2 DEF mailboxUpdateHandler, CloserStep, Environment, Elsewhere
<1>3. CASE FetchScanBox \/ PhaseSucceeds \/ PhaseFails
  BY <1>3 DEF FetchScanBox, PhaseSucceeds, PhaseFails, Phase, InPhase
<1>4. CASE SelectMailbox \/ setNewMessagesCH \/ BeginIdle \/ StartFails
  BY <1>4 DEF SelectMailbox, setNewMessagesCH, BeginIdle, StartFails, Starter
<1>5. CASE EndIdle \/ CloseChannel
  BY <1>5 DEF EndIdle, CloseChannel, Stopper
<1>6. CASE MonitorCalled \/ StartPhase \/ PhaseResult \/ PhaseTimeout
  BY <1>6 DEF MonitorCalled, StartPhase, PhaseResult, PhaseTimeout, InPhase,
      closeTransport, Goto, End, Others
<1>7. CASE StartMonitor \/ StartResult \/ StartTimeout
  BY <1>7 DEF StartMonitor, StartResult, StartTimeout, closeTransport, Goto, End,
      Others
<1>8. CASE NewMessages \/ IdleTimer \/ LearnTimer \/ SelectEnds
  BY <1>8 DEF NewMessages, IdleTimer, LearnTimer, SelectEnds, StopIdleThen, Goto,
      Others
<1>9. CASE StopIdleResult \/ StopIdleTimeout
  BY <1>9 DEF StopIdleResult, StopIdleTimeout, closeTransport, Goto, End, Others
<1>10. CASE TransportClosed \/ GraceExpires
  BY <1>10 DEF TransportClosed, GraceExpires, InPhase, Goto, End, Others
<1>11. CASE Signal \/ Stop
  BY <1>11 DEF Signal, Stop, StopCalled, StopCloses, StopClosed, StopReturns,
      closeTransport, Shutdown
<1>12. CASE UNCHANGED vars
  BY <1>12 DEF vars
<1> QED
  BY <1>1, <1>2, <1>3, <1>4, <1>5, <1>6, <1>7, <1>8, <1>9, <1>10, <1>11, <1>12 DEF
      Next, Goroutines, Monitor, MonitorStep

LEMMA ChannelStep ==
    ASSUME Points, Counts, Waiting, Channel, [Next]_vars
    PROVE  Channel'
<1> USE DEF Points, Counts, Waiting, Channel, clientVars, chanVars, boxVars, stopVars,
        idleVars, countVars, workVars
<1>1. CASE Server
  BY <1>1 DEF Server, Arrive, Removed, SendExists, ConnectionLost, Environment,
      Elsewhere
<1>2. CASE mailboxUpdateHandler \/ CloserStep
  BY <1>2 DEF mailboxUpdateHandler, CloserStep, Environment, Elsewhere
<1>3. CASE FetchScanBox \/ PhaseSucceeds \/ PhaseFails
  BY <1>3 DEF FetchScanBox, PhaseSucceeds, PhaseFails, Phase, InPhase
<1>4. CASE SelectMailbox \/ setNewMessagesCH \/ BeginIdle \/ StartFails
  <2>1. CASE SelectMailbox
    <3>1. <<box>> # <<>>
      OBVIOUS
    <3> QED
      BY <2>1, <3>1 DEF SelectMailbox, Starter
  <2>2. CASE setNewMessagesCH
    BY <2>2 DEF setNewMessagesCH, Starter
  <2>3. CASE BeginIdle
    BY <2>3 DEF BeginIdle, Starter
  <2>4. CASE StartFails
    BY <2>4 DEF StartFails, Starter
  <2> QED
    BY <1>4, <2>1, <2>2, <2>3, <2>4
<1>5. CASE EndIdle \/ CloseChannel
  BY <1>5 DEF EndIdle, CloseChannel, Stopper
<1>6. CASE MonitorCalled \/ StartPhase \/ PhaseResult \/ PhaseTimeout
  BY <1>6 DEF MonitorCalled, StartPhase, PhaseResult, PhaseTimeout, InPhase,
      closeTransport, Goto, End, Others
<1>7. CASE StartMonitor \/ StartResult \/ StartTimeout
  BY <1>7 DEF StartMonitor, StartResult, StartTimeout, closeTransport, Goto, End,
      Others
<1>8. CASE NewMessages \/ IdleTimer \/ LearnTimer \/ SelectEnds
  <2>1. mon = "select" /\ mon' = "stopping" /\ starter' = starter
    BY <1>8 DEF NewMessages, IdleTimer, LearnTimer, SelectEnds, StopIdleThen, Goto
  <2>2. stopper' = IF newMessagesCh THEN "close" ELSE "done"
    BY <1>8 DEF NewMessages, IdleTimer, LearnTimer, SelectEnds, StopIdleThen
  <2>3. UNCHANGED <<newMessagesCh, chClosed, conn, idling>>
    BY <1>8 DEF NewMessages, IdleTimer, LearnTimer, SelectEnds, StopIdleThen, Others
  <2> QED
    BY <2>1, <2>2, <2>3
<1>9. CASE StopIdleResult \/ StopIdleTimeout
  BY <1>9 DEF StopIdleResult, StopIdleTimeout, closeTransport, Goto, End, Others
<1>10. CASE TransportClosed \/ GraceExpires
  <2>1. /\ mon \notin {"select"} /\ mon' \notin {"select"}
        /\ UNCHANGED <<starter, stopper, newMessagesCh, chClosed, buf, conn, idling>>
    BY <1>10 DEF TransportClosed, GraceExpires, Goto, End, Others
  <2> QED
    BY <2>1
<1>11. CASE Signal \/ Stop
  BY <1>11 DEF Signal, Stop, StopCalled, StopCloses, StopClosed, StopReturns,
      closeTransport, Shutdown
<1>12. CASE UNCHANGED vars
  BY <1>12 DEF vars
<1> QED
  BY <1>1, <1>2, <1>3, <1>4, <1>5, <1>6, <1>7, <1>8, <1>9, <1>10, <1>11, <1>12 DEF
      Next, Goroutines, Monitor, MonitorStep

LEMMA StoppingStep ==
    ASSUME Points, Flags, Stopping, [Next]_vars
    PROVE  Stopping'
<1> USE DEF Points, Flags, Stopping, clientVars, chanVars, boxVars, stopVars,
        idleVars, countVars, workVars
<1>1. CASE Server
  BY <1>1 DEF Server, Arrive, Removed, SendExists, ConnectionLost, Environment,
      Elsewhere
<1>2. CASE mailboxUpdateHandler \/ CloserStep
  BY <1>2 DEF mailboxUpdateHandler, CloserStep, Environment, Elsewhere
<1>3. CASE FetchScanBox \/ PhaseSucceeds \/ PhaseFails
  BY <1>3 DEF FetchScanBox, PhaseSucceeds, PhaseFails, Phase, InPhase
<1>4. CASE SelectMailbox \/ setNewMessagesCH \/ BeginIdle \/ StartFails
  BY <1>4 DEF SelectMailbox, setNewMessagesCH, BeginIdle, StartFails, Starter
<1>5. CASE EndIdle \/ CloseChannel
  BY <1>5 DEF EndIdle, CloseChannel, Stopper
<1>6. CASE MonitorCalled \/ StartPhase \/ PhaseResult \/ PhaseTimeout
  BY <1>6 DEF MonitorCalled, StartPhase, PhaseResult, PhaseTimeout, InPhase,
      closeTransport, Goto, End, Others
<1>7. CASE StartMonitor \/ StartResult \/ StartTimeout
  BY <1>7 DEF StartMonitor, StartResult, StartTimeout, closeTransport, Goto, End,
      Others
<1>8. CASE NewMessages \/ IdleTimer \/ LearnTimer \/ SelectEnds
  BY <1>8 DEF NewMessages, IdleTimer, LearnTimer, SelectEnds, StopIdleThen, Goto,
      Others
<1>9. CASE StopIdleResult \/ StopIdleTimeout
  BY <1>9 DEF StopIdleResult, StopIdleTimeout, closeTransport, Goto, End, Others
<1>10. CASE TransportClosed \/ GraceExpires
  BY <1>10 DEF TransportClosed, GraceExpires, InPhase, Goto, End, Others
<1>11. CASE Signal \/ Stop
  BY <1>11 DEF Signal, Stop, StopCalled, StopCloses, StopClosed, StopReturns,
      closeTransport, Shutdown
<1>12. CASE UNCHANGED vars
  BY <1>12 DEF vars
<1> QED
  BY <1>1, <1>2, <1>3, <1>4, <1>5, <1>6, <1>7, <1>8, <1>9, <1>10, <1>11, <1>12 DEF
      Next, Goroutines, Monitor, MonitorStep

LEMMA MonitorInvStep == MonitorInv /\ [Next]_vars => MonitorInv'
<1> SUFFICES ASSUME MonitorInv, [Next]_vars PROVE MonitorInv'
  OBVIOUS
<1>1. /\ Flags /\ Points /\ plan \in Plans /\ Buffers /\ Numbers
      /\ Counts /\ Waiting /\ Channel /\ Stopping
  BY TypeParts DEF MonitorInv
<1>2. TypeOK'
  BY <1>1, TypePartsPrime, FlagsStep, PointsStep, PlanStep, BuffersStep, NumbersStep
<1>3. Counts'
  BY <1>1, BuffersStep, NumbersStep DEF Counts
<1>4. Waiting' /\ Channel' /\ Stopping'
  BY <1>1, WaitingStep, ChannelStep, StoppingStep
<1> QED
  BY <1>2, <1>3, <1>4 DEF MonitorInv

(* The inductive invariant of a Client and its goroutines.                  *)
LEMMA MonitorInvariant == Spec => []MonitorInv
<1>1. Init => MonitorInv
  BY InitMonitor
<1>2. MonitorInv /\ [Next]_vars => MonitorInv'
  BY MonitorInvStep
<1> QED
  BY <1>1, <1>2, PTL DEF Spec

(* Monitor, its goroutines and Stop are always at one of their steps, and    *)
(* mailboxUpdateHandler never overfills the event channel, for any number of *)
(* mails, faults and timeouts.                                              *)
THEOREM MonitorTypeCorrect == Spec => []TypeOK
<1>1. MonitorInv => TypeOK
  BY DEF MonitorInv
<1> QED
  BY <1>1, MonitorInvariant, PTL

(* mailboxUpdateHandler never sends on a closed channel: it does not panic,  *)
(* whatever goroutine of startMonitor or stopIDLE was abandoned and goes on  *)
(* after its timeout.                                                       *)
THEOREM HandlerNeverPanics == Spec => []NoSendOnClosedChannel
<1>1. MonitorInv => NoSendOnClosedChannel
  BY DEF MonitorInv, Channel, NoSendOnClosedChannel
<1> QED
  BY <1>1, MonitorInvariant, PTL

(* A phase and IDLE never use the transport at the same time: Monitor starts *)
(* a phase only after the goroutine of stopIDLE has returned.               *)
THEOREM TransportExclusive == Spec => []TransportHasOneUser
<1>1. MonitorInv => TransportHasOneUser
  <2> SUFFICES ASSUME Points, Waiting, Channel, InPhase
               PROVE  /\ ~idling
                      /\ starter \notin {"select", "setCh", "idle"}
                      /\ stopper # "close"
    BY TypeParts DEF MonitorInv, TransportHasOneUser
  <2>1. starter = "none" /\ stopper = "none" /\ mon # "select"
    BY DEF Points, Waiting, InPhase
  <2> QED
    BY <2>1 DEF Channel
<1> QED
  BY <1>1, MonitorInvariant, PTL

(* The select of Monitor never spins on a channel that is closed and empty. *)
THEOREM SelectNeverSpins == Spec => []EventChannelLives
<1>1. MonitorInv => EventChannelLives
  BY DEF MonitorInv, Channel, EventChannelLives
<1> QED
  BY <1>1, MonitorInvariant, PTL

(* A Stop that returns without a timeout is final: Monitor has returned and  *)
(* no phase is ever started again on this client.                           *)
THEOREM StopIsFinal == Spec => []StoppedIsStopped
<1>1. MonitorInv => StoppedIsStopped
  BY DEF MonitorInv, Stopping, StoppedIsStopped
<1> QED
  BY <1>1, MonitorInvariant, PTL
=============================================================================

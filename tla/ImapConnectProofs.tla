--------------------------- MODULE ImapConnectProofs ---------------------------
(***************************************************************************)
(* Proofs about ImapConnect for any number of attempts and faults: no path   *)
(* of ConnectContext leaks a connection, and the password is only written    *)
(* to connections the configuration allows.                                 *)
(***************************************************************************)
EXTENDS ImapConnect, FiniteSetTheorems, TLAPS

(* Whom an open connection belongs to.                                      *)
Owned(c) ==
    \/ pc \in {"handshake", "starttls"} /\ c = rawConn
    \/ pc \in {"login", "connected", "session"} /\ c = clt

(* A connection LOGIN may be written to.                                    *)
Allowed(c) ==
    \/ c \in secure
    \/ /\ allowInsecure /\ ~implicit /\ c[2] = 2
       /\ starter[c[1]] = "unsupported"

(* What is to come has not been touched.                                    *)
Fresh ==
    \A a \in Attempt : a > attempt \/ (a = attempt /\ pc = "dial") =>
      /\ starter[a] = "none" /\ login[a] = "none"
      /\ conn[<<a, 1>>] = "none" /\ conn[<<a, 2>>] = "none"

(* Until LOGIN there is one connection, and NewStartTLS closes the one it   *)
(* fails on.                                                                *)
Setup ==
    /\ pc \in {"handshake", "starttls", "dialInsecure"} =>
         login[attempt] = "none" /\ conn[<<attempt, 2>>] = "none"
    /\ pc \in {"starttls", "dialInsecure"} => ~implicit
    /\ pc = "dialInsecure" => allowInsecure /\ starter[attempt] = "unsupported"
    /\ \A a \in Attempt : starter[a] \in {"unsupported", "failed"} =>
                            conn[<<a, 1>>] = "closed"
    /\ \A a \in Attempt : starter[a] = "ok" => <<a, 1>> \in secure
    /\ \A a \in Attempt : starter[a] # "none" => conn[<<a, 1>>] # "none"
    /\ \A c \in Conn : reader[c] # "none" => conn[c] # "none"
    /\ pc \in {"handshake", "starttls"} => conn[rawConn] # "none"
    /\ pc \in {"login", "connected", "session"} => conn[clt] # "none"

OpenOwned == \A c \in Open : Owned(c)
LoginAllowed == /\ \A a \in Attempt : login[a] # "none" => Allowed(LoginConn(a))
                /\ \A c \in sent : Allowed(c)

ConnectInv == TypeOK /\ Fresh /\ Setup /\ OpenOwned /\ LoginAllowed

LEMMA InitConnect == Init => ConnectInv
<1> SUFFICES ASSUME Init PROVE ConnectInv
  OBVIOUS
<1> USE BoundAssumption DEF Init
<1>1. TypeOK
  <2>1. /\ implicit \in BOOLEAN /\ allowInsecure \in BOOLEAN /\ once \in BOOLEAN
        /\ stopped \in BOOLEAN /\ ctxDone \in BOOLEAN
    BY Zenon
  <2>2. attempt \in Attempt /\ faults \in 0..MaxFaults
    BY DEF Attempt
  <2> QED
    BY <2>1, <2>2 DEF TypeOK
<1>2. Fresh /\ Setup
  BY DEF Fresh, Setup, Attempt, Conn
<1>3. OpenOwned /\ LoginAllowed
  BY DEF OpenOwned, Open, LoginAllowed
<1> QED
  BY <1>1, <1>2, <1>3 DEF ConnectInv

(* The pieces of TypeOK that are about the environment of ConnectContext.    *)
LEMMA TypeStep == TypeOK /\ [Next]_vars => TypeOK'
<1> SUFFICES ASSUME TypeOK, [Next]_vars PROVE TypeOK'
  OBVIOUS
<1> USE BoundAssumption, NoConnAssumption DEF TypeOK, Fault, NoFault
<1>a. rawConn \in Conn /\ <<attempt, 2>> \in Conn
  BY DEF rawConn, Conn
<1>b. \A a \in Attempt : <<a, 1>> \in Conn /\ <<a, 2>> \in Conn /\ LoginConn(a) \in Conn
  BY DEF Conn, LoginConn
<1>1. CASE Timeout \/ Signal
  <2>1. stopped' \in BOOLEAN /\ ctxDone' \in BOOLEAN
    BY <1>1, Zenon DEF Timeout, Signal
  <2> QED
    BY <1>1, <2>1 DEF Timeout, Signal, configVars, mainVars, netVars
<1>12. ASSUME NEW c \in Conn, PeerCloses(c) PROVE TypeOK'
  BY <1>12 DEF PeerCloses, configVars, mainVars, ctxVars
<1>2. ASSUME NEW c \in Conn, ReaderEnds(c) PROVE TypeOK'
  BY <1>2 DEF ReaderEnds, Closed, Goroutine, configVars, mainVars, ctxVars
<1>3. ASSUME NEW a \in Attempt, StartTLSAccepted(a) \/ StartTLSDone(a) PROVE TypeOK'
  BY <1>3, <1>b DEF StartTLSAccepted, StartTLSDone, Starter, Goroutine, configVars,
     mainVars, ctxVars
<1>13. ASSUME NEW a \in Attempt, StartTLSNotSupported(a) PROVE TypeOK'
  <2>1. conn' \in [Conn -> {"none", "open", "closed"}]
    BY <1>13, <1>b DEF StartTLSNotSupported, Closed
  <2>2. starter' \in [Attempt -> {"none", "sent", "tls", "ok", "unsupported", "failed"}]
    BY <1>13 DEF StartTLSNotSupported, Starter
  <2>3. faults' \in 0..MaxFaults
    BY <1>13 DEF StartTLSNotSupported
  <2> QED
    BY <1>13, <2>1, <2>2, <2>3 DEF StartTLSNotSupported, Goroutine, configVars, mainVars, ctxVars
<1>14. ASSUME NEW a \in Attempt, StartTLSFails(a) PROVE TypeOK'
  <2>1. conn' \in [Conn -> {"none", "open", "closed"}]
    BY <1>14, <1>b DEF StartTLSFails, Closed
  <2>2. starter' \in [Attempt -> {"none", "sent", "tls", "ok", "unsupported", "failed"}]
    BY <1>14 DEF StartTLSFails, Starter
  <2>3. faults' \in 0..MaxFaults
    BY <1>14 DEF StartTLSFails
  <2> QED
    BY <1>14, <2>1, <2>2, <2>3 DEF StartTLSFails, Goroutine, configVars, mainVars, ctxVars
<1>4. ASSUME NEW a \in Attempt, LoginSend(a) \/ LoginBroken(a) PROVE TypeOK'
  BY <1>4, <1>b DEF LoginSend, LoginBroken, Goroutine, configVars, mainVars, ctxVars
<1>15. ASSUME NEW a \in Attempt, LoginAnswered(a) PROVE TypeOK'
  BY <1>15, <1>b DEF LoginAnswered, Goroutine, configVars, mainVars, ctxVars
<1>5. CASE Dial \/ DialFails
  BY <1>5, <1>a DEF Dial, DialFails, Dialed, Starter, NewReader, Return, Main, netVars,
     configVars, ctxVars
<1>6. CASE Handshake \/ HandshakeFails
  BY <1>6, <1>a DEF Handshake, HandshakeFails, NewReader, StartLogin, Closed, Return,
     Main, configVars, ctxVars
<1>7. CASE StartTLSResult \/ FallBack \/ StartTLSCancelled
  BY <1>7, <1>a DEF StartTLSResult, FallBack, StartTLSCancelled, StartLogin, Closed,
     Return, Main, netVars, configVars, ctxVars
<1>8. CASE DialInsecure \/ LoginOk \/ LoginFails \/ CloseDone
  BY <1>8, <1>a DEF DialInsecure, LoginOk, LoginFails, CloseDone, Dialed, NewReader,
     StartLogin, Closed, Return, Main, netVars, configVars, ctxVars
<1>9. CASE NewIscanClient \/ SessionEnds
  BY <1>9 DEF NewIscanClient, SessionEnds, Closed, Return, Main, configVars, ctxVars
<1>10. CASE Retry
  <2>1. ctxDone' \in BOOLEAN
    BY <1>10, Zenon DEF Retry
  <2>2. attempt' \in Attempt
    BY <1>10 DEF Retry, Attempt
  <2> QED
    BY <1>10, <2>1, <2>2 DEF Retry, netVars, configVars
<1>16. CASE Exit
  BY <1>16 DEF Exit, Main, netVars, configVars, ctxVars
<1>11. CASE UNCHANGED vars
  BY <1>11 DEF vars, configVars, mainVars, ctxVars, netVars
<1> QED
  BY <1>1, <1>2, <1>3, <1>4, <1>5, <1>6, <1>7, <1>8, <1>9, <1>10, <1>11,
     <1>12, <1>13, <1>14, <1>15, <1>16
     DEF Next, ConnectContext, Goroutines

(* Steps that leave main, the connections and their owners alone.           *)
LEMMA GoroutineStep ==
    ASSUME ConnectInv, UNCHANGED <<configVars, mainVars>>,
           \A a \in Attempt : login'[a] = "none" <=> login[a] = "none",
           \A c \in Conn : reader'[c] = "none" <=> reader[c] = "none",
           \A c \in sent' : c \in sent \/ \E a \in Attempt : login[a] # "none" /\ c = LoginConn(a),
           secure \subseteq secure',
           \A c \in Conn : conn'[c] # conn[c] => conn[c] # "none" /\ conn'[c] = "closed",
           \A a \in Attempt :
             \/ starter'[a] = starter[a]
             \/ /\ starter[a] \in {"sent", "tls"} /\ starter'[a] # "none"
                /\ starter'[a] \in {"unsupported", "failed"} => conn'[<<a, 1>>] = "closed"
                /\ starter'[a] = "ok" => <<a, 1>> \in secure'
    PROVE  Fresh' /\ Setup' /\ OpenOwned' /\ LoginAllowed'
<1> USE DEF ConnectInv, configVars, mainVars
<1>a. \A a \in Attempt : <<a, 1>> \in Conn /\ <<a, 2>> \in Conn
  BY DEF Conn
<1>b. \A c \in Conn : conn'[c] = "none" <=> conn[c] = "none"
  OBVIOUS
<1>c. attempt \in Attempt
  BY DEF TypeOK
<1>1. Fresh'
  BY <1>a, <1>b DEF Fresh
<1>2. Setup'
  <2>1. /\ pc' \in {"handshake", "starttls", "dialInsecure"} =>
             login'[attempt'] = "none" /\ conn'[<<attempt', 2>>] = "none"
        /\ pc' \in {"starttls", "dialInsecure"} => ~implicit'
        /\ pc' = "dialInsecure" => allowInsecure' /\ starter'[attempt'] = "unsupported"
    BY <1>a, <1>b, <1>c DEF Setup
  <2>5. /\ pc' \in {"handshake", "starttls"} => conn'[rawConn'] # "none"
        /\ pc' \in {"login", "connected", "session"} => conn'[clt'] # "none"
    <3>1. rawConn' = rawConn /\ rawConn \in Conn
      BY <1>a, <1>c DEF rawConn
    <3>2. pc \in {"login", "connected", "session"} => clt \in Conn
      BY DEF TypeOK
    <3> QED
      BY <1>b, <3>1, <3>2 DEF Setup
  <2>2. \A a \in Attempt : starter'[a] \in {"unsupported", "failed"} =>
                             conn'[<<a, 1>>] = "closed"
    <3> SUFFICES ASSUME NEW a \in Attempt, starter'[a] \in {"unsupported", "failed"}
                 PROVE  conn'[<<a, 1>>] = "closed"
      OBVIOUS
    <3>1. CASE starter'[a] = starter[a]
      <4>1. conn[<<a, 1>>] = "closed" /\ <<a, 1>> \in Conn
        BY <1>a, <3>1 DEF Setup
      <4> QED
        BY <4>1
    <3> QED
      BY <3>1
  <2>3. \A a \in Attempt : starter'[a] = "ok" => <<a, 1>> \in secure'
    BY DEF Setup
  <2>4. /\ \A a \in Attempt : starter'[a] # "none" => conn'[<<a, 1>>] # "none"
        /\ \A c \in Conn : reader'[c] # "none" => conn'[c] # "none"
    <3>1. ASSUME NEW a \in Attempt, starter'[a] # "none" PROVE conn'[<<a, 1>>] # "none"
      <4>1. starter[a] # "none"
        BY <3>1
      <4>2. conn[<<a, 1>>] # "none"
        BY <4>1 DEF Setup
      <4>3. <<a, 1>> \in Conn
        BY <1>a
      <4> QED
        BY <1>b, <4>2, <4>3
    <3>2. ASSUME NEW c \in Conn, reader'[c] # "none" PROVE conn'[c] # "none"
      BY <1>b, <3>2 DEF Setup
    <3> QED
      BY <3>1, <3>2
  <2> QED
    BY <2>1, <2>2, <2>3, <2>4, <2>5 DEF Setup
<1>3. OpenOwned'
  BY DEF OpenOwned, Open, Owned, rawConn
<1>4. \A a \in Attempt : LoginConn(a)' = LoginConn(a)
  BY <1>a, <1>b DEF LoginConn
<1>5. ASSUME NEW c \in Conn, Allowed(c) PROVE Allowed(c)'
  <2>1. c[1] \in Attempt
    BY DEF Conn
  <2> QED
    BY <1>5, <2>1 DEF Allowed
<1>6. \A a \in Attempt : LoginConn(a) \in Conn
  BY <1>a DEF LoginConn
<1>7. LoginAllowed'
  <2>1. \A a \in Attempt : login'[a] # "none" => Allowed(LoginConn(a))'
    BY <1>4, <1>5, <1>6 DEF LoginAllowed
  <2>2. \A c \in sent' : c \in Conn /\ Allowed(c)
    BY <1>6 DEF LoginAllowed, TypeOK
  <2> QED
    BY <1>5, <2>1, <2>2 DEF LoginAllowed
<1> QED
  BY <1>1, <1>2, <1>3, <1>7

LEMMA EnvironmentStep ==
    ASSUME ConnectInv,
           \/ Timeout \/ Signal \/ (\E c \in Conn : PeerCloses(c)) \/ Goroutines
    PROVE  Fresh' /\ Setup' /\ OpenOwned' /\ LoginAllowed'
<1> USE DEF ConnectInv, configVars, mainVars, netVars
<1>a. \A a \in Attempt : <<a, 1>> \in Conn
  BY DEF Conn
<1>t. /\ starter \in [Attempt -> {"none", "sent", "tls", "ok", "unsupported", "failed"}]
      /\ login \in [Attempt -> {"none", "sending", "sent", "ok", "failed"}]
      /\ reader \in [Conn -> {"none", "running", "ended"}]
      /\ conn \in [Conn -> {"none", "open", "closed"}]
  BY DEF TypeOK
<1>s. /\ \A a \in Attempt : starter[a] # "none" => conn[<<a, 1>>] # "none"
      /\ \A c \in Conn : reader[c] # "none" => conn[c] # "none"
  BY DEF Setup
<1>1. CASE Timeout \/ Signal \/ \E c \in Conn : PeerCloses(c)
  BY <1>1, GoroutineStep DEF Timeout, Signal, PeerCloses
<1>2. ASSUME NEW c \in Conn, ReaderEnds(c)
      PROVE  Fresh' /\ Setup' /\ OpenOwned' /\ LoginAllowed'
  BY <1>2, <1>t, <1>s, GoroutineStep DEF ReaderEnds, Closed, Goroutine
<1>3. ASSUME NEW a \in Attempt, StartTLSAccepted(a) \/ StartTLSDone(a)
      PROVE  Fresh' /\ Setup' /\ OpenOwned' /\ LoginAllowed'
  BY <1>3, <1>t, GoroutineStep DEF StartTLSAccepted, StartTLSDone, Starter, Goroutine
<1>4. ASSUME NEW a \in Attempt, StartTLSNotSupported(a) \/ StartTLSFails(a)
      PROVE  Fresh' /\ Setup' /\ OpenOwned' /\ LoginAllowed'
  <2>1. /\ UNCHANGED <<configVars, mainVars, login, reader, secure, sent>>
        /\ starter[a] \in {"sent", "tls"}
        /\ \/ starter' = [starter EXCEPT ![a] = "unsupported"]
           \/ starter' = [starter EXCEPT ![a] = "failed"]
        /\ conn' = [conn EXCEPT ![<<a, 1>>] = "closed"]
    BY <1>4 DEF StartTLSNotSupported, StartTLSFails, Starter, Closed, Goroutine
  <2>2. \A c \in Conn : conn'[c] # conn[c] => conn[c] # "none" /\ conn'[c] = "closed"
    BY <2>1, <1>a, <1>t, <1>s
  <2>3. \A b \in Attempt :
          \/ starter'[b] = starter[b]
          \/ /\ starter[b] \in {"sent", "tls"} /\ starter'[b] \notin {"none", "ok"}
             /\ conn'[<<b, 1>>] = "closed"
    BY <2>1, <1>a, <1>t
  <2> QED
    BY <2>1, <2>2, <2>3, GoroutineStep
<1>5. ASSUME NEW a \in Attempt, LoginSend(a) \/ LoginAnswered(a) \/ LoginBroken(a)
      PROVE  Fresh' /\ Setup' /\ OpenOwned' /\ LoginAllowed'
  <2>1. /\ UNCHANGED <<configVars, mainVars, starter, reader, conn, secure>>
        /\ login[a] # "none"
        /\ \A b \in Attempt : login'[b] = "none" <=> login[b] = "none"
        /\ \A c \in sent' : c \in sent \/ c = LoginConn(a)
    BY <1>5, <1>t DEF LoginSend, LoginAnswered, LoginBroken, Goroutine
  <2> QED
    BY <2>1, GoroutineStep
<1> QED
  BY <1>1, <1>2, <1>3, <1>4, <1>5 DEF Goroutines

(* Steps of main after which nothing is open but what pc accounts for.       *)
LEMMA MainStep ==
    ASSUME ConnectInv, NewIscanClient \/ SessionEnds \/ Retry \/ Exit \/ ConnectContext
    PROVE  Fresh' /\ Setup' /\ OpenOwned' /\ LoginAllowed'
<1> DEFINE Goal == Fresh' /\ Setup' /\ OpenOwned' /\ LoginAllowed'
<1> USE DEF ConnectInv, configVars, netVars
<1>a. \A a \in Attempt : <<a, 1>> \in Conn /\ <<a, 2>> \in Conn
  BY DEF Conn
<1>c. attempt \in Attempt /\ rawConn = <<attempt, 1>> /\ rawConn \in Conn
  BY <1>a DEF TypeOK, rawConn
<1>t. /\ starter \in [Attempt -> {"none", "sent", "tls", "ok", "unsupported", "failed"}]
      /\ login \in [Attempt -> {"none", "sending", "sent", "ok", "failed"}]
      /\ reader \in [Conn -> {"none", "running", "ended"}]
      /\ conn \in [Conn -> {"none", "open", "closed"}]
  BY DEF TypeOK
<1>1. ASSUME (* the end of ConnectContext, of the session or of the process *)
             UNCHANGED <<configVars, attempt, starter, login, reader, secure, sent>>,
             pc # "dial", pc' \in {"close", "returned", "exit"},
             \A c \in Conn : conn'[c] = "none" <=> conn[c] = "none",
             \A c \in Conn : conn'[c] # "open",
             \A c \in Conn : conn[c] = "closed" => conn'[c] = "closed"
      PROVE  Goal
  <2>1. Fresh' /\ Setup'
    BY <1>1, <1>a, <1>c DEF Fresh, Setup
  <2>2. OpenOwned'
    BY <1>1 DEF OpenOwned, Open
  <2>3. LoginAllowed'
    BY <1>1, <1>a DEF LoginAllowed, LoginConn, Allowed
  <2> QED
    BY <2>1, <2>2, <2>3
<1>2. CASE Exit
  <2>1. UNCHANGED <<configVars, attempt, starter, login, reader, conn, secure, sent>>
        /\ pc = "returned" /\ pc' = "exit"
    BY <1>2 DEF Exit, Main
  <2>2. \A c \in Conn : conn'[c] # "open"
    BY <2>1 DEF OpenOwned, Open, Owned
  <2> QED
    BY <1>1, <2>1, <2>2
<1>3. CASE CloseDone
  <2>1. UNCHANGED <<configVars, attempt, starter, login, reader, conn, secure, sent>>
        /\ pc = "close" /\ pc' = "returned"
    BY <1>3 DEF CloseDone, Return, Main
  <2>2. \A c \in Conn : conn'[c] # "open"
    BY <2>1 DEF OpenOwned, Open, Owned
  <2> QED
    BY <1>1, <2>1, <2>2
<1>4. ASSUME (* the connection that is in use is closed *)
             NEW x \in Conn,
             UNCHANGED <<configVars, attempt, starter, login, reader, secure, sent>>,
             conn' = [conn EXCEPT ![x] = "closed"], conn[x] # "none",
             \/ pc \in {"handshake", "starttls"} /\ x = rawConn
             \/ pc \in {"login", "connected", "session"} /\ x = clt,
             pc' \in {"close", "returned"}
      PROVE  Goal
  <2>1. \A c \in Conn : /\ conn'[c] = "none" <=> conn[c] = "none"
                        /\ conn[c] = "closed" => conn'[c] = "closed"
    BY <1>4, <1>t
  <2>2. \A c \in Conn : conn[c] = "open" => c = x
    BY <1>4 DEF OpenOwned, Open, Owned
  <2>3. \A c \in Conn : conn'[c] # "open"
    BY <1>4, <1>t, <2>2
  <2> QED
    BY <1>1, <1>4, <2>1, <2>3
<1>5. CASE HandshakeFails \/ StartTLSCancelled
  <2>1. UNCHANGED <<configVars, attempt, starter, login, reader, secure, sent>>
        /\ conn' = [conn EXCEPT ![rawConn] = "closed"]
        /\ pc \in {"handshake", "starttls"} /\ pc' = "returned"
    BY <1>5 DEF HandshakeFails, StartTLSCancelled, Closed, Return, Main
  <2>2. conn[rawConn] # "none"
    BY <2>1, <1>c DEF Setup
  <2> QED
    BY <1>4, <1>c, <2>1, <2>2
<1>6. CASE LoginFails \/ SessionEnds \/ (NewIscanClient /\ pc' = "close")
  <2>1. UNCHANGED <<configVars, attempt, starter, login, reader, secure, sent>>
        /\ conn' = [conn EXCEPT ![clt] = "closed"]
        /\ pc \in {"login", "connected", "session"} /\ pc' \in {"close", "returned"}
    BY <1>6 DEF LoginFails, SessionEnds, NewIscanClient, Closed, Return, Main
  <2>2. clt \in Conn /\ conn[clt] # "none"
    BY <2>1 DEF Setup, TypeOK
  <2> QED
    BY <1>4, <2>1, <2>2
<1>7. CASE LoginOk \/ (NewIscanClient /\ pc' = "session")
  <2>1. UNCHANGED <<configVars, attempt, clt, starter, login, reader, conn, secure, sent>>
        /\ pc \in {"login", "connected"} /\ pc' \in {"connected", "session"}
    BY <1>7 DEF LoginOk, NewIscanClient, Main
  <2>2. Fresh' /\ Setup'
    BY <2>1 DEF Fresh, Setup
  <2>3. OpenOwned'
    BY <2>1 DEF OpenOwned, Open, Owned
  <2>4. LoginAllowed'
    BY <2>1 DEF LoginAllowed, LoginConn, Allowed
  <2> QED
    BY <2>2, <2>3, <2>4
<1>8. ASSUME NEW c \in Conn, Allowed(c), UNCHANGED configVars, secure \subseteq secure',
             \A a \in Attempt : starter[a] = "unsupported" => starter'[a] = "unsupported"
      PROVE  Allowed(c)'
  <2>1. c[1] \in Attempt
    BY DEF Conn
  <2> QED
    BY <1>8, <2>1 DEF Allowed
<1>s. sent \subseteq Conn /\ \A a \in Attempt : LoginConn(a) \in Conn
  BY <1>a DEF TypeOK, LoginConn
<1>9. CASE Dial
  <2>1. /\ UNCHANGED <<configVars, attempt, clt, login, secure, sent>> /\ pc = "dial"
        /\ conn' = [conn EXCEPT ![rawConn] = "open"]
        /\ \/ implicit /\ pc' = "handshake" /\ UNCHANGED <<starter, reader>>
           \/ /\ ~implicit /\ pc' = "starttls"
              /\ starter' = [starter EXCEPT ![attempt] = "sent"]
              /\ reader' = [reader EXCEPT ![rawConn] = "running"]
    BY <1>9 DEF Dial, Dialed, Starter, NewReader, Main
  <2>2. /\ starter[attempt] = "none" /\ login[attempt] = "none"
        /\ conn[<<attempt, 2>>] = "none"
    BY <2>1, <1>c DEF Fresh
  <2>3. /\ \A c \in Conn : c # rawConn => conn'[c] = conn[c]
        /\ conn'[rawConn] = "open" /\ rawConn' = rawConn
        /\ \A a \in Attempt : a # attempt => starter'[a] = starter[a]
        /\ starter'[attempt] \notin {"ok", "unsupported", "failed"}
        /\ \A c \in Conn : c # rawConn => reader'[c] = reader[c]
        /\ \A a \in Attempt : <<a, 2>> # rawConn /\ (a # attempt => <<a, 1>> # rawConn)
    BY <2>1, <2>2, <1>c, <1>t DEF rawConn
  <2>4. Fresh'
    <3> SUFFICES ASSUME NEW a \in Attempt, a > attempt \/ (a = attempt /\ pc' = "dial")
                 PROVE  /\ starter'[a] = "none" /\ login'[a] = "none"
                        /\ conn'[<<a, 1>>] = "none" /\ conn'[<<a, 2>>] = "none"
      BY <2>1 DEF Fresh
    <3>1. a > attempt /\ a # attempt
      BY <2>1, <1>c DEF Attempt
    <3>2. /\ starter[a] = "none" /\ login[a] = "none"
          /\ conn[<<a, 1>>] = "none" /\ conn[<<a, 2>>] = "none"
      BY <3>1 DEF Fresh
    <3> QED
      BY <2>1, <2>3, <3>1, <3>2, <1>a
  <2>5. Setup'
    <3>1. /\ pc' \in {"handshake", "starttls"} /\ login'[attempt'] = "none"
          /\ conn'[<<attempt', 2>>] = "none" /\ conn'[rawConn'] # "none"
          /\ pc' = "starttls" => ~implicit'
      BY <2>1, <2>2, <2>3, <1>a, <1>c
    <3>2. ASSUME NEW a \in Attempt
          PROVE  /\ starter'[a] \in {"unsupported", "failed"} => conn'[<<a, 1>>] = "closed"
                 /\ starter'[a] = "ok" => <<a, 1>> \in secure'
                 /\ starter'[a] # "none" => conn'[<<a, 1>>] # "none"
      <4>1. CASE a = attempt
        BY <4>1, <2>3, <1>c
      <4>2. CASE a # attempt
        <5>1. starter'[a] = starter[a] /\ conn'[<<a, 1>>] = conn[<<a, 1>>]
          BY <4>2, <2>3, <1>a
        <5> QED
          BY <5>1, <2>1 DEF Setup
      <4> QED
        BY <4>1, <4>2
    <3>3. \A c \in Conn : reader'[c] # "none" => conn'[c] # "none"
      BY <2>3 DEF Setup
    <3> QED
      BY <3>1, <3>2, <3>3 DEF Setup
  <2>6. OpenOwned'
    <3>1. \A c \in Conn : conn[c] # "open"
      BY <2>1 DEF OpenOwned, Open, Owned
    <3>2. \A c \in Conn : conn'[c] = "open" => c = rawConn
      BY <3>1, <2>3
    <3> QED
      BY <3>2, <2>1, <2>3 DEF OpenOwned, Open, Owned
  <2>7. LoginAllowed'
    <3>1. \A c \in Conn : Allowed(c) => Allowed(c)'
      BY <1>8, <2>1, <2>2, <2>3
    <3>2. \A a \in Attempt : login'[a] # "none" => LoginConn(a)' = LoginConn(a)
      BY <2>1, <2>3, <1>a DEF LoginConn
    <3> QED
      BY <3>1, <3>2, <2>1, <1>s DEF LoginAllowed
  <2> QED
    BY <2>4, <2>5, <2>6, <2>7
<1>10. CASE DialFails
  <2>1. /\ UNCHANGED <<configVars, attempt, starter, login, reader, conn, secure, sent>>
        /\ pc \in {"dial", "dialInsecure"} /\ pc' = "returned"
    BY <1>10 DEF DialFails, Return, Main
  <2>2. Fresh' /\ Setup'
    BY <2>1 DEF Fresh, Setup
  <2>3. OpenOwned'
    BY <2>1 DEF OpenOwned, Open, Owned
  <2>4. LoginAllowed'
    BY <2>1 DEF LoginAllowed, LoginConn, Allowed
  <2> QED
    BY <2>2, <2>3, <2>4
<1>11. ASSUME (* LOGIN starts on connection x *)
             NEW x \in Conn,
             UNCHANGED <<configVars, attempt, starter, sent>>,
             secure \subseteq secure',
             pc \in {"handshake", "starttls", "dialInsecure"}, pc' = "login", clt' = x,
             login' = [login EXCEPT ![attempt] = "sending"],
             \A c \in Conn : reader'[c] # reader[c] => c = x,
             \/ x = <<attempt, 1>> /\ x \in secure' /\ UNCHANGED conn
             \/ /\ x = <<attempt, 2>> /\ conn' = [conn EXCEPT ![x] = "open"]
                /\ pc = "dialInsecure",
             pc = "dialInsecure" => x = <<attempt, 2>>
      PROVE  Goal
  <2>1. /\ conn'[x] # "none"
        /\ \A c \in Conn : c # x => conn'[c] = conn[c]
        /\ \A a \in Attempt : x # <<a, 1>> => conn'[<<a, 1>>] = conn[<<a, 1>>]
        /\ \A a \in Attempt : conn'[<<a, 1>>] = conn[<<a, 1>>]
        /\ \A a \in Attempt : a # attempt => conn'[<<a, 2>>] = conn[<<a, 2>>]
    <3>1. CASE x = <<attempt, 1>> /\ UNCHANGED conn
      <4>1. conn[x] # "none"
        BY <1>11, <3>1, <1>c DEF Setup
      <4> QED
        BY <3>1, <4>1
    <3>2. CASE x = <<attempt, 2>> /\ conn' = [conn EXCEPT ![x] = "open"]
      BY <3>2, <1>a, <1>t
    <3> QED
      BY <3>1, <3>2, <1>11
  <2>2. LoginConn(attempt)' = x
    <3>1. CASE x = <<attempt, 1>> /\ UNCHANGED conn
      <4>1. conn'[<<attempt, 2>>] = "none"
        BY <1>11, <3>1 DEF Setup
      <4> QED
        BY <3>1, <4>1, <1>11 DEF LoginConn
    <3>2. CASE x = <<attempt, 2>>
      BY <3>2, <2>1, <1>11 DEF LoginConn
    <3> QED
      BY <3>1, <3>2, <1>11
  <2>3. Fresh'
    <3> SUFFICES ASSUME NEW a \in Attempt, a > attempt
                 PROVE  /\ starter'[a] = "none" /\ login'[a] = "none"
                        /\ conn'[<<a, 1>>] = "none" /\ conn'[<<a, 2>>] = "none"
      BY <1>11 DEF Fresh
    <3>1. a # attempt
      BY <1>c DEF Attempt
    <3>2. /\ starter[a] = "none" /\ login[a] = "none"
          /\ conn[<<a, 1>>] = "none" /\ conn[<<a, 2>>] = "none"
      BY DEF Fresh
    <3> QED
      BY <1>11, <2>1, <3>1, <3>2, <1>t
  <2>4. Setup'
    <3>1. ASSUME NEW a \in Attempt
          PROVE  /\ starter'[a] \in {"unsupported", "failed"} => conn'[<<a, 1>>] = "closed"
                 /\ starter'[a] = "ok" => <<a, 1>> \in secure'
                 /\ starter'[a] # "none" => conn'[<<a, 1>>] # "none"
      BY <1>11, <2>1 DEF Setup
    <3>2. \A c \in Conn : reader'[c] # "none" => conn'[c] # "none"
      BY <1>11, <2>1 DEF Setup
    <3>3. conn'[clt'] # "none"
      BY <1>11, <2>1
    <3> QED
      BY <1>11, <3>1, <3>2, <3>3 DEF Setup
  <2>5. OpenOwned'
    <3>1. \A c \in Conn : conn'[c] = "open" => c = x
      <4> SUFFICES ASSUME NEW c \in Conn, conn'[c] = "open", c # x PROVE FALSE
        OBVIOUS
      <4>1. conn[c] = "open"
        BY <2>1
      <4>2. pc \in {"handshake", "starttls"} /\ c = rawConn
        BY <4>1, <1>11 DEF OpenOwned, Open, Owned
      <4>3. x = rawConn
        BY <4>2, <1>11, <1>c
      <4> QED
        BY <4>2, <4>3
    <3> QED
      BY <3>1, <1>11 DEF OpenOwned, Open, Owned
  <2>6. LoginAllowed'
    <3>1. \A c \in Conn : Allowed(c) => Allowed(c)'
      BY <1>8, <1>11
    <3>2. \A a \in Attempt : a # attempt => LoginConn(a)' = LoginConn(a)
      BY <2>1 DEF LoginConn
    <3>3. \A a \in Attempt : a # attempt => login'[a] = login[a]
      BY <1>11, <1>t
    <3>4. Allowed(x)'
      <4>1. CASE x \in secure'
        BY <4>1 DEF Allowed
      <4>2. CASE x = <<attempt, 2>> /\ pc = "dialInsecure"
        <5>1. allowInsecure /\ ~implicit /\ starter[attempt] = "unsupported"
          BY <4>2 DEF Setup
        <5> QED
          BY <4>2, <5>1, <1>11 DEF Allowed
      <4> QED
        BY <4>1, <4>2, <1>11
    <3>5. \A a \in Attempt : login'[a] # "none" => Allowed(LoginConn(a))'
      <4> SUFFICES ASSUME NEW a \in Attempt, login'[a] # "none"
                   PROVE  Allowed(LoginConn(a))'
        OBVIOUS
      <4>1. CASE a = attempt
        BY <4>1, <2>2, <3>4, <1>11 DEF Allowed
      <4>2. CASE a # attempt
        <5>1. Allowed(LoginConn(a)) /\ LoginConn(a) \in Conn
          BY <4>2, <3>3, <1>s DEF LoginAllowed
        <5>2. Allowed(LoginConn(a))' <=>
                \/ LoginConn(a) \in secure'
                \/ /\ allowInsecure' /\ ~implicit' /\ LoginConn(a)[2] = 2
                   /\ starter'[LoginConn(a)[1]] = "unsupported"
          BY <4>2, <3>2 DEF Allowed
        <5> QED
          BY <5>1, <5>2, <1>11 DEF Allowed
      <4> QED
        BY <4>1, <4>2
    <3> QED
      BY <3>1, <3>5, <1>11, <1>s DEF LoginAllowed
  <2> QED
    BY <2>3, <2>4, <2>5, <2>6
<1>12. CASE Handshake
  <2>1. /\ UNCHANGED <<configVars, attempt, starter, conn, sent>> /\ pc = "handshake"
        /\ secure' = secure \cup {rawConn} /\ pc' = "login" /\ clt' = rawConn
        /\ login' = [login EXCEPT ![attempt] = "sending"]
        /\ reader' = [reader EXCEPT ![rawConn] = "running"]
    BY <1>12 DEF Handshake, NewReader, StartLogin, Main
  <2>2. \A c \in Conn : reader'[c] # reader[c] => c = rawConn
    BY <2>1, <1>t
  <2> QED
    BY <2>1, <2>2, <1>11, <1>c
<1>13. CASE DialInsecure
  <2>1. /\ UNCHANGED <<configVars, attempt, starter, secure, sent>> /\ pc = "dialInsecure"
        /\ pc' = "login" /\ clt' = <<attempt, 2>>
        /\ login' = [login EXCEPT ![attempt] = "sending"]
        /\ conn' = [conn EXCEPT ![<<attempt, 2>>] = "open"]
        /\ reader' = [reader EXCEPT ![<<attempt, 2>>] = "running"]
    BY <1>13 DEF DialInsecure, Dialed, NewReader, StartLogin, Main
  <2>2. \A c \in Conn : reader'[c] # reader[c] => c = <<attempt, 2>>
    BY <2>1, <1>t
  <2> QED
    BY <2>1, <2>2, <1>11, <1>a, <1>c
<1>14. CASE StartTLSResult
  <2>1. /\ UNCHANGED <<configVars, attempt, starter, reader, conn, secure, sent>>
        /\ pc = "starttls"
    BY <1>14 DEF StartTLSResult, Main
  <2>2. CASE starter[attempt] = "ok" /\ StartLogin(rawConn)
    <3>1. /\ pc' = "login" /\ clt' = rawConn
          /\ login' = [login EXCEPT ![attempt] = "sending"]
      BY <2>2 DEF StartLogin
    <3>2. rawConn \in secure
      BY <2>2, <1>c DEF Setup
    <3> QED
      BY <2>1, <3>1, <3>2, <1>11, <1>c
  <2>3. CASE starter[attempt] \in {"failed", "unsupported"} /\ Return /\ UNCHANGED login
    <3>1. \A c \in Conn : conn'[c] # "open"
      <4>1. conn[rawConn] = "closed"
        BY <2>3, <1>c DEF Setup
      <4> QED
        BY <4>1, <2>1 DEF OpenOwned, Open, Owned
    <3> QED
      BY <2>1, <2>3, <3>1, <1>1 DEF Return
  <2> QED
    BY <2>2, <2>3, <1>14 DEF StartTLSResult
<1>15. CASE FallBack
  <2>1. /\ UNCHANGED <<configVars, attempt, starter, login, reader, conn, secure, sent>>
        /\ pc = "starttls" /\ pc' = "dialInsecure"
        /\ starter[attempt] = "unsupported" /\ allowInsecure
    BY <1>15 DEF FallBack, Main
  <2>2. Fresh' /\ Setup'
    BY <2>1 DEF Fresh, Setup
  <2>3. OpenOwned'
    <3>1. conn[rawConn] = "closed"
      BY <2>1, <1>c DEF Setup
    <3> QED
      BY <3>1, <2>1 DEF OpenOwned, Open, Owned
  <2>4. LoginAllowed'
    BY <2>1 DEF LoginAllowed, LoginConn, Allowed
  <2> QED
    BY <2>2, <2>3, <2>4
<1>16. CASE Retry
  <2>1. /\ UNCHANGED <<configVars, starter, login, reader, conn, secure, sent>>
        /\ pc = "returned" /\ pc' = "dial" /\ attempt' = attempt + 1
    BY <1>16 DEF Retry
  <2>2. Fresh'
    <3>1. \A a \in Attempt : a > attempt + 1 \/ a = attempt + 1 => a > attempt
      BY <1>c, BoundAssumption DEF Attempt
    <3> QED
      BY <2>1, <3>1 DEF Fresh
  <2>3. Setup'
    BY <2>1 DEF Setup
  <2>4. OpenOwned'
    BY <2>1 DEF OpenOwned, Open, Owned
  <2>5. LoginAllowed'
    BY <2>1 DEF LoginAllowed, LoginConn, Allowed
  <2> QED
    BY <2>2, <2>3, <2>4, <2>5
<1>17. CASE NewIscanClient
  <2>1. pc' \in {"session", "close"}
    BY <1>17 DEF NewIscanClient
  <2> QED
    BY <1>6, <1>7, <1>17, <2>1
<1> QED
  BY <1>2, <1>3, <1>5, <1>6, <1>7, <1>9, <1>10, <1>12, <1>13, <1>14, <1>15, <1>16, <1>17
     DEF ConnectContext

LEMMA NextConnect == ConnectInv /\ [Next]_vars => ConnectInv'
<1> SUFFICES ASSUME ConnectInv, [Next]_vars PROVE ConnectInv'
  OBVIOUS
<1>1. TypeOK'
  BY TypeStep DEF ConnectInv
<1>2. Fresh' /\ Setup' /\ OpenOwned' /\ LoginAllowed'
  <2>1. CASE \/ Timeout \/ Signal \/ (\E c \in Conn : PeerCloses(c)) \/ Goroutines
    BY <2>1, EnvironmentStep
  <2>2. CASE NewIscanClient \/ SessionEnds \/ Retry \/ Exit \/ ConnectContext
    BY <2>2, MainStep
  <2>3. CASE UNCHANGED vars
    <3>1. UNCHANGED <<configVars, pc, attempt, clt, starter, login, reader, conn, secure, sent>>
      BY <2>3 DEF vars, mainVars, netVars
    <3> QED
      BY <3>1, GoroutineStep DEF mainVars
  <2> QED
    BY <2>1, <2>2, <2>3 DEF Next
<1> QED
  BY <1>1, <1>2 DEF ConnectInv
-----------------------------------------------------------------------------
(* An open connection is the one ConnectContext is setting up or the client *)
(* it has returned, and what NewStartTLS failed on is closed: the inductive  *)
(* form of what follows.                                                    *)
THEOREM ConnectInvariant == Spec => []ConnectInv
<1>1. Init => ConnectInv
  BY InitConnect
<1>2. ConnectInv /\ [Next]_vars => ConnectInv'
  BY NextConnect
<1> QED
  BY <1>1, <1>2, PTL DEF Spec

(* Every variable of ConnectContext and of its goroutines keeps its kind.    *)
THEOREM ConnectTypeCorrect == Spec => []TypeOK
<1>1. ConnectInv => TypeOK
  BY DEF ConnectInv
<1> QED
  BY <1>1, ConnectInvariant, PTL

(* Whatever order dialing, STARTTLS, LOGIN, their failures, a timeout and a  *)
(* signal come in, there is at most one open connection, and none when      *)
(* main.monitor has returned.                                               *)
THEOREM ConnectionsAreClosed == Spec => []NoConnectionLeaks
<1>1. ConnectInv => NoConnectionLeaks
  <2> SUFFICES ASSUME ConnectInv PROVE NoConnectionLeaks
    OBVIOUS
  <2>1. pc \in {"returned", "exit"} => Open = {}
    BY DEF ConnectInv, OpenOwned, Owned
  <2>2. Cardinality(Open) <= 1
    <3>1. CASE Open = {}
      BY <3>1, FS_EmptySet
    <3>2. CASE Open # {}
      <4>1. PICK c \in Open : TRUE
        BY <3>2
      <4>2. \A d \in Open : d = c
        BY <4>1 DEF ConnectInv, OpenOwned, Owned
      <4>3. Open = {c}
        BY <4>1, <4>2
      <4> QED
        BY <4>3, FS_Singleton
    <3> QED
      BY <3>1, <3>2
  <2> QED
    BY <2>1, <2>2 DEF NoConnectionLeaks
<1> QED
  BY <1>1, ConnectInvariant, PTL

(* LOGIN is written to an encrypted connection, or to the second one when   *)
(* the configuration allows it and the server does not know STARTTLS.       *)
THEOREM PasswordsAreProtected == Spec => []PasswordIsProtected
<1>1. ConnectInv => PasswordIsProtected
  BY DEF ConnectInv, LoginAllowed, Allowed, PasswordIsProtected
<1> QED
  BY <1>1, ConnectInvariant, PTL
=============================================================================

------------------------------ MODULE ImapConnect ------------------------------
(***************************************************************************)
(* Connecting to the IMAP server (ConnectContext of                         *)
(* internal/imapclt/client.go) and the sessions of main.go that need it:    *)
(* newIMAPClient, monitor and runOnceAndTerminate in the retry loop.        *)
(*                                                                          *)
(* Dialing, the TLS handshake, STARTTLS and LOGIN wait for a server that    *)
(* may never answer; STARTTLS and LOGIN do so in goroutines of their own,   *)
(* which ConnectContext leaves behind when its context ends.  Connection     *)
(* <<a, 1>> is the one attempt a dials first, <<a, 2>> the unencrypted one  *)
(* it may fall back to.  go-imap's reader goroutine closes a connection      *)
(* when it cannot read from it any more, and Close waits for the reader.     *)
(***************************************************************************)
EXTENDS Naturals, FiniteSets

CONSTANTS
    MaxAttempts,    \* bound: calls of main.monitor
    MaxFaults,      \* bound: errors of the server, the network and the retry loop
    NoConn

ASSUME BoundAssumption == MaxAttempts \in Nat \ {0} /\ MaxFaults \in Nat

Attempt == 1..MaxAttempts
Conn == Attempt \X {1, 2}

ASSUME NoConnAssumption == NoConn \notin Conn

VARIABLES
    (* the configuration *)
    implicit,       \* the port is 993 or imaps
    allowInsecure,  \* Config.AllowInsecure: FALSE in main.go, TRUE in tests
    once,           \* --once
    (* main *)
    pc, attempt,
    stopped,        \* a signal has arrived
    ctxDone,        \* the context of ConnectContext has ended
    clt,            \* the connection of c.clt
    (* goroutines: that of NewStartTLS and that of Login, by attempt, and   *)
    (* the readers of go-imap, by connection                                *)
    starter, login, reader,
    (* connections: our end of them, those whose other end is there, those  *)
    (* with TLS, and those LOGIN was written to                             *)
    conn, alive, secure, sent,
    faults

configVars == <<implicit, allowInsecure, once>>
mainVars == <<pc, attempt, clt>>
ctxVars == <<stopped, ctxDone>>
netVars == <<conn, alive, secure, sent>>
vars == <<configVars, mainVars, ctxVars, starter, login, reader, netVars, faults>>

Init ==
    /\ implicit \in BOOLEAN /\ allowInsecure \in BOOLEAN /\ once \in BOOLEAN
    /\ pc = "dial" /\ attempt = 1 /\ stopped = FALSE /\ ctxDone = FALSE
    /\ clt = NoConn
    /\ starter = [a \in Attempt |-> "none"]
    /\ login = [a \in Attempt |-> "none"]
    /\ reader = [c \in Conn |-> "none"]
    /\ conn = [c \in Conn |-> "none"]
    /\ alive = {} /\ secure = {} /\ sent = {}
    /\ faults = 0

Fault == faults < MaxFaults /\ faults' = faults + 1
NoFault == UNCHANGED faults

rawConn == <<attempt, 1>>
Connecting == pc \in {"dial", "handshake", "starttls", "dialInsecure", "login"}
-----------------------------------------------------------------------------
(* The environment.                                                         *)

(* The operation timeout passes while ConnectContext runs.                  *)
Timeout ==
    /\ Connecting /\ ~ctxDone
    /\ ctxDone' = TRUE
    /\ UNCHANGED <<configVars, mainVars, stopped, starter, login, reader, netVars,
                   faults>>

Signal ==
    /\ pc # "exit" /\ ~stopped
    /\ stopped' = TRUE /\ ctxDone' = TRUE
    /\ UNCHANGED <<configVars, mainVars, starter, login, reader, netVars, faults>>

PeerCloses(c) ==
    /\ c \in alive /\ Fault
    /\ alive' = alive \ {c}
    /\ UNCHANGED <<configVars, mainVars, ctxVars, starter, login, reader, conn,
                   secure, sent>>
-----------------------------------------------------------------------------
(* Goroutines of go-imap.                                                    *)
Closed(c) == conn' = [conn EXCEPT ![c] = "closed"]
Broken(c) == conn[c] = "closed" \/ c \notin alive
Goroutine == UNCHANGED <<configVars, mainVars, ctxVars, alive>>

(* The reader fails, closes the connection and ends.                        *)
ReaderEnds(c) ==
    /\ reader[c] = "running" /\ Broken(c)
    /\ reader' = [reader EXCEPT ![c] = "ended"]
    /\ Closed(c)
    /\ Goroutine /\ UNCHANGED <<starter, login, secure, sent, faults>>

Starter(a, state) == starter' = [starter EXCEPT ![a] = state]

(* NewStartTLS: the server accepts STARTTLS, ...                             *)
StartTLSAccepted(a) ==
    /\ starter[a] = "sent" /\ ~Broken(<<a, 1>>)
    /\ Starter(a, "tls")
    /\ Goroutine /\ UNCHANGED <<login, reader, conn, secure, sent, faults>>

(* ... the handshake succeeds, ...                                           *)
StartTLSDone(a) ==
    /\ starter[a] = "tls" /\ ~Broken(<<a, 1>>)
    /\ Starter(a, "ok")
    /\ secure' = secure \cup {<<a, 1>>}
    /\ Goroutine /\ UNCHANGED <<login, reader, conn, sent, faults>>

(* ... or the server refuses with "STARTTLS not supported": the connection  *)
(* is closed.                                                               *)
StartTLSNotSupported(a) ==
    /\ starter[a] = "sent" /\ ~Broken(<<a, 1>>) /\ Fault
    /\ Starter(a, "unsupported")
    /\ Closed(<<a, 1>>)
    /\ Goroutine /\ UNCHANGED <<login, reader, secure, sent>>

(* Any other error: an answer of another text, a failing handshake, a       *)
(* PREAUTH greeting, a connection closed by either side.                    *)
StartTLSFails(a) ==
    /\ starter[a] \in {"sent", "tls"}
    /\ (Broken(<<a, 1>>) /\ NoFault) \/ Fault
    /\ Starter(a, "failed")
    /\ Closed(<<a, 1>>)
    /\ Goroutine /\ UNCHANGED <<login, reader, secure, sent>>

LoginConn(a) == IF conn[<<a, 2>>] # "none" THEN <<a, 2>> ELSE <<a, 1>>

(* Login: user and password are written, then the answer is awaited.        *)
LoginSend(a) ==
    /\ login[a] = "sending" /\ ~Broken(LoginConn(a))
    /\ login' = [login EXCEPT ![a] = "sent"]
    /\ sent' = sent \cup {LoginConn(a)}
    /\ Goroutine /\ UNCHANGED <<starter, reader, conn, secure, faults>>

LoginAnswered(a) ==
    /\ login[a] = "sent" /\ ~Broken(LoginConn(a))
    /\ \/ login' = [login EXCEPT ![a] = "ok"] /\ NoFault
       \/ login' = [login EXCEPT ![a] = "failed"] /\ Fault
    /\ Goroutine /\ UNCHANGED <<starter, reader, conn, secure, sent>>

LoginBroken(a) ==
    /\ login[a] \in {"sending", "sent"} /\ Broken(LoginConn(a))
    /\ login' = [login EXCEPT ![a] = "failed"]
    /\ Goroutine /\ UNCHANGED <<starter, reader, conn, secure, sent, faults>>
-----------------------------------------------------------------------------
(* dialContext and ConnectContext.                                          *)
Main == UNCHANGED <<configVars, attempt, ctxVars>>

Dialed(c) ==
    /\ conn' = [conn EXCEPT ![c] = "open"]
    /\ alive' = alive \cup {c}

(* The client is there: c.clt is set and Login started.                     *)
StartLogin(c) ==
    /\ clt' = c /\ pc' = "login"
    /\ login' = [login EXCEPT ![attempt] = "sending"]

NewReader(c) == reader' = [reader EXCEPT ![c] = "running"]

(* ConnectContext or the session returns; its client is not used any more.  *)
Return == pc' = "returned" /\ clt' = NoConn

Dial ==
    /\ pc = "dial"
    /\ Dialed(rawConn)
    /\ \/ /\ implicit
          /\ pc' = "handshake" /\ UNCHANGED <<starter, reader>>
       \/ /\ ~implicit
          /\ pc' = "starttls" /\ Starter(attempt, "sent") /\ NewReader(rawConn)
    /\ Main /\ UNCHANGED <<clt, login, secure, sent, faults>>

DialFails ==
    /\ pc \in {"dial", "dialInsecure"}
    /\ (ctxDone /\ NoFault) \/ Fault
    /\ Return
    /\ Main /\ UNCHANGED <<starter, login, reader, netVars>>

(* HandshakeContext of an implicit TLS connection.                          *)
Handshake ==
    /\ pc = "handshake" /\ rawConn \in alive
    /\ secure' = secure \cup {rawConn}
    /\ NewReader(rawConn) /\ StartLogin(rawConn)
    /\ Main /\ UNCHANGED <<starter, conn, alive, sent, faults>>

(* Mutant: a failed handshake returns without closing the connection.       *)
HandshakeFailsOpen ==
    /\ pc = "handshake"
    /\ ((ctxDone \/ rawConn \notin alive) /\ NoFault) \/ Fault
    /\ Return
    /\ Main /\ UNCHANGED <<starter, login, reader, conn, alive, secure, sent>>

HandshakeFails ==
    /\ pc = "handshake"
    /\ ((ctxDone \/ rawConn \notin alive) /\ NoFault) \/ Fault
    /\ Closed(rawConn)
    /\ Return
    /\ Main /\ UNCHANGED <<starter, login, reader, alive, secure, sent>>

StartTLSResult ==
    /\ pc = "starttls"
    /\ \/ starter[attempt] = "ok" /\ StartLogin(rawConn)
       \/ /\ starter[attempt] = "failed"
            \/ (starter[attempt] = "unsupported" /\ ~allowInsecure)
          /\ Return /\ UNCHANGED login
    /\ Main /\ UNCHANGED <<starter, reader, netVars, faults>>

(* Mutant: the fallback is taken whatever AllowInsecure says.               *)
FallBackAlways ==
    /\ pc = "starttls" /\ starter[attempt] = "unsupported"
    /\ pc' = "dialInsecure"
    /\ Main /\ UNCHANGED <<clt, starter, login, reader, netVars, faults>>

FallBack ==
    /\ pc = "starttls" /\ starter[attempt] = "unsupported" /\ allowInsecure
    /\ pc' = "dialInsecure"
    /\ Main /\ UNCHANGED <<clt, starter, login, reader, netVars, faults>>

(* Mutant: ConnectContext returns and leaves the connection to STARTTLS.    *)
StartTLSCancelledOpen ==
    /\ pc = "starttls" /\ ctxDone
    /\ Return
    /\ Main /\ UNCHANGED <<starter, login, reader, netVars, faults>>

(* The context ends while NewStartTLS is still waiting, or just has not.    *)
StartTLSCancelled ==
    /\ pc = "starttls" /\ ctxDone
    /\ Closed(rawConn)
    /\ Return
    /\ Main /\ UNCHANGED <<starter, login, reader, alive, secure, sent, faults>>

(* dialInsecureContext *)
DialInsecure ==
    /\ pc = "dialInsecure"
    /\ Dialed(<<attempt, 2>>)
    /\ NewReader(<<attempt, 2>>) /\ StartLogin(<<attempt, 2>>)
    /\ Main /\ UNCHANGED <<starter, secure, sent, faults>>

LoginOk ==
    /\ pc = "login" /\ login[attempt] = "ok"
    /\ pc' = "connected"
    /\ Main /\ UNCHANGED <<clt, starter, login, reader, netVars, faults>>

(* Mutant: the end of the context is not noticed during LOGIN.              *)
LoginNotCancelled ==
    /\ pc = "login" /\ login[attempt] = "failed"
    /\ Closed(clt) /\ pc' = "close"
    /\ Main /\ UNCHANGED <<clt, starter, login, reader, alive, secure, sent, faults>>

(* LOGIN fails or the context ends: the client is closed.                    *)
LoginFails ==
    /\ pc = "login" /\ (login[attempt] = "failed" \/ ctxDone)
    /\ Closed(clt) /\ pc' = "close"
    /\ Main /\ UNCHANGED <<clt, starter, login, reader, alive, secure, sent, faults>>

(* Close returns when the reader has ended, or at once when closing the      *)
(* connection reports an error, such as a TLS closing alert that could not  *)
(* be sent; the connection is closed nevertheless.                          *)
CloseDone ==
    /\ pc = "close"
    /\ (reader[clt] = "ended" /\ NoFault) \/ Fault
    /\ Return
    /\ Main /\ UNCHANGED <<starter, login, reader, netVars>>
-----------------------------------------------------------------------------
(* main.monitor, runOnceAndTerminate and the retry loop.                    *)

(* newIscanClient, which closes the connection when it fails.               *)
NewIscanClient ==
    /\ pc = "connected"
    /\ \/ pc' = "session" /\ UNCHANGED conn /\ NoFault
       \/ pc' = "close" /\ Closed(clt) /\ Fault
    /\ Main /\ UNCHANGED <<clt, starter, login, reader, alive, secure, sent>>

(* Monitor or RunOnce returns, for whatever reason, and Stop closes the     *)
(* connection without waiting for its reader longer than a while.           *)
SessionEnds ==
    /\ pc = "session"
    /\ ((once \/ stopped \/ Broken(clt)) /\ NoFault) \/ Fault
    /\ Closed(clt)
    /\ Return
    /\ Main /\ UNCHANGED <<starter, login, reader, alive, secure, sent>>

Retry ==
    /\ pc = "returned" /\ ~once /\ ~stopped /\ attempt < MaxAttempts
    /\ pc' = "dial" /\ attempt' = attempt + 1 /\ ctxDone' = FALSE
    /\ UNCHANGED <<configVars, clt, stopped, starter, login, reader, netVars, faults>>

(* The process ends: once, by a signal, or because the error is final.      *)
Exit ==
    /\ pc = "returned"
    /\ ((once \/ stopped \/ attempt = MaxAttempts) /\ NoFault) \/ Fault
    /\ pc' = "exit"
    /\ Main /\ UNCHANGED <<clt, starter, login, reader, netVars>>
-----------------------------------------------------------------------------
ConnectContext ==
    \/ Dial \/ DialFails \/ Handshake \/ HandshakeFails \/ StartTLSResult
    \/ FallBack \/ StartTLSCancelled \/ DialInsecure
    \/ LoginOk \/ LoginFails \/ CloseDone

Goroutines ==
    \/ \E a \in Attempt : \/ StartTLSAccepted(a) \/ StartTLSDone(a)
                          \/ StartTLSNotSupported(a) \/ StartTLSFails(a)
                          \/ LoginSend(a) \/ LoginAnswered(a) \/ LoginBroken(a)
    \/ \E c \in Conn : ReaderEnds(c)

Next ==
    \/ Timeout \/ Signal \/ \E c \in Conn : PeerCloses(c)
    \/ ConnectContext \/ Goroutines
    \/ NewIscanClient \/ SessionEnds \/ Retry \/ Exit

(* Neither the server nor anything that waits for it is fair: only main,     *)
(* and the goroutines whose connection is broken.                           *)
Fairness ==
    /\ WF_vars(NoFault /\ (ConnectContext \/ Retry \/ Exit))
    /\ \A a \in Attempt : /\ WF_vars(NoFault /\ StartTLSFails(a))
                          /\ WF_vars(LoginBroken(a))
    /\ \A c \in Conn : WF_vars(ReaderEnds(c))

Spec == Init /\ [][Next]_vars /\ Fairness
-----------------------------------------------------------------------------
(* Properties.                                                              *)

(* Every variable has a value of its kind, and c.clt is set exactly from    *)
(* LOGIN to the end of the session.                                         *)
TypeOK ==
    /\ implicit \in BOOLEAN /\ allowInsecure \in BOOLEAN /\ once \in BOOLEAN
    /\ pc \in {"dial", "handshake", "starttls", "dialInsecure", "login",
               "connected", "session", "close", "returned", "exit"}
    /\ attempt \in Attempt /\ stopped \in BOOLEAN /\ ctxDone \in BOOLEAN
    /\ clt \in Conn \cup {NoConn}
    /\ clt # NoConn <=> pc \in {"login", "connected", "session", "close"}
    /\ starter \in [Attempt -> {"none", "sent", "tls", "ok", "unsupported", "failed"}]
    /\ login \in [Attempt -> {"none", "sending", "sent", "ok", "failed"}]
    /\ reader \in [Conn -> {"none", "running", "ended"}]
    /\ conn \in [Conn -> {"none", "open", "closed"}]
    /\ alive \subseteq Conn /\ secure \subseteq Conn /\ sent \subseteq Conn
    /\ faults \in 0..MaxFaults

Open == {c \in Conn : conn[c] = "open"}

(* There is never more than one open connection, and none when main.monitor *)
(* has returned: no path of ConnectContext, cancelled or failed, forgets    *)
(* the connection it has dialed.                                            *)
NoConnectionLeaks ==
    /\ Cardinality(Open) <= 1
    /\ pc \in {"returned", "exit"} => Open = {}

(* User and password are written to an unencrypted connection only when the *)
(* configuration allows it and the server does not know STARTTLS.           *)
PasswordIsProtected ==
    \A c \in sent : \/ c \in secure
                    \/ /\ allowInsecure /\ ~implicit /\ c[2] = 2
                       /\ starter[c[1]] = "unsupported"

(* When the context of ConnectContext ends, it returns, although the server *)
(* and the goroutines that wait for it may hang for ever.                   *)
ConnectIsBounded == ctxDone /\ Connecting ~> pc \in {"connected", "returned"}

Running(a) ==
    \/ starter[a] \in {"sent", "tls"}
    \/ login[a] \in {"sending", "sent"}
    \/ \E k \in {1, 2} : reader[<<a, k>>] = "running"

(* Once main.monitor has returned, the goroutines that ConnectContext left  *)
(* behind end.                                                              *)
GoroutinesEnd ==
    \A a \in Attempt : (attempt = a /\ pc = "returned") ~> ~Running(a)
=============================================================================

-------------------------------- MODULE NetErr --------------------------------
(***************************************************************************)
(* The classification of errors (internal/neterr, rspamc.HTTPStatusError).  *)
(* An error is the sequence of its causes, in the order in which errors.Is  *)
(* and errors.As visit what it wraps and joins.  The code of a cause is the *)
(* HTTP status of an "http" one, and 0 otherwise; an "opaque" cause is one  *)
(* whose text only survived (formatted with %v), or any other error.        *)
(***************************************************************************)
EXTENDS Naturals, Sequences

Has(err, kinds) == \E i \in DOMAIN err : err[i].kind \in kinds

(* The cause errors.As finds. *)
FirstOf(err, kinds) ==
    err[CHOOSE i \in DOMAIN err : /\ err[i].kind \in kinds
                                  /\ \A j \in 1..(i - 1) : err[j].kind \notin kinds]

(* HTTPStatusError.Retryable *)
Retryable(code) == code \in {408, 425, 429} \/ code >= 500

(* The url.Error every failed httpClient.Do returns around its cause; its    *)
(* Timeout() is that of the cause.                                          *)
UrlErrors == {"urlError", "urlTimeout"}

(* Causes that implement net.Error, and those whose Timeout() is true.  A    *)
(* "netError" is any other one that is no timeout: a failed DNS lookup, the  *)
(* syscall.Errno in a failed operation on a local file.                     *)
NetErrors == UrlErrors \cup {"netError", "DeadlineExceeded", "ioTimeout",
               "ETIMEDOUT", "ECONNREFUSED", "ECONNRESET", "ECONNABORTED",
               "EPIPE", "ENETUNREACH", "EHOSTUNREACH", "ErrClosed"}
Timeouts == {"urlTimeout", "DeadlineExceeded", "ioTimeout", "ETIMEDOUT"}

RetryableCauses ==
    (NetErrors \ (UrlErrors \cup {"netError", "ioTimeout"})) \cup {"ErrUnexpectedEOF"}

(* Causes that only a request to Rspamd has, and all others.                *)
RequestCauses == {"http"} \cup UrlErrors
OtherCauses == (NetErrors \ UrlErrors) \cup {"Canceled", "ErrUnexpectedEOF", "opaque"}

CauseKind == RequestCauses \cup OtherCauses

(* Mutant: only the outermost error is looked at.                           *)
IsRetryableErrorOuter(err) ==
    /\ err # <<>>
    /\ \/ err[1].kind = "http" /\ Retryable(err[1].code)
       \/ err[1].kind \in Timeouts \cup RetryableCauses

IsRetryableError(err) ==
    \/ Has(err, {"http"}) /\ Retryable(FirstOf(err, {"http"}).code)
    \/ Has(err, NetErrors) /\ FirstOf(err, NetErrors).kind \in Timeouts
    \/ Has(err, RetryableCauses)

(* The categories of RetryKey, in the order of its switch.                  *)
KeyOrder ==
    << [key |-> "timeout", kinds |-> {"DeadlineExceeded"}],
       [key |-> "connection-refused", kinds |-> {"ECONNREFUSED"}],
       [key |-> "connection-reset", kinds |-> {"ECONNRESET", "ECONNABORTED"}],
       [key |-> "broken-pipe", kinds |-> {"EPIPE"}],
       [key |-> "network-unreachable", kinds |-> {"ENETUNREACH", "EHOSTUNREACH"}],
       [key |-> "unexpected-eof", kinds |-> {"ErrUnexpectedEOF"}],
       [key |-> "connection-closed", kinds |-> {"ErrClosed"}] >>

RetryKey(err) ==
    LET hits == {i \in DOMAIN KeyOrder : Has(err, KeyOrder[i].kinds)}
    IN  IF Has(err, {"http"}) THEN <<"http", FirstOf(err, {"http"}).code>>
        ELSE IF hits = {} THEN <<"network", 0>>
        ELSE LET i == CHOOSE k \in hits : \A j \in hits : k <= j
             IN  <<KeyOrder[i].key, 0>>
=============================================================================

-------------------------------- MODULE Rspamc --------------------------------
(***************************************************************************)
(* The requests to Rspamd (internal/rspamc): what became of an HTTP         *)
(* exchange, and the error it is for the caller.  An exchange has           *)
(* transport: the cause the HTTP client failed with, or "none"; status;     *)
(* json: whether the content type is application/json; body: "good",        *)
(* "invalid" or the cause that ended reading it too early.                  *)
(***************************************************************************)
EXTENDS NetErr

NoError == <<>>
Cause(kind) == <<[kind |-> kind, code |-> 0]>>
HTTPStatusError(code) == <<[kind |-> "http", code |-> code]>>

(* httpClient.Do wraps what it failed with in a url.Error.                  *)
DoError(kind) ==
    Cause(IF kind \in Timeouts THEN "urlTimeout" ELSE "urlError") \o Cause(kind)

Decode(body) == CASE body = "good"    -> NoError
                  [] body = "invalid" -> Cause("opaque")
                  [] OTHER            -> Cause(body)

(* A request without a result succeeds with any 2xx, one with a result only *)
(* with 200, the right content type and a body that decodes.                *)
sendRequest(x, wantsResult) ==
    LET accepted == IF wantsResult THEN {200} ELSE 200..299
    IN  IF x.transport # "none" THEN DoError(x.transport)
        ELSE IF x.status \notin accepted THEN HTTPStatusError(x.status)
        ELSE IF ~wantsResult THEN NoError
        ELSE IF ~x.json THEN Cause("opaque")
        ELSE Decode(x.body)

Check(x) == sendRequest(x, TRUE)

(* Ham and Spam *)
Learn(x) == sendRequest(x, FALSE)
=============================================================================

---------------------------- MODULE MCRetryRunner ----------------------------
(* The instance of RetryRunner for TLC.                                     *)
EXTENDS RetryRunner

(* An expired phase, a write to the server that times out, an answer NO, a   *)
(* local file that cannot be written.                                       *)
ImapAndFileErrors ==
    { Cause("DeadlineExceeded") \o Cause("ErrClosed"),
      Cause("ioTimeout"), Cause("opaque"), Cause("netError") }

Failed(kind) == [transport |-> kind, status |-> 0, json |-> FALSE, body |-> "invalid"]
Answered(status, json, body) ==
    [transport |-> "none", status |-> status, json |-> json, body |-> body]

(* Rspamd is down, cannot be resolved, closes the connection, does not       *)
(* answer in time, its TLS handshake times out, the daemon is stopped,       *)
(* Rspamd is overloaded, refuses, has learned the mail already, is not       *)
(* Rspamd at all, or does not send all of its answer in time.               *)
RspamdExchanges ==
    { Failed("ECONNREFUSED"), Failed("netError"), Failed("opaque"),
      Failed("DeadlineExceeded"), Failed("ioTimeout"), Failed("Canceled"),
      Answered(503, FALSE, "invalid"), Answered(404, FALSE, "invalid"),
      Answered(208, TRUE, "good"), Answered(200, TRUE, "good"),
      Answered(200, FALSE, "invalid"), Answered(200, TRUE, "DeadlineExceeded") }

TwoIntervals == <<3, 30>>
=============================================================================

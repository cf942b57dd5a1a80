--------------------------- MODULE MCClientMonitor ---------------------------
(* ClientMonitor for TLC; its bounds are in the configuration.              *)
EXTENDS ClientMonitor
=============================================================================

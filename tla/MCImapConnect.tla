----------------------------- MODULE MCImapConnect -----------------------------
(* The instance of ImapConnect for TLC.                                     *)
EXTENDS ImapConnect
=============================================================================

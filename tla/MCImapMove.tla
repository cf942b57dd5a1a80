------------------------------ MODULE MCImapMove ------------------------------
(* Instances of ImapMove for TLC.                                           *)
EXTENDS ImapMove

AnyServer == SUBSET {"MOVE", "UIDPLUS"}
OldServer == {{"UIDPLUS"}}
ModernServer == {{"MOVE", "UIDPLUS"}}
=============================================================================

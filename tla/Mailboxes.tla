------------------------------ MODULE Mailboxes ------------------------------
(***************************************************************************)
(* The configuration of an iscan client: the IMAP mailboxes and the role    *)
(* each of them plays, the spam threshold, and the checks NewClient makes   *)
(* of them (internal/iscan/config.go).  A mailbox is its name; the empty    *)
(* name switches a learning phase off.                                      *)
(***************************************************************************)
EXTENDS Integers

CONSTANTS
    InboxMailbox, SpamMailbox, ScanMailbox,
    HamMailbox,             \* mails the user marks as ham; "" = not configured
    UndetectedMailbox,      \* mails the user marks as spam; "" = not configured
    BackupMailbox,
    SpamThreshold

Mailbox == {InboxMailbox, SpamMailbox, ScanMailbox, HamMailbox,
            UndetectedMailbox, BackupMailbox}

(* Config.validate: the combinations of mailboxes NewClient accepts.        *)
validate ==
    /\ SpamThreshold > 0
    /\ ScanMailbox # InboxMailbox
    /\ ScanMailbox # UndetectedMailbox
    /\ ScanMailbox # HamMailbox
    /\ BackupMailbox # ""
    /\ BackupMailbox # InboxMailbox

(* What validate leaves open and the delivery of mails relies on: nothing   *)
(* the client files away lands in the mailbox it scans, and the backup      *)
(* mailbox has no other role.                                               *)
ScanAndBackupApart ==
    /\ ScanMailbox \notin {BackupMailbox, SpamMailbox}
    /\ BackupMailbox \notin {SpamMailbox, HamMailbox, UndetectedMailbox}

ASSUME ThresholdAssumption == SpamThreshold \in Int
ASSUME ConfigAccepted == validate

isSpam(score) == score >= SpamThreshold

(* The passes of the client over the mailboxes.                             *)
Phase == {"scan", "ham", "spam"}

(* Mutant: the ham phase reads the backup mailbox. *)
SourceOfSwapped(phase) == CASE phase = "scan" -> ScanMailbox
                            [] phase = "ham"  -> BackupMailbox
                            [] phase = "spam" -> UndetectedMailbox

(* The mailbox a phase reads, and where learn moves what it has learned.    *)
SourceOf(phase) == CASE phase = "scan" -> ScanMailbox
                     [] phase = "ham"  -> HamMailbox
                     [] phase = "spam" -> UndetectedMailbox

LearnDest(phase) == IF phase = "ham" THEN InboxMailbox ELSE SpamMailbox

(* Mutants: a score equal to the threshold is not spam; ham goes to a       *)
(* mailbox that is not the configured one.                                  *)
UploadDestStrict(score) == IF score > SpamThreshold THEN SpamMailbox
                                                    ELSE InboxMailbox
UploadDestFixed(score) == IF isSpam(score) THEN SpamMailbox ELSE "Scanned"

(* The mailbox a scanned mail is uploaded to (replaceWithModifiedMails).    *)
UploadDest(score) == IF isSpam(score) THEN SpamMailbox ELSE InboxMailbox
=============================================================================

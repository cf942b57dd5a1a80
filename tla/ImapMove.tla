------------------------------- MODULE ImapMove -------------------------------
(***************************************************************************)
(* Pass after pass over the scan mailbox (processScanBox and replaceWith-    *)
(* ModifiedMails, internal/iscan/client.go), and how imapclt.Client.Move     *)
(* moves a scanned mail to the backup mailbox.  On a server without the MOVE *)
(* capability go-imap sends COPY, STORE +FLAGS \Deleted and EXPUNGE (UID     *)
(* EXPUNGE with UIDPLUS) one after the other without waiting for an answer   *)
(* in between; Wait reports the first of them that is refused.              *)
(*                                                                          *)
(* MailFlow takes the move for one step and has all the rest; here are the   *)
(* parts of the move, and the order of the mails: FETCH yields them by UID,  *)
(* and the first that cannot be scanned ends the loop.  A mail is its UID;   *)
(* one that is not in the mailbox is ignored by every command.              *)
(***************************************************************************)
EXTENDS Naturals, Sequences

CONSTANTS
    MaxMails,       \* bound: mails that arrive
    Unscannable,    \* those of them downloadAndScan fails for each time
    Capabilities,   \* the sets of capabilities the server may have
    MaxFaults       \* bound: refused commands and lost connections

Mail == 1..MaxMails
NoMail == 0

ASSUME MailAssumption == Unscannable \subseteq Mail
ASSUME CapsAssumption == Capabilities \subseteq SUBSET {"MOVE", "UIDPLUS"}
ASSUME BoundAssumption == MaxMails \in Nat /\ MaxFaults \in Nat

VARIABLES
    (* the server *)
    caps,
    uidNext,        \* the UID of the next mail
    scan,           \* the mails in the scan mailbox
    deleted,        \* those of them flagged \Deleted
    flagged,        \* those another mail client has flagged
    backup,         \* the copies of each mail in the backup mailbox
    delivered,      \* the copies of each mail uploaded to inbox or spam mailbox
    refused,        \* the mails whose COPY was refused
    (* the connection: commands on their way, and answers to the current Move *)
    conn, pipe, answer,
    (* the pass, and what the errors joined in errs are about: a command or  *)
    (* upload that was refused, the connection, or the mail that cannot be   *)
    (* scanned                                                               *)
    pc, todo, cur, errs,
    faults

boxVars == <<uidNext, scan, deleted, flagged, backup, delivered, refused>>
passVars == <<pc, todo, cur, errs>>
vars == <<caps, boxVars, conn, pipe, answer, passVars, faults>>

Command == {"move", "copy", "store", "expunge"}
NoAnswer == [c \in Command |-> "none"]

Init ==
    /\ caps \in Capabilities
    /\ uidNext = 1 /\ scan = {} /\ deleted = {} /\ flagged = {}
    /\ backup = [m \in Mail |-> 0] /\ delivered = [m \in Mail |-> 0]
    /\ refused = {}
    /\ conn = "closed" /\ pipe = <<>> /\ answer = NoAnswer
    /\ pc = "idle" /\ todo = {} /\ cur = NoMail /\ errs = {}
    /\ faults = 0

Fault == faults < MaxFaults /\ faults' = faults + 1
-----------------------------------------------------------------------------
(* The server: mails arrive, another mail client flags some for deletion,   *)
(* and commands are executed in the order in which they came.               *)

Arrive ==
    /\ uidNext \in Mail
    /\ scan' = scan \cup {uidNext} /\ uidNext' = uidNext + 1
    /\ UNCHANGED <<caps, deleted, flagged, backup, delivered, refused, conn, pipe,
                   answer, passVars, faults>>

OtherClientFlags(m) ==
    /\ m \in scan \ deleted
    /\ deleted' = deleted \cup {m} /\ flagged' = flagged \cup {m}
    /\ UNCHANGED <<caps, uidNext, scan, backup, delivered, refused, conn, pipe,
                   answer, passVars, faults>>

(* Mutant: the fallback does not look at UIDPLUS.                           *)
ExpungedPlain(m) == deleted

(* What EXPUNGE removes; UID EXPUNGE only the message it names.              *)
Expunged(m) == IF "UIDPLUS" \in caps THEN deleted \cap {m} ELSE deleted

(* The messages flagged \Deleted after STORE.                                *)
Stored(m) == deleted \cup (scan \cap {m})

Copied(m) == IF m \in scan THEN [backup EXCEPT ![m] = @ + 1] ELSE backup

Execute(op, m) ==
    \/ /\ op = "move"
       /\ scan' = scan \ {m} /\ deleted' = deleted \ {m} /\ backup' = Copied(m)
    \/ /\ op = "copy"
       /\ backup' = Copied(m) /\ UNCHANGED <<scan, deleted>>
    \/ /\ op = "store"
       /\ deleted' = Stored(m) /\ UNCHANGED <<scan, backup>>
    \/ /\ op = "expunge"
       /\ scan' = scan \ Expunged(m) /\ deleted' = deleted \ Expunged(m)
       /\ UNCHANGED backup

(* An answer is heard by the Move that waits for it.                        *)
Answer(a) ==
    /\ pipe' = Tail(pipe)
    /\ answer' = IF conn = "open" /\ Head(pipe).m = cur
                 THEN [answer EXCEPT ![Head(pipe).op] = a] ELSE answer
    /\ UNCHANGED <<caps, uidNext, flagged, delivered, conn, passVars>>

ServerExecutes ==
    /\ pipe # <<>> /\ Execute(Head(pipe).op, Head(pipe).m)
    /\ Answer("ok") /\ UNCHANGED <<refused, faults>>

ServerRefuses ==
    /\ pipe # <<>> /\ Fault
    /\ refused' = IF Head(pipe).op = "copy" THEN refused \cup {Head(pipe).m}
                                            ELSE refused
    /\ Answer("no") /\ UNCHANGED <<scan, deleted, backup>>

(* The connection breaks; what the server has not received yet is lost.      *)
ConnectionLost ==
    /\ conn = "open" /\ Fault
    /\ conn' = "closed"
    /\ \E n \in 0..Len(pipe) : pipe' = SubSeq(pipe, 1, n)
    /\ UNCHANGED <<caps, boxVars, answer, passVars>>
-----------------------------------------------------------------------------
(* Mutant: mails another client has flagged are left out.                   *)
ScannedMailsUndeleted ==
    {m \in scan \ deleted : \A n \in scan \cap Unscannable : m < n}

(* The mails a pass scans: those in front of the first that cannot be.      *)
ScannedMails == {m \in scan : \A n \in scan \cap Unscannable : m < n}

(* A pass in a session that has a connection.  The server is done with the  *)
(* commands of the session before.                                          *)
BeginPass ==
    /\ pipe = <<>>
    /\ conn' = "open"
    /\ todo' = ScannedMails /\ pc' = "replace"
    /\ errs' = IF scan \cap Unscannable # {} THEN {"scan"} ELSE {}
    /\ UNCHANGED <<caps, boxVars, pipe, answer, cur, faults>>

(* A pass of the running daemon, in the old session or after a retryable    *)
(* error in a new one; and the first one after somebody has started the     *)
(* daemon again.                                                            *)
StartPass == pc = "idle" /\ BeginPass
Restart == pc = "exited" /\ BeginPass

moveCommands ==
    IF "MOVE" \in caps THEN <<"move">> ELSE <<"copy", "store", "expunge">>

Requests(m) == [i \in DOMAIN moveCommands |-> [op |-> moveCommands[i], m |-> m]]

(* Client.Move sends all its commands at once; on a broken connection the    *)
(* writes fail.                                                             *)
Move(m) ==
    /\ pc = "replace" /\ m \in todo /\ \A n \in todo : m <= n
    /\ pipe' = IF conn = "open" THEN pipe \o Requests(m) ELSE pipe
    /\ answer' = NoAnswer
    /\ pc' = "wait" /\ cur' = m
    /\ UNCHANGED <<caps, boxVars, conn, todo, errs, faults>>

Answers == [i \in DOMAIN moveCommands |-> answer[moveCommands[i]]]

(* Mutant: Wait looks at the answer to the first command only.              *)
MoveOkFirst ==
    /\ pc = "wait" /\ Answers[1] = "ok"
    /\ pc' = "upload"
    /\ UNCHANGED <<caps, boxVars, conn, pipe, answer, todo, cur, errs, faults>>

(* Mutant: Wait looks at the answer to the last command only.               *)
MoveOkLast ==
    /\ pc = "wait" /\ Answers[Len(Answers)] = "ok"
    /\ pc' = "upload"
    /\ UNCHANGED <<caps, boxVars, conn, pipe, answer, todo, cur, errs, faults>>

(* MoveCommand.Wait: all commands were accepted.                            *)
MoveOk ==
    /\ pc = "wait" /\ \A i \in DOMAIN Answers : Answers[i] = "ok"
    /\ pc' = "upload"
    /\ UNCHANGED <<caps, boxVars, conn, pipe, answer, todo, cur, errs, faults>>

(* removeTempMail, and on to the next mail                                   *)
NextMail ==
    /\ todo' = todo \ {cur} /\ cur' = NoMail /\ pc' = "replace"
    /\ UNCHANGED <<caps, uidNext, scan, deleted, flagged, backup, refused>>

(* Wait returns the first refusal, although later commands are still on     *)
(* their way; the modified mail is dropped.                                 *)
MoveFails ==
    /\ pc = "wait"
    /\ \/ /\ \E i \in DOMAIN Answers : /\ Answers[i] = "no"
                                       /\ \A j \in 1..(i - 1) : Answers[j] = "ok"
          /\ errs' = errs \cup {"refused"}
       \/ /\ conn = "closed" /\ \E i \in DOMAIN Answers : Answers[i] = "none"
          /\ errs' = errs \cup {"connection"}
    /\ NextMail
    /\ UNCHANGED <<delivered, conn, pipe, answer, faults>>

(* Upload; when it fails the server may have the mail nevertheless.         *)
Upload ==
    /\ pc = "upload" /\ conn = "open"
    /\ delivered' = [delivered EXCEPT ![cur] = @ + 1]
    /\ NextMail
    /\ UNCHANGED <<conn, pipe, answer, errs, faults>>

UploadFails ==
    /\ pc = "upload"
    /\ \/ /\ conn = "closed" /\ UNCHANGED <<faults, delivered>>
          /\ errs' = errs \cup {"connection"}
       \/ /\ Fault /\ delivered' \in {delivered, [delivered EXCEPT ![cur] = @ + 1]}
          /\ \E cause \in {"refused", "connection"} : errs' = errs \cup {cause}
    /\ NextMail
    /\ UNCHANGED <<conn, pipe, answer>>

(* IsRetryableError never holds of a refusal, and it may or may not hold of *)
(* a broken connection, whose cause go-imap may keep as text only, and of a *)
(* failed scan.  One retryable error is enough.                             *)
PassEnds ==
    /\ pc = "replace" /\ todo = {}
    /\ errs # {"refused"}
    /\ pc' = "idle"
    /\ UNCHANGED <<caps, boxVars, conn, pipe, answer, todo, cur, errs, faults>>

(* retry.Runner returns a non-retryable error, and main exits with it.      *)
Exit ==
    /\ pc = "replace" /\ todo = {}
    /\ errs # {}
    /\ pc' = "exited"
    /\ UNCHANGED <<caps, boxVars, conn, pipe, answer, todo, cur, errs, faults>>
-----------------------------------------------------------------------------
Client == \/ StartPass \/ MoveOk \/ MoveFails \/ Upload \/ UploadFails \/ PassEnds
          \/ Exit \/ \E m \in Mail : Move(m)

Next == \/ Arrive \/ \E m \in Mail : OtherClientFlags(m)
        \/ Client \/ Restart \/ ServerExecutes \/ ServerRefuses \/ ConnectionLost

(* The daemon and the server go on; nobody has to start the daemon again.   *)
Fairness == /\ WF_vars(Client /\ UNCHANGED faults)
            /\ WF_vars(ServerExecutes)

Spec == Init /\ [][Next]_vars /\ Fairness
-----------------------------------------------------------------------------
(* Properties.                                                              *)

(* Mailboxes hold mails, the flags are on messages that exist, and commands *)
(* name mails.                                                              *)
TypeOK ==
    /\ caps \in Capabilities
    /\ uidNext \in 1..(MaxMails + 1) /\ scan \subseteq 1..(uidNext - 1)
    /\ deleted \subseteq scan /\ flagged \subseteq Mail
    /\ backup \in [Mail -> Nat] /\ delivered \in [Mail -> Nat]
    /\ refused \subseteq Mail
    /\ conn \in {"open", "closed"}
    /\ pipe \in Seq([op : Command, m : Mail])
    /\ answer \in [Command -> {"none", "ok", "no"}]
    /\ pc \in {"idle", "replace", "wait", "upload", "exited"}
    /\ todo \subseteq Mail /\ cur \in Mail \cup {NoMail}
    /\ errs \subseteq {"refused", "connection", "scan"}
    /\ faults \in 0..MaxFaults

Kept(m) == m < uidNext => m \in scan \/ backup[m] > 0

(* The original of a mail is lost only on a server without MOVE: when its   *)
(* COPY was refused and what follows was not, or, without UIDPLUS, when     *)
(* another client had flagged it.                                           *)
LostOnlyByFallback ==
    \A m \in Mail : ~Kept(m) =>
      /\ "MOVE" \notin caps
      /\ m \in refused \/ (m \in flagged /\ "UIDPLUS" \notin caps)

(* A mail that was uploaded has its original in the backup mailbox, if the   *)
(* server can name the messages it expunges: Move returned nil only when     *)
(* COPY, or MOVE, had found the message.                                    *)
UploadedIsKept ==
    caps # {} => \A m \in Mail : delivered[m] > 0 => backup[m] > 0

(* However often a pass is repeated after refused commands and broken       *)
(* connections, a mail is uploaded at most once: a Move that did not remove *)
(* it from the scan mailbox is not taken for a success.                     *)
UploadedOnce == \A m \in Mail : delivered[m] <= 1

(* Every mail in front of the first that cannot be scanned leaves the scan  *)
(* mailbox, whatever the server can do and another client flags, unless the *)
(* daemon exits with an error that is not retryable.                        *)
ScanMailboxDrains ==
    \A m \in Mail : (\A n \in Unscannable : m < n) =>
                      (m \in scan ~> m \notin scan \/ pc = "exited")

(* What the README of the repository says and the code does not do.         *)

(* "The unmodified original mail is moved from the ScanMailbox to the        *)
(* BackupMailbox": it is always in one of them.                             *)
OriginalIsKept == \A m \in Mail : Kept(m)

(* "When a new mail arrives, it is sent to Rspamd's HTTP interface for       *)
(* scanning", and then leaves the scan mailbox, when the daemon makes one    *)
(* pass after the other, with or without being started again in between.    *)
NewMailsAreScanned ==
    []<>(pc = "replace") =>
      \A m \in Mail \ Unscannable : m \in scan ~> m \notin scan
=============================================================================

---------------------------- MODULE ImapMoveProofs ----------------------------
(***************************************************************************)
(* Proofs about ImapMove for any number of mails and faults and any set of  *)
(* capabilities: an original is lost only by the fallback for servers       *)
(* without MOVE, and what is uploaded is uploaded once and backed up.       *)
(***************************************************************************)
EXTENDS ImapMove, SequenceTheorems, TLAPS

Request == [op : Command, m : Mail]
Positions == 1..Len(pipe)

(* The order of the commands of one Move.                                   *)
Rank(op) == CASE op \in {"move", "copy"} -> 1 [] op = "store" -> 2 [] op = "expunge" -> 3

(* The original of m may leave the scan mailbox.                            *)
Safe(m) == backup[m] > 0 \/ m \in refused

(* A mail still to be replaced has not been delivered, and is in the scan   *)
(* mailbox unless the server may expunge what others have flagged.          *)
TodoOK ==
    /\ \A m \in todo : m < uidNext /\ delivered[m] = 0
    /\ pc \in {"wait", "upload"} => cur \in todo
    /\ pc \in {"idle", "replace", "exited"} => cur = NoMail
    /\ caps # {} => \A m \in todo : m \in scan \/ m = cur

(* Commands on their way name mails that are done with, or the current one, *)
(* whose commands are in order.                                             *)
PipeOK ==
    /\ \A i \in Positions : /\ pipe[i].op = "move" <=> "MOVE" \in caps
                            /\ pipe[i].m < uidNext
                            /\ pipe[i].m \in todo => pipe[i].m = cur
    /\ \A i, j \in Positions : j < i /\ pipe[i].m = cur /\ pipe[j].m = cur =>
                                 Rank(pipe[j].op) < Rank(pipe[i].op)
    /\ caps # {} => \A i \in Positions :
         pipe[i].m = cur /\ pipe[i].op \in {"move", "copy"} => cur \in scan
    /\ conn = "open" /\ pc = "wait" =>
         \A i \in Positions : pipe[i].m = cur =>
           \A op \in Command : Rank(op) >= Rank(pipe[i].op) => answer[op] = "none"

(* Nothing is flagged or expunged before its COPY was executed or refused.   *)
CopyFirst ==
    /\ \A i \in Positions : pipe[i].op \in {"store", "expunge"} =>
         \/ Safe(pipe[i].m) \/ pipe[i].m \notin scan
         \/ \E j \in Positions : j < i /\ pipe[j].op = "copy" /\ pipe[j].m = pipe[i].m
    /\ \A m \in deleted : m \in flagged \/ Safe(m)

(* What the answers heard so far say of the current mail.                   *)
AnswersOK ==
    /\ pc = "wait" =>
         /\ answer["move"] = "ok" => cur \notin scan /\ backup[cur] > 0
         /\ answer["store"] = "ok" => cur \in deleted \/ cur \notin scan
         /\ answer["store"] = "ok" /\ answer["expunge"] = "ok" => cur \notin scan
         /\ caps # {} /\ answer["copy"] = "ok" => backup[cur] > 0
    /\ pc = "upload" => cur \notin scan /\ (caps # {} => backup[cur] > 0)

DeliveredOK ==
    \A m \in Mail : /\ delivered[m] <= 1
                    /\ delivered[m] > 0 => m < uidNext /\ m \notin scan
                    /\ caps # {} /\ delivered[m] > 0 => backup[m] > 0

MoveInv == TypeOK /\ TodoOK /\ PipeOK /\ CopyFirst /\ AnswersOK /\ DeliveredOK
             /\ LostOnlyByFallback

LEMMA InitMove == Init => MoveInv
<1> SUFFICES ASSUME Init PROVE MoveInv
  OBVIOUS
<1> USE BoundAssumption DEF Init
<1>1. TypeOK
  BY DEF TypeOK, NoAnswer, Command, Mail
<1>2. pipe = <<>> /\ Positions = {}
  BY DEF Positions
<1>3. TodoOK /\ PipeOK /\ CopyFirst
  BY <1>2 DEF TodoOK, PipeOK, CopyFirst
<1>4. AnswersOK
  BY DEF AnswersOK
<1>5. DeliveredOK
  BY DEF DeliveredOK
<1>6. LostOnlyByFallback
  BY DEF LostOnlyByFallback, Kept, Mail
<1> QED
  BY <1>1, <1>3, <1>4, <1>5, <1>6 DEF MoveInv

(* The commands of a Move, one by one.                                      *)
LEMMA RequestsOfMove ==
    ASSUME NEW m \in Mail
    PROVE  /\ Requests(m) \in Seq(Request)
           /\ Len(Requests(m)) = IF "MOVE" \in caps THEN 1 ELSE 3
           /\ \A i \in 1..Len(Requests(m)) : Requests(m)[i].m = m
           /\ "MOVE" \in caps => Requests(m)[1].op = "move"
           /\ "MOVE" \notin caps => /\ Requests(m)[1].op = "copy"
                                    /\ Requests(m)[2].op = "store"
                                    /\ Requests(m)[3].op = "expunge"
<1>1. CASE "MOVE" \in caps
  <2>1. moveCommands = <<"move">> /\ DOMAIN moveCommands = 1..1
    BY <1>1 DEF moveCommands
  <2>2. Requests(m) = [i \in 1..1 |-> [op |-> moveCommands[i], m |-> m]]
    BY <2>1 DEF Requests
  <2>3. /\ Requests(m) \in [1..1 -> Request]
        /\ Requests(m)[1] = [op |-> "move", m |-> m]
    BY <2>1, <2>2 DEF Request, Command
  <2>4. Requests(m) \in Seq(Request) /\ Len(Requests(m)) = 1
    BY <2>3 DEF Requests
  <2> QED
    BY <1>1, <2>3, <2>4
<1>2. CASE "MOVE" \notin caps
  <2>1. moveCommands = <<"copy", "store", "expunge">> /\ DOMAIN moveCommands = 1..3
    BY <1>2 DEF moveCommands
  <2>2. Requests(m) = [i \in 1..3 |-> [op |-> moveCommands[i], m |-> m]]
    BY <2>1 DEF Requests
  <2>3. /\ Requests(m)[1] = [op |-> "copy", m |-> m]
        /\ Requests(m)[2] = [op |-> "store", m |-> m]
        /\ Requests(m)[3] = [op |-> "expunge", m |-> m]
    BY <2>1, <2>2
  <2>4. Requests(m) \in [1..3 -> Request]
    BY <2>2, <2>3 DEF Request, Command
  <2>5. Requests(m) \in Seq(Request) /\ Len(Requests(m)) = 3
    BY <2>4 DEF Requests
  <2> QED
    BY <1>2, <2>3, <2>5
<1> QED
  BY <1>1, <1>2

LEMMA PipeElements ==
    TypeOK => \A i \in Positions : /\ pipe[i] \in Request
                                   /\ pipe[i].op \in Command /\ pipe[i].m \in Mail
<1> SUFFICES ASSUME TypeOK PROVE \A i \in Positions : /\ pipe[i] \in Request
                                   /\ pipe[i].op \in Command /\ pipe[i].m \in Mail
  OBVIOUS
<1>1. pipe \in Seq(Request)
  BY DEF TypeOK, Request
<1>2. \A i \in Positions : pipe[i] \in Request
  BY <1>1, ElementOfSeq DEF Positions
<1> QED
  BY <1>2 DEF Request

(* What a pipe looks like when its first command is executed, ...            *)
LEMMA PipeTail ==
    ASSUME TypeOK, pipe # <<>>, pipe' = Tail(pipe)
    PROVE  /\ pipe' \in Seq(Request) /\ Len(pipe) \in Nat \ {0}
           /\ Len(pipe') = Len(pipe) - 1
           /\ \A i \in 1..Len(pipe') : pipe'[i] = pipe[i + 1]
           /\ Head(pipe) = pipe[1] /\ pipe[1] \in Request
<1>1. pipe \in Seq(Request)
  BY DEF TypeOK, Request
<1> QED
  BY <1>1, HeadTailProperties, LenProperties, EmptySeq

(* ... and when those the server has not received are lost.                  *)
LEMMA PipePrefix ==
    ASSUME TypeOK, NEW n \in 0..Len(pipe), pipe' = SubSeq(pipe, 1, n)
    PROVE  /\ pipe' \in Seq(Request) /\ Len(pipe') = n /\ Len(pipe) \in Nat
           /\ \A i \in 1..n : pipe'[i] = pipe[i]
<1>1. pipe \in Seq(Request) /\ Len(pipe) \in Nat
  BY LenProperties DEF TypeOK, Request
<1>2. \A i \in 1..n : pipe[i] \in Request
  BY <1>1, ElementOfSeq
<1> QED
  BY <1>1, <1>2, SubSeqProperties

LEMMA TypeStep == TypeOK /\ [Next]_vars => TypeOK'
<1> SUFFICES ASSUME TypeOK, [Next]_vars PROVE TypeOK'
  OBVIOUS
<1> USE BoundAssumption DEF TypeOK, Fault, boxVars, passVars
<1>1. CASE Arrive
  BY <1>1 DEF Arrive, Mail
<1>2. ASSUME NEW m \in Mail, OtherClientFlags(m) PROVE TypeOK'
  BY <1>2 DEF OtherClientFlags
<1>p. pipe # <<>> => /\ Head(pipe).op \in Command /\ Head(pipe).m \in Mail
                     /\ Tail(pipe) \in Seq([op : Command, m : Mail])
  <2>1. pipe # <<>> => /\ Head(pipe) \in [op : Command, m : Mail]
                       /\ Tail(pipe) \in Seq([op : Command, m : Mail])
    BY HeadTailProperties
  <2> QED
    BY <2>1
<1>s. scan \subseteq Mail /\ uidNext \in Nat
  BY DEF Mail
<1>3. CASE ServerExecutes
  <2>1. /\ pipe' \in Seq([op : Command, m : Mail])
        /\ answer' \in [Command -> {"none", "ok", "no"}]
        /\ UNCHANGED <<caps, uidNext, flagged, delivered, conn, pc, todo, cur, errs,
                       refused, faults>>
    BY <1>3, <1>p DEF ServerExecutes, Answer
  <2>2. /\ scan' \subseteq scan /\ deleted' \subseteq scan'
        /\ backup' \in [Mail -> Nat]
    <3> DEFINE op == Head(pipe).op
               m == Head(pipe).m
    <3>1. Execute(op, m) /\ m \in Mail
      BY <1>3, <1>p DEF ServerExecutes
    <3>2. Copied(m) \in [Mail -> Nat]
      BY <3>1 DEF Copied
    <3> HIDE DEF op, m
    <3> QED
      BY <3>1, <3>2 DEF Execute, Stored
  <2> QED
    BY <2>1, <2>2
<1>4. CASE ServerRefuses
  <2>1. /\ pipe' \in Seq([op : Command, m : Mail])
        /\ answer' \in [Command -> {"none", "ok", "no"}]
        /\ refused' \subseteq Mail
        /\ UNCHANGED <<caps, uidNext, flagged, delivered, conn, pc, todo, cur, errs,
                       scan, deleted, backup>>
    BY <1>4, <1>p DEF ServerRefuses, Answer
  <2>2. faults' \in 0..MaxFaults
    BY <1>4 DEF ServerRefuses
  <2> QED
    BY <2>1, <2>2
<1>5. CASE ConnectionLost
  <2>1. PICK n \in 0..Len(pipe) : pipe' = SubSeq(pipe, 1, n)
    BY <1>5 DEF ConnectionLost
  <2>2. pipe' \in Seq([op : Command, m : Mail])
    BY <2>1, PipePrefix DEF Request
  <2> QED
    BY <1>5, <2>2 DEF ConnectionLost
<1>6. CASE StartPass \/ Restart
  <2>1. ScannedMails \subseteq Mail
    BY <1>s DEF ScannedMails
  <2> QED
    BY <1>6, <2>1 DEF StartPass, Restart, BeginPass
<1>7. ASSUME NEW m \in Mail, Move(m) PROVE TypeOK'
  <2>1. pipe' \in Seq([op : Command, m : Mail])
    <3>1. pipe \o Requests(m) \in Seq(Request)
      BY RequestsOfMove, ConcatProperties DEF Request
    <3> QED
      BY <1>7, <3>1 DEF Move, Request
  <2> QED
    BY <1>7, <2>1 DEF Move, NoAnswer
<1>8. CASE MoveOk \/ PassEnds \/ Exit
  BY <1>8 DEF MoveOk, PassEnds, Exit
<1>9. CASE MoveFails
  BY <1>9 DEF MoveFails, NextMail
<1>u. [delivered EXCEPT ![cur] = @ + 1] \in [Mail -> Nat]
  <2>1. CASE cur \in Mail
    <3>1. delivered[cur] + 1 \in Nat
      BY <2>1
    <3> QED
      BY <3>1
  <2>2. CASE cur \notin Mail
    BY <2>2
  <2> QED
    BY <2>1, <2>2
<1>10. CASE Upload
  <2>1. delivered' \in [Mail -> Nat]
    BY <1>10, <1>u DEF Upload
  <2> QED
    BY <1>10, <2>1 DEF Upload, NextMail
<1>11. CASE UploadFails
  <2>1. delivered' \in [Mail -> Nat]
    <3>1. delivered' = delivered \/ delivered' = [delivered EXCEPT ![cur] = @ + 1]
      BY <1>11 DEF UploadFails
    <3> QED
      BY <3>1, <1>u
  <2>2. faults' \in 0..MaxFaults
    BY <1>11 DEF UploadFails
  <2> QED
    BY <1>11, <2>1, <2>2 DEF UploadFails, NextMail
<1>12. CASE UNCHANGED vars
  BY <1>12 DEF vars
<1> QED
  BY <1>1, <1>2, <1>3, <1>4, <1>5, <1>6, <1>7, <1>8, <1>9, <1>10, <1>11, <1>12
     DEF Next, Client

(* What the server does to the mailboxes when it answers command h with a.  *)
Effect(h, a) ==
    /\ scan' \subseteq scan
    /\ \A m \in Mail : backup'[m] >= backup[m]
    /\ refused \subseteq refused'
    /\ \A m \in deleted : m \in scan' => m \in deleted'
    /\ \A m \in deleted' : m \in deleted \/ (h.op = "store" /\ m = h.m /\ m \in scan)
    /\ \A m \in scan \ scan' :
         \/ backup'[m] > 0 /\ m = h.m
         \/ "MOVE" \notin caps /\ h.op = "expunge" /\ m \in deleted
              /\ ("UIDPLUS" \in caps => m = h.m)
    /\ h.op = "copy" => backup'[h.m] > 0 \/ h.m \in refused' \/ h.m \notin scan'
    /\ a = "ok" =>
         /\ h.op = "move" => h.m \notin scan'
         /\ h.op \in {"move", "copy"} /\ h.m \in scan => backup'[h.m] > 0
         /\ h.op = "store" => h.m \in deleted' \/ h.m \notin scan'
         /\ h.op = "expunge" /\ h.m \in deleted => h.m \notin scan'

LEMMA ExecuteEffect ==
    ASSUME TypeOK, PipeOK, pipe # <<>>, NEW h, h = Head(pipe), Execute(h.op, h.m),
           UNCHANGED <<caps, refused>>
    PROVE  Effect(h, "ok")
<1>1. h \in Request /\ h = pipe[1] /\ 1 \in Positions
  <2>1. pipe \in Seq(Request)
    BY DEF TypeOK, Request
  <2> QED
    BY <2>1, HeadTailProperties, LenProperties, EmptySeq DEF Positions
<1>2. h.op \in Command /\ h.m \in Mail
  BY <1>1 DEF Request
<1>3. h.op = "move" <=> "MOVE" \in caps
  BY <1>1 DEF PipeOK
<1>t. backup \in [Mail -> Nat] /\ deleted \subseteq scan /\ scan \subseteq Mail
  BY BoundAssumption DEF TypeOK, Mail
<1>4. /\ Copied(h.m) \in [Mail -> Nat]
      /\ \A m \in Mail : Copied(h.m)[m] >= backup[m]
      /\ h.m \in scan => Copied(h.m)[h.m] > 0
  BY <1>t, <1>2 DEF Copied
<1>5. CASE h.op = "move"
  <2>1. scan' = scan \ {h.m} /\ deleted' = deleted \ {h.m} /\ backup' = Copied(h.m)
    BY <1>5 DEF Execute
  <2> QED
    BY <1>5, <2>1, <1>2, <1>4, <1>t DEF Effect
<1>6. CASE h.op = "copy"
  <2>1. scan' = scan /\ deleted' = deleted /\ backup' = Copied(h.m)
    BY <1>6 DEF Execute
  <2> QED
    BY <1>6, <2>1, <1>2, <1>4, <1>t DEF Effect, Safe
<1>7. CASE h.op = "store"
  <2>1. scan' = scan /\ deleted' = Stored(h.m) /\ backup' = backup
    BY <1>7 DEF Execute
  <2> QED
    BY <1>7, <2>1, <1>2, <1>t DEF Effect, Stored
<1>8. CASE h.op = "expunge"
  <2>1. scan' = scan \ Expunged(h.m) /\ deleted' = deleted \ Expunged(h.m)
        /\ backup' = backup
    BY <1>8 DEF Execute
  <2> QED
    BY <1>8, <2>1, <1>2, <1>3, <1>t DEF Effect, Expunged
<1> QED
  BY <1>2, <1>5, <1>6, <1>7, <1>8 DEF Command

LEMMA RefuseEffect ==
    ASSUME TypeOK, NEW h, UNCHANGED <<scan, deleted, backup>>,
           refused' = IF h.op = "copy" THEN refused \cup {h.m} ELSE refused
    PROVE  Effect(h, "no")
<1>1. backup \in [Mail -> Nat]
  BY DEF TypeOK
<1> QED
  BY <1>1 DEF Effect, Safe

(* An executed or refused command preserves the invariant.                  *)
LEMMA ServerStep ==
    ASSUME MoveInv, TypeOK', pipe # <<>>, NEW h, h = Head(pipe),
           NEW a \in {"ok", "no"}, Answer(a), Effect(h, a)
    PROVE  TodoOK' /\ PipeOK' /\ CopyFirst' /\ AnswersOK' /\ DeliveredOK'
             /\ LostOnlyByFallback'
<1> USE DEF MoveInv
<1>1. /\ pipe' = Tail(pipe)
      /\ answer' = IF conn = "open" /\ h.m = cur THEN [answer EXCEPT ![h.op] = a]
                   ELSE answer
      /\ UNCHANGED <<caps, uidNext, flagged, delivered, conn, pc, todo, cur>>
  BY DEF Answer, passVars
<1>2. /\ Len(pipe) \in Nat \ {0} /\ Len(pipe') = Len(pipe) - 1
      /\ \A i \in 1..Len(pipe') : pipe'[i] = pipe[i + 1]
      /\ h = pipe[1] /\ h \in Request
  BY <1>1, PipeTail
<1>3. 1 \in Positions /\ \A i \in Positions' : i + 1 \in Positions /\ pipe'[i] = pipe[i + 1]
  BY <1>2 DEF Positions
<1>h. h.op \in Command /\ h.m \in Mail
  BY <1>2 DEF Request
<1>t. /\ backup \in [Mail -> Nat] /\ backup' \in [Mail -> Nat]
      /\ deleted \subseteq scan /\ scan \subseteq Mail /\ deleted' \subseteq scan'
      /\ answer \in [Command -> {"none", "ok", "no"}] /\ caps \subseteq {"MOVE", "UIDPLUS"}
      /\ todo \subseteq Mail /\ uidNext \in Nat
  <2>1. caps \subseteq {"MOVE", "UIDPLUS"}
    BY CapsAssumption DEF TypeOK
  <2>2. scan \subseteq Mail /\ uidNext \in Nat
    BY BoundAssumption DEF TypeOK, Mail
  <2> QED
    BY <2>1, <2>2 DEF TypeOK
<1>r. \A i \in Positions : pipe[i] \in Request /\ pipe[i].op \in Command /\ pipe[i].m \in Mail
  BY PipeElements
<1>m. "MOVE" \in caps <=> h.op = "move"
  BY <1>2, <1>3 DEF PipeOK
<1>4. caps # {} => \A m \in scan \ scan' : m = h.m
  BY <1>t DEF Effect
<1>5. TodoOK'
  <2>1. caps # {} => \A m \in todo : m \in scan' \/ m = cur
    <3> SUFFICES ASSUME caps # {}, NEW m \in todo, m \notin scan', m # cur PROVE FALSE
      OBVIOUS
    <3>1. m = h.m
      BY <1>4 DEF TodoOK
    <3> QED
      BY <3>1, <1>2, <1>3 DEF PipeOK
  <2> QED
    BY <1>1, <2>1 DEF TodoOK
<1>6. PipeOK'
  <2>1. \A i \in Positions' : /\ pipe'[i].op = "move" <=> "MOVE" \in caps'
                              /\ pipe'[i].m < uidNext'
                              /\ pipe'[i].m \in todo' => pipe'[i].m = cur'
    BY <1>1, <1>3 DEF PipeOK
  <2>2. \A i, j \in Positions' : j < i /\ pipe'[i].m = cur' /\ pipe'[j].m = cur' =>
                                   Rank(pipe'[j].op) < Rank(pipe'[i].op)
    <3> SUFFICES ASSUME NEW i \in Positions', NEW j \in Positions', j < i,
                        pipe'[i].m = cur', pipe'[j].m = cur'
                 PROVE  Rank(pipe'[j].op) < Rank(pipe'[i].op)
      OBVIOUS
    <3>1. j + 1 < i + 1
      BY DEF Positions
    <3> QED
      <4>1. /\ i + 1 \in Positions /\ j + 1 \in Positions
            /\ pipe[i + 1] = pipe'[i] /\ pipe[j + 1] = pipe'[j]
        BY <1>3
      <4>2. Rank(pipe[j + 1].op) < Rank(pipe[i + 1].op)
        BY <3>1, <4>1, <1>1 DEF PipeOK
      <4> QED
        BY <4>1, <4>2
  <2>3. ASSUME NEW i \in Positions', pipe'[i].m = cur, h.m = cur
        PROVE  Rank(h.op) < Rank(pipe'[i].op)
    <3>1. 1 < i + 1
      BY DEF Positions
    <3> QED
      BY <2>3, <3>1, <1>2, <1>3 DEF PipeOK
  <2>4. ASSUME caps # {}, NEW i \in Positions', pipe'[i].m = cur,
               pipe'[i].op \in {"move", "copy"}
        PROVE  cur \in scan'
    <3>1. cur \in scan
      BY <2>4, <1>3 DEF PipeOK
    <3>2. h.m # cur
      BY <2>3, <2>4, <1>h DEF Rank, Command
    <3> QED
      BY <3>1, <3>2, <2>4, <1>4
  <2>5. ASSUME conn = "open", pc = "wait", NEW i \in Positions', pipe'[i].m = cur,
               NEW op \in Command, Rank(op) >= Rank(pipe'[i].op)
        PROVE  answer'[op] = "none"
    <3>1. answer[op] = "none"
      BY <2>5, <1>3 DEF PipeOK
    <3>2. CASE h.m = cur
      <4>1. op # h.op
        <5>1. pipe'[i].op \in Command
          BY <1>3, <1>r
        <5> QED
          BY <5>1, <3>2, <2>3, <2>5, <1>h DEF Rank, Command
      <4> QED
        BY <4>1, <3>1, <1>1, <1>t
    <3>3. CASE h.m # cur
      BY <3>1, <3>3, <1>1
    <3> QED
      BY <3>2, <3>3
  <2> QED
    BY <1>1, <2>1, <2>2, <2>4, <2>5 DEF PipeOK
<1> DEFINE Gone(m) == backup'[m] > 0 \/ m \in refused' \/ m \notin scan'
<1>s. /\ \A m \in Mail : Safe(m) => Safe(m)'
      /\ \A m \in Mail : Safe(m) \/ m \notin scan => Gone(m)
  BY <1>t DEF Safe, Effect
<1>7. CopyFirst'
  <2>1. ASSUME NEW i \in Positions', pipe'[i].op \in {"store", "expunge"}
        PROVE  \/ Gone(pipe'[i].m)
               \/ \E j \in Positions' : j < i /\ pipe'[j].op = "copy" /\ pipe'[j].m = pipe'[i].m
    <3> HIDE DEF Gone
    <3>1. \/ Safe(pipe[i + 1].m) \/ pipe[i + 1].m \notin scan
          \/ \E j \in Positions : j < i + 1 /\ pipe[j].op = "copy" /\ pipe[j].m = pipe[i + 1].m
      BY <2>1, <1>3 DEF CopyFirst
    <3>2. pipe[i + 1].m \in Mail /\ pipe[i + 1] = pipe'[i]
      BY <1>3, <1>r
    <3>3. CASE Safe(pipe[i + 1].m) \/ pipe[i + 1].m \notin scan
      BY <3>2, <3>3, <1>s
    <3>4. ASSUME NEW j \in Positions, j < i + 1, pipe[j].op = "copy", pipe[j].m = pipe[i + 1].m
          PROVE  \/ Gone(pipe'[i].m)
                 \/ \E k \in Positions' : k < i /\ pipe'[k].op = "copy" /\ pipe'[k].m = pipe'[i].m
      <4>1. CASE j = 1
        <5>1. Gone(h.m)
          BY <3>4, <4>1, <1>2 DEF Effect, Gone
        <5>2. pipe'[i].m = h.m
          BY <3>2, <3>4, <4>1, <1>2
        <5> QED
          BY <5>1, <5>2
      <4>2. CASE j # 1
        <5>1. j - 1 \in Positions' /\ j - 1 < i /\ pipe'[j - 1] = pipe[j]
          <6>1. j - 1 \in 1..Len(pipe') /\ j - 1 < i /\ (j - 1) + 1 = j
            BY <4>2, <3>4, <1>2 DEF Positions
          <6> QED
            BY <6>1, <1>2 DEF Positions
        <5> QED
          BY <5>1, <3>2, <3>4
      <4> QED
        BY <4>1, <4>2
    <3> QED
      BY <3>1, <3>3, <3>4
  <2>2. ASSUME NEW m \in deleted' PROVE m \in flagged' \/ Safe(m)'
    <3>1. CASE m \in deleted
      BY <3>1, <1>1, <1>s, <1>t DEF CopyFirst
    <3>2. CASE h.op = "store" /\ m = h.m /\ m \in scan
      <4>1. Safe(m)
        BY <3>2, <1>2, <1>3 DEF CopyFirst, Positions
      <4> QED
        BY <4>1, <3>2, <1>s, <1>h
    <3> QED
      BY <3>1, <3>2 DEF Effect
  <2> QED
    BY <2>1, <2>2 DEF CopyFirst, Safe
<1>8. AnswersOK'
  <2>0. pc \in {"wait", "upload"} => cur \in Mail
    BY <1>t DEF TodoOK
  <2>1. CASE pc = "upload"
    BY <2>1, <2>0, <1>1, <1>t DEF AnswersOK, Effect
  <2>2. CASE pc = "wait" /\ answer' = answer
    BY <2>2, <2>0, <1>1, <1>t DEF AnswersOK, Effect
  <2>3. CASE pc = "wait" /\ conn = "open" /\ h.m = cur
    <3>1. /\ answer'[h.op] = a
          /\ \A op \in Command : op # h.op => answer'[op] = answer[op]
      BY <2>3, <1>1, <1>t, <1>h
    <3>2. \A op \in Command : Rank(op) >= Rank(h.op) => answer[op] = "none"
      BY <2>3, <1>2, <1>3 DEF PipeOK
    <3>3. h.op \in {"move", "copy"} /\ caps # {} => cur \in scan
      BY <2>3, <1>2, <1>3 DEF PipeOK
    <3>4. answer'["move"] = "ok" => cur \notin scan' /\ backup'[cur] > 0
      BY <2>0, <2>3, <3>1, <3>3, <1>t, <1>h, <1>m DEF AnswersOK, Effect, Command
    <3>5. answer'["store"] = "ok" => cur \in deleted' \/ cur \notin scan'
      BY <2>3, <3>1, <1>t, <1>h DEF AnswersOK, Effect, Command
    <3>6. answer'["store"] = "ok" /\ answer'["expunge"] = "ok" => cur \notin scan'
      <4>1. h.op = "store" => answer["expunge"] = "none"
        BY <3>2 DEF Rank, Command
      <4> QED
        BY <2>3, <3>1, <4>1, <1>t, <1>h DEF AnswersOK, Effect, Command
    <3>7. caps # {} /\ answer'["copy"] = "ok" => backup'[cur] > 0
      BY <2>0, <2>3, <3>1, <3>3, <1>t, <1>h DEF AnswersOK, Effect, Command
    <3> QED
      BY <2>3, <3>4, <3>5, <3>6, <3>7, <1>1 DEF AnswersOK
  <2>4. CASE pc \notin {"wait", "upload"}
    BY <2>4, <1>1 DEF AnswersOK
  <2> QED
    BY <2>1, <2>2, <2>3, <2>4, <1>1
<1>9. DeliveredOK'
  BY <1>1, <1>t DEF DeliveredOK, Effect
<1>10. LostOnlyByFallback'
  <2> SUFFICES ASSUME NEW m \in Mail, m < uidNext, m \notin scan', ~(backup'[m] > 0)
               PROVE  /\ "MOVE" \notin caps
                      /\ m \in refused' \/ (m \in flagged /\ "UIDPLUS" \notin caps)
    BY <1>1 DEF LostOnlyByFallback, Kept
  <2>0. ~(backup[m] > 0)
    BY <1>t DEF Effect
  <2>1. CASE m \notin scan
    BY <2>0, <2>1 DEF LostOnlyByFallback, Kept, Effect
  <2>2. CASE m \in scan
    <3>1. /\ "MOVE" \notin caps /\ h.op = "expunge" /\ m \in deleted
          /\ "UIDPLUS" \in caps => m = h.m
      BY <2>2 DEF Effect
    <3>2. m \in refused \/ m \in flagged
      BY <3>1, <2>0 DEF CopyFirst, Safe
    <3>3. "UIDPLUS" \in caps => m \in refused
      <4>1. h.m \in scan => Safe(h.m)
        BY <3>1, <1>2, <1>3 DEF CopyFirst, Positions
      <4> QED
        BY <3>1, <4>1, <2>0, <2>2 DEF Safe
    <3> QED
      BY <3>1, <3>2, <3>3 DEF Effect
  <2> QED
    BY <2>1, <2>2
<1> QED
  BY <1>5, <1>6, <1>7, <1>8, <1>9, <1>10

(* Mails arrive, another client flags some, the connection breaks.          *)
LEMMA EnvironmentStep ==
    ASSUME MoveInv,
           Arrive \/ (\E m \in Mail : OtherClientFlags(m)) \/ ConnectionLost
    PROVE  TodoOK' /\ PipeOK' /\ CopyFirst' /\ AnswersOK' /\ DeliveredOK'
             /\ LostOnlyByFallback'
<1> USE DEF MoveInv, boxVars, passVars
<1>t. /\ backup \in [Mail -> Nat] /\ delivered \in [Mail -> Nat]
      /\ deleted \subseteq scan /\ scan \subseteq 1..(uidNext - 1)
      /\ scan \subseteq Mail /\ todo \subseteq Mail /\ uidNext \in Nat
  <2>1. scan \subseteq Mail /\ uidNext \in Nat
    BY BoundAssumption DEF TypeOK, Mail
  <2> QED
    BY <2>1 DEF TypeOK
<1>l. Len(pipe) \in Nat
  BY LenProperties DEF TypeOK
<1>n. \A m \in Mail : m \in Int
  BY BoundAssumption DEF Mail
<1>1. CASE Arrive
  <2>1. /\ uidNext \in Mail /\ scan' = scan \cup {uidNext} /\ uidNext' = uidNext + 1
        /\ UNCHANGED <<caps, deleted, flagged, backup, delivered, refused, conn, pipe,
                       answer, pc, todo, cur>>
    BY <1>1 DEF Arrive
  <2>p. \A i \in Positions : pipe[i].m \in Mail
    BY PipeElements
  <2>2. TodoOK'
    BY <2>1, <1>t, <1>n DEF TodoOK
  <2>3. PipeOK'
    <3>1. Positions' = Positions
      BY <2>1 DEF Positions
    <3>2. \A i \in Positions : pipe[i].m < uidNext + 1
      <4> SUFFICES ASSUME NEW i \in Positions PROVE pipe[i].m < uidNext + 1
        OBVIOUS
      <4>0. pipe[i].m \in Mail
        BY <2>p
      <4>1. pipe[i].m \in Int /\ uidNext \in Int
        <5>1. pipe[i].m \in Int
          BY <4>0, <1>n
        <5>2. uidNext \in Int
          BY <1>t
        <5> QED
          BY <5>1, <5>2
      <4>2. pipe[i].m < uidNext
        BY DEF PipeOK
      <4> QED
        BY <4>1, <4>2
    <3> QED
      BY <2>1, <3>1, <3>2 DEF PipeOK
  <2>4. CopyFirst'
    <3>1. \A i \in Positions : pipe[i].m # uidNext
      BY <2>p, <1>t, <1>n DEF PipeOK
    <3> QED
      BY <2>1, <3>1 DEF CopyFirst, Positions, Safe
  <2>5. AnswersOK'
    <3>1. pc \in {"wait", "upload"} => cur # uidNext
      BY <1>t, <1>n DEF TodoOK
    <3> QED
      BY <2>1, <3>1 DEF AnswersOK
  <2>6. DeliveredOK'
    BY <2>1, <1>t, <1>n DEF DeliveredOK
  <2>7. LostOnlyByFallback'
    <3>1. \A m \in Mail : Kept(m) => Kept(m)'
      BY <2>1, <1>t, <1>n DEF Kept
    <3> QED
      BY <2>1, <3>1 DEF LostOnlyByFallback
  <2> QED
    BY <2>2, <2>3, <2>4, <2>5, <2>6, <2>7
<1>2. ASSUME NEW m \in Mail, OtherClientFlags(m)
      PROVE  TodoOK' /\ PipeOK' /\ CopyFirst' /\ AnswersOK' /\ DeliveredOK'
               /\ LostOnlyByFallback'
  <2>1. /\ deleted' = deleted \cup {m} /\ flagged' = flagged \cup {m}
        /\ UNCHANGED <<caps, uidNext, scan, backup, delivered, refused, conn, pipe,
                       answer, pc, todo, cur>>
    BY <1>2 DEF OtherClientFlags
  <2>2. TodoOK' /\ DeliveredOK'
    BY <2>1 DEF TodoOK, DeliveredOK
  <2>3. PipeOK'
    BY <2>1 DEF PipeOK, Positions
  <2>4. CopyFirst'
    BY <2>1 DEF CopyFirst, Positions, Safe
  <2>5. AnswersOK'
    BY <2>1 DEF AnswersOK
  <2>6. LostOnlyByFallback'
    BY <2>1 DEF LostOnlyByFallback, Kept
  <2> QED
    BY <2>2, <2>3, <2>4, <2>5, <2>6
<1>3. CASE ConnectionLost
  <2>1. /\ conn' = "closed"
        /\ UNCHANGED <<caps, uidNext, scan, deleted, flagged, backup, delivered, refused,
                       answer, pc, todo, cur>>
    BY <1>3 DEF ConnectionLost
  <2>2. PICK n \in 0..Len(pipe) : pipe' = SubSeq(pipe, 1, n)
    BY <1>3 DEF ConnectionLost
  <2>3. /\ Positions' \subseteq Positions
        /\ \A i \in Positions' : pipe'[i] = pipe[i]
        /\ \A i \in Positions', j \in Positions : j < i => j \in Positions'
    BY <2>2, <1>l, PipePrefix DEF Positions
  <2>4. TodoOK' /\ DeliveredOK'
    BY <2>1 DEF TodoOK, DeliveredOK
  <2>5. PipeOK'
    BY <2>1, <2>3 DEF PipeOK
  <2>6. CopyFirst'
    <3>1. ASSUME NEW i \in Positions', pipe'[i].op \in {"store", "expunge"}
          PROVE  \/ backup[pipe'[i].m] > 0 \/ pipe'[i].m \in refused \/ pipe'[i].m \notin scan
                 \/ \E j \in Positions' : j < i /\ pipe'[j].op = "copy" /\ pipe'[j].m = pipe'[i].m
      BY <2>3, <3>1 DEF CopyFirst, Safe
    <3> QED
      BY <2>1, <3>1 DEF CopyFirst, Safe
  <2>7. AnswersOK'
    BY <2>1 DEF AnswersOK
  <2>8. LostOnlyByFallback'
    BY <2>1 DEF LostOnlyByFallback, Kept
  <2> QED
    BY <2>4, <2>5, <2>6, <2>7, <2>8
<1> QED
  BY <1>1, <1>2, <1>3

(* A pass begins, and sends the commands of a Move.                         *)
LEMMA SendStep ==
    ASSUME MoveInv, StartPass \/ Restart \/ \E m \in Mail : Move(m)
    PROVE  TodoOK' /\ PipeOK' /\ CopyFirst' /\ AnswersOK' /\ DeliveredOK'
             /\ LostOnlyByFallback'
<1> USE DEF MoveInv, boxVars
<1>t. /\ deleted \subseteq scan /\ scan \subseteq 1..(uidNext - 1) /\ todo \subseteq Mail
      /\ scan \subseteq Mail /\ uidNext \in Nat /\ delivered \in [Mail -> Nat]
  <2>1. scan \subseteq Mail /\ uidNext \in Nat
    BY BoundAssumption DEF TypeOK, Mail
  <2> QED
    BY <2>1 DEF TypeOK
<1>1. CASE StartPass \/ Restart
  <2>1. /\ pc \in {"idle", "exited"} /\ pipe = <<>> /\ conn' = "open" /\ todo' \subseteq scan
        /\ pc' = "replace"
        /\ UNCHANGED <<caps, uidNext, scan, deleted, flagged, backup, delivered, refused,
                       pipe, answer, cur>>
    BY <1>1 DEF StartPass, Restart, BeginPass, ScannedMails
  <2>2. Positions' = {}
    BY <2>1 DEF Positions
  <2>3. TodoOK'
    <3>1. \A m \in scan : m < uidNext /\ delivered[m] = 0
      BY <1>t DEF DeliveredOK
    <3> QED
      BY <2>1, <3>1 DEF TodoOK
  <2>4. PipeOK' /\ CopyFirst'
    BY <2>1, <2>2 DEF PipeOK, CopyFirst, Safe
  <2>5. AnswersOK' /\ DeliveredOK'
    BY <2>1 DEF AnswersOK, DeliveredOK
  <2>6. LostOnlyByFallback'
    BY <2>1 DEF LostOnlyByFallback, Kept
  <2> QED
    BY <2>3, <2>4, <2>5, <2>6
<1>2. ASSUME NEW m \in Mail, Move(m)
      PROVE  TodoOK' /\ PipeOK' /\ CopyFirst' /\ AnswersOK' /\ DeliveredOK'
               /\ LostOnlyByFallback'
  <2>1. /\ pc = "replace" /\ m \in todo /\ pc' = "wait" /\ cur' = m
        /\ pipe' = IF conn = "open" THEN pipe \o Requests(m) ELSE pipe
        /\ answer' = NoAnswer
        /\ UNCHANGED <<caps, uidNext, scan, deleted, flagged, backup, delivered, refused,
                       conn, todo>>
    BY <1>2 DEF Move
  <2>2. cur = NoMail /\ m # NoMail /\ m < uidNext /\ (caps # {} => m \in scan)
    <3>1. m # NoMail
      BY BoundAssumption DEF Mail, NoMail
    <3> QED
      BY <2>1, <3>1 DEF TodoOK
  <2>3. \A i \in Positions : pipe[i].m \notin todo
    <3>1. \A i \in Positions : pipe[i].m \in Mail
      BY PipeElements
    <3>2. \A x \in Mail : x # NoMail
      BY BoundAssumption DEF Mail, NoMail
    <3> QED
      BY <2>2, <3>1, <3>2 DEF PipeOK
  <2>4. TodoOK'
    <3>1. \A x \in todo : x # NoMail
      BY BoundAssumption, <1>t DEF Mail, NoMail
    <3> QED
      BY <2>1, <2>2, <3>1 DEF TodoOK
  <2>5. AnswersOK'
    BY <2>1 DEF AnswersOK, NoAnswer, Command
  <2>6. DeliveredOK' /\ LostOnlyByFallback'
    BY <2>1 DEF DeliveredOK, LostOnlyByFallback, Kept
  <2>7. CASE conn # "open"
    <3>1. Positions' = Positions /\ pipe' = pipe
      BY <2>1, <2>7 DEF Positions
    <3>2. PipeOK'
      BY <2>1, <2>3, <2>7, <3>1 DEF PipeOK
    <3>3. CopyFirst'
      <4>1. UNCHANGED <<scan, deleted, flagged, backup, refused, pipe>>
        BY <2>1, <3>1
      <4> QED
        BY <4>1 DEF CopyFirst, Safe, Positions
    <3> QED
      BY <2>4, <2>5, <2>6, <3>2, <3>3
  <2>8. CASE conn = "open"
    <3> DEFINE R == Requests(m)
               n == Len(pipe)
    <3>1. /\ n \in Nat /\ Len(pipe') = n + Len(R)
          /\ \A i \in 1..(n + Len(R)) : pipe'[i] = IF i <= n THEN pipe[i] ELSE R[i - n]
      <4>1. pipe \in Seq(Request)
        BY DEF TypeOK, Request
      <4> QED
        BY <2>1, <2>8, <4>1, RequestsOfMove, ConcatProperties, LenProperties
    <3>2. /\ Len(R) = IF "MOVE" \in caps THEN 1 ELSE 3
          /\ \A k \in 1..Len(R) : R[k].m = m
          /\ "MOVE" \in caps => R[1].op = "move"
          /\ "MOVE" \notin caps => R[1].op = "copy" /\ R[2].op = "store" /\ R[3].op = "expunge"
      BY RequestsOfMove
    <3> HIDE DEF R, n
    <3>3. ASSUME NEW i \in Positions'
          PROVE  \/ i \in Positions /\ i <= n /\ pipe'[i] = pipe[i]
                 \/ i - n \in 1..Len(R) /\ i > n /\ pipe'[i] = R[i - n]
      BY <3>1, <3>2 DEF Positions, n
    <3>4. /\ \A k \in 1..Len(R) : /\ R[k].op = "move" <=> "MOVE" \in caps
                                  /\ R[k].op \in {"move", "copy"} => k = 1
                                  /\ R[k].op \in Command
                                  /\ Rank(R[k].op) = k
          /\ "MOVE" \notin caps => Len(R) = 3 /\ R[1].op = "copy"
      BY <3>2 DEF Rank, Command
    <3>5. PipeOK'
      <4>1. \A i \in Positions' : /\ pipe'[i].op = "move" <=> "MOVE" \in caps'
                                  /\ pipe'[i].m < uidNext'
                                  /\ pipe'[i].m \in todo' => pipe'[i].m = cur'
        BY <2>1, <2>2, <2>3, <3>2, <3>3, <3>4 DEF PipeOK
      <4>2. \A i \in Positions' : pipe'[i].m = m =>
              i - n \in 1..Len(R) /\ pipe'[i] = R[i - n]
        BY <2>1, <2>3, <3>3
      <4>3. \A i, j \in Positions' : j < i /\ pipe'[i].m = m /\ pipe'[j].m = m =>
                                       Rank(pipe'[j].op) < Rank(pipe'[i].op)
        <5> SUFFICES ASSUME NEW i \in Positions', NEW j \in Positions', j < i,
                            pipe'[i].m = m, pipe'[j].m = m
                     PROVE  Rank(pipe'[j].op) < Rank(pipe'[i].op)
          OBVIOUS
        <5>1. Rank(pipe'[j].op) = j - n /\ Rank(pipe'[i].op) = i - n
          BY <4>2, <3>4
        <5>2. i \in Int /\ j \in Int
          BY DEF Positions
        <5> QED
          BY <5>1, <5>2, <3>1
      <4>4. \A op \in Command : answer'[op] = "none"
        BY <2>1 DEF NoAnswer
      <4> QED
        BY <2>1, <2>2, <4>1, <4>3, <4>4 DEF PipeOK
    <3>6. CopyFirst'
      <4>1. ASSUME NEW i \in Positions', pipe'[i].op \in {"store", "expunge"}
            PROVE  \/ backup[pipe'[i].m] > 0 \/ pipe'[i].m \in refused \/ pipe'[i].m \notin scan
                   \/ \E j \in Positions' : j < i /\ pipe'[j].op = "copy" /\ pipe'[j].m = pipe'[i].m
        <5>1. CASE i \in Positions /\ i <= n /\ pipe'[i] = pipe[i]
          <6>1. \A j \in Positions : j < i => j \in Positions' /\ pipe'[j] = pipe[j]
            BY <5>1, <3>1, <3>2 DEF Positions, n
          <6> QED
            BY <4>1, <5>1, <6>1 DEF CopyFirst, Safe
        <5>2. CASE i - n \in 1..Len(R) /\ i > n /\ pipe'[i] = R[i - n]
          <6>1. "MOVE" \notin caps /\ R[1].op = "copy" /\ R[1].m = m /\ pipe'[i].m = m
            BY <4>1, <5>2, <3>2, <3>4
          <6>2. i - n # 1 /\ i \in Int
            BY <4>1, <5>2, <6>1 DEF Positions
          <6>3. n + 1 \in Positions' /\ n + 1 < i /\ pipe'[n + 1] = R[1]
            BY <5>2, <6>2, <3>1, <3>2 DEF Positions
          <6> QED
            BY <6>1, <6>3
        <5> QED
          BY <5>1, <5>2, <3>3
      <4> QED
        BY <2>1, <4>1 DEF CopyFirst, Safe
    <3> QED
      BY <2>4, <2>5, <2>6, <3>5, <3>6
  <2> QED
    BY <2>7, <2>8
<1> QED
  BY <1>1, <1>2

(* Wait returns, the mail is uploaded, the pass goes on and ends.            *)
LEMMA ReturnStep ==
    ASSUME MoveInv, \/ MoveOk \/ MoveFails \/ Upload \/ UploadFails
                    \/ PassEnds \/ Exit
    PROVE  TodoOK' /\ PipeOK' /\ CopyFirst' /\ AnswersOK' /\ DeliveredOK'
             /\ LostOnlyByFallback'
<1> USE DEF MoveInv, boxVars
<1>t. /\ delivered \in [Mail -> Nat] /\ todo \subseteq Mail
      /\ cur \in Mail \cup {NoMail} /\ uidNext \in Nat
  BY BoundAssumption DEF TypeOK
<1>1. CASE MoveOk \/ PassEnds \/ Exit
  <2>1. /\ UNCHANGED <<caps, uidNext, scan, deleted, flagged, backup, delivered, refused,
                       conn, pipe, answer, todo, cur>>
        /\ (pc = "wait" /\ pc' = "upload") \/ (pc = "replace" /\ pc' \in {"idle", "exited"})
    BY <1>1 DEF MoveOk, PassEnds, Exit
  <2>2. TodoOK' /\ DeliveredOK'
    BY <2>1 DEF TodoOK, DeliveredOK
  <2>3. PipeOK' /\ CopyFirst'
    BY <2>1 DEF PipeOK, CopyFirst, Positions, Safe
  <2>4. LostOnlyByFallback'
    BY <2>1 DEF LostOnlyByFallback, Kept
  <2>5. AnswersOK'
    <3>1. CASE pc' = "upload"
      <4>1. MoveOk
        BY <1>1, <3>1 DEF PassEnds, Exit
      <4>2. CASE "MOVE" \in caps
        <5>1. moveCommands = <<"move">> /\ DOMAIN Answers = 1..1
          BY <4>2 DEF moveCommands, Answers
        <5>2. Answers[1] = answer["move"]
          BY <5>1 DEF Answers
        <5>3. answer["move"] = "ok"
          BY <4>1, <5>1, <5>2 DEF MoveOk
        <5> QED
          BY <5>3, <2>1, <3>1 DEF AnswersOK
      <4>3. CASE "MOVE" \notin caps
        <5>1. moveCommands = <<"copy", "store", "expunge">> /\ DOMAIN Answers = 1..3
          BY <4>3 DEF moveCommands, Answers
        <5>2. /\ Answers[1] = answer["copy"] /\ Answers[2] = answer["store"]
              /\ Answers[3] = answer["expunge"]
          BY <5>1 DEF Answers
        <5>3. answer["copy"] = "ok" /\ answer["store"] = "ok" /\ answer["expunge"] = "ok"
          BY <4>1, <5>1, <5>2 DEF MoveOk
        <5> QED
          BY <5>3, <2>1, <3>1 DEF AnswersOK
      <4> QED
        BY <4>2, <4>3
    <3>2. CASE pc' # "upload"
      BY <2>1, <3>2 DEF AnswersOK
    <3> QED
      BY <3>1, <3>2
  <2> QED
    BY <2>2, <2>3, <2>4, <2>5
<1>2. ASSUME (* on to the next mail *)
             pc \in {"wait", "upload"}, NextMail, UNCHANGED pipe,
             \/ delivered' = delivered
             \/ pc = "upload" /\ delivered' = [delivered EXCEPT ![cur] = @ + 1]
      PROVE  TodoOK' /\ PipeOK' /\ CopyFirst' /\ AnswersOK' /\ DeliveredOK'
               /\ LostOnlyByFallback'
  <2>1. /\ todo' = todo \ {cur} /\ cur' = NoMail /\ pc' = "replace"
        /\ UNCHANGED <<caps, uidNext, scan, deleted, flagged, backup, refused>>
    BY <1>2 DEF NextMail
  <2>2. \A m \in Mail : m # cur => delivered'[m] = delivered[m]
    BY <1>2, <1>t
  <2>3. TodoOK'
    BY <2>1, <2>2, <1>t DEF TodoOK
  <2>p. \A i \in Positions : pipe[i].m # NoMail /\ pipe[i].m \notin todo \ {cur}
    <3>1. \A i \in Positions : pipe[i].m \in Mail
      BY PipeElements
    <3>2. \A x \in Mail : x # NoMail
      BY BoundAssumption DEF Mail, NoMail
    <3> QED
      BY <3>1, <3>2 DEF PipeOK
  <2>4. PipeOK'
    <3>1. Positions' = Positions
      BY <1>2 DEF Positions
    <3> QED
      BY <1>2, <2>1, <2>p, <3>1 DEF PipeOK
  <2>5. CopyFirst'
    BY <1>2, <2>1 DEF CopyFirst, Positions, Safe
  <2>6. AnswersOK'
    BY <2>1 DEF AnswersOK
  <2>7. DeliveredOK'
    <3>1. CASE delivered' = delivered
      BY <3>1, <2>1 DEF DeliveredOK
    <3>2. CASE pc = "upload" /\ delivered' = [delivered EXCEPT ![cur] = @ + 1]
      <4>1. /\ cur \in Mail /\ delivered[cur] = 0 /\ cur < uidNext /\ cur \notin scan
            /\ caps # {} => backup[cur] > 0
        BY <3>2, <1>t DEF TodoOK, AnswersOK
      <4>2. delivered'[cur] = 1
        BY <3>2, <4>1, <1>t
      <4> QED
        BY <2>1, <2>2, <4>1, <4>2 DEF DeliveredOK
    <3> QED
      BY <1>2, <3>1, <3>2
  <2>8. LostOnlyByFallback'
    BY <2>1 DEF LostOnlyByFallback, Kept
  <2> QED
    BY <2>3, <2>4, <2>5, <2>6, <2>7, <2>8
<1>3. CASE MoveFails
  BY <1>2, <1>3 DEF MoveFails
<1>4. CASE Upload
  BY <1>2, <1>4 DEF Upload
<1>5. CASE UploadFails
  <2>1. /\ pc = "upload" /\ NextMail /\ UNCHANGED pipe
        /\ delivered' = delivered \/ delivered' = [delivered EXCEPT ![cur] = @ + 1]
    BY <1>5 DEF UploadFails
  <2> QED
    BY <1>2, <2>1
<1> QED
  BY <1>1, <1>3, <1>4, <1>5

LEMMA NextMove == MoveInv /\ [Next]_vars => MoveInv'
<1> SUFFICES ASSUME MoveInv, [Next]_vars PROVE MoveInv'
  OBVIOUS
<1> DEFINE Rest == TodoOK /\ PipeOK /\ CopyFirst /\ AnswersOK /\ DeliveredOK
                     /\ LostOnlyByFallback
<1>1. TypeOK /\ PipeOK /\ TypeOK'
  BY TypeStep DEF MoveInv
<1> SUFFICES Rest'
  BY <1>1 DEF MoveInv
<1>2. CASE Arrive \/ (\E m \in Mail : OtherClientFlags(m)) \/ ConnectionLost
  BY <1>2, EnvironmentStep
<1>3. CASE StartPass \/ Restart \/ \E m \in Mail : Move(m)
  BY <1>3, SendStep
<1>4. CASE MoveOk \/ MoveFails \/ Upload \/ UploadFails \/ PassEnds \/ Exit
  BY <1>4, ReturnStep
<1>5. CASE ServerExecutes
  <2>1. PICK h : h = Head(pipe)
    OBVIOUS
  <2>2. /\ pipe # <<>> /\ Execute(h.op, h.m) /\ Answer("ok")
        /\ UNCHANGED <<caps, refused>>
    BY <1>5, <2>1 DEF ServerExecutes, Answer
  <2>3. Effect(h, "ok")
    BY <1>1, <2>1, <2>2, ExecuteEffect
  <2> QED
    BY <1>1, <2>1, <2>2, <2>3, ServerStep
<1>6. CASE ServerRefuses
  <2>1. PICK h : h = Head(pipe)
    OBVIOUS
  <2>2. /\ pipe # <<>> /\ Answer("no") /\ UNCHANGED <<scan, deleted, backup>>
        /\ refused' = IF h.op = "copy" THEN refused \cup {h.m} ELSE refused
    BY <1>6, <2>1 DEF ServerRefuses
  <2>3. Effect(h, "no")
    BY <1>1, <2>2, RefuseEffect
  <2> QED
    BY <1>1, <2>1, <2>2, <2>3, ServerStep
<1>7. CASE UNCHANGED vars
  BY <1>7 DEF MoveInv, vars, boxVars, passVars, TodoOK, PipeOK, CopyFirst, AnswersOK,
     DeliveredOK, LostOnlyByFallback, Kept, Positions, Safe
<1> QED
  BY <1>2, <1>3, <1>4, <1>5, <1>6, <1>7 DEF Next, Client
-----------------------------------------------------------------------------
(* The inductive form of what follows: commands on their way, answers heard *)
(* and the mails still to be replaced agree with the mailboxes.             *)
THEOREM MoveInvariant == Spec => []MoveInv
<1>1. Init => MoveInv
  BY InitMove
<1>2. MoveInv /\ [Next]_vars => MoveInv'
  BY NextMove
<1> QED
  BY <1>1, <1>2, PTL DEF Spec

(* The mailboxes, the pipe and the pass over them keep their types.         *)
THEOREM MoveTypeCorrect == Spec => []TypeOK
<1>1. MoveInv => TypeOK
  BY DEF MoveInv
<1> QED
  BY <1>1, MoveInvariant, PTL

(* Move and its fallback lose an original only when COPY was refused, or    *)
(* when EXPUNGE cannot be restricted to it and another client flagged it.   *)
THEOREM OnlyTheFallbackLoses == Spec => []LostOnlyByFallback
<1>1. MoveInv => LostOnlyByFallback
  BY DEF MoveInv
<1> QED
  BY <1>1, MoveInvariant, PTL

(* replaceWithModifiedMails uploads only what Move has put into the backup  *)
(* mailbox, on a server with MOVE or UIDPLUS.                               *)
THEOREM UploadsAreBackedUp == Spec => []UploadedIsKept
<1>1. MoveInv => UploadedIsKept
  BY DEF MoveInv, DeliveredOK, UploadedIsKept
<1> QED
  BY <1>1, MoveInvariant, PTL

(* However often passes are repeated, replaceWithModifiedMails uploads a    *)
(* mail at most once, on every server.                                      *)
THEOREM UploadsAreUnique == Spec => []UploadedOnce
<1>1. MoveInv => UploadedOnce
  BY DEF MoveInv, DeliveredOK, UploadedOnce
<1> QED
  BY <1>1, MoveInvariant, PTL
=============================================================================

----------------------------- MODULE MailRewrite -----------------------------
(***************************************************************************)
(* How downloadAndScan (internal/iscan/client.go) turns a downloaded mail   *)
(* into the variant that is uploaded: Rspamd's subject replaces the one of  *)
(* the mail (mail.ReplaceHeader), then the scan result is added as headers  *)
(* (mail.AddHeaders, internal/mail/mail.go).  Both read the file of the mail *)
(* as a stream, write a second file in os.TempDir() and rename it over the  *)
(* first; any call to the operating system may fail.                        *)
(*                                                                          *)
(* A mail is the sequence of its bytes.  CR and LF are told apart; "S"      *)
(* stands for "Subject:" in any case, " " for white space, "x" for any other *)
(* byte, "N" for the new subject line and "H" for the headers that are      *)
(* added, each without the CRLF that ends it.                               *)
(***************************************************************************)
EXTENDS Integers, Sequences, SequencesExt

CONSTANTS
    Mails,          \* the mails that may be downloaded
    ChunkSize,      \* the buffers of addHeaders (4096 bytes)
    MaxLineLen,     \* the buffer of replaceHeader's line scanner (16384 bytes)
    KeepTempFiles,
    NoFile,
    MaxFaults       \* bound: failing calls to the operating system

Byte == {"CR", "LF", "S", " ", "x", "N", "H"}

ASSUME MailsAssumption == Mails \subseteq Seq(Byte)
ASSUME SizeAssumption == ChunkSize \in Nat \ {0} /\ MaxLineLen \in Nat \ {0}
ASSUME NoFileAssumption == NoFile \notin Seq(Byte)
ASSUME BoundAssumption == MaxFaults \in Nat /\ KeepTempFiles \in BOOLEAN

CRLF == <<"CR", "LF">>
replacement == <<"N">> \o CRLF
hdrs == <<"H">> \o CRLF

(* The file of the mail, and the one each of the two rewrites creates.      *)
File == {"mail", "replaced", "added"}

VARIABLES
    msg,            \* the mail on the IMAP server
    newSubject,     \* Rspamd's subject differs from the envelope's
    validHeaders,   \* its symbols and score make header lines of at most 1000
                    \* characters, none of them a colon, a space or not ASCII
    disk,           \* the contents of the files
    pc,             \* where downloadAndScan is
    pos,            \* how much of its input the current rewrite has read
    replaced, skipContinuation, headerEnded,    \* of replaceHeader
    base,           \* the mail as AddHeaders has found it
    stray,          \* the error path that was taken leaves its new file
    faults

lineVars == <<replaced, skipContinuation, headerEnded>>
rspamdVars == <<newSubject, validHeaders>>
vars == <<msg, rspamdVars, disk, pc, pos, lineVars, base, stray, faults>>

Init ==
    /\ msg \in Mails /\ newSubject \in BOOLEAN /\ validHeaders \in BOOLEAN
    /\ disk = [f \in File |-> NoFile]
    /\ pc = "download" /\ pos = 0
    /\ replaced = FALSE /\ skipContinuation = FALSE /\ headerEnded = FALSE
    /\ base = <<>> /\ stray = FALSE /\ faults = 0

Fault == faults < MaxFaults /\ faults' = faults + 1
NoFault == UNCHANGED faults

(* What is left to read of file f; what the rewrite writes goes to file g.  *)
Rest(f) == SubSeq(disk[f], pos + 1, Len(disk[f]))
Write(g, bytes) == disk' = [disk EXCEPT ![g] = @ \o bytes]

(* errCleanupfn *)
WithoutMail(d) == IF KeepTempFiles THEN d ELSE [d EXCEPT !["mail"] = NoFile]

(* A step of downloadAndScan fails: the mail is given up, and of the file   *)
(* g that was being written remains what d says.                            *)
Fails(d) ==
    /\ disk' = WithoutMail(d)
    /\ pc' = "failed"
    /\ UNCHANGED <<msg, rspamdVars, pos, lineVars, base>>

Removed(g) == [disk EXCEPT ![g] = NoFile]
-----------------------------------------------------------------------------
(* CreateTemp, the copy from the server, and Rspamd's answer.               *)
Download ==
    /\ pc = "download"
    /\ disk' = [disk EXCEPT !["mail"] = msg]
    /\ pc' = "check"
    /\ UNCHANGED <<msg, rspamdVars, pos, lineVars, base, stray>> /\ NoFault

DownloadFails ==
    /\ pc = "download" /\ Fault
    /\ \E n \in 0..Len(msg) : Fails([disk EXCEPT !["mail"] = SubSeq(msg, 1, n)])
    /\ UNCHANGED stray

(* Rspamd's answer decides whether the subject is rewritten first.          *)
Check ==
    /\ pc = "check"
    /\ pc' = IF newSubject THEN "openReplace" ELSE "headers"
    /\ UNCHANGED <<msg, rspamdVars, disk, pos, lineVars, base, stray>> /\ NoFault

CheckFails ==
    /\ pc = "check" /\ Fault
    /\ Fails(disk)
    /\ UNCHANGED stray

(* The first steps of ReplaceHeader and AddHeaders: create the new file and *)
(* open the mail.                                                           *)
OpenFiles(from, to, g) ==
    /\ pc = from
    /\ disk' = [disk EXCEPT ![g] = <<>>]
    /\ pc' = to /\ pos' = 0
    /\ base' = disk["mail"]
    /\ UNCHANGED <<msg, rspamdVars, lineVars, stray>> /\ NoFault

(* os.Open fails: the new file is not removed.  When already CreateTemp     *)
(* fails there is none.                                                     *)
OpenFails(from, g) ==
    /\ pc = from /\ Fault
    /\ \/ Fails(disk) /\ UNCHANGED stray
       \/ Fails([disk EXCEPT ![g] = <<>>]) /\ stray' = TRUE

(* Reading, writing or closing fails: the new file is removed.              *)
CopyFails(from, g) ==
    /\ pc \in from /\ Fault
    /\ Fails(Removed(g))
    /\ UNCHANGED stray

(* The new file is closed and replaces the mail.                            *)
Rename(from, g, to) ==
    /\ pc = from
    /\ disk' = [disk EXCEPT !["mail"] = disk[g], ![g] = NoFile]
    /\ pc' = to
    /\ UNCHANGED <<msg, rspamdVars, pos, lineVars, base, stray>> /\ NoFault

(* The rename fails, as it does across filesystems: the new file stays.     *)
RenameFails(from) ==
    /\ pc = from /\ Fault
    /\ Fails(disk) /\ stray' = TRUE
-----------------------------------------------------------------------------
(* replaceHeader, line by line.  bufio.Scanner yields what precedes an LF,  *)
(* without the CR before it, or the bytes after the last LF; a line that    *)
(* does not fit into its buffer ends it with an error.                      *)
LFs(s) == {i \in 1..Len(s) : s[i] = "LF" /\ i <= MaxLineLen}
TooLong(s) == LFs(s) = {} /\ Len(s) >= MaxLineLen
LineSize(s) == IF LFs(s) = {} THEN Len(s) ELSE Min(LFs(s))

dropCR(s) == IF s # <<>> /\ Last(s) = "CR" THEN Front(s) ELSE s
FirstLine(s) ==
    LET raw == SubSeq(s, 1, LineSize(s))
    IN  dropCR(IF LFs(s) = {} THEN raw ELSE Front(raw))

StartsWith(line, b) == line # <<>> /\ line[1] = b

(* The scanner has a line for the loop.                                     *)
Scan == pc = "replace" /\ Rest("mail") # <<>> /\ ~TooLong(Rest("mail"))
Line == FirstLine(Rest("mail"))
Consumed ==
    /\ pos' = pos + LineSize(Rest("mail"))
    /\ UNCHANGED <<msg, rspamdVars, pc, base, stray>> /\ NoFault

(* Mutant: any empty line is taken for the end of a header without subject. *)
HeaderNotFoundAlways ==
    /\ Scan /\ Line = <<>>
    /\ Fails(Removed("replaced"))
    /\ UNCHANGED stray /\ NoFault

(* An empty line before the header was found is an error, ...               *)
HeaderNotFound ==
    /\ Scan /\ Line = <<>> /\ ~replaced
    /\ Fails(Removed("replaced"))
    /\ UNCHANGED stray /\ NoFault

(* ... later ones are copied, and the first of them ends the header.        *)
BlankLine ==
    /\ Scan /\ Line = <<>> /\ replaced
    /\ Write("replaced", CRLF)
    /\ headerEnded' = TRUE
    /\ UNCHANGED <<replaced, skipContinuation>> /\ Consumed

BodyLine ==
    /\ Scan /\ Line # <<>> /\ headerEnded
    /\ Write("replaced", Line \o CRLF)
    /\ UNCHANGED lineVars /\ Consumed

(* The rest of a folded header that was replaced is left out.               *)
ContinuationLine ==
    /\ Scan /\ ~headerEnded /\ skipContinuation /\ StartsWith(Line, " ")
    /\ UNCHANGED <<disk, lineVars>> /\ Consumed

SubjectLine ==
    /\ Scan /\ ~headerEnded /\ ~replaced /\ StartsWith(Line, "S")
    /\ Write("replaced", replacement)
    /\ replaced' = TRUE /\ skipContinuation' = TRUE
    /\ UNCHANGED headerEnded /\ Consumed

(* Mutant: the folded lines of any later header are left out, too.          *)
HeaderLineStillSkipping ==
    /\ Scan /\ ~headerEnded /\ Line # <<>>
    /\ ~(skipContinuation /\ StartsWith(Line, " "))
    /\ ~(~replaced /\ StartsWith(Line, "S"))
    /\ Write("replaced", Line \o CRLF)
    /\ UNCHANGED lineVars /\ Consumed

HeaderLine ==
    /\ Scan /\ ~headerEnded /\ Line # <<>>
    /\ ~(skipContinuation /\ StartsWith(Line, " "))
    /\ ~(~replaced /\ StartsWith(Line, "S"))
    /\ Write("replaced", Line \o CRLF)
    /\ skipContinuation' = FALSE
    /\ UNCHANGED <<replaced, headerEnded>> /\ Consumed

LineTooLong ==
    /\ pc = "replace" /\ TooLong(Rest("mail"))
    /\ Fails(Removed("replaced"))
    /\ UNCHANGED stray /\ NoFault

ScanEnds ==
    /\ pc = "replace" /\ Rest("mail") = <<>>
    /\ pc' = "renameReplaced"
    /\ UNCHANGED <<msg, rspamdVars, disk, pos, lineVars, base, stray>> /\ NoFault

replaceHeader ==
    \/ HeaderNotFound \/ BlankLine \/ BodyLine \/ ContinuationLine
    \/ SubjectLine \/ HeaderLine \/ LineTooLong \/ ScanEnds
-----------------------------------------------------------------------------
(* addHeaders reads chunks until one of them contains the end of the header. *)
Chunk == SubSeq(Rest("mail"), 1, Min({ChunkSize, Len(Rest("mail"))}))
Delimiters(s) == {i \in 1..(Len(s) - 3) : SubSeq(s, i, i + 3) = CRLF \o CRLF}

(* Mutant: the error path forgets the file it was writing.                  *)
HeaderEndNotFoundKeep ==
    /\ pc = "search" /\ Rest("mail") = <<>>
    /\ Fails(disk)
    /\ UNCHANGED stray /\ NoFault

HeaderEndNotFound ==
    /\ pc = "search" /\ Rest("mail") = <<>>
    /\ Fails(Removed("added"))
    /\ UNCHANGED stray /\ NoFault

(* Mutant: the size of the buffer is used instead of what was read.         *)
CopyChunkOverrun ==
    /\ pc = "search" /\ Rest("mail") # <<>> /\ Delimiters(Chunk) = {}
    /\ Write("added", Chunk)
    /\ pos' = pos + ChunkSize
    /\ UNCHANGED <<msg, rspamdVars, pc, lineVars, base, stray>> /\ NoFault

CopyChunk ==
    /\ pc = "search" /\ Rest("mail") # <<>> /\ Delimiters(Chunk) = {}
    /\ Write("added", Chunk)
    /\ pos' = pos + Len(Chunk)
    /\ UNCHANGED <<msg, rspamdVars, pc, lineVars, base, stray>> /\ NoFault

(* Mutant: the CRLF that ends the last header line is written twice.        *)
InsertHeadersTwiceCRLF ==
    /\ pc = "search" /\ Delimiters(Chunk) # {}
    /\ LET idx == Min(Delimiters(Chunk)) - 1
       IN  Write("added", SubSeq(Chunk, 1, idx) \o CRLF \o hdrs
                            \o SubSeq(Rest("mail"), idx + 1, Len(Rest("mail"))))
    /\ pos' = Len(disk["mail"]) /\ pc' = "renameAdded"
    /\ UNCHANGED <<msg, rspamdVars, lineVars, base, stray>> /\ NoFault

(* The headers follow the CRLF of the last header line; then the rest of    *)
(* the buffer and of the file are copied.                                   *)
InsertHeaders ==
    /\ pc = "search" /\ Delimiters(Chunk) # {}
    /\ LET idx == Min(Delimiters(Chunk)) - 1
       IN  Write("added", SubSeq(Chunk, 1, idx) \o CRLF \o hdrs
                            \o SubSeq(Rest("mail"), idx + 3, Len(Rest("mail"))))
    /\ pos' = Len(disk["mail"]) /\ pc' = "renameAdded"
    /\ UNCHANGED <<msg, rspamdVars, lineVars, base, stray>> /\ NoFault

addHeaders == HeaderEndNotFound \/ CopyChunk \/ InsertHeaders
-----------------------------------------------------------------------------
(* addScanResultHeaders turns Rspamd's symbols and the score into lines; one *)
(* that AsHeader does not accept makes it fail.                             *)
AsHeaders ==
    /\ pc = "headers" /\ validHeaders
    /\ pc' = "openAdd"
    /\ UNCHANGED <<msg, rspamdVars, disk, pos, lineVars, base, stray>> /\ NoFault

AsHeadersFails ==
    /\ pc = "headers" /\ ~validHeaders
    /\ Fails(disk)
    /\ UNCHANGED stray /\ NoFault

ReplaceHeader ==
    \/ OpenFiles("openReplace", "replace", "replaced")
    \/ OpenFails("openReplace", "replaced")
    \/ replaceHeader
    \/ CopyFails({"replace", "renameReplaced"}, "replaced")
    \/ Rename("renameReplaced", "replaced", "headers")
    \/ RenameFails("renameReplaced")

AddHeaders ==
    \/ AsHeaders \/ AsHeadersFails
    \/ OpenFiles("openAdd", "search", "added")
    \/ OpenFails("openAdd", "added")
    \/ addHeaders
    \/ CopyFails({"search", "renameAdded"}, "added")
    \/ Rename("renameAdded", "added", "done")
    \/ RenameFails("renameAdded")

Next ==
    \/ Download \/ DownloadFails \/ Check \/ CheckFails
    \/ ReplaceHeader \/ AddHeaders

Spec == Init /\ [][Next]_vars
-----------------------------------------------------------------------------
(* Properties.                                                              *)

(* Files hold bytes, and the position stays within the mail.                *)
TypeOK ==
    /\ msg \in Seq(Byte)
    /\ newSubject \in BOOLEAN /\ validHeaders \in BOOLEAN
    /\ disk \in [File -> Seq(Byte) \cup {NoFile}]
    /\ pc \in {"download", "check", "openReplace", "replace", "renameReplaced",
               "headers", "openAdd", "search", "renameAdded", "done", "failed"}
    /\ pos \in Nat
    /\ pc \in {"replace", "search"} =>
         disk["mail"] # NoFile /\ pos <= Len(disk["mail"])
    /\ replaced \in BOOLEAN /\ skipContinuation \in BOOLEAN
    /\ headerEnded \in BOOLEAN /\ stray \in BOOLEAN
    /\ base \in Seq(Byte)
    /\ faults \in 0..MaxFaults

(* The lines of a text after its first p bytes, without what ends them.     *)
LinesFrom(s) ==
    LET from[p \in 0..Len(s)] ==
          LET rest == SubSeq(s, p + 1, Len(s))
              ends == {i \in 1..Len(rest) : rest[i] = "LF"}
          IN  IF rest = <<>> THEN <<>>
              ELSE IF ends = {} THEN <<dropCR(rest)>>
              ELSE <<dropCR(SubSeq(rest, 1, Min(ends) - 1))>> \o from[p + Min(ends)]
    IN  from

Lines(s) == LinesFrom(s)[0]

HasBlank(L) == \E i \in DOMAIN L : L[i] = <<>>
HeaderLen(L) == IF HasBlank(L)
                THEN Min({i \in DOMAIN L : L[i] = <<>>}) - 1
                ELSE Len(L)
Subjects(L) == {i \in 1..HeaderLen(L) : StartsWith(L[i], "S")}

(* The line of the first subject and the last of its continuations.         *)
FirstSubject(L) == Min(Subjects(L))
SubjectEnd(L) ==
    Max({j \in FirstSubject(L)..HeaderLen(L) :
           \A i \in (FirstSubject(L) + 1)..j : StartsWith(L[i], " ")})

WithNewSubject(L) ==
    IF Subjects(L) = {} THEN L
    ELSE SubSeq(L, 1, FirstSubject(L) - 1) \o <<<<"N">>>>
           \o SubSeq(L, SubjectEnd(L) + 1, Len(L))

Text(L) == FlattenSeq([i \in DOMAIN L |-> L[i] \o CRLF])

(* ReplaceHeader exchanges the first subject with all its folded lines, and *)
(* nothing else: neither a second subject, nor the folded lines of another  *)
(* header, nor a line of the body that looks like a subject.  Only the line  *)
(* ends may change, to CRLF.                                                *)
SubjectReplaced ==
    pc = "headers" /\ newSubject =>
      disk["mail"] = Text(WithNewSubject(Lines(msg)))

(* The places between a CRLF and the CRLF of an empty line after it, and    *)
(* those of them whose four bytes are in one chunk.                         *)
HeaderEnds(s) == {i + 1 : i \in Delimiters(s)}
InOneChunk(k) == (k - 2) \div ChunkSize = (k + 1) \div ChunkSize
WholeEnds(s) == {k \in HeaderEnds(s) : InOneChunk(k)}
InsertedAt(s, k) == SubSeq(s, 1, k) \o hdrs \o SubSeq(s, k + 1, Len(s))

(* AddHeaders loses and changes no byte of the mail, and inserts the headers *)
(* before the first empty line that no chunk boundary of the search splits. *)
HeadersInserted ==
    pc = "done" => /\ WholeEnds(base) # {}
                   /\ disk["mail"] = InsertedAt(base, Min(WholeEnds(base)))

(* Without a failing call a mail is given up only when Rspamd's symbols make *)
(* no header lines, its subject has none to replace, a line is too long for *)
(* the scanner, or no empty line is found.                                  *)
GivenUpForCause ==
    pc = "failed" /\ faults = 0 =>
      \/ ~validHeaders
      \/ newSubject /\ HasBlank(Lines(msg)) /\ Subjects(Lines(msg)) = {}
      \/ newSubject /\ \E i \in DOMAIN Lines(msg) :
                          Len(Lines(msg)[i]) + 1 >= MaxLineLen
      \/ WholeEnds(base) = {}

(* When downloadAndScan has failed, its file is gone, and the files of the  *)
(* rewrites are too, unless opening the mail or the rename failed.          *)
FilesRemoved ==
    /\ pc = "failed" /\ ~KeepTempFiles => disk["mail"] = NoFile
    /\ pc \in {"done", "failed"} /\ ~stray =>
         disk["replaced"] = NoFile /\ disk["added"] = NoFile
    /\ pc = "done" => disk["mail"] # NoFile

(* What a comment of the repository says and the code does not do.          *)

(* "AddHeaders inserts additional headers to the e-mail": they are in the    *)
(* header of the mail.                                                      *)
HeadersAreInHeader ==
    pc = "done" => disk["mail"] = InsertedAt(base, Min(HeaderEnds(base)))
=============================================================================

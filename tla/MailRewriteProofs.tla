--------------------------- MODULE MailRewriteProofs ---------------------------
(***************************************************************************)
(* Proofs about MailRewrite for every mail, and every size of the buffers.  *)
(***************************************************************************)
EXTENDS MailRewrite, FiniteSetTheorems, SequenceTheorems, TLAPS

(* Every set of natural numbers has a least one: of the sets of its members *)
(* up to one of them, which are finite, one is minimal.                     *)
LEMMA LeastNatural ==
    ASSUME NEW T \in SUBSET Nat, T # {}
    PROVE  \E x \in T : \A y \in T : x <= y
<1> DEFINE upto(x) == {y \in T : y <= x}
           F == {upto(x) : x \in T}
           R == StrictSubsetOrdering(Nat)
<1>1. F \subseteq FiniteSubsetsOf(Nat)
  <2> SUFFICES ASSUME NEW x \in T PROVE upto(x) \in SUBSET Nat /\ IsFiniteSet(upto(x))
    BY DEF FiniteSubsetsOf
  <2>1. upto(x) \in SUBSET Nat /\ \A y \in upto(x) : y <= x
    OBVIOUS
  <2> QED
    BY <2>1, FS_BoundedSetOfNaturals
<1>2. IsWellFoundedOn(R, FiniteSubsetsOf(Nat))
  BY FS_StrictSubsetOrderingWellFounded
<1>3. PICK A \in F : \A B \in F : <<B, A>> \notin R
  <2>1. F # {}
    OBVIOUS
  <2> HIDE DEF F, R
  <2> QED
    BY <1>1, <1>2, <2>1, WFMin
<1>4. PICK x \in T : A = upto(x)
  OBVIOUS
<1>5. ASSUME NEW y \in T, ~(x <= y) PROVE FALSE
  <2>0. /\ \A z \in T : z <= y => z <= x
        /\ x <= x /\ ~(x <= y)
    BY <1>5
  <2>1. upto(y) \subseteq upto(x) /\ x \in upto(x) /\ x \notin upto(y)
    BY <2>0
  <2>2. <<upto(y), upto(x)>> \in R
    BY <2>1 DEF StrictSubsetOrdering
  <2> QED
    BY <1>3, <1>4, <2>2
<1> QED
  BY <1>5

LEMMA MinOf ==
    ASSUME NEW T \in SUBSET Nat, T # {}
    PROVE  Min(T) \in T /\ \A y \in T : Min(T) <= y
BY LeastNatural DEF Min

(* A part of a sequence, in the form the steps cut it out.                  *)
LEMMA Part ==
    ASSUME NEW s \in Seq(Byte), NEW m \in Nat \ {0}, NEW n \in 0..Len(s)
    PROVE  /\ SubSeq(s, m, n) \in Seq(Byte)
           /\ Len(SubSeq(s, m, n)) = IF m <= n THEN n - m + 1 ELSE 0
           /\ \A i \in 1..(n - m + 1) : SubSeq(s, m, n)[i] = s[m + i - 1]
<1>1. \A i \in m..n : s[i] \in Byte
  BY ElementOfSeq
<1> QED
  BY <1>1, SubSeqProperties
-----------------------------------------------------------------------------
(* Types and files.                                                         *)

FileContent == Seq(Byte) \cup {NoFile}

(* Which of the three files exist, and that an error path that leaves one   *)
(* behind ends downloadAndScan.                                             *)
FilesInv ==
    /\ pc \notin {"download", "failed"} => disk["mail"] \in Seq(Byte)
    /\ pc \in {"replace", "renameReplaced"} => disk["replaced"] \in Seq(Byte)
    /\ pc \in {"search", "renameAdded"} => disk["added"] \in Seq(Byte)
    /\ pc \notin {"replace", "renameReplaced", "failed"} => disk["replaced"] = NoFile
    /\ pc \notin {"search", "renameAdded", "failed"} => disk["added"] = NoFile
    /\ stray => pc = "failed"
    /\ FilesRemoved

LEMMA Bytes ==
    /\ CRLF \in Seq(Byte) /\ Len(CRLF) = 2 /\ CRLF[1] = "CR" /\ CRLF[2] = "LF"
    /\ hdrs \in Seq(Byte) /\ replacement \in Seq(Byte) /\ <<>> \in Seq(Byte)
<1>1. CRLF \in Seq(Byte) /\ Len(CRLF) = 2 /\ CRLF[1] = "CR" /\ CRLF[2] = "LF"
  BY DEF CRLF, Byte
<1>2. <<"H">> \in Seq(Byte) /\ <<"N">> \in Seq(Byte) /\ <<>> \in Seq(Byte)
  BY DEF Byte
<1> QED
  BY <1>1, <1>2, ConcatProperties DEF hdrs, replacement

(* r is what is left of s after its first p bytes.                          *)
IsRest(r, s, p) ==
    /\ r \in Seq(Byte) /\ Len(r) = Len(s) - p
    /\ \A i \in 1..Len(r) : r[i] = s[p + i]
    /\ r = <<>> <=> p = Len(s)

LEMMA Suffix ==
    ASSUME NEW s \in Seq(Byte), NEW p \in 0..Len(s)
    PROVE  IsRest(SubSeq(s, p + 1, Len(s)), s, p)
<1>1. PICK r : r = SubSeq(s, p + 1, Len(s))
  OBVIOUS
<1>2. Len(s) \in Nat /\ p + 1 \in Nat \ {0} /\ Len(s) \in 0..Len(s)
  BY LenProperties
<1>3. /\ r \in Seq(Byte)
      /\ Len(r) = IF p + 1 <= Len(s) THEN Len(s) - (p + 1) + 1 ELSE 0
      /\ \A i \in 1..(Len(s) - (p + 1) + 1) : r[i] = s[(p + 1) + i - 1]
  BY <1>1, <1>2, Part
<1>4. Len(r) = Len(s) - p
  BY <1>2, <1>3
<1>5. \A i \in 1..Len(r) : i \in 1..(Len(s) - (p + 1) + 1) /\ (p + 1) + i - 1 = p + i
  BY <1>2, <1>4
<1>6. \A i \in 1..Len(r) : r[i] = s[p + i]
  BY <1>3, <1>5
<1>7. r = <<>> <=> p = Len(s)
  <2>1. r = <<>> <=> Len(r) = 0
    BY <1>3, EmptySeq
  <2> QED
    BY <1>2, <1>4, <2>1
<1>8. IsRest(r, s, p)
  BY <1>3, <1>4, <1>6, <1>7 DEF IsRest
<1> QED
  BY <1>1, <1>8

LEMMA RestOf ==
    ASSUME TypeOK, pc \in {"replace", "search"}
    PROVE  /\ disk["mail"] \in Seq(Byte) /\ pos \in 0..Len(disk["mail"])
           /\ IsRest(Rest("mail"), disk["mail"], pos)
<1>1. disk["mail"] \in Seq(Byte) /\ pos \in 0..Len(disk["mail"])
  BY DEF TypeOK, File
<1> QED
  BY <1>1, Suffix DEF Rest

(* bufio.Scanner's lines.                                                   *)
LEMMA LineSizes ==
    ASSUME NEW s \in Seq(Byte), s # <<>>, ~TooLong(s)
    PROVE  /\ LineSize(s) \in 1..Len(s)
           /\ LFs(s) # {} => LineSize(s) \in LFs(s) /\ \A i \in LFs(s) : LineSize(s) <= i
<1>1. Len(s) \in Nat \ {0} /\ LFs(s) \in SUBSET Nat /\ LFs(s) \subseteq 1..Len(s)
  BY EmptySeq DEF LFs
<1> QED
  BY <1>1, MinOf DEF LineSize

LEMMA DroppedCR ==
    ASSUME NEW s \in Seq(Byte)
    PROVE  dropCR(s) \in Seq(Byte)
<1>1. CASE s # <<>>
  <2>1. Len(s) \in Nat \ {0} /\ Len(s) - 1 \in 0..Len(s)
    BY <1>1, EmptySeq
  <2>2. SubSeq(s, 1, Len(s) - 1) \in Seq(Byte)
    BY <2>1, Part
  <2> QED
    BY <2>2 DEF dropCR, Front
<1> QED
  BY <1>1 DEF dropCR

LEMMA FirstLineType ==
    ASSUME NEW s \in Seq(Byte), s # <<>>, ~TooLong(s)
    PROVE  FirstLine(s) \in Seq(Byte)
<1> DEFINE raw == SubSeq(s, 1, LineSize(s))
<1>1. LineSize(s) \in 1..Len(s) /\ Len(s) \in Nat /\ LineSize(s) \in 0..Len(s)
  BY LineSizes, LenProperties
<1>2. raw \in Seq(Byte) /\ Len(raw) = LineSize(s)
  BY <1>1, Part
<1>3. Len(raw) - 1 \in 0..Len(raw)
  BY <1>1, <1>2
<1>4. Front(raw) \in Seq(Byte)
  BY <1>2, <1>3, Part DEF Front
<1> QED
  BY <1>2, <1>4, DroppedCR DEF FirstLine

(* A chunk: as much of the rest as fits into the buffer.                    *)
IsChunk(c, r) ==
    /\ c \in Seq(Byte) /\ Len(c) \in 0..Len(r)
    /\ Len(c) = IF ChunkSize <= Len(r) THEN ChunkSize ELSE Len(r)
    /\ c = SubSeq(r, 1, Len(c))

LEMMA ChunkOf ==
    ASSUME Rest("mail") \in Seq(Byte)
    PROVE  IsChunk(Chunk, Rest("mail"))
<1>1. PICK r : r = Rest("mail")
  OBVIOUS
<1>2. r \in Seq(Byte) /\ Len(r) \in Nat
  BY <1>1, LenProperties
<1>3. PICK n : n = Min({ChunkSize, Len(r)})
  OBVIOUS
<1>4. n = IF ChunkSize <= Len(r) THEN ChunkSize ELSE Len(r)
  <2>1. n \in {ChunkSize, Len(r)} /\ n <= ChunkSize /\ n <= Len(r)
    BY <1>2, <1>3, SizeAssumption, MinOf
  <2> QED
    BY <1>2, <2>1, SizeAssumption
<1>5. n \in 0..Len(r) /\ n \in Nat
  BY <1>2, <1>4, SizeAssumption
<1>6. PICK c : c = SubSeq(r, 1, n)
  OBVIOUS
<1>7. c \in Seq(Byte) /\ Len(c) = n
  BY <1>2, <1>5, <1>6, Part
<1>8. IsChunk(c, r)
  BY <1>4, <1>5, <1>6, <1>7 DEF IsChunk
<1> QED
  BY <1>1, <1>3, <1>6, <1>8 DEF Chunk

(* The place of the first empty line.                                       *)
LEMMA DelimitersOf ==
    ASSUME NEW s \in Seq(Byte), Delimiters(s) # {}
    PROVE  /\ Min(Delimiters(s)) \in 1..(Len(s) - 3)
           /\ Min(Delimiters(s)) \in Delimiters(s)
           /\ \A i \in Delimiters(s) : Min(Delimiters(s)) <= i
<1>1. Delimiters(s) \subseteq 1..(Len(s) - 3)
  BY DEF Delimiters
<1>2. Len(s) \in Nat /\ Delimiters(s) \in SUBSET Nat
  BY <1>1, LenProperties
<1>3. /\ Min(Delimiters(s)) \in Delimiters(s)
      /\ \A i \in Delimiters(s) : Min(Delimiters(s)) <= i
  BY <1>2, MinOf
<1> QED
  BY <1>1, <1>3

(* What the steps do to the flags, the counter of faults and the mail on    *)
(* the server.                                                              *)
LEMMA FlagTypes ==
    ASSUME TypeOK, [Next]_vars
    PROVE  /\ newSubject' \in BOOLEAN /\ validHeaders' \in BOOLEAN
           /\ replaced' \in BOOLEAN /\ skipContinuation' \in BOOLEAN
           /\ headerEnded' \in BOOLEAN /\ stray' \in BOOLEAN
<1>1. UNCHANGED <<newSubject, validHeaders>>
  BY DEF Next, ReplaceHeader, AddHeaders, replaceHeader, addHeaders, Download,
     DownloadFails, Check, CheckFails, OpenFiles, OpenFails, CopyFails, Rename,
     RenameFails, HeaderNotFound, BlankLine, BodyLine, ContinuationLine, SubjectLine,
     HeaderLine, LineTooLong, ScanEnds, HeaderEndNotFound, CopyChunk, InsertHeaders,
     AsHeaders, AsHeadersFails, Fails, Consumed, rspamdVars, vars
<1>2. /\ replaced' = replaced \/ replaced' = TRUE
      /\ skipContinuation' = skipContinuation \/ skipContinuation' \in {TRUE, FALSE}
      /\ headerEnded' = headerEnded \/ headerEnded' = TRUE
  BY DEF Next, ReplaceHeader, AddHeaders, replaceHeader, addHeaders, Download,
     DownloadFails, Check, CheckFails, OpenFiles, OpenFails, CopyFails, Rename,
     RenameFails, HeaderNotFound, BlankLine, BodyLine, ContinuationLine, SubjectLine,
     HeaderLine, LineTooLong, ScanEnds, HeaderEndNotFound, CopyChunk, InsertHeaders,
     AsHeaders, AsHeadersFails, Fails, Consumed, lineVars, vars
<1>3. stray' = stray \/ stray' = TRUE
  BY DEF Next, ReplaceHeader, AddHeaders, replaceHeader, addHeaders, Download,
     DownloadFails, Check, CheckFails, OpenFiles, OpenFails, CopyFails, Rename,
     RenameFails, HeaderNotFound, BlankLine, BodyLine, ContinuationLine, SubjectLine,
     HeaderLine, LineTooLong, ScanEnds, HeaderEndNotFound, CopyChunk, InsertHeaders,
     AsHeaders, AsHeadersFails, Consumed, vars
<1> QED
  BY <1>1, <1>2, <1>3, Zenon DEF TypeOK

LEMMA CounterTypes ==
    ASSUME TypeOK, [Next]_vars
    PROVE  faults' \in 0..MaxFaults /\ msg' = msg
<1>1. UNCHANGED faults \/ Fault
  BY DEF Next, ReplaceHeader, AddHeaders, replaceHeader, addHeaders, Download,
     DownloadFails, Check, CheckFails, OpenFiles, OpenFails, CopyFails, Rename,
     RenameFails, HeaderNotFound, BlankLine, BodyLine, ContinuationLine, SubjectLine,
     HeaderLine, LineTooLong, ScanEnds, HeaderEndNotFound, CopyChunk, InsertHeaders,
     AsHeaders, AsHeadersFails, Consumed, NoFault, vars
<1>2. msg' = msg
  BY DEF Next, ReplaceHeader, AddHeaders, replaceHeader, addHeaders, Download,
     DownloadFails, Check, CheckFails, OpenFiles, OpenFails, CopyFails, Rename,
     RenameFails, HeaderNotFound, BlankLine, BodyLine, ContinuationLine, SubjectLine,
     HeaderLine, LineTooLong, ScanEnds, HeaderEndNotFound, CopyChunk, InsertHeaders,
     AsHeaders, AsHeadersFails, Fails, Consumed, vars
<1> QED
  BY <1>1, <1>2, BoundAssumption DEF TypeOK, Fault

(* The rest of the state, which a step of its own keeps in order.           *)
FileInv ==
    /\ disk \in [File -> FileContent]
    /\ pc \in {"download", "check", "openReplace", "replace", "renameReplaced",
               "headers", "openAdd", "search", "renameAdded", "done", "failed"}
    /\ pos \in Nat
    /\ pc \in {"replace", "search"} => pos <= Len(disk["mail"])
    /\ base \in Seq(Byte)
    /\ FilesInv

LEMMA FailsFile ==
    ASSUME FileInv, NEW d \in [File -> FileContent], Fails(d),
           stray' \/ (d["replaced"] = NoFile /\ d["added"] = NoFile)
    PROVE  FileInv'
<1>1. disk' = WithoutMail(d) /\ pc' = "failed" /\ UNCHANGED <<pos, base>>
  BY DEF Fails
<1>2. /\ disk' \in [File -> FileContent]
      /\ disk'["replaced"] = d["replaced"] /\ disk'["added"] = d["added"]
      /\ ~KeepTempFiles => disk'["mail"] = NoFile
  BY <1>1 DEF WithoutMail, File, FileContent
<1> QED
  BY <1>1, <1>2 DEF FileInv, FilesInv, FilesRemoved

LEMMA StepFile ==
    ASSUME TypeOK, FileInv, Next
    PROVE  FileInv'
<1>d. /\ disk \in [File -> FileContent] /\ FilesInv /\ base \in Seq(Byte) /\ pos \in Nat
      /\ pc \notin {"download", "failed"} => disk["mail"] \in Seq(Byte)
  BY DEF FileInv, FilesInv
<1>n. <<>> \in FileContent /\ NoFile \in FileContent /\ msg \in Seq(Byte) /\ msg \in FileContent
  BY Bytes DEF FileContent, TypeOK
<1>s. stray => pc = "failed"
  BY <1>d DEF FilesInv
<1>1. CASE Download
  <2>1. /\ disk' = [disk EXCEPT !["mail"] = msg] /\ pc = "download" /\ pc' = "check"
        /\ UNCHANGED <<pos, base, stray>>
    BY <1>1 DEF Download
  <2>2. /\ disk' \in [File -> FileContent] /\ disk'["mail"] \in Seq(Byte)
        /\ disk'["replaced"] = disk["replaced"] /\ disk'["added"] = disk["added"]
    BY <2>1, <1>d, <1>n DEF File
  <2> QED
    BY <2>1, <2>2, <1>d DEF FileInv, FilesInv, FilesRemoved
<1>2. CASE DownloadFails
  <2>1. PICK n \in 0..Len(msg) : Fails([disk EXCEPT !["mail"] = SubSeq(msg, 1, n)])
    BY <1>2 DEF DownloadFails
  <2>2. SubSeq(msg, 1, n) \in FileContent
    BY <1>n, Part DEF FileContent
  <2>3. PICK d : d = [disk EXCEPT !["mail"] = SubSeq(msg, 1, n)]
    OBVIOUS
  <2>4. d \in [File -> FileContent] /\ d["replaced"] = NoFile /\ d["added"] = NoFile
    BY <1>2, <1>d, <2>2, <2>3 DEF DownloadFails, FilesInv, File
  <2> QED
    BY <2>1, <2>3, <2>4, FailsFile
<1>3. CASE Check \/ AsHeaders
  BY <1>3, <1>d DEF Check, AsHeaders, FileInv, FilesInv, FilesRemoved
<1>4. CASE CheckFails \/ AsHeadersFails
  <2>1. Fails(disk) /\ pc \in {"check", "headers"}
    BY <1>4 DEF CheckFails, AsHeadersFails
  <2> QED
    BY <2>1, <1>d, FailsFile DEF FilesInv
<1>5. ASSUME NEW from \in {"openReplace", "openAdd"}, NEW to \in {"replace", "search"},
             NEW g \in {"replaced", "added"}, OpenFiles(from, to, g),
             from = "openReplace" <=> to = "replace", to = "replace" <=> g = "replaced"
      PROVE  FileInv'
  <2>1. /\ disk' = [disk EXCEPT ![g] = <<>>] /\ pc = from /\ pc' = to /\ pos' = 0
        /\ base' = disk["mail"] /\ UNCHANGED stray
    BY <1>5 DEF OpenFiles
  <2>2. /\ disk' \in [File -> FileContent] /\ disk'[g] = <<>> /\ disk'["mail"] = disk["mail"]
        /\ g # "replaced" => disk'["replaced"] = disk["replaced"]
        /\ g # "added" => disk'["added"] = disk["added"]
    BY <2>1, <1>5, <1>d, <1>n DEF File
  <2>3. disk["mail"] \in Seq(Byte) /\ Len(disk["mail"]) \in Nat
    BY <1>5, <2>1, <1>d, LenProperties
  <2>4. 0 <= Len(disk'["mail"])
    BY <2>2, <2>3
  <2> QED
    BY <1>5, <2>1, <2>2, <2>3, <2>4, <1>d, Bytes DEF FileInv, FilesInv, FilesRemoved
<1>6. ASSUME NEW from \in {"openReplace", "openAdd"}, NEW g \in {"replaced", "added"},
             OpenFails(from, g)
      PROVE  FileInv'
  <2>1. CASE Fails(disk)
    BY <1>6, <2>1, <1>d, FailsFile DEF OpenFails, FilesInv
  <2>2. CASE Fails([disk EXCEPT ![g] = <<>>]) /\ stray'
    <3>1. PICK d : d = [disk EXCEPT ![g] = <<>>]
      OBVIOUS
    <3>2. d \in [File -> FileContent]
      BY <1>6, <3>1, <1>d, <1>n DEF File
    <3> QED
      BY <2>2, <3>1, <3>2, FailsFile
  <2> QED
    BY <1>6, <2>1, <2>2 DEF OpenFails
<1>7. ASSUME NEW g \in {"replaced", "added"}, Fails(Removed(g)),
             pc \in {"replace", "renameReplaced", "search", "renameAdded"},
             g = "replaced" <=> pc \in {"replace", "renameReplaced"}
      PROVE  FileInv'
  <2>1. PICK d : d = Removed(g)
    OBVIOUS
  <2>2. d \in [File -> FileContent] /\ d["replaced"] = NoFile /\ d["added"] = NoFile
    BY <1>7, <2>1, <1>d, <1>n DEF Removed, FilesInv, File
  <2> QED
    BY <1>7, <2>1, <2>2, FailsFile
<1>8. ASSUME NEW from \in {"renameReplaced", "renameAdded"},
             NEW g \in {"replaced", "added"}, NEW to \in {"headers", "done"},
             Rename(from, g, to), from = "renameReplaced" <=> g = "replaced",
             to = "headers" <=> g = "replaced"
      PROVE  FileInv'
  <2>1. /\ disk' = [disk EXCEPT !["mail"] = disk[g], ![g] = NoFile] /\ pc = from
        /\ pc' = to /\ UNCHANGED <<pos, base, stray>>
    BY <1>8 DEF Rename
  <2>2. disk[g] \in Seq(Byte)
    BY <1>8, <2>1, <1>d DEF FilesInv
  <2>3. /\ disk' \in [File -> FileContent] /\ disk'[g] = NoFile /\ disk'["mail"] = disk[g]
        /\ g # "replaced" => disk'["replaced"] = disk["replaced"]
        /\ g # "added" => disk'["added"] = disk["added"]
    BY <2>1, <2>2, <1>8, <1>d, <1>n DEF File, FileContent
  <2>4. disk[g] # NoFile
    BY <2>2, NoFileAssumption
  <2> QED
    BY <1>8, <2>1, <2>2, <2>3, <2>4, <1>d DEF FileInv, FilesInv, FilesRemoved
<1>9. ASSUME NEW from, RenameFails(from) PROVE FileInv'
  BY <1>9, <1>d, FailsFile DEF RenameFails
<1>10. ASSUME NEW g \in {"replaced", "added"}, NEW bytes \in Seq(Byte), Write(g, bytes),
              pc \in {"replace", "search"}, pc = "replace" <=> g = "replaced",
              pc' = pc \/ (pc = "search" /\ pc' = "renameAdded"),
              pos' \in 0..Len(disk["mail"]), UNCHANGED <<base, stray>>
       PROVE  FileInv'
  <2>1. disk[g] \in Seq(Byte)
    BY <1>10, <1>d DEF FilesInv
  <2>2. PICK new : new = disk[g] \o bytes
    OBVIOUS
  <2>3. new \in Seq(Byte) /\ new \in FileContent
    BY <2>1, <2>2, <1>10, ConcatProperties DEF FileContent
  <2>4. disk' = [disk EXCEPT ![g] = new]
    BY <1>10, <2>2 DEF Write
  <2>5. /\ disk' \in [File -> FileContent] /\ disk'[g] = new /\ disk'["mail"] = disk["mail"]
        /\ g # "replaced" => disk'["replaced"] = disk["replaced"]
        /\ g # "added" => disk'["added"] = disk["added"]
    BY <2>3, <2>4, <1>10, <1>d DEF File
  <2>6. pos' \in Nat /\ pos' <= Len(disk'["mail"])
    BY <1>10, <2>5
  <2> QED
    BY <1>10, <2>3, <2>5, <2>6, <1>d DEF FileInv, FilesInv, FilesRemoved
<1>r. pc \in {"replace", "search"} =>
        /\ disk["mail"] \in Seq(Byte) /\ pos \in 0..Len(disk["mail"])
        /\ IsRest(Rest("mail"), disk["mail"], pos)
  BY RestOf
<1>11. CASE \/ BlankLine \/ BodyLine \/ ContinuationLine \/ SubjectLine \/ HeaderLine
  <2>1. Scan /\ Consumed
    BY <1>11 DEF BlankLine, BodyLine, ContinuationLine, SubjectLine, HeaderLine
  <2>2. /\ pc = "replace" /\ UNCHANGED <<pc, base, stray>>
        /\ pos' = pos + LineSize(Rest("mail"))
        /\ Rest("mail") # <<>> /\ ~TooLong(Rest("mail"))
    BY <2>1 DEF Scan, Consumed
  <2>3. /\ Rest("mail") \in Seq(Byte) /\ Len(Rest("mail")) = Len(disk["mail"]) - pos
        /\ pos \in 0..Len(disk["mail"]) /\ Len(disk["mail"]) \in Nat
    BY <1>r, <2>2, LenProperties DEF IsRest
  <2>4. LineSize(Rest("mail")) \in 1..Len(Rest("mail")) /\ Line \in Seq(Byte)
    BY <2>2, <2>3, LineSizes, FirstLineType DEF Line
  <2>5. pos' \in 0..Len(disk["mail"])
    BY <2>2, <2>3, <2>4
  <2>6. Line \o CRLF \in Seq(Byte)
    BY <2>4, Bytes, ConcatProperties
  <2>7. CASE ContinuationLine
    <3>1. UNCHANGED disk
      BY <2>7 DEF ContinuationLine
    <3> QED
      BY <3>1, <2>2, <2>5, <1>d DEF FileInv, FilesInv, FilesRemoved
  <2>8. CASE \/ Write("replaced", CRLF) \/ Write("replaced", Line \o CRLF)
             \/ Write("replaced", replacement)
    BY <2>2, <2>5, <2>6, <2>8, <1>10, Bytes
  <2> QED
    BY <1>11, <2>7, <2>8 DEF BlankLine, BodyLine, SubjectLine, HeaderLine
<1>12. CASE CopyChunk \/ InsertHeaders
  <2>1. pc = "search" /\ UNCHANGED <<base, stray>>
    BY <1>12 DEF CopyChunk, InsertHeaders
  <2>2. /\ IsRest(Rest("mail"), disk["mail"], pos) /\ IsChunk(Chunk, Rest("mail"))
        /\ disk["mail"] \in Seq(Byte) /\ pos \in 0..Len(disk["mail"])
    <3>1. Rest("mail") \in Seq(Byte)
      BY <2>1, <1>r DEF IsRest
    <3> QED
      BY <2>1, <3>1, <1>r, ChunkOf
  <2>3. PICK r, c : r = Rest("mail") /\ c = Chunk
    OBVIOUS
  <2>4. IsRest(r, disk["mail"], pos) /\ IsChunk(c, r)
    BY <2>2, <2>3
  <2>5. /\ r \in Seq(Byte) /\ c \in Seq(Byte) /\ Len(c) \in 0..Len(r)
        /\ Len(r) = Len(disk["mail"]) - pos /\ Len(disk["mail"]) \in Nat
        /\ Len(r) \in Nat /\ Len(c) \in Nat
    BY <2>2, <2>4, LenProperties DEF IsRest, IsChunk
  <2>6. CASE CopyChunk
    <3>1. Write("added", c) /\ pc' = pc /\ pos' = pos + Len(c)
      BY <2>3, <2>6 DEF CopyChunk
    <3>2. pos' \in 0..Len(disk["mail"])
      BY <2>2, <2>5, <3>1
    <3> QED
      BY <2>1, <2>5, <3>1, <3>2, <1>10
  <2>7. CASE InsertHeaders
    <3>1. Delimiters(c) # {}
      BY <2>3, <2>7 DEF InsertHeaders
    <3>2. PICK i : i = Min(Delimiters(c)) - 1
      OBVIOUS
    <3>3. i \in 0..Len(c) /\ i + 3 \in Nat \ {0} /\ i \in Nat
      <4>1. PICK d : d = Min(Delimiters(c))
        OBVIOUS
      <4>2. d \in 1..(Len(c) - 3)
        BY <2>5, <3>1, <4>1, DelimitersOf
      <4> QED
        BY <2>5, <3>2, <4>1, <4>2
    <3>4. PICK bytes : bytes = SubSeq(c, 1, i) \o CRLF \o hdrs \o SubSeq(r, i + 3, Len(r))
      OBVIOUS
    <3>5. Write("added", bytes) /\ pos' = Len(disk["mail"]) /\ pc' = "renameAdded"
      BY <2>3, <2>7, <3>2, <3>4 DEF InsertHeaders
    <3>6. bytes \in Seq(Byte)
      <4>1. Len(r) \in 0..Len(r) /\ 1 \in Nat \ {0}
        BY <2>5
      <4>2. SubSeq(c, 1, i) \in Seq(Byte) /\ SubSeq(r, i + 3, Len(r)) \in Seq(Byte)
        BY <2>5, <3>3, <4>1, Part
      <4> QED
        BY <3>4, <4>2, Bytes, ConcatProperties
    <3>7. pos' \in 0..Len(disk["mail"])
      BY <2>5, <3>5
    <3> QED
      BY <2>1, <3>5, <3>6, <3>7, <1>10
  <2> QED
    BY <1>12, <2>6, <2>7
<1>13. CASE ScanEnds
  BY <1>13, <1>d DEF ScanEnds, FileInv, FilesInv, FilesRemoved
<1>14. CASE HeaderNotFound \/ LineTooLong \/ CopyFails({"replace", "renameReplaced"}, "replaced")
  BY <1>14, <1>7 DEF HeaderNotFound, LineTooLong, CopyFails, Scan
<1>15. CASE HeaderEndNotFound \/ CopyFails({"search", "renameAdded"}, "added")
  BY <1>15, <1>7 DEF HeaderEndNotFound, CopyFails
<1>16. CASE ReplaceHeader
  BY <1>16, <1>5, <1>6, <1>8, <1>9, <1>11, <1>13, <1>14 DEF ReplaceHeader, replaceHeader
<1>17. CASE AddHeaders
  BY <1>17, <1>3, <1>4, <1>5, <1>6, <1>8, <1>9, <1>12, <1>15 DEF AddHeaders, addHeaders
<1> QED
  BY <1>1, <1>2, <1>3, <1>4, <1>16, <1>17 DEF Next
-----------------------------------------------------------------------------
RewriteInv == TypeOK /\ FileInv

LEMMA InitRewrite == Init => RewriteInv
<1> SUFFICES ASSUME Init PROVE RewriteInv
  OBVIOUS
<1>1. /\ msg \in Seq(Byte) /\ pc = "download" /\ pos = 0 /\ base = <<>>
      /\ disk = [f \in File |-> NoFile] /\ faults = 0
  BY MailsAssumption DEF Init
<1>2. /\ newSubject \in BOOLEAN /\ validHeaders \in BOOLEAN
      /\ replaced = FALSE /\ skipContinuation = FALSE /\ headerEnded = FALSE
      /\ stray = FALSE
  BY Zenon DEF Init
<1>3. /\ disk \in [File -> FileContent] /\ disk["replaced"] = NoFile
      /\ disk["added"] = NoFile
  BY <1>1 DEF FileContent, File
<1>4. FileInv
  BY <1>1, <1>2, <1>3, Bytes DEF FileInv, FilesInv, FilesRemoved
<1>5. faults \in 0..MaxFaults
  BY <1>1, BoundAssumption
<1>6. TypeOK
  <2>1. /\ disk \in [File -> Seq(Byte) \cup {NoFile}] /\ pos \in Nat /\ base \in Seq(Byte)
        /\ pc \notin {"replace", "search"}
        /\ pc \in {"download", "check", "openReplace", "replace", "renameReplaced",
               "headers", "openAdd", "search", "renameAdded", "done", "failed"}
    BY <1>1, <1>3, Bytes DEF FileContent
  <2> QED
    BY <1>1, <1>2, <1>5, <2>1, Zenon DEF TypeOK
<1> QED
  BY <1>4, <1>6 DEF RewriteInv

LEMMA StepRewrite == RewriteInv /\ [Next]_vars => RewriteInv'
<1> SUFFICES ASSUME RewriteInv, [Next]_vars PROVE RewriteInv'
  OBVIOUS
<1>1. TypeOK /\ FileInv
  BY DEF RewriteInv
<1>2. FileInv'
  <2>1. CASE Next
    BY <1>1, <2>1, StepFile
  <2>2. CASE UNCHANGED vars
    BY <1>1, <2>2 DEF vars, FileInv, FilesInv, FilesRemoved
  <2> QED
    BY <2>1, <2>2
<1>3. /\ newSubject' \in BOOLEAN /\ validHeaders' \in BOOLEAN
      /\ replaced' \in BOOLEAN /\ skipContinuation' \in BOOLEAN
      /\ headerEnded' \in BOOLEAN /\ stray' \in BOOLEAN
  BY <1>1, FlagTypes, Zenon
<1>4. faults' \in 0..MaxFaults /\ msg' \in Seq(Byte)
  <2>1. faults' \in 0..MaxFaults /\ msg' = msg
    BY <1>1, CounterTypes
  <2> QED
    BY <1>1, <2>1 DEF TypeOK
<1>5. /\ disk' \in [File -> Seq(Byte) \cup {NoFile}]
      /\ pc' \in {"download", "check", "openReplace", "replace", "renameReplaced",
               "headers", "openAdd", "search", "renameAdded", "done", "failed"}
      /\ pos' \in Nat
      /\ pc' \in {"replace", "search"} =>
           disk'["mail"] # NoFile /\ pos' <= Len(disk'["mail"])
      /\ base' \in Seq(Byte)
  BY <1>2, NoFileAssumption DEF FileInv, FilesInv, FileContent
<1>6. TypeOK'
  BY <1>3, <1>4, <1>5, Zenon DEF TypeOK
<1> QED
  BY <1>2, <1>6 DEF RewriteInv

LEMMA RewriteInvariant == Spec => []RewriteInv
BY InitRewrite, StepRewrite, PTL DEF Spec

(* Files hold bytes, and neither rewrite reads past the end of the mail.    *)
THEOREM RewriteTypeCorrect == Spec => []TypeOK
<1>1. RewriteInv => TypeOK
  BY DEF RewriteInv
<1> QED
  BY <1>1, RewriteInvariant, PTL

(* Whatever call of the operating system fails, and whenever, errCleanupfn  *)
(* and the deferred removals leave no file of a mail that was given up,     *)
(* except on the two error paths that return before they can.               *)
THEOREM FilesAreRemoved == Spec => []FilesRemoved
<1>1. RewriteInv => FilesRemoved
  BY DEF RewriteInv, FileInv, FilesInv
<1> QED
  BY <1>1, RewriteInvariant, PTL
-----------------------------------------------------------------------------
(* Where the headers go.                                                    *)

(* Division by the size of a chunk.                                         *)
LEMMA DivBounds ==
    ASSUME NEW a \in Nat, NEW C \in Nat \ {0}
    PROVE  a \div C \in Nat /\ C * (a \div C) <= a /\ a < C * (a \div C) + C
OBVIOUS

LEMMA NextMultiple ==
    ASSUME NEW C \in Nat \ {0}, NEW x \in Int, NEW y \in Int, x < y
    PROVE  C * x + C <= C * y /\ C * x \in Int /\ C * y \in Int
<1>1. y - x \in Int /\ y - x >= 1 /\ C >= 1
  OBVIOUS
<1>2. C * (y - x) >= C
  BY <1>1
<1>3. C * (y - x) = C * y - C * x
  OBVIOUS
<1> QED
  BY <1>2, <1>3

LEMMA DivIs ==
    ASSUME NEW a \in Nat, NEW C \in Nat \ {0}, NEW q \in Nat,
           C * q <= a, a < C * q + C
    PROVE  a \div C = q
<1>1. PICK d \in Nat : d = a \div C
  BY DivBounds
<1>2. C * d <= a /\ a < C * d + C /\ C * d \in Int /\ C * q \in Int
  BY <1>1, DivBounds
<1>3. /\ d < q => C * d + C <= C * q
      /\ q < d => C * q + C <= C * d
  BY NextMultiple
<1> QED
  BY <1>1, <1>2, <1>3

LEMMA MinIs ==
    ASSUME NEW T \in SUBSET Nat, NEW k \in T, \A y \in T : k <= y
    PROVE  Min(T) = k
<1>1. Min(T) \in T /\ Min(T) <= k
  BY MinOf
<1>2. k <= Min(T) /\ Min(T) \in Nat /\ k \in Nat
  BY <1>1
<1> QED
  BY <1>1, <1>2

(* What Delimiters looks for, byte by byte.                                 *)
LEMMA DelimiterAt ==
    ASSUME NEW s \in Seq(Byte), NEW i \in Int
    PROVE  i \in Delimiters(s) <=>
             /\ 1 <= i /\ i <= Len(s) - 3
             /\ s[i] = "CR" /\ s[i + 1] = "LF" /\ s[i + 2] = "CR" /\ s[i + 3] = "LF"
<1>0. Len(s) \in Nat
  BY LenProperties
<1>1. PICK e : e = CRLF \o CRLF
  OBVIOUS
<1>h. PICK h \in Seq(Byte) : h = CRLF
  BY Bytes
<1>l. Len(h) = 2 /\ h[1] = "CR" /\ h[2] = "LF" /\ e = h \o h
  BY <1>1, <1>h, Bytes
<1>c. /\ e \in Seq(Byte) /\ Len(e) = Len(h) + Len(h)
      /\ \A j \in 1..(Len(h) + Len(h)) : e[j] = IF j <= Len(h) THEN h[j] ELSE h[j - Len(h)]
  BY <1>l, ConcatProperties
<1>2. e \in Seq(Byte) /\ Len(e) = 4
  BY <1>l, <1>c
<1>3. e[1] = "CR" /\ e[2] = "LF" /\ e[3] = "CR" /\ e[4] = "LF"
  BY <1>l, <1>c
<1>4. ASSUME 1 <= i, i <= Len(s) - 3
      PROVE  SubSeq(s, i, i + 3) = e <=>
               s[i] = "CR" /\ s[i + 1] = "LF" /\ s[i + 2] = "CR" /\ s[i + 3] = "LF"
  <2>1. PICK t : t = SubSeq(s, i, i + 3)
    OBVIOUS
  <2>2. i \in Nat \ {0} /\ i + 3 \in 0..Len(s) /\ i <= i + 3 /\ i + 3 - i + 1 = 4
    BY <1>0, <1>4
  <2>3. t \in Seq(Byte) /\ Len(t) = 4 /\ \A j \in 1..4 : t[j] = s[i + j - 1]
    <3>1. /\ t \in Seq(Byte) /\ Len(t) = IF i <= i + 3 THEN i + 3 - i + 1 ELSE 0
          /\ \A j \in 1..(i + 3 - i + 1) : t[j] = s[i + j - 1]
      BY <2>1, <2>2, Part
    <3> QED
      BY <2>2, <3>1
  <2>4. t[1] = s[i] /\ t[2] = s[i + 1] /\ t[3] = s[i + 2] /\ t[4] = s[i + 3]
    BY <2>2, <2>3
  <2>5. ASSUME t[1] = "CR", t[2] = "LF", t[3] = "CR", t[4] = "LF" PROVE t = e
    <3>1. \A j \in 1..4 : t[j] = e[j]
      BY <1>3, <2>5
    <3> QED
      BY <1>2, <2>3, <3>1, SeqEqual
  <2> QED
    BY <1>3, <2>1, <2>4, <2>5
<1>5. i \in Delimiters(s) <=> i \in 1..(Len(s) - 3) /\ SubSeq(s, i, i + 3) = e
  BY <1>1 DEF Delimiters
<1> QED
  BY <1>0, <1>4, <1>5

(* A chunk that starts at a multiple of its size holds the ends of a header *)
(* that no boundary splits.                                                 *)
LEMMA WholeEndsOf ==
    ASSUME NEW s \in Seq(Byte), NEW k
    PROVE  k \in WholeEnds(s) <=>
             k \in Nat /\ k - 1 \in Delimiters(s) /\ InOneChunk(k)
<1>1. \A i \in Delimiters(s) : i \in Nat
  BY LenProperties DEF Delimiters
<1>2. ASSUME k \in HeaderEnds(s) PROVE k \in Nat /\ k - 1 \in Delimiters(s)
  <2>1. PICK i \in Delimiters(s) : k = i + 1
    BY <1>2 DEF HeaderEnds
  <2>2. i \in Nat /\ k - 1 = i
    BY <1>1, <2>1
  <2> QED
    BY <2>1, <2>2
<1>3. ASSUME k \in Nat, k - 1 \in Delimiters(s) PROVE k \in HeaderEnds(s)
  <2>1. k = (k - 1) + 1
    BY <1>3
  <2> QED
    BY <1>3, <2>1 DEF HeaderEnds
<1> QED
  BY <1>2, <1>3 DEF WholeEnds

(* The bytes of a chunk are those of the mail behind position p.            *)
IsPart(c, r, s, p) ==
    /\ Len(c) \in Nat /\ Len(r) = Len(s) - p /\ Len(s) \in Nat /\ p \in Nat
    /\ Len(c) <= Len(r) /\ Len(c) <= ChunkSize
    /\ Len(c) < ChunkSize => Len(c) = Len(r)
    /\ \A i \in 1..Len(c) : c[i] = s[p + i]

LEMMA ChunkBytes ==
    ASSUME NEW s \in Seq(Byte), NEW p \in 0..Len(s), NEW r, NEW c,
           IsRest(r, s, p), IsChunk(c, r)
    PROVE  IsPart(c, r, s, p)
<1>1. /\ r \in Seq(Byte) /\ c \in Seq(Byte) /\ Len(c) \in 0..Len(r)
      /\ Len(r) = Len(s) - p /\ Len(s) \in Nat /\ Len(r) \in Nat
      /\ \A i \in 1..Len(r) : r[i] = s[p + i]
  BY LenProperties DEF IsRest, IsChunk
<1>2. PICK n : n = Len(c)
  OBVIOUS
<1>3. /\ c = SubSeq(r, 1, n) /\ n \in 0..Len(r)
      /\ n = IF ChunkSize <= Len(r) THEN ChunkSize ELSE Len(r)
  BY <1>1, <1>2 DEF IsChunk
<1>6. n <= ChunkSize /\ (n < ChunkSize => n = Len(r))
  BY <1>1, <1>3, SizeAssumption
<1>4. \A i \in 1..(n - 1 + 1) : c[i] = r[1 + i - 1]
  BY <1>1, <1>3, Part
<1>5. \A i \in 1..n : c[i] = s[p + i]
  BY <1>1, <1>3, <1>4
<1>7. n \in Nat /\ n <= Len(r) /\ p \in Nat
  BY <1>1, <1>3
<1> QED
  BY <1>1, <1>2, <1>5, <1>6, <1>7 DEF IsPart

(* Position p is where chunk q starts.                                      *)
IsStart(p, q) == p = ChunkSize * q

LEMMA InChunk ==
    ASSUME NEW p \in Nat, NEW q \in Nat, IsStart(p, q), NEW a \in Nat,
           p <= a, a < p + ChunkSize
    PROVE  a \div ChunkSize = q
BY DivIs, SizeAssumption DEF IsStart

LEMMA ChunkEnd ==
    ASSUME NEW p \in Nat, NEW q \in Nat, IsStart(p, q), NEW a \in Nat,
           a \div ChunkSize = q
    PROVE  a < p + ChunkSize
BY DivBounds, SizeAssumption DEF IsStart

LEMMA FoundInChunk ==
    ASSUME NEW s \in Seq(Byte), NEW p \in 0..Len(s), NEW q \in Nat, IsStart(p, q),
           NEW r, NEW c, IsRest(r, s, p), IsChunk(c, r), NEW i \in Delimiters(c)
    PROVE  p + i + 1 \in WholeEnds(s) /\ i \in 1..(Len(c) - 3)
<1>1. c \in Seq(Byte) /\ i \in Int
  BY DEF IsChunk, Delimiters
<1>2. /\ 1 <= i /\ i <= Len(c) - 3
      /\ c[i] = "CR" /\ c[i + 1] = "LF" /\ c[i + 2] = "CR" /\ c[i + 3] = "LF"
  BY <1>1, DelimiterAt
<1>p. IsPart(c, r, s, p)
  BY ChunkBytes
<1>3. /\ Len(c) \in Nat /\ Len(r) = Len(s) - p /\ Len(s) \in Nat /\ p \in Nat
      /\ Len(c) <= Len(r) /\ Len(c) <= ChunkSize
      /\ Len(c) < ChunkSize => Len(c) = Len(r)
      /\ \A j \in 1..Len(c) : c[j] = s[p + j]
  BY <1>p DEF IsPart
<1>4. ChunkSize \in Nat \ {0}
  BY SizeAssumption
<1>5. PICK k : k = p + i + 1
  OBVIOUS
<1>6. k \in Nat /\ k - 1 = p + i /\ k - 1 \in Int /\ 1 <= k - 1 /\ k - 1 <= Len(s) - 3
  BY <1>1, <1>2, <1>3, <1>4, <1>5
<1>7. /\ s[k - 1] = "CR" /\ s[k - 1 + 1] = "LF" /\ s[k - 1 + 2] = "CR"
      /\ s[k - 1 + 3] = "LF"
  <2>1. i \in 1..Len(c) /\ i + 1 \in 1..Len(c) /\ i + 2 \in 1..Len(c) /\ i + 3 \in 1..Len(c)
    BY <1>1, <1>2, <1>3
  <2>2. /\ k - 1 + 1 = p + (i + 1) /\ k - 1 + 2 = p + (i + 2)
        /\ k - 1 + 3 = p + (i + 3)
    BY <1>1, <1>6
  <2> QED
    BY <1>2, <1>3, <1>6, <2>1, <2>2
<1>8. k - 1 \in Delimiters(s)
  BY <1>6, <1>7, DelimiterAt
<1>9. InOneChunk(k)
  <2>1. /\ k - 2 \in Nat /\ k + 1 \in Nat /\ p <= k - 2 /\ k - 2 < p + ChunkSize
        /\ p <= k + 1 /\ k + 1 < p + ChunkSize
    BY <1>1, <1>2, <1>3, <1>4, <1>5
  <2>2. (k - 2) \div ChunkSize = q /\ (k + 1) \div ChunkSize = q
    BY <1>3, <2>1, InChunk
  <2> QED
    BY <2>2 DEF InOneChunk
<1>10. k \in WholeEnds(s)
  BY <1>6, <1>8, <1>9, WholeEndsOf
<1>11. i \in 1..(Len(c) - 3)
  BY <1>1, <1>2, <1>3
<1> QED
  BY <1>5, <1>10, <1>11

LEMMA EndIsInChunk ==
    ASSUME NEW s \in Seq(Byte), NEW p \in 0..Len(s), NEW q \in Nat, IsStart(p, q),
           NEW r, NEW c, IsRest(r, s, p), IsChunk(c, r),
           NEW k \in WholeEnds(s), p <= k - 2, k - 2 < p + Len(c)
    PROVE  k - 1 - p \in Delimiters(c)
<1>1. k \in Nat /\ k - 1 \in Delimiters(s) /\ InOneChunk(k)
  BY WholeEndsOf
<1>2. /\ 1 <= k - 1 /\ k - 1 <= Len(s) - 3
      /\ s[k - 1] = "CR" /\ s[k - 1 + 1] = "LF" /\ s[k - 1 + 2] = "CR"
      /\ s[k - 1 + 3] = "LF"
  BY <1>1, DelimiterAt
<1>p. IsPart(c, r, s, p)
  BY ChunkBytes
<1>3. /\ Len(c) \in Nat /\ Len(r) = Len(s) - p /\ Len(s) \in Nat /\ p \in Nat
      /\ Len(c) <= Len(r) /\ Len(c) <= ChunkSize
      /\ Len(c) < ChunkSize => Len(c) = Len(r)
      /\ \A j \in 1..Len(c) : c[j] = s[p + j]
  BY <1>p DEF IsPart
<1>4. ChunkSize \in Nat \ {0} /\ c \in Seq(Byte)
  BY SizeAssumption DEF IsChunk
<1>5. k + 1 < p + ChunkSize
  <2>1. k - 2 \in Nat /\ k + 1 \in Nat /\ k - 2 < p + ChunkSize
    BY <1>1, <1>3, <1>4
  <2>2. (k - 2) \div ChunkSize = q
    BY <1>3, <2>1, InChunk
  <2>3. (k + 1) \div ChunkSize = q
    BY <1>1, <2>2 DEF InOneChunk
  <2> QED
    BY <1>3, <2>1, <2>3, ChunkEnd
<1>6. PICK i : i = k - 1 - p
  OBVIOUS
<1>7. i \in Int /\ 1 <= i /\ i <= Len(c) - 3
  BY <1>1, <1>2, <1>3, <1>4, <1>5, <1>6
<1>8. c[i] = "CR" /\ c[i + 1] = "LF" /\ c[i + 2] = "CR" /\ c[i + 3] = "LF"
  <2>1. i \in 1..Len(c) /\ i + 1 \in 1..Len(c) /\ i + 2 \in 1..Len(c) /\ i + 3 \in 1..Len(c)
    BY <1>3, <1>7
  <2>2. /\ p + i = k - 1 /\ p + (i + 1) = k - 1 + 1 /\ p + (i + 2) = k - 1 + 2
        /\ p + (i + 3) = k - 1 + 3
    BY <1>1, <1>3, <1>6
  <2> QED
    BY <1>2, <1>3, <2>1, <2>2
<1> QED
  BY <1>4, <1>6, <1>7, <1>8, DelimiterAt

(* Parts of the rest are parts of the mail.                                 *)
LEMMA PartOfRest ==
    ASSUME NEW s \in Seq(Byte), NEW p \in 0..Len(s), NEW r, IsRest(r, s, p),
           NEW m \in Nat \ {0}, NEW n \in 0..Len(r)
    PROVE  SubSeq(r, m, n) = SubSeq(s, p + m, p + n)
<1>1. /\ r \in Seq(Byte) /\ Len(r) = Len(s) - p /\ Len(s) \in Nat
      /\ \A i \in 1..Len(r) : r[i] = s[p + i]
  BY LenProperties DEF IsRest
<1>2. p + m \in Nat \ {0} /\ p + n \in 0..Len(s) /\ (p + n) - (p + m) + 1 = n - m + 1
  BY <1>1
<1>3. PICK x, y : x = SubSeq(r, m, n) /\ y = SubSeq(s, p + m, p + n)
  OBVIOUS
<1>4. /\ x \in Seq(Byte) /\ Len(x) = IF m <= n THEN n - m + 1 ELSE 0
      /\ \A i \in 1..(n - m + 1) : x[i] = r[m + i - 1]
  BY <1>1, <1>3, Part
<1>5. /\ y \in Seq(Byte) /\ Len(y) = IF p + m <= p + n THEN n - m + 1 ELSE 0
      /\ \A i \in 1..(n - m + 1) : y[i] = s[p + m + i - 1]
  BY <1>2, <1>3, Part
<1>6. Len(x) = Len(y) /\ 1..Len(x) \subseteq 1..(n - m + 1)
  BY <1>1, <1>4, <1>5
<1>7. \A i \in 1..(n - m + 1) : m + i - 1 \in 1..Len(r) /\ p + (m + i - 1) = p + m + i - 1
  BY <1>1
<1>8. \A i \in 1..Len(x) : x[i] = y[i]
  BY <1>1, <1>4, <1>5, <1>6, <1>7
<1>9. x = y
  BY <1>4, <1>5, <1>6, <1>8, SeqEqual
<1> QED
  BY <1>3, <1>9
LEMMA Associative ==
    ASSUME NEW s \in Seq(Byte), NEW t \in Seq(Byte), NEW u \in Seq(Byte)
    PROVE  s \o (t \o u) = (s \o t) \o u
BY ConcatAssociative

AreTexts(s, t, u, v, w) ==
    /\ s \in Seq(Byte) /\ t \in Seq(Byte) /\ u \in Seq(Byte)
    /\ v \in Seq(Byte) /\ w \in Seq(Byte)

Regrouped(s, t, u, v, w) ==
    s \o (t \o u \o v \o w) = ((s \o t) \o u) \o v \o w

LEMMA Associative5 ==
    ASSUME NEW s, NEW t, NEW u, NEW v, NEW w, AreTexts(s, t, u, v, w)
    PROVE  Regrouped(s, t, u, v, w)
<1>1. s \in Seq(Byte) /\ t \in Seq(Byte) /\ u \in Seq(Byte)
  BY DEF AreTexts
<1>2. v \in Seq(Byte) /\ w \in Seq(Byte)
  BY DEF AreTexts
<1>3. PICK x : x = t \o u
  OBVIOUS
<1>4. x \in Seq(Byte)
  BY <1>1, <1>3, ConcatProperties
<1>5. PICK y : y = x \o v
  OBVIOUS
<1>6. y \in Seq(Byte)
  BY <1>2, <1>4, <1>5, ConcatProperties
<1>7. s \o (y \o w) = (s \o y) \o w
  BY <1>1, <1>2, <1>6, Associative
<1>8. s \o (x \o v) = (s \o x) \o v
  BY <1>1, <1>2, <1>4, Associative
<1>9. s \o (t \o u) = (s \o t) \o u
  BY <1>1, Associative
<1> QED
  BY <1>3, <1>5, <1>7, <1>8, <1>9 DEF Regrouped

LEMMA EndOfRest ==
    ASSUME NEW s \in Seq(Byte), NEW p \in 0..Len(s), NEW r, IsRest(r, s, p), NEW i \in Nat
    PROVE  SubSeq(r, i + 3, Len(r)) = SubSeq(s, p + i + 3, Len(s))
<1>1. PICK m, n : m = i + 3 /\ n = Len(r)
  OBVIOUS
<1>2. r \in Seq(Byte) /\ n = Len(s) - p /\ Len(s) \in Nat
  BY <1>1, LenProperties DEF IsRest
<1>3. n \in 0..Len(r) /\ m \in Nat \ {0} /\ p + m = p + i + 3 /\ p + n = Len(s)
  BY <1>1, <1>2
<1>4. SubSeq(r, m, n) = SubSeq(s, p + m, p + n)
  BY <1>3, PartOfRest
<1> QED
  BY <1>1, <1>3, <1>4

LEMMA PrefixOfPrefix ==
    ASSUME NEW s \in Seq(Byte), NEW n \in 0..Len(s), NEW i \in 0..n
    PROVE  SubSeq(SubSeq(s, 1, n), 1, i) = SubSeq(s, 1, i)
<1>1. Len(s) \in Nat /\ n \in Nat /\ i \in Nat /\ i \in 0..Len(s)
  BY LenProperties
<1>2. PICK t, x, y : t = SubSeq(s, 1, n) /\ x = SubSeq(t, 1, i) /\ y = SubSeq(s, 1, i)
  OBVIOUS
<1>3. t \in Seq(Byte) /\ Len(t) = n /\ \A j \in 1..n : t[j] = s[j]
  <2>1. /\ t \in Seq(Byte) /\ Len(t) = IF 1 <= n THEN n - 1 + 1 ELSE 0
        /\ \A j \in 1..(n - 1 + 1) : t[j] = s[1 + j - 1]
    BY <1>1, <1>2, Part
  <2> QED
    BY <1>1, <2>1
<1>4. x \in Seq(Byte) /\ Len(x) = i /\ \A j \in 1..i : x[j] = t[j]
  <2>1. /\ x \in Seq(Byte) /\ Len(x) = IF 1 <= i THEN i - 1 + 1 ELSE 0
        /\ \A j \in 1..(i - 1 + 1) : x[j] = t[1 + j - 1]
    BY <1>1, <1>2, <1>3, Part
  <2> QED
    BY <1>1, <2>1
<1>5. y \in Seq(Byte) /\ Len(y) = i /\ \A j \in 1..i : y[j] = s[j]
  <2>1. /\ y \in Seq(Byte) /\ Len(y) = IF 1 <= i THEN i - 1 + 1 ELSE 0
        /\ \A j \in 1..(i - 1 + 1) : y[j] = s[1 + j - 1]
    BY <1>1, <1>2, Part
  <2> QED
    BY <1>1, <2>1
<1>6. \A j \in 1..i : x[j] = y[j]
  BY <1>1, <1>3, <1>4, <1>5
<1> QED
  BY <1>2, <1>4, <1>5, <1>6, SeqEqual

(* What addHeaders has written when it has found the end of the header: the *)
(* bytes of the mail, with the headers between them.                        *)
LEMMA Inserted ==
    ASSUME NEW s \in Seq(Byte), NEW p \in 0..Len(s), NEW r, IsRest(r, s, p),
           NEW c, IsChunk(c, r), NEW i \in Nat, i + 4 <= Len(c),
           c[i + 1] = "CR", c[i + 2] = "LF"
    PROVE  SubSeq(s, 1, p) \o (SubSeq(c, 1, i) \o CRLF \o hdrs \o SubSeq(r, i + 3, Len(r)))
             = InsertedAt(s, p + i + 2)
<1>p. IsPart(c, r, s, p)
  BY ChunkBytes
<1>1. /\ Len(c) \in Nat /\ Len(r) = Len(s) - p /\ Len(s) \in Nat /\ p \in Nat
      /\ Len(c) <= Len(r)
      /\ \A j \in 1..Len(c) : c[j] = s[p + j]
  BY <1>p DEF IsPart
<1>2. PICK A, B, E, T : /\ A = SubSeq(s, 1, p) /\ B = SubSeq(s, p + 1, p + i)
                        /\ E = SubSeq(s, p + i + 1, p + i + 2)
                        /\ T = SubSeq(s, p + i + 3, Len(s))
  OBVIOUS
<1>3. A \in Seq(Byte) /\ B \in Seq(Byte) /\ E \in Seq(Byte) /\ T \in Seq(Byte)
  <2>1. /\ p \in 0..Len(s) /\ p + i \in 0..Len(s) /\ p + i + 2 \in 0..Len(s)
        /\ Len(s) \in 0..Len(s) /\ 1 \in Nat \ {0} /\ p + 1 \in Nat \ {0}
        /\ p + i + 1 \in Nat \ {0} /\ p + i + 3 \in Nat \ {0}
    BY <1>1
  <2> QED
    BY <1>2, <2>1, Part
<1>4. SubSeq(c, 1, i) = B
  <2>1. PICK n : n = Len(c)
    OBVIOUS
  <2>2. c = SubSeq(r, 1, n) /\ n \in 0..Len(r) /\ r \in Seq(Byte) /\ i \in 0..n
    BY <1>1, <2>1 DEF IsChunk, IsRest
  <2>3. SubSeq(SubSeq(r, 1, n), 1, i) = SubSeq(r, 1, i)
    BY <1>1, <2>2, PrefixOfPrefix
  <2>4. SubSeq(r, 1, i) = SubSeq(s, p + 1, p + i)
    BY <1>1, <2>2, PartOfRest
  <2> QED
    BY <1>2, <2>2, <2>3, <2>4
<1>5. CRLF = E
  <2>1. p + i + 1 \in Nat \ {0} /\ p + i + 2 \in 0..Len(s)
        /\ (p + i + 2) - (p + i + 1) + 1 = 2 /\ p + i + 1 <= p + i + 2
    BY <1>1
  <2>2. Len(E) = 2 /\ \A j \in 1..2 : E[j] = s[p + i + 1 + j - 1]
    <3>1. /\ Len(E) = IF p + i + 1 <= p + i + 2 THEN (p + i + 2) - (p + i + 1) + 1 ELSE 0
          /\ \A j \in 1..((p + i + 2) - (p + i + 1) + 1) : E[j] = s[p + i + 1 + j - 1]
      BY <1>2, <2>1, Part
    <3> QED
      BY <2>1, <3>1
  <2>3. /\ i + 1 \in 1..Len(c) /\ i + 2 \in 1..Len(c) /\ p + (i + 1) = p + i + 1 + 1 - 1
        /\ p + (i + 2) = p + i + 1 + 2 - 1
    BY <1>1
  <2>4. E[1] = "CR" /\ E[2] = "LF"
    BY <1>1, <2>2, <2>3
  <2>5. \A j \in 1..2 : E[j] = CRLF[j]
    BY <2>4, Bytes
  <2> QED
    BY <1>3, <2>2, <2>5, Bytes, SeqEqual
<1>6. SubSeq(r, i + 3, Len(r)) = T
  BY <1>1, <1>2, EndOfRest
<1>7. A \o B = SubSeq(s, 1, p + i)
  <2>1. p \in (1 - 1)..Len(s) /\ 1 \in 1..(Len(s) + 1) /\ p + i \in p..Len(s)
    BY <1>1
  <2> QED
    BY <1>2, <2>1, ConcatAdjacentSubSeq
<1>8. SubSeq(s, 1, p + i) \o E = SubSeq(s, 1, p + i + 2)
  <2>1. /\ p + i \in (1 - 1)..Len(s) /\ 1 \in 1..(Len(s) + 1)
        /\ p + i + 2 \in (p + i)..Len(s)
    BY <1>1
  <2> QED
    BY <1>2, <2>1, ConcatAdjacentSubSeq
<1>9. A \o (B \o E \o hdrs \o T) = ((A \o B) \o E) \o hdrs \o T
  <2>1. AreTexts(A, B, E, hdrs, T)
    BY <1>3, Bytes DEF AreTexts
  <2>2. Regrouped(A, B, E, hdrs, T)
    BY <2>1, Associative5
  <2> QED
    BY <2>2 DEF Regrouped
<1>10. p + i + 2 + 1 = p + i + 3
  BY <1>1
<1>11. InsertedAt(s, p + i + 2) = SubSeq(s, 1, p + i + 2) \o hdrs \o T
  BY <1>2, <1>10 DEF InsertedAt
<1> QED
  BY <1>2, <1>4, <1>5, <1>6, <1>7, <1>8, <1>9, <1>11

(* While the end of the header is searched, the new file is a copy of what  *)
(* was read, reading has reached the end of the mail or a chunk boundary,   *)
(* and no end that a chunk holds was passed over.                           *)
InsertedIn(t) ==
    /\ WholeEnds(base) # {}
    /\ t = InsertedAt(base, Min(WholeEnds(base)))

NothingPassed(s, p) == \A k \in WholeEnds(s) : p <= k - 2

Searching ==
    /\ disk["added"] = SubSeq(base, 1, pos)
    /\ pos = Len(base) \/ \E q \in Nat : IsStart(pos, q)
    /\ NothingPassed(base, pos)

InsertInv ==
    /\ pc \in {"search", "renameAdded"} => base = disk["mail"]
    /\ pc = "search" => Searching
    /\ pc = "renameAdded" => InsertedIn(disk["added"])
    /\ pc = "done" => InsertedIn(disk["mail"])

LEMMA OtherSteps ==
    ASSUME Next
    PROVE  \/ pc' \notin {"search", "renameAdded", "done"}
           \/ OpenFiles("openAdd", "search", "added")
           \/ CopyChunk \/ InsertHeaders \/ Rename("renameAdded", "added", "done")
BY DEF Next, ReplaceHeader, AddHeaders, replaceHeader, addHeaders, Download,
   DownloadFails, Check, CheckFails, OpenFiles, OpenFails, CopyFails, Rename,
   RenameFails, HeaderNotFound, BlankLine, BodyLine, ContinuationLine, SubjectLine,
   HeaderLine, LineTooLong, ScanEnds, HeaderEndNotFound, Scan,
   AsHeaders, AsHeadersFails, Fails, Consumed

(* Before the search nothing was passed over: the byte before an end is at  *)
(* least the second of the mail.                                            *)
LEMMA NothingPassedFirst ==
    ASSUME NEW s \in Seq(Byte)
    PROVE  NothingPassed(s, 0)
<1> SUFFICES ASSUME NEW k \in WholeEnds(s) PROVE 0 <= k - 2
  BY DEF NothingPassed
<1>1. k \in Nat /\ k - 1 \in Delimiters(s)
  BY WholeEndsOf
<1>2. 1 <= k - 1
  BY <1>1, DelimiterAt
<1> QED
  BY <1>1, <1>2

(* A chunk without a delimiter holds no end, and the next position is again *)
(* a boundary or the end of the mail.                                       *)
LEMMA ChunkPassed ==
    ASSUME NEW s \in Seq(Byte), NEW p \in 0..Len(s), NEW r, NEW c,
           IsRest(r, s, p), IsChunk(c, r), r # <<>>, Delimiters(c) = {},
           p = Len(s) \/ \E q \in Nat : IsStart(p, q), NothingPassed(s, p)
    PROVE  /\ NothingPassed(s, p + Len(c))
           /\ p + Len(c) = Len(s) \/ \E q \in Nat : IsStart(p + Len(c), q)
           /\ SubSeq(s, 1, p) \o c = SubSeq(s, 1, p + Len(c))
<1>p. IsPart(c, r, s, p)
  BY ChunkBytes
<1>1. /\ Len(c) \in Nat /\ Len(r) = Len(s) - p /\ Len(s) \in Nat /\ p \in Nat
      /\ Len(c) <= Len(r) /\ Len(c) <= ChunkSize
      /\ Len(c) < ChunkSize => Len(c) = Len(r)
  BY <1>p DEF IsPart
<1>2. PICK q \in Nat : IsStart(p, q)
  BY DEF IsRest
<1>3. NothingPassed(s, p + Len(c))
  <2> SUFFICES ASSUME NEW k \in WholeEnds(s) PROVE p + Len(c) <= k - 2
    BY DEF NothingPassed
  <2>1. k \in Nat /\ p <= k - 2
    BY WholeEndsOf DEF NothingPassed
  <2>2. ~(k - 2 < p + Len(c))
    BY <1>2, <2>1, EndIsInChunk
  <2> QED
    BY <1>1, <2>1, <2>2
<1>4. p + Len(c) = Len(s) \/ \E n \in Nat : IsStart(p + Len(c), n)
  <2>1. CASE Len(c) = ChunkSize
    <3>1. p + Len(c) = ChunkSize * (q + 1) /\ q + 1 \in Nat
      BY <1>1, <1>2, <2>1, SizeAssumption DEF IsStart
    <3> QED
      BY <3>1 DEF IsStart
  <2>2. CASE Len(c) # ChunkSize
    BY <1>1, <2>2, SizeAssumption
  <2> QED
    BY <2>1, <2>2
<1>5. SubSeq(s, 1, p) \o c = SubSeq(s, 1, p + Len(c))
  <2>1. PICK n : n = Len(c)
    OBVIOUS
  <2>2. c = SubSeq(r, 1, n) /\ n \in 0..Len(r)
    BY <1>1, <2>1 DEF IsChunk
  <2>3. c = SubSeq(s, p + 1, p + n)
    BY <2>2, PartOfRest
  <2>4. p \in (1 - 1)..Len(s) /\ 1 \in 1..(Len(s) + 1) /\ p + n \in p..Len(s)
    BY <1>1, <2>2
  <2>5. SubSeq(s, 1, p) \o SubSeq(s, p + 1, p + n) = SubSeq(s, 1, p + n)
    BY <2>4, ConcatAdjacentSubSeq
  <2> QED
    BY <2>1, <2>3, <2>5
<1> QED
  BY <1>3, <1>4, <1>5

(* The first delimiter of a chunk is the first end that a chunk holds.      *)
LEMMA FirstEnd ==
    ASSUME NEW s \in Seq(Byte), NEW p \in 0..Len(s), NEW r, NEW c,
           IsRest(r, s, p), IsChunk(c, r), Delimiters(c) # {},
           p = Len(s) \/ \E q \in Nat : IsStart(p, q), NothingPassed(s, p)
    PROVE  /\ WholeEnds(s) # {}
           /\ Min(WholeEnds(s)) = p + Min(Delimiters(c)) + 1
<1>p. IsPart(c, r, s, p)
  BY ChunkBytes
<1>1. /\ Len(c) \in Nat /\ Len(r) = Len(s) - p /\ Len(s) \in Nat /\ p \in Nat
      /\ Len(c) <= Len(r) /\ c \in Seq(Byte)
  BY <1>p DEF IsPart, IsChunk
<1>2. PICK d : d = Min(Delimiters(c))
  OBVIOUS
<1>3. d \in 1..(Len(c) - 3) /\ d \in Delimiters(c) /\ \A i \in Delimiters(c) : d <= i
  BY <1>1, <1>2, DelimitersOf
<1>4. p # Len(s)
  BY <1>1, <1>3
<1>5. PICK q \in Nat : IsStart(p, q)
  BY <1>4
<1>6. PICK k : k = p + d + 1
  OBVIOUS
<1>7. k \in WholeEnds(s)
  BY <1>3, <1>5, <1>6, FoundInChunk
<1>8. WholeEnds(s) \in SUBSET Nat
  BY WholeEndsOf
<1>9. ASSUME NEW y \in WholeEnds(s) PROVE k <= y
  <2>1. y \in Nat /\ p <= y - 2
    BY <1>8 DEF NothingPassed
  <2>2. CASE y - 2 < p + Len(c)
    <3>1. y - 1 - p \in Delimiters(c)
      BY <1>5, <2>1, <2>2, EndIsInChunk
    <3>2. d <= y - 1 - p
      BY <1>3, <3>1
    <3> QED
      BY <1>1, <1>3, <1>6, <2>1, <3>2
  <2>3. CASE ~(y - 2 < p + Len(c))
    BY <1>1, <1>3, <1>6, <2>1, <2>3
  <2> QED
    BY <2>2, <2>3
<1>10. Min(WholeEnds(s)) = k
  BY <1>7, <1>8, <1>9, MinIs
<1> QED
  BY <1>2, <1>6, <1>7, <1>10

LEMMA StepInsert == RewriteInv /\ InsertInv /\ [Next]_vars => InsertInv'
<1> SUFFICES ASSUME RewriteInv, InsertInv, [Next]_vars PROVE InsertInv'
  OBVIOUS
<1>t. TypeOK /\ FileInv /\ FilesInv /\ disk \in [File -> FileContent]
  BY DEF RewriteInv, FileInv
<1>1. CASE UNCHANGED vars
  BY <1>1 DEF vars, InsertInv, Searching, InsertedIn
<1>2. CASE pc' \notin {"search", "renameAdded", "done"}
  BY <1>2 DEF InsertInv
<1>3. CASE OpenFiles("openAdd", "search", "added")
  <2>1. /\ disk' = [disk EXCEPT !["added"] = <<>>] /\ pos' = 0 /\ pc' = "search"
        /\ base' = disk["mail"] /\ pc = "openAdd"
    BY <1>3 DEF OpenFiles
  <2>2. disk'["added"] = <<>> /\ disk'["mail"] = disk["mail"] /\ disk["mail"] \in Seq(Byte)
    BY <2>1, <1>t DEF File, FilesInv
  <2>3. PICK s \in Seq(Byte) : s = disk["mail"]
    BY <2>2
  <2>4. NothingPassed(s, 0)
    BY NothingPassedFirst
  <2>5. SubSeq(s, 1, 0) = <<>>
    BY SubSeqEmpty
  <2>6. IsStart(0, 0)
    BY SizeAssumption DEF IsStart
  <2>7. Searching'
    BY <2>1, <2>2, <2>3, <2>4, <2>5, <2>6 DEF Searching
  <2> QED
    BY <2>1, <2>2, <2>7 DEF InsertInv
<1>4. CASE CopyChunk \/ InsertHeaders
  <2>1. pc = "search" /\ UNCHANGED base
    BY <1>4 DEF CopyChunk, InsertHeaders
  <2>2. /\ disk["mail"] \in Seq(Byte) /\ pos \in 0..Len(disk["mail"])
        /\ IsRest(Rest("mail"), disk["mail"], pos)
    BY <2>1, <1>t, RestOf
  <2>3. IsChunk(Chunk, Rest("mail"))
    <3>1. Rest("mail") \in Seq(Byte)
      BY <2>2 DEF IsRest
    <3> QED
      BY <3>1, ChunkOf
  <2>4. PICK s, p, r, c : s = disk["mail"] /\ p = pos /\ r = Rest("mail") /\ c = Chunk
    OBVIOUS
  <2>5. s \in Seq(Byte) /\ p \in 0..Len(s) /\ IsRest(r, s, p) /\ IsChunk(c, r)
    BY <2>2, <2>3, <2>4
  <2>6. /\ base = s /\ disk["added"] = SubSeq(s, 1, p) /\ NothingPassed(s, p)
        /\ p = Len(s) \/ \E q \in Nat : IsStart(p, q)
    BY <2>1, <2>4 DEF InsertInv, Searching
  <2>7. ASSUME NEW bytes, Write("added", bytes)
        PROVE  disk'["mail"] = s /\ disk'["added"] = SubSeq(s, 1, p) \o bytes
    BY <2>4, <2>6, <2>7, <1>t DEF Write, File
  <2>8. CASE CopyChunk
    <3>1. /\ r # <<>> /\ Delimiters(c) = {} /\ Write("added", c) /\ pos' = p + Len(c)
          /\ pc' = "search"
      BY <2>4, <2>8 DEF CopyChunk
    <3>2. /\ NothingPassed(s, p + Len(c))
          /\ p + Len(c) = Len(s) \/ \E q \in Nat : IsStart(p + Len(c), q)
          /\ SubSeq(s, 1, p) \o c = SubSeq(s, 1, p + Len(c))
      BY <2>5, <2>6, <3>1, ChunkPassed
    <3>3. Searching'
      BY <2>1, <2>6, <2>7, <3>1, <3>2 DEF Searching
    <3> QED
      BY <2>1, <2>6, <2>7, <3>1, <3>3 DEF InsertInv
  <2>9. CASE InsertHeaders
    <3>1. PICK i : i = Min(Delimiters(c)) - 1
      OBVIOUS
    <3>2. /\ Delimiters(c) # {} /\ pc' = "renameAdded"
          /\ Write("added", SubSeq(c, 1, i) \o CRLF \o hdrs \o SubSeq(r, i + 3, Len(r)))
      BY <2>4, <2>9, <3>1 DEF InsertHeaders
    <3>3. /\ c \in Seq(Byte) /\ Len(c) \in Nat
      BY <2>5, LenProperties DEF IsChunk
    <3>4. PICK d : d = Min(Delimiters(c))
      OBVIOUS
    <3>5. d \in 1..(Len(c) - 3) /\ d \in Delimiters(c)
      BY <3>2, <3>3, <3>4, DelimitersOf
    <3>6. c[d] = "CR" /\ c[d + 1] = "LF"
      BY <3>3, <3>5, DelimiterAt
    <3>7. i \in Nat /\ i + 4 <= Len(c) /\ i + 1 = d /\ i + 2 = d + 1 /\ p + i + 2 = p + d + 1
      BY <2>5, <3>1, <3>3, <3>4, <3>5
    <3>8. c[i + 1] = "CR" /\ c[i + 2] = "LF"
      BY <3>6, <3>7
    <3>9. SubSeq(s, 1, p) \o (SubSeq(c, 1, i) \o CRLF \o hdrs \o SubSeq(r, i + 3, Len(r)))
             = InsertedAt(s, p + i + 2)
      BY <2>5, <3>7, <3>8, Inserted
    <3>10. WholeEnds(s) # {} /\ Min(WholeEnds(s)) = p + d + 1
      BY <2>5, <2>6, <3>2, <3>4, FirstEnd
    <3>11. disk'["added"] = InsertedAt(s, p + i + 2) /\ disk'["mail"] = s
      BY <2>7, <3>2, <3>9
    <3>12. WholeEnds(s) # {} /\ disk'["added"] = InsertedAt(s, Min(WholeEnds(s)))
      BY <3>7, <3>10, <3>11
    <3> QED
      BY <2>1, <2>6, <3>2, <3>11, <3>12 DEF InsertInv, InsertedIn
  <2> QED
    BY <1>4, <2>8, <2>9
<1>5. CASE Rename("renameAdded", "added", "done")
  <2>1. /\ disk' = [disk EXCEPT !["mail"] = disk["added"], !["added"] = NoFile]
        /\ pc = "renameAdded" /\ pc' = "done" /\ UNCHANGED base
    BY <1>5 DEF Rename
  <2>2. disk'["mail"] = disk["added"]
    BY <2>1, <1>t DEF File
  <2> QED
    BY <2>1, <2>2 DEF InsertInv, InsertedIn
<1> QED
  BY <1>1, <1>2, <1>3, <1>4, <1>5, OtherSteps

LEMMA InsertInvariant == Spec => []InsertInv
<1>1. Init => InsertInv
  BY DEF Init, InsertInv
<1> QED
  BY <1>1, StepInsert, RewriteInvariant, PTL DEF Spec

(* The mail that is uploaded has every byte of the one that Rspamd scanned, *)
(* in order, with the headers before the first empty line that lies in one  *)
(* chunk, for every mail and every size of the buffer.                      *)
THEOREM HeadersAreInserted == Spec => []HeadersInserted
<1>1. InsertInv => HeadersInserted
  BY DEF InsertInv, HeadersInserted, InsertedIn
<1> QED
  BY <1>1, InsertInvariant, PTL
-----------------------------------------------------------------------------
(* The lines of a mail.  LinesFrom is a recursive function: that it is one  *)
(* at all is shown by induction over the length of the text that is left.   *)

LEMMA Induction ==
    ASSUME NEW S, 0 \in S, \A n \in Nat : n \in S => n + 1 \in S
    PROVE  \A n \in Nat : n \in S
<1> DEFINE T == {n \in Nat : n \notin S}
<1> SUFFICES ASSUME T # {} PROVE FALSE
  OBVIOUS
<1>1. PICK x \in T : \A y \in T : x <= y
  BY LeastNatural
<1>2. x \in Nat \ {0} /\ x \notin S
  OBVIOUS
<1>3. x - 1 \in Nat /\ x - 1 \notin T /\ (x - 1) + 1 = x
  BY <1>1, <1>2
<1> QED
  BY <1>2, <1>3

LineEnds(r) == {i \in 1..Len(r) : r[i] = "LF"}

FromBody(s, f, p) ==
    LET rest == SubSeq(s, p + 1, Len(s))
    IN  IF rest = <<>> THEN <<>>
        ELSE IF LineEnds(rest) = {} THEN <<dropCR(rest)>>
        ELSE <<dropCR(SubSeq(rest, 1, Min(LineEnds(rest)) - 1))>>
               \o f[p + Min(LineEnds(rest))]

LEMMA LineEndsOf ==
    ASSUME NEW r \in Seq(Byte), LineEnds(r) # {}
    PROVE  /\ Min(LineEnds(r)) \in 1..Len(r) /\ r[Min(LineEnds(r))] = "LF"
           /\ \A i \in LineEnds(r) : Min(LineEnds(r)) <= i
<1>1. Len(r) \in Nat
  BY LenProperties
<1>2. LineEnds(r) \in SUBSET Nat
  BY <1>1 DEF LineEnds
<1>3. Min(LineEnds(r)) \in LineEnds(r) /\ \A i \in LineEnds(r) : Min(LineEnds(r)) <= i
  BY <1>2, MinOf
<1> QED
  BY <1>3 DEF LineEnds

(* The lines after p bytes depend on those further behind only.             *)
LEMMA BodyLocal ==
    ASSUME NEW s \in Seq(Byte), NEW p \in 0..Len(s), NEW f, NEW g,
           \A q \in (p + 1)..Len(s) : f[q] = g[q]
    PROVE  FromBody(s, f, p) = FromBody(s, g, p)
<1>1. PICK r : r = SubSeq(s, p + 1, Len(s))
  OBVIOUS
<1>2. IsRest(r, s, p)
  BY <1>1, Suffix
<1>3. r \in Seq(Byte) /\ Len(r) = Len(s) - p /\ Len(s) \in Nat
  BY <1>2, LenProperties DEF IsRest
<1>4. CASE r = <<>> \/ LineEnds(r) = {}
  BY <1>1, <1>4 DEF FromBody
<1>5. CASE r # <<>> /\ LineEnds(r) # {}
  <2>1. PICK m : m = Min(LineEnds(r))
    OBVIOUS
  <2>2. m \in 1..Len(r)
    BY <1>3, <1>5, <2>1, LineEndsOf
  <2>3. p + m \in (p + 1)..Len(s)
    BY <1>3, <2>2
  <2>4. f[p + m] = g[p + m]
    BY <2>3
  <2> QED
    BY <1>1, <1>5, <2>1, <2>4 DEF FromBody
<1> QED
  BY <1>4, <1>5

LEMMA FromExists ==
    ASSUME NEW s \in Seq(Byte)
    PROVE  \E f : f = [p \in 0..Len(s) |-> FromBody(s, f, p)]
<1>1. PICK L \in Nat : L = Len(s)
  BY LenProperties
<1> DEFINE S == {n \in Nat : n <= L =>
                   \E f : f = [p \in (L - n)..L |-> FromBody(s, f, p)]}
<1>2. 0 \in S
  <2>1. PICK f : f = [p \in L..L |-> FromBody(s, <<>>, p)]
    OBVIOUS
  <2>2. ASSUME NEW p \in L..L PROVE FromBody(s, f, p) = FromBody(s, <<>>, p)
    <3>1. p \in 0..Len(s) /\ (p + 1)..Len(s) = {}
      BY <1>1
    <3> QED
      BY <3>1, BodyLocal
  <2>3. f = [p \in L..L |-> FromBody(s, f, p)]
    BY <2>1, <2>2
  <2>4. (L - 0)..L = L..L
    OBVIOUS
  <2> QED
    BY <2>3, <2>4
<1>3. ASSUME NEW n \in Nat, n \in S PROVE n + 1 \in S
  <2> SUFFICES ASSUME n + 1 <= L
               PROVE  \E g : g = [p \in (L - (n + 1))..L |-> FromBody(s, g, p)]
    OBVIOUS
  <2>1. PICK f : f = [p \in (L - n)..L |-> FromBody(s, f, p)]
    BY <1>3
  <2>2. PICK k \in 0..L : k = L - (n + 1)
    OBVIOUS
  <2>3. L - n = k + 1
    BY <2>2
  <2>4. PICK g : g = [p \in k..L |-> IF p = k THEN FromBody(s, f, k) ELSE f[p]]
    OBVIOUS
  <2>5. \A q \in (k + 1)..L : g[q] = f[q] /\ f[q] = FromBody(s, f, q)
    <3>1. f = [p \in (k + 1)..L |-> FromBody(s, f, p)]
      BY <2>1, <2>3
    <3>2. \A q \in (k + 1)..L : f[q] = FromBody(s, f, q)
      BY <3>1, Zenon
    <3>3. \A q \in (k + 1)..L : q \in k..L /\ q # k
      OBVIOUS
    <3> QED
      BY <2>4, <3>2, <3>3
  <2>6. ASSUME NEW p \in k..L PROVE FromBody(s, g, p) = FromBody(s, f, p)
    <3>1. p \in 0..Len(s) /\ \A q \in (p + 1)..Len(s) : q \in (k + 1)..L
      BY <1>1
    <3>2. \A q \in (p + 1)..Len(s) : g[q] = f[q]
      BY <2>5, <3>1
    <3> QED
      BY <3>1, <3>2, BodyLocal
  <2>7. \A p \in k..L : g[p] = FromBody(s, f, p)
    <3>1. \A p \in k..L : p = k \/ p \in (k + 1)..L
      OBVIOUS
    <3> QED
      BY <2>4, <2>5, <3>1
  <2>8. g = [p \in k..L |-> FromBody(s, g, p)]
    BY <2>4, <2>6, <2>7
  <2> QED
    BY <2>2, <2>8
<1>4. L \in S
  <2> HIDE DEF S
  <2> QED
    BY <1>2, <1>3, Induction
<1>5. L - L = 0 /\ L <= L
  OBVIOUS
<1> QED
  BY <1>1, <1>4, <1>5

LEMMA LinesFromDef ==
    ASSUME NEW s \in Seq(Byte)
    PROVE  LinesFrom(s) = [p \in 0..Len(s) |-> FromBody(s, LinesFrom(s), p)]
<1>1. PICK f : f = [p \in 0..Len(s) |-> FromBody(s, f, p)]
  BY FromExists
<1>2. LinesFrom(s) = CHOOSE g : g = [p \in 0..Len(s) |-> FromBody(s, g, p)]
  BY DEF LinesFrom, FromBody, LineEnds
<1> QED
  BY <1>1, <1>2, Zenon

LEMMA LinesFromAt ==
    ASSUME NEW s \in Seq(Byte), NEW p \in 0..Len(s)
    PROVE  LinesFrom(s)[p] = FromBody(s, LinesFrom(s), p)
BY LinesFromDef, Zenon

(* A line and the rest of a text.                                           *)
LEMMA LineTexts ==
    ASSUME NEW r \in Seq(Byte)
    PROVE  /\ dropCR(r) \in Seq(Byte)
           /\ LineEnds(r) # {} => dropCR(SubSeq(r, 1, Min(LineEnds(r)) - 1)) \in Seq(Byte)
<1>1. ASSUME LineEnds(r) # {}
      PROVE  SubSeq(r, 1, Min(LineEnds(r)) - 1) \in Seq(Byte)
  <2>1. PICK m : m = Min(LineEnds(r))
    OBVIOUS
  <2>2. m \in 1..Len(r) /\ Len(r) \in Nat
    BY <1>1, <2>1, LineEndsOf, LenProperties
  <2>3. m - 1 \in 0..Len(r)
    BY <2>2
  <2>4. SubSeq(r, 1, m - 1) \in Seq(Byte)
    BY <2>3, Part
  <2> QED
    BY <2>1, <2>4
<1> QED
  BY <1>1, DroppedCR

LEMMA LinesFromType ==
    ASSUME NEW s \in Seq(Byte), NEW p \in 0..Len(s)
    PROVE  LinesFrom(s)[p] \in Seq(Seq(Byte))
<1>1. PICK L \in Nat : L = Len(s)
  BY LenProperties
<1> DEFINE S == {n \in Nat : \A q \in 0..L : L - n <= q => LinesFrom(s)[q] \in Seq(Seq(Byte))}
<1>2. ASSUME NEW q \in 0..L, \A k \in (q + 1)..L : LinesFrom(s)[k] \in Seq(Seq(Byte))
      PROVE  LinesFrom(s)[q] \in Seq(Seq(Byte))
  <2>1. PICK r : r = SubSeq(s, q + 1, Len(s))
    OBVIOUS
  <2>2. IsRest(r, s, q)
    BY <1>1, <2>1, Suffix
  <2>3. r \in Seq(Byte) /\ Len(r) = L - q
    BY <1>1, <2>2 DEF IsRest
  <2>4. LinesFrom(s)[q] = IF r = <<>> THEN <<>>
          ELSE IF LineEnds(r) = {} THEN <<dropCR(r)>>
          ELSE <<dropCR(SubSeq(r, 1, Min(LineEnds(r)) - 1))>>
                 \o LinesFrom(s)[q + Min(LineEnds(r))]
    BY <1>1, <2>1, LinesFromAt DEF FromBody
  <2>5. CASE r = <<>>
    BY <2>4, <2>5, EmptySeq
  <2>6. CASE r # <<>> /\ LineEnds(r) = {}
    <3>1. PICK x \in Seq(Byte) : x = dropCR(r)
      BY <2>3, LineTexts
    <3>2. LinesFrom(s)[q] = <<x>>
      BY <2>4, <2>6, <3>1
    <3> QED
      BY <3>2
  <2>7. CASE r # <<>> /\ LineEnds(r) # {}
    <3>1. PICK m : m = Min(LineEnds(r))
      OBVIOUS
    <3>2. PICK x \in Seq(Byte) : x = dropCR(SubSeq(r, 1, m - 1))
      BY <2>3, <2>7, <3>1, LineTexts
    <3>3. m \in 1..Len(r)
      BY <2>3, <2>7, <3>1, LineEndsOf
    <3>4. q + m \in (q + 1)..L
      BY <2>3, <3>3
    <3>5. PICK T \in Seq(Seq(Byte)) : T = LinesFrom(s)[q + m]
      BY <1>2, <3>4
    <3>6. LinesFrom(s)[q] = <<x>> \o T
      BY <2>4, <2>7, <3>1, <3>2, <3>5
    <3>7. <<x>> \in Seq(Seq(Byte))
      OBVIOUS
    <3> QED
      BY <3>6, <3>7, ConcatProperties
  <2> QED
    BY <2>5, <2>6, <2>7
<1>3. 0 \in S
  <2> SUFFICES ASSUME NEW q \in 0..L, L - 0 <= q PROVE LinesFrom(s)[q] \in Seq(Seq(Byte))
    OBVIOUS
  <2>1. (q + 1)..L = {}
    OBVIOUS
  <2> QED
    BY <1>2, <2>1
<1>4. ASSUME NEW n \in Nat, n \in S PROVE n + 1 \in S
  <2> SUFFICES ASSUME NEW q \in 0..L, L - (n + 1) <= q
               PROVE  LinesFrom(s)[q] \in Seq(Seq(Byte))
    OBVIOUS
  <2>1. \A k \in (q + 1)..L : k \in 0..L /\ L - n <= k
    OBVIOUS
  <2>2. \A k \in (q + 1)..L : LinesFrom(s)[k] \in Seq(Seq(Byte))
    BY <1>4, <2>1
  <2> QED
    BY <1>2, <2>2
<1>5. L \in S
  <2> HIDE DEF S
  <2> QED
    BY <1>3, <1>4, Induction
<1>6. p \in 0..L /\ L - L <= p
  BY <1>1
<1> QED
  BY <1>5, <1>6

(* What the lines after p bytes are, with the rest as a constant.           *)
IsLinesFrom(s, p, r) ==
    /\ r \in Seq(Byte) /\ Len(r) = Len(s) - p /\ Len(s) \in Nat /\ Len(r) \in Nat
    /\ r = <<>> <=> p = Len(s)
    /\ r = <<>> => LinesFrom(s)[p] = <<>>
    /\ r # <<>> /\ LineEnds(r) = {} => LinesFrom(s)[p] = <<dropCR(r)>>
    /\ \A m : LineEnds(r) # {} /\ m = Min(LineEnds(r)) =>
         LinesFrom(s)[p] = <<dropCR(SubSeq(r, 1, m - 1))>> \o LinesFrom(s)[p + m]

LEMMA LinesFromRest ==
    ASSUME NEW s \in Seq(Byte), NEW p \in 0..Len(s), NEW r, r = SubSeq(s, p + 1, Len(s))
    PROVE  IsLinesFrom(s, p, r)
<1>1. IsRest(r, s, p)
  BY Suffix
<1>2. r \in Seq(Byte) /\ Len(r) = Len(s) - p /\ Len(s) \in Nat /\ Len(r) \in Nat
      /\ (r = <<>> <=> p = Len(s))
  BY <1>1, LenProperties DEF IsRest
<1>3. LinesFrom(s)[p] = IF r = <<>> THEN <<>>
        ELSE IF LineEnds(r) = {} THEN <<dropCR(r)>>
        ELSE <<dropCR(SubSeq(r, 1, Min(LineEnds(r)) - 1))>>
               \o LinesFrom(s)[p + Min(LineEnds(r))]
  BY LinesFromAt DEF FromBody
<1>4. LineEnds(r) # {} => r # <<>>
  <2>1. r = <<>> => Len(r) = 0
    BY EmptySeq
  <2> QED
    BY <2>1 DEF LineEnds
<1> QED
  BY <1>2, <1>3, <1>4 DEF IsLinesFrom

LEMMA ScannedEnds ==
    ASSUME NEW r \in Seq(Byte)
    PROVE  /\ LFs(r) = {i \in LineEnds(r) : i <= MaxLineLen}
           /\ LFs(r) # {} => Min(LFs(r)) = Min(LineEnds(r)) /\ LineEnds(r) # {}
           /\ LFs(r) = {} /\ Len(r) < MaxLineLen => LineEnds(r) = {}
<1>1. Len(r) \in Nat /\ MaxLineLen \in Nat
  BY LenProperties, SizeAssumption
<1>2. LFs(r) = {i \in LineEnds(r) : i <= MaxLineLen} /\ LineEnds(r) \subseteq 1..Len(r)
  BY DEF LFs, LineEnds
<1>3. ASSUME LFs(r) # {} PROVE Min(LFs(r)) = Min(LineEnds(r)) /\ LineEnds(r) # {}
  <2>1. PICK i \in LFs(r) : TRUE
    BY <1>3
  <2>2. i \in LineEnds(r) /\ i <= MaxLineLen /\ i \in Nat
    BY <1>2
  <2>3. PICK m : m = Min(LineEnds(r))
    OBVIOUS
  <2>4. LineEnds(r) \in SUBSET Nat /\ LFs(r) \in SUBSET Nat
    BY <1>1, <1>2
  <2>5. m \in LineEnds(r) /\ \A y \in LineEnds(r) : m <= y
    BY <2>2, <2>3, <2>4, MinOf
  <2>6. m \in Nat /\ m <= i
    BY <2>2, <2>4, <2>5
  <2>7. m \in LFs(r) /\ \A y \in LFs(r) : m <= y
    BY <1>1, <1>2, <2>2, <2>5, <2>6
  <2>8. Min(LFs(r)) = m
    BY <2>4, <2>7, MinIs
  <2> QED
    BY <2>2, <2>3, <2>8
<1>4. LFs(r) = {} /\ Len(r) < MaxLineLen => LineEnds(r) = {}
  BY <1>1, <1>2
<1> QED
  BY <1>2, <1>3, <1>4

(* The scanner's line is the first of those that are left.                  *)
LEMMA LineStep ==
    ASSUME NEW s \in Seq(Byte), NEW p \in 0..Len(s), NEW r, r = SubSeq(s, p + 1, Len(s)),
           r # <<>>, ~TooLong(r)
    PROVE  /\ p + LineSize(r) \in 0..Len(s)
           /\ LinesFrom(s)[p] = <<FirstLine(r)>> \o LinesFrom(s)[p + LineSize(r)]
<1>0. IsLinesFrom(s, p, r)
  BY LinesFromRest
<1>1. /\ r \in Seq(Byte) /\ Len(r) = Len(s) - p /\ Len(s) \in Nat /\ Len(r) \in Nat
      /\ r # <<>> /\ LineEnds(r) = {} => LinesFrom(s)[p] = <<dropCR(r)>>
      /\ \A m : LineEnds(r) # {} /\ m = Min(LineEnds(r)) =>
                LinesFrom(s)[p] = <<dropCR(SubSeq(r, 1, m - 1))>> \o LinesFrom(s)[p + m]
  BY <1>0 DEF IsLinesFrom
<1>r. r \in Seq(Byte) /\ Len(r) = Len(s) - p /\ Len(s) \in Nat /\ Len(r) \in Nat
  BY <1>1
<1>2. LineSize(r) \in 1..Len(r)
  BY <1>1, LineSizes
<1>3. CASE LFs(r) = {}
  <2>1. LineSize(r) = Len(r) /\ FirstLine(r) = dropCR(SubSeq(r, 1, Len(r)))
    BY <1>3 DEF LineSize, FirstLine
  <2>2. SubSeq(r, 1, Len(r)) = r
    BY <1>1, SubSeqFull
  <2>3. LineEnds(r) = {}
    <3>1. Len(r) < MaxLineLen
      BY <1>r, <1>3, SizeAssumption DEF TooLong
    <3> QED
      BY <1>r, <1>3, <3>1, ScannedEnds
  <2>4. p + Len(r) = Len(s) /\ Len(s) \in 0..Len(s)
    BY <1>1
  <2>5. LinesFrom(s)[Len(s)] = <<>>
    <3>1. PICK n \in 0..Len(s) : n = Len(s)
      BY <2>4
    <3>2. PICK e : e = SubSeq(s, n + 1, Len(s))
      OBVIOUS
    <3>3. IsLinesFrom(s, n, e)
      BY <3>2, LinesFromRest
    <3>4. LinesFrom(s)[n] = <<>>
      BY <3>1, <3>3 DEF IsLinesFrom
    <3> QED
      BY <3>1, <3>4
  <2>6. <<dropCR(r)>> \o <<>> = <<dropCR(r)>>
    <3>1. PICK x \in Seq(Byte) : x = dropCR(r)
      BY <1>1, DroppedCR
    <3>2. <<x>> \in Seq(Seq(Byte))
      OBVIOUS
    <3>3. <<x>> \o <<>> = <<x>>
      BY <3>2, ConcatEmptySeq
    <3> QED
      BY <3>1, <3>3
  <2> QED
    BY <1>1, <2>1, <2>2, <2>3, <2>4, <2>5, <2>6
<1>4. CASE LFs(r) # {}
  <2>1. PICK m : m = LineSize(r)
    OBVIOUS
  <2>2. LineEnds(r) # {} /\ m = Min(LineEnds(r)) /\ m \in 1..Len(r)
    BY <1>1, <1>2, <1>4, <2>1, ScannedEnds DEF LineSize
  <2>3. PICK t : t = SubSeq(r, 1, m)
    OBVIOUS
  <2>4. m \in 0..Len(r) /\ m - 1 \in 0..m
    BY <1>1, <2>2
  <2>5. t \in Seq(Byte) /\ Len(t) = m
    <3>1. t \in Seq(Byte) /\ Len(t) = IF 1 <= m THEN m - 1 + 1 ELSE 0
      BY <1>1, <2>3, <2>4, Part
    <3> QED
      BY <2>2, <3>1
  <2>6. FirstLine(r) = dropCR(Front(t))
    BY <1>4, <2>1, <2>3 DEF FirstLine
  <2>7. Front(t) = SubSeq(r, 1, m - 1)
    <3>1. Front(t) = SubSeq(t, 1, m - 1)
      BY <2>5 DEF Front
    <3>2. SubSeq(SubSeq(r, 1, m), 1, m - 1) = SubSeq(r, 1, m - 1)
      BY <1>1, <2>4, PrefixOfPrefix
    <3> QED
      BY <2>3, <3>1, <3>2
  <2>8. LinesFrom(s)[p] = <<dropCR(SubSeq(r, 1, m - 1))>> \o LinesFrom(s)[p + m]
    BY <1>1, <2>2
  <2>9. p + m \in 0..Len(s)
    BY <1>1, <2>2
  <2> QED
    BY <2>1, <2>6, <2>7, <2>8, <2>9
<1> QED
  BY <1>3, <1>4

LEMMA DroppedLen ==
    ASSUME NEW t \in Seq(Byte)
    PROVE  Len(dropCR(t)) \in Nat /\ Len(dropCR(t)) + 1 >= Len(t)
<1>1. Len(t) \in Nat
  BY LenProperties
<1>2. CASE t # <<>> /\ Last(t) = "CR"
  <2>1. Len(t) - 1 \in 0..Len(t) /\ dropCR(t) = SubSeq(t, 1, Len(t) - 1)
    BY <1>1, <1>2, EmptySeq DEF dropCR, Front
  <2>2. PICK n \in 0..Len(t) : n = Len(t) - 1
    BY <2>1
  <2>3. Len(SubSeq(t, 1, n)) = IF 1 <= n THEN n - 1 + 1 ELSE 0
    BY Part
  <2>4. Len(SubSeq(t, 1, n)) = n
    BY <1>1, <2>3
  <2>5. Len(dropCR(t)) = n
    BY <2>1, <2>2, <2>4
  <2> QED
    BY <1>1, <2>2, <2>5
<1>3. CASE ~(t # <<>> /\ Last(t) = "CR")
  BY <1>1, <1>3 DEF dropCR
<1> QED
  BY <1>2, <1>3

(* A line the scanner refuses is one of those that are left.                *)
LEMMA LongLine ==
    ASSUME NEW s \in Seq(Byte), NEW p \in 0..Len(s), NEW r, r = SubSeq(s, p + 1, Len(s)),
           TooLong(r)
    PROVE  \E x \in Seq(Byte), T \in Seq(Seq(Byte)) :
             LinesFrom(s)[p] = <<x>> \o T /\ Len(x) + 1 >= MaxLineLen
<1>0. IsLinesFrom(s, p, r)
  BY LinesFromRest
<1>1. /\ r \in Seq(Byte) /\ Len(r) = Len(s) - p /\ Len(s) \in Nat /\ Len(r) \in Nat
      /\ r # <<>> /\ LineEnds(r) = {} => LinesFrom(s)[p] = <<dropCR(r)>>
      /\ \A m : LineEnds(r) # {} /\ m = Min(LineEnds(r)) =>
                LinesFrom(s)[p] = <<dropCR(SubSeq(r, 1, m - 1))>> \o LinesFrom(s)[p + m]
  BY <1>0 DEF IsLinesFrom
<1>r. r \in Seq(Byte) /\ Len(r) = Len(s) - p /\ Len(s) \in Nat /\ Len(r) \in Nat
  BY <1>1
<1>2. LFs(r) = {} /\ Len(r) >= MaxLineLen /\ MaxLineLen \in Nat \ {0}
  BY SizeAssumption DEF TooLong
<1>3. CASE LineEnds(r) = {}
  <2>1. r # <<>>
    <3>1. Len(r) # 0
      BY <1>r, <1>2
    <3> QED
      BY <3>1, EmptySeq
  <2>2. PICK x \in Seq(Byte) : x = dropCR(r)
    BY <1>1, DroppedCR
  <2>3. Len(x) + 1 >= MaxLineLen
    <3>1. Len(x) \in Nat /\ Len(x) + 1 >= Len(r)
      BY <1>r, <2>2, DroppedLen
    <3> QED
      BY <1>r, <1>2, <3>1
  <2>4. <<x>> \in Seq(Seq(Byte)) /\ <<>> \in Seq(Seq(Byte))
    BY EmptySeq
  <2>5. <<x>> \o <<>> = <<x>>
    BY <2>4, ConcatEmptySeq
  <2> QED
    BY <1>1, <1>3, <2>1, <2>2, <2>3, <2>4, <2>5
<1>4. CASE LineEnds(r) # {}
  <2>1. PICK m : m = Min(LineEnds(r))
    OBVIOUS
  <2>2. m \in 1..Len(r) /\ m \in LineEnds(r)
    BY <1>1, <1>4, <2>1, LineEndsOf DEF LineEnds
  <2>3. m > MaxLineLen
    <3>1. ~(m <= MaxLineLen)
      BY <1>r, <1>2, <2>2, ScannedEnds
    <3> QED
      BY <1>r, <1>2, <2>2, <3>1
  <2>4. m - 1 \in 0..Len(r) /\ p + m \in 0..Len(s)
    BY <1>1, <2>2
  <2>5. PICK t : t = SubSeq(r, 1, m - 1)
    OBVIOUS
  <2>6. t \in Seq(Byte) /\ Len(t) = m - 1
    <3>1. t \in Seq(Byte) /\ Len(t) = IF 1 <= m - 1 THEN (m - 1) - 1 + 1 ELSE 0
      BY <1>1, <2>4, <2>5, Part
    <3> QED
      BY <1>1, <2>2, <3>1
  <2>7. PICK x \in Seq(Byte) : x = dropCR(t)
    BY <2>6, DroppedCR
  <2>8. Len(x) + 1 >= MaxLineLen
    <3>1. Len(x) \in Nat /\ Len(x) + 1 >= Len(t)
      BY <2>6, <2>7, DroppedLen
    <3> QED
      BY <1>2, <2>2, <2>3, <2>6, <3>1
  <2>9. PICK T \in Seq(Seq(Byte)) : T = LinesFrom(s)[p + m]
    BY <2>4, LinesFromType
  <2>10. LinesFrom(s)[p] = <<x>> \o T
    BY <1>1, <1>4, <2>1, <2>5, <2>7, <2>9
  <2> QED
    BY <2>8, <2>10
<1> QED
  BY <1>3, <1>4

-----------------------------------------------------------------------------
(* The text of lines.  FlattenSeq is recursive, too.                        *)

FlatBody(q, g, i) == IF i = 1 THEN q[i] ELSE g[i - 1] \o q[i]
IsFlat(q, n, g) == g = [i \in 1..n |-> FlatBody(q, g, i)]

LEMMA FlatAt ==
    ASSUME NEW q, NEW n \in Nat, NEW g, IsFlat(q, n, g), NEW i \in 1..n
    PROVE  g[i] = FlatBody(q, g, i)
BY Zenon DEF IsFlat

LEMMA FlatExists ==
    ASSUME NEW q, NEW n \in Nat
    PROVE  \E g : IsFlat(q, n, g)
<1> DEFINE S == {k \in Nat : \E g : IsFlat(q, k, g)}
<1>1. 0 \in S
  <2>1. PICK g : g = [i \in {} |-> FlatBody(q, <<>>, i)]
    OBVIOUS
  <2>2. 1..0 = {}
    OBVIOUS
  <2>3. g = [i \in {} |-> FlatBody(q, g, i)]
    BY <2>1
  <2>4. IsFlat(q, 0, g)
    BY <2>2, <2>3 DEF IsFlat
  <2> QED
    BY <2>4
<1>2. ASSUME NEW k \in Nat, k \in S PROVE k + 1 \in S
  <2>1. PICK g : IsFlat(q, k, g)
    BY <1>2
  <2>2. PICK h : h = [i \in 1..(k + 1) |-> IF i = k + 1 THEN FlatBody(q, g, i) ELSE g[i]]
    OBVIOUS
  <2>3. \A i \in 1..k : h[i] = g[i] /\ i \in 1..(k + 1)
    <3>1. \A i \in 1..k : i \in 1..(k + 1) /\ i # k + 1
      OBVIOUS
    <3> QED
      BY <2>2, <3>1
  <2>4. ASSUME NEW i \in 1..(k + 1) PROVE FlatBody(q, h, i) = FlatBody(q, g, i)
    <3>1. i = 1 \/ i - 1 \in 1..k
      OBVIOUS
    <3> QED
      BY <2>3, <3>1 DEF FlatBody
  <2>5. ASSUME NEW i \in 1..(k + 1) PROVE h[i] = FlatBody(q, g, i)
    <3>1. i = k + 1 \/ i \in 1..k
      OBVIOUS
    <3>2. i \in 1..k => g[i] = FlatBody(q, g, i)
      BY <2>1, FlatAt
    <3> QED
      BY <2>2, <2>3, <3>1, <3>2
  <2>6. h = [i \in 1..(k + 1) |-> FlatBody(q, h, i)]
    BY <2>2, <2>4, <2>5
  <2>7. IsFlat(q, k + 1, h)
    BY <2>6 DEF IsFlat
  <2> QED
    BY <2>7
<1> HIDE DEF S
<1>3. n \in S
  BY <1>1, <1>2, Induction
<1> QED
  BY <1>3 DEF S

SameUpTo(q, t, n) == \A i \in 1..n : q[i] = t[i]

LEMMA FlatAgrees ==
    ASSUME NEW q, NEW t, NEW n \in Nat, NEW m \in Nat, n <= m, SameUpTo(q, t, n),
           NEW g, NEW h, IsFlat(q, n, g), IsFlat(t, m, h)
    PROVE  SameUpTo(g, h, n)
<1> DEFINE S == {k \in Nat : k \in 1..n => g[k] = h[k]}
<1>1. 0 \in S
  OBVIOUS
<1>2. ASSUME NEW k \in Nat, k \in S PROVE k + 1 \in S
  <2> SUFFICES ASSUME k + 1 \in 1..n PROVE g[k + 1] = h[k + 1]
    OBVIOUS
  <2>1. k + 1 \in 1..m /\ (k = 0 \/ k \in 1..n) /\ (k + 1) - 1 = k /\ (k + 1 = 1 <=> k = 0)
    OBVIOUS
  <2>2. g[k + 1] = FlatBody(q, g, k + 1) /\ h[k + 1] = FlatBody(t, h, k + 1)
    BY <2>1, FlatAt
  <2>3. q[k + 1] = t[k + 1] /\ (k # 0 => g[k] = h[k])
    BY <1>2, <2>1 DEF SameUpTo
  <2> QED
    BY <2>1, <2>2, <2>3 DEF FlatBody
<1> HIDE DEF S
<1>3. \A k \in Nat : k \in S
  BY <1>1, <1>2, Induction
<1> QED
  BY <1>3 DEF S, SameUpTo

LEMMA FlatText ==
    ASSUME NEW q, NEW n \in Nat, \A i \in 1..n : q[i] \in Seq(Byte), NEW g, IsFlat(q, n, g)
    PROVE  \A i \in 1..n : g[i] \in Seq(Byte)
<1> DEFINE S == {k \in Nat : k \in 1..n => g[k] \in Seq(Byte)}
<1>1. 0 \in S
  OBVIOUS
<1>2. ASSUME NEW k \in Nat, k \in S PROVE k + 1 \in S
  <2> SUFFICES ASSUME k + 1 \in 1..n PROVE g[k + 1] \in Seq(Byte)
    OBVIOUS
  <2>1. (k = 0 \/ k \in 1..n) /\ (k + 1) - 1 = k /\ (k + 1 = 1 <=> k = 0)
    OBVIOUS
  <2>2. g[k + 1] = FlatBody(q, g, k + 1)
    BY FlatAt
  <2>3. g[k + 1] = IF k = 0 THEN q[k + 1] ELSE g[k] \o q[k + 1]
    BY <2>1, <2>2 DEF FlatBody
  <2>4. q[k + 1] \in Seq(Byte) /\ (k # 0 => g[k] \in Seq(Byte))
    BY <1>2, <2>1
  <2> QED
    BY <2>3, <2>4, ConcatProperties
<1> HIDE DEF S
<1>3. \A k \in Nat : k \in S
  BY <1>1, <1>2, Induction
<1> QED
  BY <1>3 DEF S

LEMMA FlattenDef ==
    ASSUME NEW q, Len(q) \in Nat \ {0}
    PROVE  \E g : IsFlat(q, Len(q), g) /\ FlattenSeq(q) = g[Len(q)]
<1> DEFINE G == CHOOSE g : g = [i \in 1..Len(q) |-> IF i = 1 THEN q[i] ELSE g[i - 1] \o q[i]]
<1>1. PICK f : IsFlat(q, Len(q), f)
  BY FlatExists
<1>2. f = [i \in 1..Len(q) |-> IF i = 1 THEN q[i] ELSE f[i - 1] \o q[i]]
  BY <1>1 DEF IsFlat, FlatBody
<1>3. G = [i \in 1..Len(q) |-> IF i = 1 THEN q[i] ELSE G[i - 1] \o q[i]]
  BY <1>2, Zenon
<1>4. FlattenSeq(q) = G[Len(q)]
  BY DEF FlattenSeq
<1>5. IsFlat(q, Len(q), G)
  BY <1>3 DEF IsFlat, FlatBody
<1> HIDE DEF G
<1> QED
  BY <1>4, <1>5

(* The lines with their ends.                                               *)
Ended(L) == [i \in DOMAIN L |-> L[i] \o CRLF]

LEMMA EndedType ==
    ASSUME NEW L \in Seq(Seq(Byte))
    PROVE  /\ Len(Ended(L)) = Len(L) /\ Len(L) \in Nat
           /\ Len(L) = 0 => Ended(L) = <<>>
           /\ \A i \in 1..Len(L) : Ended(L)[i] = L[i] \o CRLF /\ Ended(L)[i] \in Seq(Byte)
<1>1. PICK n \in Nat : n = Len(L)
  BY LenProperties
<1>2. DOMAIN L = 1..n /\ \A i \in 1..n : L[i] \in Seq(Byte)
  BY <1>1, LenProperties, ElementOfSeq
<1>3. \A i \in 1..n : L[i] \o CRLF \in Seq(Byte)
  BY <1>2, Bytes, ConcatProperties
<1>4. PICK e : e = [i \in 1..n |-> L[i] \o CRLF]
  OBVIOUS
<1>5. e \in [1..n -> Seq(Byte)]
  BY <1>3, <1>4
<1>6. e \in Seq(Seq(Byte)) /\ Len(e) = n
  BY <1>5
<1>7. e = Ended(L)
  BY <1>2, <1>4 DEF Ended
<1>8. n = 0 => e = <<>>
  BY <1>6, EmptySeq
<1>9. \A i \in 1..n : e[i] = L[i] \o CRLF /\ e[i] \in Seq(Byte)
  BY <1>3, <1>4
<1> QED
  BY <1>1, <1>6, <1>7, <1>8, <1>9

LEMMA TextType ==
    ASSUME NEW L \in Seq(Seq(Byte))
    PROVE  Text(L) \in Seq(Byte) /\ (Len(L) = 0 => Text(L) = <<>>)
<1>1. PICK q, n : q = Ended(L) /\ n = Len(L)
  OBVIOUS
<1>2. n \in Nat /\ Len(q) = n /\ (n = 0 => q = <<>>) /\ \A i \in 1..n : q[i] \in Seq(Byte)
  BY <1>1, EndedType
<1>3. Text(L) = FlattenSeq(q)
  BY <1>1 DEF Text, Ended
<1>4. CASE n = 0
  BY <1>1, <1>2, <1>3, <1>4, Bytes DEF FlattenSeq
<1>5. CASE n # 0
  <2>1. PICK g : IsFlat(q, n, g) /\ FlattenSeq(q) = g[n]
    BY <1>2, <1>5, FlattenDef
  <2>2. \A i \in 1..n : g[i] \in Seq(Byte)
    BY <1>2, <2>1, FlatText
  <2>3. n \in 1..n
    BY <1>2, <1>5
  <2> QED
    BY <1>1, <1>3, <1>5, <2>1, <2>2, <2>3
<1> QED
  BY <1>4, <1>5

LEMMA TextAppend ==
    ASSUME NEW L \in Seq(Seq(Byte)), NEW x \in Seq(Byte)
    PROVE  Text(L \o <<x>>) = Text(L) \o (x \o CRLF)
<1>1. PICK K : K = L \o <<x>>
  OBVIOUS
<1>2. PICK n \in Nat : n = Len(L)
  BY LenProperties
<1>x. <<x>> \in Seq(Seq(Byte)) /\ Len(<<x>>) = 1 /\ <<x>>[1] = x
  OBVIOUS
<1>3. K \in Seq(Seq(Byte)) /\ Len(K) = n + 1
  BY <1>1, <1>2, <1>x, ConcatProperties
<1>4. K[n + 1] = x /\ \A i \in 1..n : K[i] = L[i]
  <2>1. \A i \in 1..(n + 1) : K[i] = IF i <= n THEN L[i] ELSE <<x>>[i - n]
    BY <1>1, <1>2, <1>x, ConcatProperties
  <2>2. n + 1 \in 1..(n + 1) /\ (n + 1) - n = 1 /\ ~(n + 1 <= n)
    OBVIOUS
  <2>3. \A i \in 1..n : i \in 1..(n + 1) /\ i <= n
    OBVIOUS
  <2>4. K[n + 1] = <<x>>[1]
    BY <2>1, <2>2
  <2> QED
    BY <1>x, <2>1, <2>3, <2>4
<1>5. PICK q, t, y : q = Ended(L) /\ t = Ended(K) /\ y = x \o CRLF
  OBVIOUS
<1>6. /\ Len(q) = n /\ (n = 0 => q = <<>>)
      /\ \A i \in 1..n : q[i] = L[i] \o CRLF
  BY <1>2, <1>5, EndedType
<1>7. /\ Len(t) = n + 1
      /\ \A i \in 1..(n + 1) : t[i] = K[i] \o CRLF
  BY <1>3, <1>5, EndedType
<1>n. n + 1 \in 1..(n + 1) /\ n + 1 \in Nat \ {0} /\ n <= n + 1
      /\ \A i \in 1..n : i \in 1..(n + 1)
  OBVIOUS
<1>8. t[n + 1] = y
  <2>1. t[n + 1] = K[n + 1] \o CRLF
    BY <1>7, <1>n
  <2> QED
    BY <1>4, <1>5, <2>1
<1>9. ASSUME NEW i \in 1..n PROVE q[i] = t[i]
  <2>1. q[i] = L[i] \o CRLF /\ t[i] = K[i] \o CRLF /\ K[i] = L[i]
    BY <1>4, <1>6, <1>7, <1>n
  <2> QED
    BY <2>1
<1>10. Text(L) = FlattenSeq(q) /\ Text(K) = FlattenSeq(t)
  BY <1>5 DEF Text, Ended
<1>11. PICK h : IsFlat(t, n + 1, h) /\ FlattenSeq(t) = h[n + 1]
  <2>1. Len(t) \in Nat \ {0}
    BY <1>7, <1>n
  <2>2. \E h : IsFlat(t, Len(t), h) /\ FlattenSeq(t) = h[Len(t)]
    BY <2>1, FlattenDef
  <2> QED
    BY <1>7, <2>2
<1>12. h[n + 1] = FlatBody(t, h, n + 1)
  BY <1>11, FlatAt
<1>13. h[n + 1] = IF n = 0 THEN y ELSE h[n] \o y
  <2>1. (n + 1 = 1 <=> n = 0) /\ (n + 1) - 1 = n
    OBVIOUS
  <2> QED
    BY <1>8, <1>12, <2>1 DEF FlatBody
<1>14. CASE n = 0
  <2>1. Text(L) = <<>> /\ Text(K) = y
    BY <1>2, <1>10, <1>11, <1>13, <1>14, TextType
  <2>2. y \in Seq(Byte)
    BY <1>5, Bytes, ConcatProperties
  <2>3. <<>> \o y = y
    BY <2>2, ConcatEmptySeq
  <2> QED
    BY <1>1, <1>5, <2>1, <2>3
<1>15. CASE n # 0
  <2>1. PICK g : IsFlat(q, n, g) /\ FlattenSeq(q) = g[n]
    BY <1>6, <1>15, FlattenDef
  <2>2. SameUpTo(g, h, n)
    <3>1. PICK m \in Nat : m = n + 1
      BY <1>n
    <3>2. IsFlat(t, m, h) /\ n <= m /\ SameUpTo(q, t, n)
      BY <1>9, <1>11, <1>n, <3>1 DEF SameUpTo
    <3> QED
      BY <2>1, <3>2, FlatAgrees
  <2>3. n \in 1..n
    BY <1>15
  <2>4. g[n] = h[n]
    BY <2>2, <2>3 DEF SameUpTo
  <2>5. Text(K) = Text(L) \o y
    BY <1>10, <1>11, <1>13, <1>15, <2>1, <2>4
  <2> QED
    BY <1>1, <1>5, <2>5
<1> QED
  BY <1>14, <1>15

-----------------------------------------------------------------------------
(* What replaceHeader has written of the lines L when it has read n of them. *)
Mail == Seq(Seq(Byte))
NewSubject == <<<<"N">>>>

Continues(line) == StartsWith(line, " ")
PlainUntil(L, n) == \A i \in 1..n : L[i] # <<>> /\ ~StartsWith(L[i], "S")

(* The first subject is line f, and the lines up to e continue it.          *)
IsSubject(L, f, e) ==
    /\ PlainUntil(L, f - 1) /\ StartsWith(L[f], "S")
    /\ \A i \in (f + 1)..e : Continues(L[i])
NewLines(L, f, e, n) == (SubSeq(L, 1, f - 1) \o NewSubject) \o SubSeq(L, e + 1, n)

BeforeSubject(L, n, w) == PlainUntil(L, n) /\ w = Text(SubSeq(L, 1, n))
InSubject(L, n, w) ==
    \E f \in 1..n : IsSubject(L, f, n) /\ w = Text(SubSeq(L, 1, f - 1) \o NewSubject)
BehindSubject(L, n, w) ==
    \E f \in 1..n : \E e \in f..(n - 1) :
      /\ IsSubject(L, f, e) /\ ~Continues(L[e + 1])
      /\ w = Text(NewLines(L, f, e, n))

LEMMA MailType ==
    ASSUME NEW L \in Mail
    PROVE  Len(L) \in Nat /\ DOMAIN L = 1..Len(L) /\ \A i \in 1..Len(L) : L[i] \in Seq(Byte)
BY LenProperties, ElementOfSeq DEF Mail

LEMMA PartLines ==
    ASSUME NEW L \in Mail, NEW m \in Nat \ {0}, NEW n \in 0..Len(L)
    PROVE  SubSeq(L, m, n) \in Mail
<1>1. \A i \in m..n : L[i] \in Seq(Byte)
  BY MailType
<1> QED
  BY <1>1, SubSeqProperties DEF Mail

LEMMA JoinLines ==
    ASSUME NEW K \in Mail, NEW L \in Mail
    PROVE  K \o L \in Mail
BY ConcatProperties DEF Mail

LEMMA JoinAssociative ==
    ASSUME NEW K \in Mail, NEW L \in Mail, NEW M \in Mail
    PROVE  (K \o L) \o M = K \o (L \o M)
BY ConcatAssociative DEF Mail

LEMMA NewSubjectLine == NewSubject \in Mail /\ replacement = <<"N">> \o CRLF /\ <<"N">> \in Seq(Byte)
<1>1. <<"N">> \in Seq(Byte)
  BY DEF Byte
<1> QED
  BY <1>1 DEF NewSubject, Mail, replacement

LEMMA ExtendLines ==
    ASSUME NEW L \in Mail, NEW m \in Nat \ {0}, NEW n \in Nat, m <= n + 1, n + 1 <= Len(L)
    PROVE  SubSeq(L, m, n) \o <<L[n + 1]>> = SubSeq(L, m, n + 1)
<1>1. Len(L) \in Nat
  BY MailType
<1>2. m \in 1..(Len(L) + 1) /\ n \in (m - 1)..Len(L) /\ n + 1 \in n..Len(L)
  BY <1>1
<1>3. SubSeq(L, m, n) \o SubSeq(L, n + 1, n + 1) = SubSeq(L, m, n + 1)
  BY <1>2, ConcatAdjacentSubSeq DEF Mail
<1>4. SubSeq(L, n + 1, n + 1) = <<L[n + 1]>>
  <2>1. PICK k \in Nat \ {0} : k = n + 1
    OBVIOUS
  <2>2. k \in 1..Len(L)
    BY <1>1, <2>1
  <2>3. PICK y \in Seq(Byte) : y = L[k]
    BY <2>2, MailType
  <2>4. \A i \in k..k : L[i] \in Seq(Byte)
    BY <2>3
  <2>5. PICK t : t = SubSeq(L, k, k)
    OBVIOUS
  <2>6. t \in Mail /\ Len(t) = 1 /\ t[1] = y
    <3>1. /\ t \in Seq(Seq(Byte)) /\ Len(t) = IF k <= k THEN k - k + 1 ELSE 0
          /\ \A i \in 1..(k - k + 1) : t[i] = L[k + i - 1]
      BY <2>4, <2>5, SubSeqProperties
    <3>2. k - k + 1 = 1 /\ k <= k /\ k + 1 - 1 = k /\ 1 \in 1..1
      OBVIOUS
    <3> QED
      BY <2>3, <3>1, <3>2 DEF Mail
  <2>7. <<y>> \in Mail /\ Len(<<y>>) = 1 /\ <<y>>[1] = y
    BY DEF Mail
  <2>8. \A i \in 1..1 : t[i] = <<y>>[i]
    BY <2>6, <2>7
  <2>9. t = <<y>>
    BY <2>6, <2>7, <2>8, SeqEqual DEF Mail
  <2> QED
    BY <2>1, <2>3, <2>5, <2>9
<1> QED
  BY <1>3, <1>4

LEMMA TextOfLines ==
    ASSUME NEW K \in Mail, NEW x \in Seq(Byte)
    PROVE  Text(K \o <<x>>) = Text(K) \o (x \o CRLF)
BY TextAppend DEF Mail

LEMMA PlainLine ==
    ASSUME NEW L \in Mail, NEW n \in Nat, n + 1 <= Len(L), NEW w,
           BeforeSubject(L, n, w), L[n + 1] # <<>>, ~StartsWith(L[n + 1], "S")
    PROVE  BeforeSubject(L, n + 1, w \o (L[n + 1] \o CRLF))
<1>1. PlainUntil(L, n + 1)
  <2>1. \A i \in 1..(n + 1) : i \in 1..n \/ i = n + 1
    OBVIOUS
  <2> QED
    BY <2>1 DEF PlainUntil, BeforeSubject
<1>2. PICK x : x = L[n + 1]
  OBVIOUS
<1>3. Len(L) \in Nat /\ n + 1 \in 1..Len(L) /\ n \in 0..Len(L) /\ 1 <= n + 1 /\ 1 \in Nat \ {0}
  BY MailType
<1>4. x \in Seq(Byte)
  BY <1>2, <1>3, MailType
<1>5. PICK K : K = SubSeq(L, 1, n)
  OBVIOUS
<1>6. K \in Mail
  BY <1>3, <1>5, PartLines
<1>7. K \o <<x>> = SubSeq(L, 1, n + 1)
  BY <1>2, <1>3, <1>5, ExtendLines
<1>8. Text(K \o <<x>>) = Text(K) \o (x \o CRLF)
  BY <1>4, <1>6, TextOfLines
<1> QED
  BY <1>1, <1>2, <1>5, <1>7, <1>8 DEF BeforeSubject

LEMMA SubjectFound ==
    ASSUME NEW L \in Mail, NEW n \in Nat, n + 1 <= Len(L), NEW w,
           BeforeSubject(L, n, w), StartsWith(L[n + 1], "S")
    PROVE  InSubject(L, n + 1, w \o replacement)
<1>1. (n + 1) - 1 = n /\ n + 1 \in 1..(n + 1) /\ ((n + 1) + 1)..(n + 1) = {}
  OBVIOUS
<1>2. IsSubject(L, n + 1, n + 1)
  BY <1>1 DEF IsSubject, BeforeSubject
<1>3. Len(L) \in Nat /\ n \in 0..Len(L) /\ 1 \in Nat \ {0}
  BY MailType
<1>4. PICK K : K = SubSeq(L, 1, n)
  OBVIOUS
<1>5. K \in Mail
  BY <1>3, <1>4, PartLines
<1>6. Text(K \o NewSubject) = Text(K) \o replacement
  BY <1>5, NewSubjectLine, TextOfLines DEF NewSubject
<1>7. w = Text(K)
  BY <1>4 DEF BeforeSubject
<1> QED
  BY <1>1, <1>2, <1>4, <1>6, <1>7 DEF InSubject

LEMMA Continued ==
    ASSUME NEW L \in Mail, NEW n \in Nat, n + 1 <= Len(L), NEW w,
           InSubject(L, n, w), Continues(L[n + 1])
    PROVE  InSubject(L, n + 1, w)
<1>1. PICK f \in 1..n : IsSubject(L, f, n) /\ w = Text(SubSeq(L, 1, f - 1) \o NewSubject)
  BY DEF InSubject
<1>2. f \in 1..(n + 1)
  OBVIOUS
<1>i. ASSUME NEW i \in (f + 1)..(n + 1) PROVE i \in (f + 1)..n \/ i = n + 1
  OBVIOUS
<1>3. IsSubject(L, f, n + 1)
  BY <1>1, <1>i DEF IsSubject
<1> QED
  BY <1>1, <1>2, <1>3 DEF InSubject

(* A line after the subject is appended.                                    *)
LEMMA Appended ==
    ASSUME NEW L \in Mail, NEW n \in Nat, n + 1 <= Len(L), NEW f \in 1..n, NEW e \in f..n
    PROVE  Text(NewLines(L, f, e, n + 1)) = Text(NewLines(L, f, e, n)) \o (L[n + 1] \o CRLF)
<1>1. PICK x : x = L[n + 1]
  OBVIOUS
<1>2. /\ Len(L) \in Nat /\ n + 1 \in 1..Len(L) /\ n \in 0..Len(L) /\ f - 1 \in 0..Len(L)
      /\ e + 1 \in Nat \ {0} /\ e + 1 <= n + 1 /\ 1 \in Nat \ {0}
  BY MailType
<1>3. x \in Seq(Byte)
  BY <1>1, <1>2, MailType
<1>4. PICK A, C, D : A = SubSeq(L, 1, f - 1) \o NewSubject
                     /\ C = SubSeq(L, e + 1, n) /\ D = SubSeq(L, e + 1, n + 1)
  OBVIOUS
<1>5. A \in Mail /\ C \in Mail
  BY <1>2, <1>4, PartLines, JoinLines, NewSubjectLine
<1>6. C \o <<x>> = D
  BY <1>1, <1>2, <1>4, ExtendLines
<1>7. <<x>> \in Mail
  BY <1>3 DEF Mail
<1>8. (A \o C) \o <<x>> = A \o (C \o <<x>>)
  <2>1. PICK X \in Mail : X = <<x>>
    BY <1>7
  <2>3. (A \o C) \o X = A \o (C \o X)
    BY <1>5, JoinAssociative
  <2> QED
    BY <2>1, <2>3
<1>9. A \o C \in Mail
  BY <1>5, JoinLines
<1>10. Text((A \o C) \o <<x>>) = Text(A \o C) \o (x \o CRLF)
  BY <1>3, <1>9, TextOfLines
<1> QED
  BY <1>1, <1>4, <1>6, <1>8, <1>10 DEF NewLines

LEMMA SubjectEnds ==
    ASSUME NEW L \in Mail, NEW n \in Nat, n + 1 <= Len(L), NEW w,
           InSubject(L, n, w), ~Continues(L[n + 1])
    PROVE  BehindSubject(L, n + 1, w \o (L[n + 1] \o CRLF))
<1>1. PICK f \in 1..n : IsSubject(L, f, n) /\ w = Text(SubSeq(L, 1, f - 1) \o NewSubject)
  BY DEF InSubject
<1>l. Len(L) \in Nat
  BY MailType
<1>2. f \in 1..(n + 1) /\ n \in f..((n + 1) - 1) /\ n \in f..n /\ f - 1 \in 0..Len(L)
      /\ n < n + 1 /\ n + 1 \in Int /\ n \in Int /\ 1 \in Nat \ {0}
  BY <1>l
<1>3. PICK A : A = SubSeq(L, 1, f - 1) \o NewSubject
  OBVIOUS
<1>4. A \in Mail
  BY <1>2, <1>3, PartLines, JoinLines, NewSubjectLine
<1>5. SubSeq(L, n + 1, n) = <<>>
  BY <1>2, SubSeqEmpty
<1>6. A \o <<>> = A
  BY <1>4, ConcatEmptySeq DEF Mail
<1>7. NewLines(L, f, n, n) = A
  BY <1>3, <1>5, <1>6 DEF NewLines
<1>8. Text(NewLines(L, f, n, n + 1)) = w \o (L[n + 1] \o CRLF)
  BY <1>1, <1>2, <1>3, <1>7, Appended
<1> QED
  BY <1>1, <1>2, <1>8 DEF BehindSubject

LEMMA LaterLine ==
    ASSUME NEW L \in Mail, NEW n \in Nat, n + 1 <= Len(L), NEW w, BehindSubject(L, n, w)
    PROVE  BehindSubject(L, n + 1, w \o (L[n + 1] \o CRLF))
<1>1. PICK f \in 1..n : \E e \in f..(n - 1) :
        /\ IsSubject(L, f, e) /\ ~Continues(L[e + 1])
        /\ w = Text(NewLines(L, f, e, n))
  BY DEF BehindSubject
<1>2. PICK e \in f..(n - 1) :
        /\ IsSubject(L, f, e) /\ ~Continues(L[e + 1])
        /\ w = Text(NewLines(L, f, e, n))
  BY <1>1
<1>3. f \in 1..(n + 1) /\ e \in f..((n + 1) - 1) /\ e \in f..n
  OBVIOUS
<1>4. Text(NewLines(L, f, e, n + 1)) = w \o (L[n + 1] \o CRLF)
  BY <1>2, <1>3, Appended
<1> QED
  BY <1>2, <1>3, <1>4 DEF BehindSubject

LEMMA MaxIs ==
    ASSUME NEW T \in SUBSET Nat, NEW x \in T, \A y \in T : y <= x
    PROVE  Max(T) = x
<1>1. x \in T /\ \A y \in T : x >= y
  OBVIOUS
<1>2. Max(T) \in T /\ \A y \in T : Max(T) >= y
  BY <1>1 DEF Max
<1>3. Max(T) \in Nat /\ x \in Nat /\ Max(T) <= x /\ Max(T) >= x
  BY <1>2
<1> QED
  BY <1>3

(* h lines precede the first empty one.                                     *)
IsHeader(L, h) ==
    /\ h \in 0..Len(L) /\ \A i \in 1..h : L[i] # <<>>
    /\ h < Len(L) => L[h + 1] = <<>>

LEMMA HeaderLenOf ==
    ASSUME NEW L \in Mail
    PROVE  IsHeader(L, HeaderLen(L))
<1>1. Len(L) \in Nat /\ DOMAIN L = 1..Len(L)
  BY MailType
<1>2. CASE ~HasBlank(L)
  <2>1. HeaderLen(L) = Len(L)
    BY <1>2 DEF HeaderLen
  <2>2. \A i \in 1..Len(L) : L[i] # <<>>
    BY <1>1, <1>2 DEF HasBlank
  <2> QED
    BY <1>1, <2>1, <2>2 DEF IsHeader
<1>3. CASE HasBlank(L)
  <2>1. PICK T : T = {i \in DOMAIN L : L[i] = <<>>}
    OBVIOUS
  <2>2. T # {} /\ T \in SUBSET Nat /\ T \subseteq 1..Len(L)
    BY <1>1, <1>3, <2>1 DEF HasBlank
  <2>3. PICK m : m = Min(T)
    OBVIOUS
  <2>4. m \in T /\ \A y \in T : m <= y
    BY <2>2, <2>3, MinOf
  <2>5. PICK h : h = m - 1
    OBVIOUS
  <2>6. m \in 1..Len(L) /\ h \in 0..Len(L) /\ h + 1 = m
    BY <1>1, <2>2, <2>4, <2>5
  <2>7. L[h + 1] = <<>>
    BY <2>1, <2>4, <2>6
  <2>8. ASSUME NEW i \in 1..h PROVE L[i] # <<>>
    <3>1. i \in DOMAIN L /\ ~(m <= i)
      BY <1>1, <2>6
    <3> QED
      BY <2>1, <2>4, <3>1
  <2>9. HeaderLen(L) = h
    BY <1>3, <2>1, <2>3, <2>5 DEF HeaderLen
  <2> QED
    BY <2>6, <2>7, <2>8, <2>9 DEF IsHeader
<1> QED
  BY <1>2, <1>3

(* Lines without a subject up to the end of the header.                     *)
LEMMA NoSubject ==
    ASSUME NEW L \in Mail, NEW n \in 0..Len(L), PlainUntil(L, n),
           n = Len(L) \/ L[n + 1] = <<>>
    PROVE  Subjects(L) = {}
<1>0. Len(L) \in Nat
  BY MailType
<1>1. PICK h : h = HeaderLen(L)
  OBVIOUS
<1>2. IsHeader(L, h)
  BY <1>1, HeaderLenOf
<1>3. h \in 0..Len(L) /\ \A i \in 1..h : L[i] # <<>>
  BY <1>2 DEF IsHeader
<1>4. h <= n
  <2> SUFFICES ASSUME ~(h <= n) PROVE FALSE
    OBVIOUS
  <2>1. n + 1 \in 1..h /\ n # Len(L)
    BY <1>0, <1>3
  <2> QED
    BY <1>3, <2>1
<1>5. ASSUME NEW i \in 1..h PROVE ~StartsWith(L[i], "S")
  <2>1. i \in 1..n
    BY <1>3, <1>4
  <2> QED
    BY <2>1 DEF PlainUntil
<1> QED
  BY <1>1, <1>5 DEF Subjects

Continuations(L, f, h) == {j \in f..h : \A i \in (f + 1)..j : Continues(L[i])}

LEMMA SubjectEndIs == \A L : SubjectEnd(L) = Max(Continuations(L, FirstSubject(L), HeaderLen(L)))
BY Zenon DEF SubjectEnd, Continuations, Continues

(* replaceHeader's subject is the first of the header with all its folded   *)
(* lines.                                                                   *)
LEMMA SubjectIs ==
    ASSUME NEW L \in Mail, NEW f \in 1..Len(L), NEW e \in f..Len(L), IsSubject(L, f, e),
           e = Len(L) \/ ~Continues(L[e + 1])
    PROVE  Subjects(L) # {} /\ FirstSubject(L) = f /\ SubjectEnd(L) = e
<1>0. Len(L) \in Nat
  BY MailType
<1>1. PICK h : h = HeaderLen(L)
  OBVIOUS
<1>2. IsHeader(L, h)
  BY <1>1, HeaderLenOf
<1>3. h \in 0..Len(L) /\ (h < Len(L) => L[h + 1] = <<>>)
  BY <1>2 DEF IsHeader
<1>4. ASSUME NEW i \in 1..e PROVE L[i] # <<>>
  <2>1. CASE i \in 1..(f - 1)
    BY <2>1 DEF IsSubject, PlainUntil
  <2>2. CASE i = f
    BY <2>2 DEF IsSubject, StartsWith
  <2>3. CASE i \in (f + 1)..e
    <3>1. Continues(L[i])
      BY <2>3 DEF IsSubject
    <3> QED
      BY <3>1, Zenon DEF Continues, StartsWith
  <2>4. i \in 1..(f - 1) \/ i = f \/ i \in (f + 1)..e
    BY <1>0
  <2> QED
    BY <2>1, <2>2, <2>3, <2>4
<1>5. e <= h
  <2> SUFFICES ASSUME ~(e <= h) PROVE FALSE
    OBVIOUS
  <2>1. h + 1 \in 1..e /\ h < Len(L)
    BY <1>0, <1>3
  <2> QED
    BY <1>3, <1>4, <2>1
<1>6. Subjects(L) = {i \in 1..h : StartsWith(L[i], "S")}
  BY <1>1 DEF Subjects
<1>7. Subjects(L) \in SUBSET Nat
  BY <1>3, <1>6
<1>8. f \in 1..h
  BY <1>0, <1>3, <1>5
<1>9. f \in Subjects(L)
  BY <1>6, <1>8 DEF IsSubject
<1>10. ASSUME NEW y \in Subjects(L) PROVE f <= y
  <2> SUFFICES ASSUME ~(f <= y) PROVE FALSE
    OBVIOUS
  <2>1. y \in 1..h /\ StartsWith(L[y], "S")
    BY <1>6
  <2>2. y \in 1..(f - 1)
    BY <1>3, <2>1
  <2> QED
    BY <2>1, <2>2 DEF IsSubject, PlainUntil
<1>11. FirstSubject(L) = f
  BY <1>7, <1>9, <1>10, MinIs DEF FirstSubject
<1>12. PICK T : T = Continuations(L, f, h)
  OBVIOUS
<1>13. T \in SUBSET Nat
  BY <1>3, <1>12 DEF Continuations
<1>14. e \in T
  <2>1. e \in f..h
    BY <1>0, <1>3, <1>5
  <2> QED
    BY <1>12, <2>1 DEF Continuations, IsSubject
<1>15. ASSUME NEW y \in T PROVE y <= e
  <2> SUFFICES ASSUME ~(y <= e) PROVE FALSE
    OBVIOUS
  <2>1. y \in f..h /\ \A i \in (f + 1)..y : Continues(L[i])
    BY <1>12 DEF Continuations
  <2>2. e + 1 \in (f + 1)..y /\ e # Len(L)
    BY <1>0, <1>3, <2>1
  <2> QED
    BY <2>1, <2>2
<1>16. Max(T) = e
  BY <1>13, <1>14, <1>15, MaxIs
<1> QED
  BY <1>1, <1>9, <1>11, <1>12, <1>16, SubjectEndIs

(* What was written of the whole mail.                                      *)
LEMMA AllWritten ==
    ASSUME NEW L \in Mail, NEW w, NEW n, n = Len(L),
           BeforeSubject(L, n, w) \/ InSubject(L, n, w) \/ BehindSubject(L, n, w)
    PROVE  w = Text(WithNewSubject(L))
<1>0. Len(L) \in Nat
  BY MailType
<1>1. CASE BeforeSubject(L, n, w)
  <2>1. n \in 0..Len(L) /\ PlainUntil(L, n) /\ w = Text(SubSeq(L, 1, n))
    BY <1>0, <1>1 DEF BeforeSubject
  <2>2. Subjects(L) = {}
    BY <2>1, NoSubject
  <2>3. SubSeq(L, 1, n) = L
    BY SubSeqFull DEF Mail
  <2> QED
    BY <2>1, <2>2, <2>3 DEF WithNewSubject
<1>2. ASSUME NEW f \in 1..n, NEW e \in f..n, IsSubject(L, f, e), e = n \/ ~Continues(L[e + 1])
      PROVE  WithNewSubject(L) = NewLines(L, f, e, n)
  <2>1. Subjects(L) # {} /\ FirstSubject(L) = f /\ SubjectEnd(L) = e
    BY <1>2, SubjectIs
  <2> QED
    BY <2>1 DEF WithNewSubject, NewLines, NewSubject
<1>3. CASE InSubject(L, n, w)
  <2>1. PICK f \in 1..n : IsSubject(L, f, n) /\ w = Text(SubSeq(L, 1, f - 1) \o NewSubject)
    BY <1>3 DEF InSubject
  <2>2. n \in f..n /\ f - 1 \in 0..Len(L) /\ n < n + 1 /\ n + 1 \in Int /\ n \in Int /\ 1 \in Nat \ {0}
    BY <1>0
  <2>3. PICK A : A = SubSeq(L, 1, f - 1) \o NewSubject
    OBVIOUS
  <2>4. A \in Mail
    BY <2>2, <2>3, PartLines, JoinLines, NewSubjectLine
  <2>5. SubSeq(L, n + 1, n) = <<>>
    BY <2>2, SubSeqEmpty
  <2>6. A \o <<>> = A
    BY <2>4, ConcatEmptySeq DEF Mail
  <2>7. NewLines(L, f, n, n) = A
    BY <2>3, <2>5, <2>6 DEF NewLines
  <2>8. WithNewSubject(L) = NewLines(L, f, n, n)
    BY <1>2, <2>1, <2>2
  <2> QED
    BY <2>1, <2>3, <2>7, <2>8
<1>4. CASE BehindSubject(L, n, w)
  <2>1. PICK f \in 1..n : \E e \in f..(n - 1) :
          /\ IsSubject(L, f, e) /\ ~Continues(L[e + 1])
          /\ w = Text(NewLines(L, f, e, n))
    BY <1>4 DEF BehindSubject
  <2>2. PICK e \in f..(n - 1) :
          /\ IsSubject(L, f, e) /\ ~Continues(L[e + 1])
          /\ w = Text(NewLines(L, f, e, n))
    BY <2>1
  <2>3. e \in f..n
    BY <1>0
  <2> QED
    BY <1>2, <2>2, <2>3
<1> QED
  BY <1>1, <1>3, <1>4

-----------------------------------------------------------------------------
(* T are the lines of L after the first n.                                  *)
IsLeft(T, L, n) ==
    /\ n \in 0..Len(L) /\ T \in Mail /\ Len(T) = Len(L) - n
    /\ \A i \in 1..Len(T) : T[i] = L[n + i]

LEMMA JoinAt ==
    ASSUME NEW K \in Mail, NEW L \in Mail
    PROVE  /\ Len(K \o L) = Len(K) + Len(L)
           /\ \A i \in 1..(Len(K) + Len(L)) :
                (K \o L)[i] = IF i <= Len(K) THEN K[i] ELSE L[i - Len(K)]
BY ConcatProperties DEF Mail

LEMMA NextLeft ==
    ASSUME NEW L \in Mail, NEW n, NEW x \in Seq(Byte), NEW T \in Mail,
           IsLeft(<<x>> \o T, L, n)
    PROVE  n \in Nat /\ n + 1 <= Len(L) /\ L[n + 1] = x /\ IsLeft(T, L, n + 1)
<1>0. Len(L) \in Nat /\ Len(T) \in Nat
  BY MailType
<1>x. <<x>> \in Mail /\ Len(<<x>>) = 1 /\ <<x>>[1] = x
  BY DEF Mail
<1>1. PICK X \in Mail : X = <<x>>
  BY <1>x
<1>2. Len(X) = 1 /\ X[1] = x
  BY <1>x, <1>1
<1>3. PICK K : K = X \o T
  OBVIOUS
<1>4. /\ Len(K) = 1 + Len(T)
      /\ \A i \in 1..(1 + Len(T)) : K[i] = IF i <= 1 THEN X[i] ELSE T[i - 1]
  <2>1. /\ Len(X \o T) = Len(X) + Len(T)
        /\ \A i \in 1..(Len(X) + Len(T)) :
             (X \o T)[i] = IF i <= Len(X) THEN X[i] ELSE T[i - Len(X)]
    BY JoinAt, Zenon
  <2> QED
    BY <1>2, <1>3, <2>1
<1>5. /\ n \in 0..Len(L) /\ Len(K) = Len(L) - n
      /\ \A i \in 1..Len(K) : K[i] = L[n + i]
  BY <1>1, <1>3 DEF IsLeft
<1>6. n \in Nat /\ n + 1 <= Len(L) /\ n + 1 \in 0..Len(L) /\ Len(T) = Len(L) - (n + 1)
      /\ 1 \in 1..(1 + Len(T)) /\ 1 <= 1
  <2>1. n \in 0..Len(L) /\ 1 + Len(T) = Len(L) - n
    BY <1>4, <1>5
  <2> QED
    BY <1>0, <2>1
<1>7. L[n + 1] = x
  BY <1>2, <1>4, <1>5, <1>6
<1>8. ASSUME NEW i \in 1..Len(T) PROVE T[i] = L[(n + 1) + i]
  <2>1. i + 1 \in 1..(1 + Len(T)) /\ ~(i + 1 <= 1) /\ (i + 1) - 1 = i
        /\ n + (i + 1) = (n + 1) + i
    BY <1>0, <1>6
  <2>2. K[i + 1] = T[i]
    BY <1>4, <2>1
  <2>3. K[i + 1] = L[n + (i + 1)]
    BY <1>4, <1>5, <2>1
  <2> QED
    BY <2>1, <2>2, <2>3
<1> QED
  BY <1>6, <1>7, <1>8 DEF IsLeft

(* Where replaceHeader is in its loop, with what it has written.            *)
Copied(L, n, w) ==
    \/ ~replaced /\ ~skipContinuation /\ ~headerEnded /\ BeforeSubject(L, n, w)
    \/ replaced /\ skipContinuation /\ ~headerEnded /\ InSubject(L, n, w)
    \/ replaced /\ ~(skipContinuation /\ ~headerEnded) /\ BehindSubject(L, n, w)

Replacing ==
    \E n \in 0..Len(Lines(msg)) : /\ IsLeft(LinesFrom(msg)[pos], Lines(msg), n)
                                  /\ Copied(Lines(msg), n, disk["replaced"])

(* From the download to the rename: the flags of the loop are set by it      *)
(* only, and the new file holds what Copied says.                            *)
ReplaceInv ==
    /\ pc \in {"download", "check", "openReplace"} =>
         ~replaced /\ ~skipContinuation /\ ~headerEnded
    /\ pc \in {"check", "openReplace", "replace"} => disk["mail"] = msg
    /\ pc \in {"openReplace", "replace", "renameReplaced"} => newSubject
    /\ pc = "replace" => Replacing
    /\ pc = "renameReplaced" => disk["replaced"] = Text(WithNewSubject(Lines(msg)))
    /\ SubjectReplaced

LEMMA MailLines ==
    ASSUME TypeOK
    PROVE  Lines(msg) \in Mail /\ \A p \in 0..Len(msg) : LinesFrom(msg)[p] \in Mail
<1>1. msg \in Seq(Byte) /\ Len(msg) \in Nat /\ 0 \in 0..Len(msg)
  BY LenProperties DEF TypeOK
<1>2. \A p \in 0..Len(msg) : LinesFrom(msg)[p] \in Mail
  BY <1>1, LinesFromType DEF Mail
<1> QED
  BY <1>1, <1>2 DEF Lines

(* One turn of the loop with the line x.                                    *)
LEMMA LineWritten ==
    ASSUME NEW L \in Mail, NEW n \in Nat, n + 1 <= Len(L), NEW w, NEW x, x = L[n + 1],
           Copied(L, n, w), Line = x, NEW v,
           \/ BlankLine /\ v = w \o CRLF
           \/ BodyLine /\ v = w \o (x \o CRLF)
           \/ ContinuationLine /\ v = w
           \/ SubjectLine /\ v = w \o replacement
           \/ HeaderLine /\ v = w \o (x \o CRLF)
    PROVE  \/ ~replaced' /\ ~skipContinuation' /\ ~headerEnded' /\ BeforeSubject(L, n + 1, v)
           \/ replaced' /\ skipContinuation' /\ ~headerEnded' /\ InSubject(L, n + 1, v)
           \/ replaced' /\ ~(skipContinuation' /\ ~headerEnded') /\ BehindSubject(L, n + 1, v)
<1>1. CASE BlankLine /\ v = w \o CRLF
  <2>1. x = <<>> /\ replaced /\ headerEnded' /\ UNCHANGED <<replaced, skipContinuation>>
    BY <1>1 DEF BlankLine
  <2>2. v = w \o (x \o CRLF)
    <3>1. <<>> \o CRLF = CRLF
      BY Bytes, ConcatEmptySeq
    <3> QED
      BY <1>1, <2>1, <3>1
  <2>3. ~Continues(x)
    BY <2>1, Zenon DEF Continues, StartsWith
  <2>4. InSubject(L, n, w) \/ BehindSubject(L, n, w)
    BY <2>1, Zenon DEF Copied
  <2>5. BehindSubject(L, n + 1, v)
    BY <2>2, <2>3, <2>4, SubjectEnds, LaterLine
  <2> QED
    BY <2>1, <2>5, Zenon
<1>2. CASE BodyLine /\ v = w \o (x \o CRLF)
  <2>1. headerEnded /\ UNCHANGED <<replaced, skipContinuation, headerEnded>>
    BY <1>2 DEF BodyLine, lineVars
  <2>2. replaced /\ BehindSubject(L, n, w)
    BY <2>1, Zenon DEF Copied
  <2>3. BehindSubject(L, n + 1, v)
    BY <1>2, <2>2, LaterLine
  <2> QED
    BY <2>1, <2>2, <2>3, Zenon
<1>3. CASE ContinuationLine /\ v = w
  <2>1. ~headerEnded /\ skipContinuation /\ UNCHANGED <<replaced, skipContinuation, headerEnded>>
    BY <1>3, Zenon DEF ContinuationLine, lineVars
  <2>2. Continues(x)
    BY <1>3, Zenon DEF ContinuationLine, Continues
  <2>3. replaced /\ InSubject(L, n, w)
    BY <2>1, Zenon DEF Copied
  <2>4. InSubject(L, n + 1, v)
    BY <1>3, <2>2, <2>3, Continued
  <2> QED
    BY <2>1, <2>3, <2>4, Zenon
<1>4. CASE SubjectLine /\ v = w \o replacement
  <2>1. /\ ~headerEnded /\ ~replaced /\ replaced' /\ skipContinuation' /\ UNCHANGED headerEnded
        /\ StartsWith(x, "S")
    BY <1>4 DEF SubjectLine
  <2>2. BeforeSubject(L, n, w)
    BY <2>1, Zenon DEF Copied
  <2>3. InSubject(L, n + 1, v)
    BY <1>4, <2>1, <2>2, SubjectFound
  <2> QED
    BY <2>1, <2>3, Zenon
<1>5. CASE HeaderLine /\ v = w \o (x \o CRLF)
  <2>1. /\ ~headerEnded /\ ~skipContinuation' /\ UNCHANGED <<replaced, headerEnded>>
        /\ x # <<>>
    BY <1>5, Zenon DEF HeaderLine
  <2>2. ~(skipContinuation /\ Continues(x)) /\ ~(~replaced /\ StartsWith(x, "S"))
    BY <1>5, Zenon DEF HeaderLine, Continues
  <2>3. CASE ~replaced
    <3>1. BeforeSubject(L, n, w) /\ ~StartsWith(x, "S")
      BY <2>2, <2>3, Zenon DEF Copied
    <3>2. BeforeSubject(L, n + 1, v)
      BY <1>5, <2>1, <3>1, PlainLine
    <3> QED
      BY <2>1, <2>3, <3>2, Zenon
  <2>4. CASE replaced
    <3>1. (InSubject(L, n, w) /\ ~Continues(x)) \/ BehindSubject(L, n, w)
      BY <2>2, <2>4, Zenon DEF Copied
    <3>2. BehindSubject(L, n + 1, v)
      BY <1>5, <3>1, SubjectEnds, LaterLine
    <3> QED
      BY <2>1, <2>4, <3>2, Zenon
  <2> QED
    BY <2>3, <2>4
<1> QED
  BY <1>1, <1>2, <1>3, <1>4, <1>5

-----------------------------------------------------------------------------
(* The steps of ReplaceHeader.                                              *)
LEMMA ReplaceSteps ==
    ASSUME Next
    PROVE  \/ pc' \notin {"download", "check", "openReplace", "replace",
                          "renameReplaced", "headers"}
           \/ Download \/ Check
           \/ OpenFiles("openReplace", "replace", "replaced")
           \/ BlankLine \/ BodyLine \/ ContinuationLine \/ SubjectLine \/ HeaderLine
           \/ ScanEnds \/ Rename("renameReplaced", "replaced", "headers")
BY DEF Next, ReplaceHeader, AddHeaders, replaceHeader, addHeaders,
   DownloadFails, CheckFails, OpenFiles, OpenFails, CopyFails, Rename,
   RenameFails, HeaderNotFound, LineTooLong, HeaderEndNotFound, CopyChunk,
   InsertHeaders, AsHeaders, AsHeadersFails, Fails

(* The state of the loop, with the lines that are left.                     *)
LEMMA LoopState ==
    ASSUME RewriteInv, ReplaceInv, pc = "replace"
    PROVE  /\ msg \in Seq(Byte) /\ pos \in 0..Len(msg)
           /\ Rest("mail") = SubSeq(msg, pos + 1, Len(msg))
           /\ Lines(msg) \in Mail /\ LinesFrom(msg)[pos] \in Mail
           /\ Replacing
<1>1. TypeOK /\ disk["mail"] = msg /\ Replacing
  BY DEF RewriteInv, ReplaceInv
<1>2. disk["mail"] \in Seq(Byte) /\ pos \in 0..Len(disk["mail"])
  BY <1>1, RestOf
<1>3. Lines(msg) \in Mail /\ \A p \in 0..Len(msg) : LinesFrom(msg)[p] \in Mail
  BY <1>1, MailLines
<1> QED
  BY <1>1, <1>2, <1>3 DEF Rest

(* Every turn of the loop consumes one line and keeps what was written.      *)
LEMMA StepLine ==
    ASSUME RewriteInv, ReplaceInv, UNCHANGED msg,
           BlankLine \/ BodyLine \/ ContinuationLine \/ SubjectLine \/ HeaderLine
    PROVE  /\ pc' = "replace" /\ UNCHANGED newSubject
           /\ disk'["mail"] = disk["mail"] /\ Replacing' /\ pc = "replace"
<1>1. Scan /\ Consumed
  BY Zenon DEF BlankLine, BodyLine, ContinuationLine, SubjectLine, HeaderLine
<1>2. /\ pc = "replace" /\ pc' = "replace" /\ UNCHANGED newSubject
      /\ Rest("mail") # <<>> /\ ~TooLong(Rest("mail"))
      /\ pos' = pos + LineSize(Rest("mail"))
  BY <1>1 DEF Scan, Consumed, rspamdVars
<1>3. /\ msg \in Seq(Byte) /\ pos \in 0..Len(msg)
      /\ Rest("mail") = SubSeq(msg, pos + 1, Len(msg))
      /\ Lines(msg) \in Mail /\ LinesFrom(msg)[pos] \in Mail /\ Replacing
  BY <1>2, LoopState
<1>4. PICK s, p, r, L : s = msg /\ p = pos /\ r = Rest("mail") /\ L = Lines(msg)
  OBVIOUS
<1>5. /\ p + LineSize(r) \in 0..Len(s)
      /\ LinesFrom(s)[p] = <<FirstLine(r)>> \o LinesFrom(s)[p + LineSize(r)]
  BY <1>2, <1>3, <1>4, LineStep
<1>6. PICK n \in 0..Len(L) : IsLeft(LinesFrom(s)[p], L, n) /\ Copied(L, n, disk["replaced"])
  BY <1>3, <1>4 DEF Replacing
<1>7. PICK x : x = FirstLine(r)
  OBVIOUS
<1>8. x \in Seq(Byte) /\ Line = x
  <2>1. r \in Seq(Byte)
    <3>1. IsRest(r, s, p)
      BY <1>3, <1>4, Suffix
    <3> QED
      BY <3>1 DEF IsRest
  <2> QED
    BY <1>2, <1>4, <1>7, <2>1, FirstLineType DEF Line
<1>9. PICK T \in Mail : T = LinesFrom(s)[p + LineSize(r)]
  <2>1. \A q \in 0..Len(msg) : LinesFrom(msg)[q] \in Mail
    BY MailLines DEF RewriteInv
  <2> QED
    BY <1>4, <1>5, <2>1
<1>10. IsLeft(<<x>> \o T, L, n)
  BY <1>5, <1>6, <1>7, <1>9
<1>11. L \in Mail /\ n \in Nat /\ n + 1 <= Len(L) /\ L[n + 1] = x /\ IsLeft(T, L, n + 1)
  <2>1. L \in Mail
    BY <1>3, <1>4
  <2> QED
    BY <1>8, <1>10, <2>1, NextLeft
<1>12. PICK w, v : w = disk["replaced"] /\ v = disk'["replaced"]
  OBVIOUS
<1>13. disk \in [File -> FileContent]
  BY DEF RewriteInv, FileInv
<1>14. ASSUME NEW bytes, Write("replaced", bytes)
       PROVE  disk'["mail"] = disk["mail"] /\ v = w \o bytes
  BY <1>12, <1>13, <1>14 DEF Write, File
<1>15. /\ disk'["mail"] = disk["mail"]
       /\ \/ BlankLine /\ v = w \o CRLF
          \/ BodyLine /\ v = w \o (x \o CRLF)
          \/ ContinuationLine /\ v = w
          \/ SubjectLine /\ v = w \o replacement
          \/ HeaderLine /\ v = w \o (x \o CRLF)
  <2>1. CASE BlankLine
    BY <1>14, <2>1 DEF BlankLine
  <2>2. CASE BodyLine
    BY <1>8, <1>14, <2>2 DEF BodyLine
  <2>3. CASE ContinuationLine
    <3>1. disk' = disk
      BY <2>3, Zenon DEF ContinuationLine
    <3> QED
      BY <1>12, <2>3, <3>1
  <2>4. CASE SubjectLine
    BY <1>14, <2>4 DEF SubjectLine
  <2>5. CASE HeaderLine
    <3>1. Write("replaced", Line \o CRLF)
      BY <2>5, Zenon DEF HeaderLine
    <3> QED
      BY <1>8, <1>14, <2>5, <3>1
  <2> QED
    BY <2>1, <2>2, <2>3, <2>4, <2>5
<1>16. Copied(L, n, w)
  BY <1>6, <1>12
<1>17. \/ ~replaced' /\ ~skipContinuation' /\ ~headerEnded' /\ BeforeSubject(L, n + 1, v)
       \/ replaced' /\ skipContinuation' /\ ~headerEnded' /\ InSubject(L, n + 1, v)
       \/ replaced' /\ ~(skipContinuation' /\ ~headerEnded') /\ BehindSubject(L, n + 1, v)
  BY <1>8, <1>11, <1>15, <1>16, LineWritten
<1>18. n + 1 \in 0..Len(L)
  BY <1>11
<1>19. Lines(msg)' = L /\ LinesFrom(msg)'[pos'] = T
  BY <1>2, <1>4, <1>9
<1>20. IsLeft(T, L, n + 1) /\ Copied(L, n + 1, v)'
  BY <1>11, <1>17, Zenon DEF Copied
<1> QED
  BY <1>2, <1>12, <1>15, <1>18, <1>19, <1>20 DEF Replacing

LEMMA StepReplace == RewriteInv /\ ReplaceInv /\ [Next]_vars => ReplaceInv'
<1> SUFFICES ASSUME RewriteInv, ReplaceInv, [Next]_vars PROVE ReplaceInv'
  OBVIOUS
<1>t. TypeOK /\ disk \in [File -> FileContent]
  BY DEF RewriteInv, FileInv
<1>m. msg' = msg
  BY <1>t, CounterTypes
<1>1. CASE UNCHANGED vars
  BY <1>1 DEF vars, rspamdVars, lineVars, ReplaceInv, Replacing, Copied, SubjectReplaced
<1>2. CASE pc' \notin {"download", "check", "openReplace", "replace",
                       "renameReplaced", "headers"}
  BY <1>2 DEF ReplaceInv, SubjectReplaced
<1>3. CASE Download
  <2>1. /\ pc = "download" /\ pc' = "check" /\ disk' = [disk EXCEPT !["mail"] = msg]
        /\ UNCHANGED <<replaced, skipContinuation, headerEnded>>
    BY <1>3 DEF Download, lineVars
  <2>2. disk'["mail"] = msg
    BY <1>t, <2>1 DEF File
  <2>3. ~replaced /\ ~skipContinuation /\ ~headerEnded
    BY <2>1 DEF ReplaceInv
  <2>4. ~replaced' /\ ~skipContinuation' /\ ~headerEnded'
    BY <2>1, <2>3
  <2> QED
    BY <1>m, <2>1, <2>2, <2>4 DEF ReplaceInv, SubjectReplaced
<1>4. CASE Check
  <2>1. /\ pc = "check" /\ pc' = IF newSubject THEN "openReplace" ELSE "headers"
        /\ UNCHANGED <<replaced, skipContinuation, headerEnded, disk, newSubject>>
    BY <1>4 DEF Check, lineVars, rspamdVars
  <2>2. ~replaced /\ ~skipContinuation /\ ~headerEnded /\ disk["mail"] = msg
    BY <2>1 DEF ReplaceInv
  <2>3. ~replaced' /\ ~skipContinuation' /\ ~headerEnded'
    BY <2>1, <2>2
  <2> QED
    BY <1>m, <2>1, <2>2, <2>3 DEF ReplaceInv, SubjectReplaced
<1>5. CASE OpenFiles("openReplace", "replace", "replaced")
  <2>1. /\ pc = "openReplace" /\ pc' = "replace" /\ disk' = [disk EXCEPT !["replaced"] = <<>>]
        /\ pos' = 0 /\ UNCHANGED <<replaced, skipContinuation, headerEnded, newSubject>>
    BY <1>5 DEF OpenFiles, lineVars, rspamdVars
  <2>2. disk'["mail"] = disk["mail"] /\ disk'["replaced"] = <<>>
    BY <1>t, <2>1 DEF File
  <2>3. ~replaced /\ ~skipContinuation /\ ~headerEnded /\ disk["mail"] = msg /\ newSubject
    BY <2>1 DEF ReplaceInv
  <2>4. PICK L \in Mail : L = Lines(msg)
    BY <1>t, MailLines
  <2>5. Len(L) \in Nat /\ 0 \in 0..Len(L) /\ \A i \in 1..Len(L) : 0 + i = i
    BY MailType
  <2>6. IsLeft(L, L, 0)
    BY <2>5 DEF IsLeft
  <2>7. BeforeSubject(L, 0, <<>>)
    <3>1. SubSeq(L, 1, 0) = <<>> /\ <<>> \in Seq(Seq(Byte)) /\ Len(<<>>) = 0
      BY SubSeqEmpty
    <3>2. Text(<<>>) = <<>>
      BY <3>1, TextType
    <3>3. 1..0 = {}
      OBVIOUS
    <3>4. PlainUntil(L, 0)
      BY <3>3 DEF PlainUntil
    <3> QED
      BY <3>1, <3>2, <3>4 DEF BeforeSubject
  <2>8. Copied(L, 0, <<>>)'
    BY <2>1, <2>3, <2>7, Zenon DEF Copied
  <2>9. LinesFrom(msg)'[pos'] = L /\ Lines(msg)' = L
    BY <1>m, <2>1, <2>4 DEF Lines
  <2>10. Replacing'
    BY <2>2, <2>5, <2>6, <2>8, <2>9 DEF Replacing
  <2> QED
    BY <1>m, <2>1, <2>2, <2>3, <2>10 DEF ReplaceInv, SubjectReplaced
<1>6. CASE BlankLine \/ BodyLine \/ ContinuationLine \/ SubjectLine \/ HeaderLine
  <2>1. /\ pc = "replace" /\ pc' = "replace" /\ UNCHANGED newSubject
        /\ disk'["mail"] = disk["mail"] /\ Replacing'
    BY <1>6, <1>m, StepLine
  <2> QED
    BY <1>m, <2>1 DEF ReplaceInv, SubjectReplaced
<1>7. CASE ScanEnds
  <2>1. /\ pc = "replace" /\ pc' = "renameReplaced" /\ Rest("mail") = <<>>
        /\ UNCHANGED <<disk, newSubject>>
    BY <1>7 DEF ScanEnds, rspamdVars
  <2>2. /\ msg \in Seq(Byte) /\ pos \in 0..Len(msg)
        /\ Rest("mail") = SubSeq(msg, pos + 1, Len(msg)) /\ Lines(msg) \in Mail /\ Replacing
    BY <2>1, LoopState
  <2>3. PICK s, p, r, L : s = msg /\ p = pos /\ r = Rest("mail") /\ L = Lines(msg)
    OBVIOUS
  <2>4. LinesFrom(s)[p] = <<>>
    <3>1. IsLinesFrom(s, p, r)
      BY <2>2, <2>3, LinesFromRest
    <3> QED
      BY <2>1, <2>3, <3>1 DEF IsLinesFrom
  <2>5. PICK n \in 0..Len(L) : IsLeft(<<>>, L, n) /\ Copied(L, n, disk["replaced"])
    BY <2>2, <2>3, <2>4 DEF Replacing
  <2>6. n = Len(L)
    <3>1. Len(<<>>) = Len(L) - n /\ Len(<<>>) = 0 /\ Len(L) \in Nat
      BY <2>2, <2>3, <2>5, MailType DEF IsLeft
    <3> QED
      BY <3>1
  <2>7. PICK w : w = disk["replaced"]
    OBVIOUS
  <2>8. BeforeSubject(L, n, w) \/ InSubject(L, n, w) \/ BehindSubject(L, n, w)
    BY <2>5, <2>7, Zenon DEF Copied
  <2>9. w = Text(WithNewSubject(L))
    <3>1. L \in Mail
      BY <2>2, <2>3
    <3> QED
      BY <2>6, <2>8, <3>1, AllWritten
  <2>10. newSubject
    BY <2>1 DEF ReplaceInv
  <2> QED
    BY <1>m, <2>1, <2>3, <2>7, <2>9, <2>10 DEF ReplaceInv, SubjectReplaced
<1>8. CASE Rename("renameReplaced", "replaced", "headers")
  <2>1. /\ disk' = [disk EXCEPT !["mail"] = disk["replaced"], !["replaced"] = NoFile]
        /\ pc = "renameReplaced" /\ pc' = "headers"
    BY <1>8 DEF Rename
  <2>2. disk'["mail"] = disk["replaced"]
    BY <2>1, <1>t DEF File
  <2>3. disk["replaced"] = Text(WithNewSubject(Lines(msg)))
    BY <2>1 DEF ReplaceInv
  <2> QED
    BY <1>m, <2>1, <2>2, <2>3 DEF ReplaceInv, SubjectReplaced
<1> QED
  BY <1>1, <1>2, <1>3, <1>4, <1>5, <1>6, <1>7, <1>8, ReplaceSteps

LEMMA ReplaceInvariant == Spec => []ReplaceInv
<1>1. Init => ReplaceInv
  BY DEF Init, ReplaceInv, SubjectReplaced
<1> QED
  BY <1>1, StepReplace, RewriteInvariant, PTL DEF Spec

(* Whatever the mail, replaceHeader's line by line copy is the mail with the *)
(* first subject of its header and all its folded lines exchanged for        *)
(* Rspamd's: the lines, their order, and the body are otherwise those that   *)
(* were downloaded.                                                          *)
THEOREM SubjectIsReplaced == Spec => []SubjectReplaced
<1>1. ReplaceInv => SubjectReplaced
  BY DEF ReplaceInv
<1> QED
  BY <1>1, ReplaceInvariant, PTL

(* The four steps that give a mail up without a failing call.               *)
LEMMA FailSteps ==
    ASSUME TypeOK, Next, pc' = "failed", faults' = 0
    PROVE  AsHeadersFails \/ HeaderNotFound \/ LineTooLong \/ HeaderEndNotFound
<1>1. faults \in Nat /\ ~Fault
  BY BoundAssumption DEF TypeOK, Fault
<1> QED
  BY <1>1 DEF Next, ReplaceHeader, AddHeaders, replaceHeader, addHeaders, Download,
     DownloadFails, Check, CheckFails, OpenFiles, OpenFails, CopyFails, Rename,
     RenameFails, BlankLine, BodyLine, ContinuationLine, SubjectLine,
     HeaderLine, ScanEnds, CopyChunk, InsertHeaders, AsHeaders, Scan, Consumed

(* A line that the scanner has refused is one of the mail.                  *)
LEMMA LongLineOfMail ==
    ASSUME RewriteInv, ReplaceInv, LineTooLong
    PROVE  \E i \in DOMAIN Lines(msg) : Len(Lines(msg)[i]) + 1 >= MaxLineLen
<1>1. pc = "replace" /\ TooLong(Rest("mail"))
  BY DEF LineTooLong
<1>2. /\ msg \in Seq(Byte) /\ pos \in 0..Len(msg)
      /\ Rest("mail") = SubSeq(msg, pos + 1, Len(msg)) /\ Lines(msg) \in Mail /\ Replacing
  BY <1>1, LoopState
<1>3. PICK s, p, r, L : s = msg /\ p = pos /\ r = Rest("mail") /\ L = Lines(msg)
  OBVIOUS
<1>4. PICK x \in Seq(Byte), T \in Seq(Seq(Byte)) :
        LinesFrom(s)[p] = <<x>> \o T /\ Len(x) + 1 >= MaxLineLen
  BY <1>1, <1>2, <1>3, LongLine
<1>5. PICK n \in 0..Len(L) : IsLeft(<<x>> \o T, L, n)
  BY <1>2, <1>3, <1>4 DEF Replacing
<1>6. n \in Nat /\ n + 1 <= Len(L) /\ L[n + 1] = x
  <2>1. L \in Mail /\ T \in Mail
    BY <1>2, <1>3 DEF Mail
  <2> QED
    BY <1>5, <2>1, NextLeft
<1>7. DOMAIN L = 1..Len(L) /\ Len(L) \in Nat
  BY <1>2, <1>3, MailType
<1>8. n + 1 \in DOMAIN L
  BY <1>6, <1>7
<1> QED
  BY <1>3, <1>4, <1>6, <1>8

(* An empty line before a subject was found.                                *)
LEMMA SubjectMissing ==
    ASSUME RewriteInv, ReplaceInv, HeaderNotFound
    PROVE  HasBlank(Lines(msg)) /\ Subjects(Lines(msg)) = {}
<1>1. /\ pc = "replace" /\ Rest("mail") # <<>> /\ ~TooLong(Rest("mail"))
      /\ Line = <<>> /\ ~replaced
  BY DEF HeaderNotFound, Scan
<1>2. /\ msg \in Seq(Byte) /\ pos \in 0..Len(msg)
      /\ Rest("mail") = SubSeq(msg, pos + 1, Len(msg)) /\ Lines(msg) \in Mail /\ Replacing
  BY <1>1, LoopState
<1>3. PICK s, p, r, L : s = msg /\ p = pos /\ r = Rest("mail") /\ L = Lines(msg)
  OBVIOUS
<1>4. /\ p + LineSize(r) \in 0..Len(s)
      /\ LinesFrom(s)[p] = <<FirstLine(r)>> \o LinesFrom(s)[p + LineSize(r)]
  BY <1>1, <1>2, <1>3, LineStep
<1>5. PICK T \in Mail : T = LinesFrom(s)[p + LineSize(r)]
  <2>1. \A q \in 0..Len(msg) : LinesFrom(msg)[q] \in Mail
    BY MailLines DEF RewriteInv
  <2> QED
    BY <1>3, <1>4, <2>1
<1>6. PICK x \in Seq(Byte) : x = <<>>
  BY Bytes
<1>7. LinesFrom(s)[p] = <<x>> \o T
  BY <1>1, <1>3, <1>4, <1>5, <1>6 DEF Line
<1>8. PICK n \in 0..Len(L) : IsLeft(<<x>> \o T, L, n) /\ Copied(L, n, disk["replaced"])
  BY <1>2, <1>3, <1>7 DEF Replacing
<1>9. PlainUntil(L, n)
  <2>1. BeforeSubject(L, n, disk["replaced"])
    BY <1>1, <1>8, Zenon DEF Copied
  <2> QED
    BY <2>1 DEF BeforeSubject
<1>10. L \in Mail /\ DOMAIN L = 1..Len(L) /\ Len(L) \in Nat
  BY <1>2, <1>3, MailType
<1>11. n \in Nat /\ n + 1 <= Len(L) /\ L[n + 1] = <<>>
  BY <1>6, <1>8, <1>10, NextLeft
<1>12. n + 1 \in DOMAIN L
  BY <1>10, <1>11
<1>13. HasBlank(L)
  BY <1>11, <1>12 DEF HasBlank
<1>14. Subjects(L) = {}
  BY <1>9, <1>10, <1>11, NoSubject
<1> QED
  BY <1>3, <1>13, <1>14

(* The end of the mail was reached without an empty line in one chunk.      *)
LEMMA NoWholeEnd ==
    ASSUME RewriteInv, InsertInv, HeaderEndNotFound
    PROVE  WholeEnds(base) = {}
<1>1. pc = "search" /\ Rest("mail") = <<>>
  BY DEF HeaderEndNotFound
<1>2. /\ disk["mail"] \in Seq(Byte) /\ pos \in 0..Len(disk["mail"])
      /\ IsRest(Rest("mail"), disk["mail"], pos)
  BY <1>1, RestOf DEF RewriteInv
<1>3. pos = Len(disk["mail"])
  BY <1>1, <1>2 DEF IsRest
<1>4. base = disk["mail"] /\ NothingPassed(base, pos)
  BY <1>1 DEF InsertInv, Searching
<1>5. PICK s \in Seq(Byte) : s = base
  BY <1>2, <1>4
<1>6. NothingPassed(s, Len(s)) /\ Len(s) \in Nat
  BY <1>3, <1>4, <1>5, LenProperties
<1>7. ASSUME NEW k \in WholeEnds(s) PROVE FALSE
  <2>1. k \in Nat /\ k - 1 \in Delimiters(s)
    BY WholeEndsOf
  <2>2. k - 1 \in 1..(Len(s) - 3)
    BY <2>1 DEF Delimiters
  <2>3. Len(s) <= k - 2
    BY <1>6 DEF NothingPassed
  <2> QED
    BY <1>6, <2>1, <2>2, <2>3
<1> QED
  BY <1>5, <1>7

(* downloadAndScan gives a mail up without a failing call only for one of    *)
(* four causes in the mail or in Rspamd's answer, for every mail and every   *)
(* size of the buffers.                                                      *)
THEOREM GivenUpOnlyForCause == Spec => []GivenUpForCause
<1>1. Init => GivenUpForCause
  BY DEF Init, GivenUpForCause
<1>2. RewriteInv /\ InsertInv /\ ReplaceInv /\ GivenUpForCause /\ [Next]_vars
        => GivenUpForCause'
  <2> SUFFICES ASSUME RewriteInv, InsertInv, ReplaceInv, GivenUpForCause, [Next]_vars
               PROVE  GivenUpForCause'
    OBVIOUS
  <2>1. CASE UNCHANGED vars
    BY <2>1 DEF vars, rspamdVars, GivenUpForCause
  <2>2. CASE ~(pc' = "failed" /\ faults' = 0)
    BY <2>2 DEF GivenUpForCause
  <2>3. CASE Next /\ pc' = "failed" /\ faults' = 0
    <3>1. AsHeadersFails \/ HeaderNotFound \/ LineTooLong \/ HeaderEndNotFound
      BY <2>3, FailSteps DEF RewriteInv
    <3>2. UNCHANGED <<msg, newSubject, validHeaders, base>>
      BY <3>1 DEF AsHeadersFails, HeaderNotFound, LineTooLong, HeaderEndNotFound,
         Fails, rspamdVars
    <3>3. CASE AsHeadersFails
      BY <3>2, <3>3 DEF AsHeadersFails, GivenUpForCause
    <3>4. CASE HeaderNotFound
      <4>1. HasBlank(Lines(msg)) /\ Subjects(Lines(msg)) = {}
        BY <3>4, SubjectMissing
      <4>2. newSubject
        BY <3>4 DEF HeaderNotFound, Scan, ReplaceInv
      <4> QED
        BY <3>2, <4>1, <4>2 DEF GivenUpForCause
    <3>5. CASE LineTooLong
      <4>1. \E i \in DOMAIN Lines(msg) : Len(Lines(msg)[i]) + 1 >= MaxLineLen
        BY <3>5, LongLineOfMail
      <4>2. newSubject
        BY <3>5 DEF LineTooLong, ReplaceInv
      <4> QED
        BY <3>2, <4>1, <4>2 DEF GivenUpForCause
    <3>6. CASE HeaderEndNotFound
      <4>1. WholeEnds(base) = {}
        BY <3>6, NoWholeEnd
      <4> QED
        BY <3>2, <4>1 DEF GivenUpForCause
    <3> QED
      BY <3>1, <3>3, <3>4, <3>5, <3>6
  <2> QED
    BY <2>1, <2>2, <2>3
<1> QED
  BY <1>1, <1>2, RewriteInvariant, InsertInvariant, ReplaceInvariant, PTL DEF Spec
=============================================================================

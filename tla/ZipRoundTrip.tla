---------------------------- MODULE ZipRoundTrip ----------------------------
(***************************************************************************)
(* An archive that ZipWriter wrote, or began to write, and ZipReader then  *)
(* opens: OpenArchive looks for the record at the end of the file and      *)
(* follows the central directory, one entry a step.                        *)
(***************************************************************************)
EXTENDS ZipWriter

VARIABLES
  reader,   \* "none", "scan" (OpenArchive's loop), or how OpenArchive ended
  record,   \* the end record it found
  tell,     \* the position of the next central header
  entries   \* what it added to its FileList, in order

readerVars == <<reader, record, tell, entries>>
vars == <<writerVars, readerVars>>

Init ==
  /\ WriterInit
  /\ reader = "none"
  /\ record = End(0, 0)
  /\ tell = 0
  /\ entries = <<>>

(***************************************************************************)
(* OpenArchive.                                                            *)
(***************************************************************************)
LastBytes == BytesAt(Len(Archive) - EndSize, EndSize)

(* The signature is compared although nothing was read into it: the file   *)
(* is too short to seek to the record, or holds bytes nobody has set.      *)
(* A stdio file then stays at its beginning: the signature of a record     *)
(* that was cut off is taken for it, and the fields behind it are not set. *)
Undetermined ==
  IF Len(Archive) < EndSize
  THEN \/ medium.kind = "memory"
       \/ Len(Archive) < SignatureSize
       \/ Archive[1][1].kind = "end"
  ELSE Unset(LastBytes)

(* A seek to a negative offset fails in a stdio file, which stays behind   *)
(* the record, and succeeds in memory.                                     *)
StartAt(offset) ==
  IF offset < 0 /\ medium.kind = "stdio" THEN Len(Archive) ELSE offset

(* Only the signature is tested; fields behind it that are of no record    *)
(* lead anywhere.                                                          *)
OpenArchive ==
  /\ phase \in {"closed", "stopped"} /\ reader = "none"
  /\ \/ /\ IsPiece(LastBytes, "end")
        /\ record' = Piece(LastBytes)
        /\ tell' = StartAt(Piece(LastBytes).offset)
        /\ reader' = "scan"
     \/ /\ ~IsPiece(LastBytes, "end") /\ IsSigned(LastBytes)
        /\ reader' = "garbled"
        /\ UNCHANGED <<record, tell>>
     \/ /\ ~IsSigned(LastBytes)
        /\ reader' \in {"refused"} \cup (IF Undetermined THEN {"undefined"} ELSE {})
        /\ UNCHANGED <<record, tell>>
  /\ UNCHANGED <<writerVars, entries>>

(* The test of the loop; a difference that overflows int32_t wraps, or the *)
(* compiler kept it wider.                                                 *)
InDirectory ==
  LET passed == Wrap(tell) - record.offset
  IN  {passed < record.size, Wrap(passed) < record.size}

CentralAt == BytesAt(tell, CentralSize)

LocalAt == BytesAt(Piece(CentralAt).offset, LocalSize)

NameAt ==
  BytesAt(Piece(CentralAt).offset + LocalSize, Piece(LocalAt).nameLength)

Legible ==
  /\ IsPiece(CentralAt, "central")
  /\ IsPiece(LocalAt, "local")
  /\ IsPiece(NameAt, "name")

(* One entry: its name is taken from behind the local header, the rest     *)
(* from the central one.                                                   *)
ScanEntry ==
  /\ reader = "scan" /\ TRUE \in InDirectory /\ Legible
  /\ LET c == Piece(CentralAt)
         n == Piece(LocalAt).nameLength
     IN  /\ entries' = Append(entries,
              [path |-> Normal(Piece(NameAt).name), method |-> c.method, size |-> c.size,
               compressed |-> c.compressed, offset |-> c.offset + LocalSize + n])
         /\ tell' = tell + CentralSize + c.nameLength
  /\ UNCHANGED <<writerVars, reader, record>>

(* An assertion fails, or the build has none and takes what is there for   *)
(* a header.                                                               *)
ScanGarbled ==
  /\ reader = "scan" /\ TRUE \in InDirectory /\ ~Legible
  /\ reader' = "garbled"
  /\ UNCHANGED <<writerVars, record, tell, entries>>

EndScan ==
  /\ reader = "scan" /\ FALSE \in InDirectory
  /\ reader' = "open"
  /\ UNCHANGED <<writerVars, record, tell, entries>>

(***************************************************************************)
(* OpenFile: what a program gets under a path.                             *)
(***************************************************************************)
File(content) == <<"file", content>>
NotOpened == <<"none", <<>>>>
Garbled   == <<"garbled", <<>>>>
Stopped   == <<"stopped", <<>>>>

(* Whether the reader's file has a mutex: LStdFile and LMemRefFile do.     *)
Mutexes == IF medium.kind = "stdio" \/ medium.file.owns THEN BOOLEAN ELSE {FALSE}

(* Without one SubFile's assertion fails, or the build has none, and a     *)
(* LockGuard locks a mutex that is not there: the program stops, or the    *)
(* lock does nothing.                                                      *)
Locked(mutex, outcomes) == IF mutex THEN outcomes ELSE outcomes \cup {Stopped}

(* The decoders accept what was encoded and notice some of what was not.   *)
(* That of LZ4 looks at a byte of its input even if there is none.         *)
Decoded(e, bytes) ==
  IF e.method = "LZ4" /\ e.size = 0 THEN {NotOpened, File(<<>>)}
  ELSE IF /\ IsPiece(bytes, "data") /\ Piece(bytes).method = e.method
          /\ Len(Piece(bytes).content) = e.size
       THEN {File(Piece(bytes).content)}
       ELSE {NotOpened, Garbled}

(* A stored entry is a window on the archive.                              *)
Window(e, bytes) == IF Len(bytes) = e.size THEN {File(bytes)} ELSE {Garbled}

OpenEntry(e, mutex) ==
  IF e.offset = -1 THEN {NotOpened}
  ELSE IF e.method = "NONE" THEN Locked(mutex, Window(e, BytesAt(e.offset, e.size)))
  ELSE Locked(mutex, Decoded(e, BytesAt(e.offset, e.compressed)))

(* The overload with an allocator does not know LZ4.                       *)
OpenEntryInto(e, mutex) ==
  IF e.method = "LZ4" THEN {NotOpened} ELSE OpenEntry(e, mutex)

(* Every depth up to the deepest has an entry.                             *)
GapFree ==
  /\ entries # <<>>
  /\ \A k \in DOMAIN entries : \A d \in 0 .. FoldersAbove(entries[k].path) :
       \E j \in DOMAIN entries : FoldersAbove(entries[j].path) = d

NoEntry == [path |-> <<>>, method |-> "NONE", size |-> 0, compressed |-> 0, offset |-> -1]

(* FileList::FindEntry: one of the entries with the normal path, and where *)
(* depths are missing any entry or, in an empty list, what is no entry.    *)
FindEntry(path) ==
  LET hits == {k \in DOMAIN entries : entries[k].path = Normal(path)}
  IN  IF ~GapFree THEN {entries[k] : k \in DOMAIN entries} \cup {NoEntry}
      ELSE IF hits = {} THEN {NoEntry}
      ELSE {entries[k] : k \in hits}

OpenFile(path, mutex) ==
  (UNION {OpenEntry(e, mutex) : e \in FindEntry(path)})
    \cup (IF entries = <<>> THEN {Garbled, Stopped} ELSE {})

OpenFileInto(path, mutex) ==
  (UNION {OpenEntryInto(e, mutex) : e \in FindEntry(path)})
    \cup (IF entries = <<>> THEN {Garbled, Stopped} ELSE {})

(***************************************************************************)
(* The specification.                                                      *)
(***************************************************************************)
Next ==
  \/ WriterNext /\ UNCHANGED readerVars
  \/ OpenArchive
  \/ ScanEntry
  \/ ScanGarbled
  \/ EndScan

Spec == Init /\ [][Next]_vars

(***************************************************************************)
(* Properties.                                                             *)
(***************************************************************************)
Entry32 == [path : Seq(Characters), method : Methods, size : Nat, compressed : Nat, offset : Int]

(* The types of the variables: what the directory counts are int32_t.      *)
TypeOK ==
  /\ medium.kind \in {"stdio", "memory"}
  /\ medium.file.pos \in Nat
  /\ refused \in BOOLEAN
  /\ currOffset \in Int32 /\ sizeOfCD \in Int32
  /\ Len(headers) = Len(added) /\ Len(headers) <= MaxEntries
  /\ \A k \in DOMAIN headers : headers[k].offset \in Int32
  /\ Len(todo) <= 2 * MaxEntries + 3
  /\ phase \in {"ready", "closing", "written", "closed", "stopped"}
  /\ cursor \in [Sources -> Nat]
  /\ reader \in {"none", "scan", "refused", "undefined", "garbled", "open"}
  /\ record.offset \in Int32 /\ record.size \in Int32
  /\ tell \in Int
  /\ entries \in Seq(Entry32)

(* The calls that noted a header have written all they had to write.       *)
Finished(k) == k < Len(headers) \/ todo = <<>> \/ phase # "ready"

(* Whatever was added since, each entry's header, name and data lie where  *)
(* the noted header says, although offsets are counted and not asked from  *)
(* the file (ZipArchive.cpp:438-462, 491-499).                             *)
InPlace ==
  ~refused /\ phase # "stopped" /\ Len(Archive) <= Limit =>
    \A k \in DOMAIN headers : Finished(k) =>
      LET h == headers[k]
      IN  /\ BytesAt(h.offset, LocalSize) = Bytes(Local(h))
          /\ BytesAt(h.offset + LocalSize, Len(h.name)) = Bytes(Name(h))
          /\ BytesAt(h.offset + LocalSize + Len(h.name), h.compressed)
               = Encoded(added[k].stored, h.method)

(* The directory ends below 2^31.                                          *)
Fits == Len(Archive) - EndSize < Limit

(* The writer got to its end, and in a view to the view's.                 *)
Complete ==
  /\ phase = "closed" /\ ~refused /\ Fits
  /\ medium.kind = "stdio" \/ medium.file.owns \/ medium.file.pos = Len(Archive)

(* Not promised: a source that had been read from before it was added, and *)
(* an empty file packed with LZ4, whose decoder decides on a byte that is  *)
(* not there.                                                              *)
Promised(a) == a.whole /\ ~(a.method = "LZ4" /\ a.content = <<>>)

(* What was added under the same path.                                     *)
Namesakes(k) == {j \in DOMAIN added : Normal(added[j].path) = Normal(added[k].path)}

Contents(k) == {File(added[j].content) : j \in Namesakes(k)}

Opens(k) ==
  (\A j \in Namesakes(k) : Promised(added[j])) =>
    \A mutex \in Mutexes :
      /\ OpenFile(added[k].path, mutex) = Locked(mutex, Contents(k))
      /\ (\A j \in Namesakes(k) : added[j].method # "LZ4") =>
           OpenFileInto(added[k].path, mutex) = Locked(mutex, Contents(k))

(* What was added is what is found: an archive that was written to its end *)
(* opens, with the entries that were added, in order, under their normal   *)
(* paths.  If it has an entry for every depth, each path opens, through a  *)
(* file with a mutex, with the content that was added under it, or with    *)
(* one of them if there are several; without a mutex it does so or the     *)
(* program stops.                                                          *)
RoundTrip ==
  Complete =>
    /\ reader \in {"none", "scan", "open"}
    /\ reader = "open" =>
         /\ Len(entries) = Len(added)
         /\ \A k \in DOMAIN added : entries[k].path = Normal(added[k].path)
         /\ GapFree => \A k \in DOMAIN added : Opens(k)

(* A stdio file and a buffer that grows end where the last write ended; a  *)
(* view has behind it what was there before.                               *)
EndsThere == medium.kind = "stdio" \/ medium.file.owns

(* No archive was stored as it is: the signature of its record could not   *)
(* be told from that of this one's.                                        *)
Unmistakable ==
  \A k \in DOMAIN added : added[k].method = "NONE" =>
    \A i \in DOMAIN added[k].stored : added[k].stored[i][1].kind # "end"

(* All or nothing: when the program stopped before the file was closed, or *)
(* the disk was full and no status was looked at, OpenArchive refuses the  *)
(* file or finds every entry; it takes nothing else for a header, unless   *)
(* an archive was stored in this one.  Its test of a signature that it did *)
(* not read is left to chance only if the file is shorter than the record  *)
(* or nothing was written.                                                 *)
AllOrNothing ==
  EndsThere /\ Fits /\ Unmistakable =>
    /\ reader # "garbled"
    /\ reader = "open" => Len(entries) = Len(added) /\ todo = <<>>
    /\ reader = "undefined" => Len(Archive) < EndSize \/ medium.file.pos = 0

(* OpenArchive asserts (lines 111, 119) that headers are where the record  *)
(* says.  Of a file of its own that was cut off it is not so.              *)
HeadersAsserted == reader # "garbled"
=============================================================================

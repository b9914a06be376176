----------------------------- MODULE ZipWriter -----------------------------
(***************************************************************************)
(* Writing a ZIP archive.  AddFile and CreateDirectory note a header and   *)
(* append the local header, the name and the data; the destructor appends  *)
(* the central directory and the record that says where it is.  Offsets    *)
(* are counted, not asked from the file, and no status of a write is       *)
(* looked at.                                                              *)
(*                                                                         *)
(* Each call of File::Write is a step of its own (Write); what is still to *)
(* be written is in todo.  The archive goes to a stdio file opened     *)
(* with kWrite on a disk with limited room, to a MemRefFile that grows, or *)
(* to a view on memory that cannot.  One thread uses a writer.             *)
(***************************************************************************)
EXTENDS ZipLayout, NormalForm

CONSTANTS
  Media,       \* files an archive may be written to
  Sources,     \* files that are added
  Content,     \* what each of them holds
  InMemory,    \* the sources that have a data pointer
  Stale,       \* what a buffer holds where nothing was read into it
  FilePaths,   \* paths given to AddFile
  DirPaths,    \* paths given to CreateDirectory
  MinSize,     \* the size of a new MemRefFile
  Limit,       \* 2^31: offsets are int32_t
  MaxEntries   \* bound: entries of an archive

Std == INSTANCE StdFile
Mem == INSTANCE MemRefFile

Int32 == -Limit .. Limit - 1

(* The bytes of a content mean nothing, or are those of a record.          *)
PlainBytes == [kind : {"plain"}, value : Int, bytes : {0}] \X {0}

RecordBytes ==
  [kind : {"end"}, size : Int32, offset : Int32, bytes : {EndSize}] \X (1 .. EndSize)

ASSUME WriterAssumption ==
  /\ Content \in [Sources -> Seq(PlainBytes \cup RecordBytes)]
  /\ InMemory \subseteq Sources
  /\ Stale \in PlainBytes
  /\ FilePaths \cup DirPaths \subseteq Seq(Characters)
  /\ \A path \in FilePaths \cup DirPaths : Resolved(path).names # <<>>
  /\ MinSize \in Nat
  /\ Limit \in Nat \ {0}
  /\ MaxEntries \in Nat

VARIABLES
  medium,      \* m_file: its kind, its file, the room on its disk
  refused,     \* a write was not done, or not all of it
  headers,     \* m_headers
  currOffset,  \* m_currOffset
  sizeOfCD,    \* m_sizeOfCD
  todo,        \* the bytes of the File::Write calls that are still to come
  phase,       \* "ready" for calls, "closing" in the destructor, "written" after it,
               \* "closed" when no File is left, or "stopped" before
  cursor,      \* of each source
  added        \* what the callers asked for

writerVars == <<medium, refused, headers, currOffset, sizeOfCD, todo, phase, cursor, added>>

(***************************************************************************)
(* The file the archive is written to.                                     *)
(***************************************************************************)
OnDisk(room) == [kind |-> "stdio", file |-> [data |-> <<>>, pos |-> 0, owns |-> FALSE], room |-> room]

InBuffer(f) == [kind |-> "memory", file |-> f, room |-> 0]

(* None of them holds an archive yet: a stdio file is truncated when it is *)
(* opened, a buffer has bytes of somebody else's or, when it is owned,     *)
(* such as nobody has set.                                                 *)
ASSUME MediaAssumption ==
  \A m \in Media :
    \/ m.room \in Nat /\ m = OnDisk(m.room)
    \/ LET f == m.file
       IN  /\ m = InBuffer(f)
           /\ f = [data |-> f.data, pos |-> f.pos, owns |-> f.owns]
           /\ Len(f.data) \in Nat
           /\ \A i \in 1 .. Len(f.data) : f.data[i] = Foreign \/ (f.owns /\ f.data[i] = Junk)

Archive == medium.file.data

(* File::Write.                                                            *)
Grown(f, new) ==
  [f EXCEPT !.data = Std!Overwritten(f.data, f.pos, new), !.pos = f.pos + Len(new)]

Written(bytes) ==
  IF medium.kind = "stdio"
  THEN Grown(medium.file, Std!Stored(bytes, medium.room - medium.file.pos))
  ELSE Mem!WriteData(medium.file, bytes)

\* Mutant: offsets as wide as they need to be.
WrapNot(n) == n

(* int32_t                                                                 *)
Wrap(n) == ((n + Limit) % (2 * Limit)) - Limit

(***************************************************************************)
(* Names and contents.                                                     *)
(***************************************************************************)
(* CreateDirectory stores the normal path with a slash at its end.         *)
DirName(path) ==
  LET name == Normal(path)
  IN  IF Last(name) = Slash THEN name ELSE Append(name, Slash)

(* What AddFile gets of a source: all of one that has a data pointer;      *)
(* otherwise GetSize bytes of buffer, into which is read what the cursor   *)
(* still has before it.                                                    *)
Gets(s) ==
  IF s \in InMemory THEN Content[s]
  ELSE [i \in DOMAIN Content[s] |->
          IF cursor[s] + i <= Len(Content[s]) THEN Content[s][cursor[s] + i] ELSE Stale]

(* Seek to p and read n bytes.  Before the beginning nothing is found: a   *)
(* stdio file stays where it is (and a reader that follows the directory   *)
(* gets something else than it looks for), memory is left far behind.      *)
BytesAt(p, n) ==
  IF p < 0 THEN <<>>
  ELSE IF medium.kind = "stdio"
  THEN Std!Slice(Archive, p, Std!Available(p, Len(Archive), n))
  ELSE Mem!BytesRead(Mem!SetPosition(medium.file, p), n)

(* The names that are stored.                                              *)
Names == FilePaths \cup {DirName(path) : path \in DirPaths}

(* They are paths with a normal form: that does not follow from the        *)
(* definitions by folds, for which there is no induction.                  *)
ASSUME NamesAssumption ==
  \A name \in Names : name \in Seq(Characters) \ {<<>>} /\ Normal(name) \in Seq(Characters)

(* After it has been read.                                                 *)
Passed(s) ==
  IF s \in InMemory THEN cursor ELSE [cursor EXCEPT ![s] = Len(Content[s])]

(***************************************************************************)
(* The writer.                                                             *)
(***************************************************************************)
(* Some sources have been read from before.                                *)
Cursors == {c \in [Sources -> {0, 1}] : \A s \in Sources :
              c[s] <= Len(Content[s]) /\ (s \in InMemory => c[s] = 0)}

WriterInit ==
  /\ \E m \in Media : medium = [m EXCEPT !.file = Mem!SetPosition(m.file, 0)]
  /\ refused = FALSE
  /\ headers = <<>> /\ currOffset = 0 /\ sizeOfCD = 0
  /\ todo = <<>>
  /\ phase = "ready"
  /\ cursor \in Cursors
  /\ added = <<>>

Idle == phase = "ready" /\ todo = <<>>

\* Mutant: the next offset is counted with the size of the content.
NoteUncompressed(h, writes) ==
  /\ headers' = Append(headers, h)
  /\ sizeOfCD' = Wrap(sizeOfCD + CentralSize + Len(h.name))
  /\ currOffset' = Wrap(currOffset + LocalSize + Len(h.name) + h.size)
  /\ todo' = writes
  /\ UNCHANGED <<medium, refused, phase>>

(* The header is noted and the offsets are advanced before anything is     *)
(* written.                                                                *)
Note(h, writes) ==
  /\ headers' = Append(headers, h)
  /\ sizeOfCD' = Wrap(sizeOfCD + CentralSize + Len(h.name))
  /\ currOffset' = Wrap(currOffset + LocalSize + Len(h.name) + h.compressed)
  /\ todo' = writes
  /\ UNCHANGED <<medium, refused, phase>>

AddFile(path, s, method) ==
  LET h == Header(path, method, Gets(s), currOffset)
  IN  /\ Idle /\ Len(headers) < MaxEntries
      /\ Note(h, <<Bytes(Local(h)), Bytes(Name(h)), Encoded(Gets(s), method)>>)
      /\ cursor' = Passed(s)
      /\ added' = Append(added, [path |-> path, method |-> method, content |-> Content[s],
                                 stored |-> Gets(s), whole |-> s \in InMemory \/ cursor[s] = 0])

(* deflate fails: nothing is added, but the source has been read.          *)
AddFileFails(s) ==
  /\ Idle
  /\ cursor' = Passed(s)
  /\ UNCHANGED <<medium, refused, headers, currOffset, sizeOfCD, todo, phase, added>>

CreateDirectory(path) ==
  LET h == Header(DirName(path), "NONE", <<>>, currOffset)
  IN  /\ Idle /\ Len(headers) < MaxEntries
      /\ Note(h, <<Bytes(Local(h)), Bytes(Name(h))>>)
      /\ added' = Append(added, [path |-> DirName(path), method |-> "NONE", content |-> <<>>,
                                 stored |-> <<>>, whole |-> TRUE])
      /\ UNCHANGED cursor

(* One call of File::Write; its status is ignored.                         *)
Write ==
  /\ phase \in {"ready", "closing"} /\ todo # <<>>
  /\ medium' = [medium EXCEPT !.file = Written(Head(todo))]
  /\ refused' = (refused \/ medium'.file.pos # medium.file.pos + Len(Head(todo)))
  /\ todo' = Tail(todo)
  /\ UNCHANGED <<headers, currOffset, sizeOfCD, phase, cursor, added>>

\* Mutant: the record is written first.
DirectoryLast ==
  LET record == Bytes(End(sizeOfCD, currOffset))
  IN  [k \in 1 .. 2 * Len(headers) + 2 |->
         IF k = 1 THEN SubSeq(record, 1, SignatureSize)
         ELSE IF k = 2 THEN SubSeq(record, SignatureSize + 1, EndSize)
         ELSE LET h == headers[(k - 1) \div 2]
              IN  Bytes(IF k % 2 = 1 THEN Central(h) ELSE Name(h))]

(* ~ZipWriter: a header and a name for each entry, and the record, field   *)
(* by field: its signature, and the rest taken as one.                     *)
Directory ==
  LET record == Bytes(End(sizeOfCD, currOffset))
      last == 2 * Len(headers) + 2
  IN  [k \in 1 .. last |->
         IF k = last - 1 THEN SubSeq(record, 1, SignatureSize)
         ELSE IF k = last THEN SubSeq(record, SignatureSize + 1, EndSize)
         ELSE LET h == headers[(k + 1) \div 2]
              IN  Bytes(IF k % 2 = 1 THEN Central(h) ELSE Name(h))]

Destroy ==
  /\ Idle
  /\ phase' = "closing"
  /\ todo' = Directory
  /\ UNCHANGED <<medium, refused, headers, currOffset, sizeOfCD, cursor, added>>

(* The destructor is through: it neither flushes nor closes the file.      *)
Close ==
  /\ phase = "closing" /\ todo = <<>>
  /\ phase' = "written"
  /\ UNCHANGED <<medium, refused, headers, currOffset, sizeOfCD, todo, cursor, added>>

(* The last File on it goes, and with it the stream.                       *)
Release ==
  /\ phase = "written"
  /\ phase' = "closed"
  /\ UNCHANGED <<medium, refused, headers, currOffset, sizeOfCD, todo, cursor, added>>

(* The program stops before that.  Of a stdio file, whose writes are       *)
(* buffered, a beginning has reached the disk.  A file in memory may be    *)
(* opened by a reader all the same.                                        *)
Stop ==
  /\ phase \in {"ready", "closing", "written"}
  /\ \E k \in 0 .. Len(Archive) :
       /\ medium.kind = "memory" => k = Len(Archive)
       /\ medium' = [medium EXCEPT !.file.data = Std!Slice(Archive, 0, k)]
  /\ phase' = "stopped"
  /\ UNCHANGED <<refused, headers, currOffset, sizeOfCD, todo, cursor, added>>

WriterNext ==
  \/ \E path \in FilePaths, s \in Sources, method \in Methods : AddFile(path, s, method)
  \/ \E s \in Sources : AddFileFails(s)
  \/ \E path \in DirPaths : CreateDirectory(path)
  \/ Write
  \/ Destroy
  \/ Close
  \/ Release
  \/ Stop
=============================================================================

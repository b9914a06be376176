--------------------------- MODULE SharedArchive ---------------------------
(***************************************************************************)
(* Members of an opened archive, used by several threads.  A stored member *)
(* is a SubFile: a window [Offset, Offset + Size) on the one stream of the *)
(* archive, with a cursor of its own (m_pointer).  Loading a whole member  *)
(* (ZipReader::OpenFile of a compressed member, or the overload with an    *)
(* allocator) reads the same stream.  Every access is "lock the mutex of   *)
(* the archive, move the stream's cursor, transfer, unlock".               *)
(*                                                                         *)
(* m_pointer is read before the lock and again, more than once, under it;  *)
(* SubFile::SetPosition writes it and StdFile::GetSize moves the stream's  *)
(* cursor with no lock at all.  Each such access is a step of its own.     *)
(***************************************************************************)
EXTENDS StdFile

CONSTANTS
  Threads, NoThread,   \* callers; the owner of a free mutex
  Handles, NoHandle,   \* SubFile objects
  Members, NoMember,   \* members of the archive
  Packed,              \* the compressed ones: OpenFile decodes them into memory
  Offset, Size,        \* place of a member's bytes in the archive
  Image,               \* the archive, byte by byte
  NewByte,             \* what writers write
  Users,               \* [Handles -> SUBSET Threads]: who calls on a handle
  Counts,              \* byte counts asked for, and positions sought
  Ops,                 \* the calls the threads make
  Lockable,            \* the archive was opened with lockable = true
  Writable             \* ... and with a mode that can write

ASSUME ActorsAssumption ==
  /\ NoThread \notin Threads
  /\ NoHandle \notin Handles
  /\ NoMember \notin Members
  /\ Users \in [Handles -> SUBSET Threads]

ASSUME LayoutAssumption ==
  /\ Offset \in [Members -> Nat]
  /\ Size \in [Members -> Nat]
  /\ Image \in Seq(Int)
  /\ NewByte \in Int
  /\ Packed \subseteq Members
  /\ \A m \in Members : Offset[m] + Size[m] <= Len(Image)
  /\ Counts \subseteq Nat /\ Counts # {}

ASSUME ModeAssumption ==
  /\ Ops \subseteq {"open", "read", "write", "seek", "extract", "getsize"}
  /\ Lockable \in BOOLEAN
  /\ Writable \in BOOLEAN

VARIABLES
  file,      \* the archive's stream (StdFile::m_file)
  bytes,     \* what the archive holds on disk
  mutex,     \* LStdFile's mutex
  member,    \* what each handle is a window on
  pointer,   \* SubFile::m_pointer
  pc,        \* where each thread is
  call,      \* the call it is in: operation, handle, member, byte count
  moved,     \* what the parent's ReadData or WriteData returned to it
  result,    \* what its last call returned
  crashed    \* a null mutex was locked, or found by an assertion

archiveVars == <<file, bytes, mutex>>
handleVars  == <<member, pointer>>
threadVars  == <<pc, call, moved>>
vars == <<archiveVars, handleVars, threadVars, result, crashed>>

Call(op, h, m, n) == [op |-> op, h |-> h, m |-> m, n |-> n]
NoCall == Call("none", NoHandle, NoMember, 0)

Moved(n, data, failed, eof) ==
  [n |-> n, data |-> data, failed |-> failed, eof |-> eof]
NothingMoved == Moved(0, <<>>, FALSE, FALSE)

Returned(failed, eof, data) == [failed |-> failed, eof |-> eof, data |-> data]

Init ==
  /\ file = Rewound
  /\ bytes = Image
  /\ mutex = NoThread
  /\ member = [h \in Handles |-> NoMember]
  /\ pointer = [h \in Handles |-> 0]
  /\ pc = [t \in Threads |-> "idle"]
  /\ call = [t \in Threads |-> NoCall]
  /\ moved = [t \in Threads |-> NothingMoved]
  /\ result = [t \in Threads |-> Returned(FALSE, FALSE, <<>>)]
  /\ crashed = FALSE

(***************************************************************************)
(* Where a transfer starts in the archive, and how long it is: std::min    *)
(* (m_pointer + size, m_size) - m_pointer for a window, the whole member   *)
(* for a load.                                                             *)
(***************************************************************************)
\* Mutant: the request is not cut at the end of the window.
ClippedNot(p, n, size) == n

\* Mutant: the subtraction is the wrong way round.
ClippedReversed(p, n, size) == p - (IF p + n <= size THEN p + n ELSE size)

Clipped(p, n, size) == (IF p + n <= size THEN p + n ELSE size) - p

Target(t) ==
  Offset[call[t].m] + (IF call[t].op = "extract" THEN 0 ELSE pointer[call[t].h])

Wanted(t) ==
  IF call[t].op = "extract" THEN Size[call[t].m]
  ELSE Clipped(pointer[call[t].h], call[t].n, Size[call[t].m])

Enter(t, c) ==
  /\ pc' = [pc EXCEPT ![t] = "enter"]
  /\ call' = [call EXCEPT ![t] = c]

Idle(t) == ~crashed /\ pc[t] = "idle"

(***************************************************************************)
(* Calls.                                                                  *)
(***************************************************************************)
(* SubFile's constructor: a window with its cursor at the start.  It       *)
(* asserts that the archive has a mutex: where it has none the program     *)
(* stops, or (a build without assertions) the window opens all the same.   *)
Construct(h, m) ==
  \/ /\ member' = [member EXCEPT ![h] = m]
     /\ pointer' = [pointer EXCEPT ![h] = 0]
     /\ UNCHANGED crashed
  \/ ~Lockable /\ crashed' = TRUE /\ UNCHANGED handleVars

(* ZipReader::OpenFile of a stored member: a window, nothing is read.      *)
OpenStored(t, h, m) ==
  /\ "open" \in Ops /\ Idle(t) /\ t \in Users[h]
  /\ member[h] = NoMember
  /\ m \in Members \ Packed
  /\ Construct(h, m)
  /\ UNCHANGED <<archiveVars, threadVars, result>>

(* ReadData or WriteData on a window whose cursor is at its end: no lock.  *)
AtEnd(t, h, op) ==
  /\ op \in Ops /\ Idle(t) /\ t \in Users[h]
  /\ member[h] # NoMember
  /\ pointer[h] >= Size[member[h]]
  /\ result' = [result EXCEPT ![t] = Returned(FALSE, TRUE, <<>>)]
  /\ UNCHANGED <<archiveVars, handleVars, threadVars, crashed>>

(* ReadData or WriteData that found its cursor inside the window.          *)
Inside(t, h, op, n) ==
  /\ op \in Ops /\ Idle(t) /\ t \in Users[h]
  /\ member[h] # NoMember
  /\ pointer[h] < Size[member[h]]
  /\ Enter(t, Call(op, h, member[h], n))
  /\ UNCHANGED <<archiveVars, handleVars, moved, result, crashed>>

(* SubFile::SetPosition: clamps, under no lock.                            *)
SeekHandle(t, h, p) ==
  /\ "seek" \in Ops /\ Idle(t) /\ t \in Users[h]
  /\ member[h] # NoMember
  /\ pointer' = [pointer EXCEPT ![h] =
                   IF p <= Size[member[h]] THEN p ELSE Size[member[h]]]
  /\ UNCHANGED <<archiveVars, member, threadVars, result, crashed>>

(* OpenFile of a compressed member, or OpenFile(path, alloc).              *)
Extract(t, m) ==
  /\ "extract" \in Ops /\ Idle(t)
  /\ Enter(t, Call("extract", NoHandle, m, 0))
  /\ UNCHANGED <<archiveVars, handleVars, moved, result, crashed>>

(***************************************************************************)
(* The critical section.                                                   *)
(***************************************************************************)
\* Mutant: the guard object is dropped.
LockNobody(t) ==
  /\ ~crashed /\ pc[t] = "enter"
  /\ pc' = [pc EXCEPT ![t] = "seek"]
  /\ UNCHANGED <<archiveVars, handleVars, call, moved, result, crashed>>

Lock(t) ==
  /\ ~crashed /\ pc[t] = "enter"
  /\ Lockable
  /\ mutex = NoThread
  /\ mutex' = t
  /\ pc' = [pc EXCEPT ![t] = "seek"]
  /\ UNCHANGED <<file, bytes, handleVars, call, moved, result, crashed>>

(* LockGuard dereferences GetMutex(), which is null unless the archive was *)
(* opened lockable: the program stops, or goes on with no lock (the        *)
(* repository's CMakeLists.txt links no thread library, and std::mutex of  *)
(* a program without one does not touch the mutex: there alone the test    *)
(* "OpenZIP", which opens its archive that way, can pass).                 *)
LockNull(t) ==
  /\ ~crashed /\ pc[t] = "enter"
  /\ ~Lockable
  /\ \/ crashed' = TRUE /\ UNCHANGED pc
     \/ pc' = [pc EXCEPT ![t] = "seek"] /\ UNCHANGED crashed
  /\ UNCHANGED <<archiveVars, handleVars, call, moved, result>>

\* Mutant: the member's offset is forgotten.
SeekParentNoOffset(t) ==
  /\ ~crashed /\ pc[t] = "seek"
  /\ file' = SetPosition(file, Target(t) - Offset[call[t].m])
  /\ pc' = [pc EXCEPT ![t] = "transfer"]
  /\ UNCHANGED <<bytes, mutex, handleVars, call, moved, result, crashed>>

SeekParent(t) ==
  /\ ~crashed /\ pc[t] = "seek"
  /\ file' = SetPosition(file, Target(t))
  /\ pc' = [pc EXCEPT ![t] = "transfer"]
  /\ UNCHANGED <<bytes, mutex, handleVars, call, moved, result, crashed>>

(* fread of the part of the request that lies in the window.               *)
ReadParent(t) ==
  /\ ~crashed /\ pc[t] = "transfer" /\ call[t].op # "write"
  /\ LET k == Available(file.pos, Len(bytes), Wanted(t))
     IN  moved' = [moved EXCEPT ![t] =
           Moved(k, Slice(bytes, file.pos, k), file.err,
                 ReadData(file, Len(bytes), Wanted(t)).eof)]
  /\ file' = ReadData(file, Len(bytes), Wanted(t))
  /\ pc' = [pc EXCEPT ![t] = "return"]
  /\ UNCHANGED <<bytes, mutex, handleVars, call, result, crashed>>

(* fwrite; m_pointer will advance by what was asked, written or not.       *)
WriteParent(t) ==
  /\ ~crashed /\ pc[t] = "transfer" /\ call[t].op = "write"
  /\ file' = WriteData(file, Wanted(t), Writable)
  /\ bytes' = [i \in 1..Len(bytes) |->
                 IF Writable /\ i \in file.pos + 1 .. file.pos + Wanted(t)
                 THEN NewByte ELSE bytes[i]]
  /\ moved' = [moved EXCEPT ![t] = Moved(Wanted(t), <<>>, file'.err, FALSE)]
  /\ pc' = [pc EXCEPT ![t] = "return"]
  /\ UNCHANGED <<mutex, handleVars, call, result, crashed>>

\* Mutant: the mutex is not released.
LeaveLocked(t, r) ==
  /\ pc' = [pc EXCEPT ![t] = "idle"]
  /\ call' = [call EXCEPT ![t] = NoCall]
  /\ moved' = [moved EXCEPT ![t] = NothingMoved]
  /\ result' = [result EXCEPT ![t] = r]
  /\ UNCHANGED mutex

Leave(t, r) ==
  /\ mutex' = IF mutex = t THEN NoThread ELSE mutex
  /\ pc' = [pc EXCEPT ![t] = "idle"]
  /\ call' = [call EXCEPT ![t] = NoCall]
  /\ moved' = [moved EXCEPT ![t] = NothingMoved]
  /\ result' = [result EXCEPT ![t] = r]

(* End-of-file compares the cursor, by then advanced, plus the request     *)
(* with the size of the window.                                            *)
PastEnd(t) == pointer[call[t].h] + moved[t].n + call[t].n > Size[call[t].m]

\* Mutant: the cursor advances by what was asked for.
AdvanceByRequest(t) ==
  pointer' = [pointer EXCEPT ![call[t].h] = pointer[call[t].h] + call[t].n]

Advance(t) ==
  pointer' = [pointer EXCEPT ![call[t].h] = pointer[call[t].h] + moved[t].n]

ReturnRead(t) ==
  /\ ~crashed /\ pc[t] = "return" /\ call[t].op = "read"
  /\ Advance(t)
  /\ Leave(t, Returned(moved[t].failed, moved[t].eof \/ PastEnd(t), moved[t].data))
  /\ UNCHANGED <<file, bytes, member, crashed>>

ReturnWrite(t) ==
  /\ ~crashed /\ pc[t] = "return" /\ call[t].op = "write"
  /\ Advance(t)
  /\ Leave(t, Returned(moved[t].failed \/ PastEnd(t), PastEnd(t), <<>>))
  /\ UNCHANGED <<file, bytes, member, crashed>>

(* The lock is released and the bytes are decoded.  The decoder accepts    *)
(* the member's own bytes; on others it may or may not notice.  The status *)
(* of the read is ignored.                                                 *)
ReturnExtract(t) ==
  /\ ~crashed /\ pc[t] = "return" /\ call[t].op = "extract"
  /\ \E accepted \in BOOLEAN :
       /\ ( \/ call[t].m \notin Packed
            \/ moved[t].data = Slice(Image, Offset[call[t].m], Size[call[t].m]) )
          => accepted
       /\ Leave(t, Returned(~accepted, FALSE, IF accepted THEN moved[t].data ELSE <<>>))
  /\ UNCHANGED <<file, bytes, handleVars, crashed>>

(***************************************************************************)
(* GetSize of the archive's own File: remembers the stream's cursor, moves *)
(* it to the end, reads it, puts it back.  No lock is taken.               *)
(***************************************************************************)
GetSizeTell(t) ==
  /\ "getsize" \in Ops /\ Idle(t)
  /\ pc' = [pc EXCEPT ![t] = "toEnd"]
  /\ call' = [call EXCEPT ![t] = Call("getsize", NoHandle, NoMember, file.pos)]
  /\ UNCHANGED <<archiveVars, handleVars, moved, result, crashed>>

GetSizeToEnd(t) ==
  /\ ~crashed /\ pc[t] = "toEnd"
  /\ file' = SetPosition(file, Len(bytes))
  /\ pc' = [pc EXCEPT ![t] = "restore"]
  /\ UNCHANGED <<bytes, mutex, handleVars, call, moved, result, crashed>>

GetSizeRestore(t) ==
  /\ ~crashed /\ pc[t] = "restore"
  /\ file' = SetPosition(file, call[t].n)
  /\ pc' = [pc EXCEPT ![t] = "idle"]
  /\ call' = [call EXCEPT ![t] = NoCall]
  /\ UNCHANGED <<bytes, mutex, handleVars, moved, result, crashed>>

(***************************************************************************)
(* The specification.                                                      *)
(***************************************************************************)
Begin(t) ==
  \/ \E h \in Handles, m \in Members : OpenStored(t, h, m)
  \/ \E h \in Handles, op \in {"read", "write"} : AtEnd(t, h, op)
  \/ \E h \in Handles, op \in {"read", "write"}, n \in Counts : Inside(t, h, op, n)
  \/ \E h \in Handles, p \in Counts : SeekHandle(t, h, p)
  \/ \E m \in Members : Extract(t, m)
  \/ GetSizeTell(t)

Locked(t) ==
  \/ SeekParent(t)
  \/ ReadParent(t)
  \/ WriteParent(t)
  \/ ReturnRead(t)
  \/ ReturnWrite(t)
  \/ ReturnExtract(t)

Continue(t) ==
  \/ LockNull(t)
  \/ Locked(t)
  \/ GetSizeToEnd(t)
  \/ GetSizeRestore(t)

Next == \E t \in Threads : Begin(t) \/ Lock(t) \/ Continue(t)

Spec == Init /\ [][Next]_vars

(***************************************************************************)
(* A thread inside a call keeps running (weak fairness); a thread that     *)
(* waits for the mutex while it is released again and again gets it        *)
(* (strong fairness: what an operating system's mutex gives in practice).  *)
(***************************************************************************)
FairSpec ==
  /\ Spec
  /\ \A t \in Threads : WF_vars(Continue(t)) /\ SF_vars(Lock(t))

(***************************************************************************)
(* Properties.                                                             *)
(***************************************************************************)
States == {"idle", "enter", "seek", "transfer", "return", "toEnd", "restore"}

Calls == [op : {"none", "read", "write", "extract", "getsize"},
          h : Handles \cup {NoHandle}, m : Members \cup {NoMember}, n : Nat]

(* The types of the variables.                                             *)
TypeOK ==
  /\ file \in Stream
  /\ bytes \in Seq(Int)
  /\ Len(bytes) = Len(Image)
  /\ mutex \in Threads \cup {NoThread}
  /\ member \in [Handles -> Members \cup {NoMember}]
  /\ pointer \in [Handles -> Nat]
  /\ pc \in [Threads -> States]
  /\ call \in [Threads -> Calls]
  /\ moved \in [Threads -> [n : Nat, data : Seq(Int), failed : BOOLEAN, eof : BOOLEAN]]
  /\ result \in [Threads -> [failed : BOOLEAN, eof : BOOLEAN, data : Seq(Int)]]
  /\ crashed \in BOOLEAN

InSection(t) == pc[t] \in {"seek", "transfer", "return"}

(* Between the seek and the transfer of a call nobody moves the stream:    *)
(* the transfer starts where the call's window and cursor say (SubFile.cpp *)
(* 38-43, 50-58; ZipArchive.cpp 162-166).                                  *)
CursorIsOurs ==
  \A t \in Threads : pc[t] = "transfer" => file.pos = Target(t)

(* What a call carries out of the critical section are the bytes a file    *)
(* that holds just its member would have given it: all of them for a load; *)
(* for a read those from the position its cursor still has, as many as it  *)
(* asked for or as there are (README.md:12: content is accessible "as if"  *)
(* the archive was unpacked).                                              *)
Due(t) ==
  LET m == call[t].m
      p == pointer[call[t].h]
  IN  IF call[t].op = "extract" THEN Slice(bytes, Offset[m], Size[m])
      ELSE Slice(bytes, Offset[m] + p, Available(p, Size[m], call[t].n))

OwnBytes ==
  \A t \in Threads :
    pc[t] = "return" /\ call[t].op # "write" =>
      moved[t].data = Due(t) /\ moved[t].n = Len(Due(t))

(* A cursor never leaves its window, whatever the handle's users do.       *)
PointerInWindow ==
  \A h \in Handles : member[h] # NoMember => pointer[h] <= Size[member[h]]

(* A byte that changes was written by a thread that is in a write, through *)
(* the window of the handle it was called on, at that handle's cursor: no  *)
(* further than it asked for, and not behind the window's end.             *)
Reaches(t, i) ==
  LET h == call[t].h
      m == member[h]
  IN  /\ m # NoMember
      /\ i > Offset[m] + pointer[h]
      /\ i <= Offset[m] + pointer[h] + call[t].n
      /\ i <= Offset[m] + Size[m]

WritesStayInside ==
  [][\A i \in 1..Len(bytes) : bytes'[i] # bytes[i] =>
       \E t \in Threads : /\ pc[t] = "transfer" /\ pc'[t] = "return"
                          /\ call[t].op = "write"
                          /\ Reaches(t, i)]_vars

(* Members accessed through windows behave as files of their own           *)
(* (README.md:12), but for what UnpackedMembers says they share.  A read   *)
(* and a load take effect when they return, a write when its bytes reach   *)
(* the archive or are refused: from then on its handle is past them.       *)
Content == [m \in Members |-> Slice(Image, Offset[m], Size[m])]

ContentNow == [m \in Members |-> Slice(bytes, Offset[m], Size[m])]

Wrote(t) == pc[t] = "return" /\ call[t].op = "write"

CursorNow ==
  [h \in Handles |->
     IF \E t \in Threads : Wrote(t) /\ call[t].h = h
     THEN pointer[h] + moved[CHOOSE t \in Threads : Wrote(t) /\ call[t].h = h].n
     ELSE pointer[h]]

ResultNow ==
  [t \in Threads |->
     IF Wrote(t) THEN Returned(moved[t].failed \/ PastEnd(t), PastEnd(t), <<>>)
     ELSE result[t]]

Unpacked == INSTANCE UnpackedMembers
              WITH Original <- Content, content <- ContentNow,
                   cursor <- CursorNow, result <- ResultNow, refused <- file.err

UnpackedSpec == Unpacked!Spec

(* README.md:53: end-of-file is "generated only when reading beyond end of *)
(* file", so a read that got all it asked for must not report it, and a    *)
(* write that stored all it was given, which reads nothing, even less.     *)
EofOnlyBeyondEnd ==
  [][\A t \in Threads :
       /\ pc[t] = "return" /\ pc'[t] = "idle" /\ call[t].op \in {"read", "write"}
       /\ moved[t].n = call[t].n
       => ~result'[t].eof]_vars

(* Every call on a member returns: the mutex of the archive is released on *)
(* every path out of the critical section, and no thread waits for itself. *)
CallsReturn == \A t \in Threads : pc[t] # "idle" ~> pc[t] = "idle"
=============================================================================

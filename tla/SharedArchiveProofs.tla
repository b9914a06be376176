------------------------ MODULE SharedArchiveProofs ------------------------
(***************************************************************************)
(* For every archive, every number of threads and handles: as long as the  *)
(* archive is opened lockable and its own size is not asked for, or there  *)
(* is one thread, and a handle whose cursor is moved by hand is used by    *)
(* one thread, no transfer leaves its window, and members behave as        *)
(* UnpackedMembers says (where the archive can be written, if no two of    *)
(* them overlap).                                                          *)
(***************************************************************************)
EXTENDS SharedArchive, SequenceTheorems, TLAPS

(* The setting of the theorems.                                            *)
Private == \A h \in Handles : \A t, u \in Users[h] : t = u

Alone == \A t, u \in Threads : t = u

Setting ==
  /\ Alone \/ (Lockable /\ "getsize" \notin Ops)
  /\ "seek" \in Ops => Private

(***************************************************************************)
(* The inductive invariant.                                                *)
(***************************************************************************)
(* The thread that holds the mutex, where there is one, is the one in the  *)
(* critical section.                                                       *)
Exclusive ==
  IF Lockable THEN \A t \in Threads : InSection(t) <=> mutex = t
              ELSE mutex = NoThread

(* A thread in a call transfers, through a window it may use or a whole    *)
(* member, or asks for the size of the archive.                            *)
Working(t) == pc[t] \in {"enter", "seek", "transfer", "return"}

Transferring(t) ==
  /\ Working(t)
  /\ call[t].op \in {"read", "write", "extract"}
  /\ call[t].op \in Ops
  /\ call[t].m \in Members
  /\ call[t].op # "extract" =>
       /\ call[t].h \in Handles
       /\ t \in Users[call[t].h]
       /\ member[call[t].h] = call[t].m
       /\ call[t].m \notin Packed
       /\ call[t].n \in Counts

Sizes(t) == pc[t] \in {"toEnd", "restore"} /\ "getsize" \in Ops /\ call[t].op = "getsize"

Engaged == \A t \in Threads : pc[t] # "idle" => Transferring(t) \/ Sizes(t)

(* What a read or load carries is what lies where it was sent.             *)
Carries ==
  \A t \in Threads :
    pc[t] = "return" /\ call[t].op # "write" =>
      /\ moved[t].n = Wanted(t)
      /\ moved[t].data = Slice(bytes, Target(t), Wanted(t))

(* What a write has moved is what its window let it move.                  *)
Clips == \A t \in Threads : Wrote(t) => moved[t].n = Wanted(t)

(* Windows are opened on stored members.                                   *)
Opened == \A h \in Handles : member[h] \notin Packed

IInv ==
  /\ TypeOK
  /\ Exclusive
  /\ Engaged
  /\ Opened
  /\ PointerInWindow
  /\ CursorIsOurs
  /\ Carries
  /\ Clips

(***************************************************************************)
(* Windows and slices.                                                     *)
(***************************************************************************)
(* A slice that lies in a sequence of integers is a sequence of integers.  *)
LEMMA SliceType ==
  ASSUME NEW b \in Seq(Int), NEW from \in Nat, NEW n \in Nat, from + n <= Len(b)
  PROVE  /\ Slice(b, from, n) \in Seq(Int)
         /\ Len(Slice(b, from, n)) = n
         /\ \A i \in 1..n : Slice(b, from, n)[i] = b[from + i]
<1>1. \A i \in 1..n : b[from + i] \in Int
  OBVIOUS
<1>2. Slice(b, from, n) \in [1..n -> Int]
  BY <1>1 DEF Slice
<1> QED
  BY <1>2 DEF Slice

(* A slice of a slice is a slice.                                          *)
LEMMA SliceOfSlice ==
  ASSUME NEW b \in Seq(Int), NEW from \in Nat, NEW n \in Nat, from + n <= Len(b),
         NEW p \in Nat, NEW k \in Nat, p + k <= n
  PROVE  Slice(Slice(b, from, n), p, k) = Slice(b, from + p, k)
<1>1. \A i \in 1..k : p + i \in 1..n /\ from + (p + i) = (from + p) + i
  OBVIOUS
<1> QED
  BY <1>1 DEF Slice

(* std::min(p + n, size) - p is what a file of that size has at p.         *)
LEMMA ClippedIsAvailable ==
  ASSUME NEW p \in Nat, NEW n \in Nat, NEW size \in Nat, p <= size
  PROVE  /\ Clipped(p, n, size) \in Nat
         /\ p + Clipped(p, n, size) <= size
         /\ Clipped(p, n, size) = Available(p, size, n)
  BY DEF Clipped, Available

(* A transfer fits in its window, and the window in the archive.           *)
LEMMA WantedType ==
  ASSUME IInv, NEW t \in Threads, Working(t)
  PROVE  /\ Target(t) \in Nat
         /\ Wanted(t) \in Nat
         /\ Target(t) + Wanted(t) <= Len(bytes)
         /\ call[t].op # "extract" =>
              /\ pointer[call[t].h] + Wanted(t) <= Size[call[t].m]
              /\ Wanted(t) = Available(pointer[call[t].h], Size[call[t].m], call[t].n)
              /\ Target(t) = Offset[call[t].m] + pointer[call[t].h]
<1>1. Transferring(t)
  BY DEF IInv, Engaged, Working, Sizes
<1>2. /\ call[t].m \in Members
      /\ call[t].n \in Nat
      /\ Offset[call[t].m] \in Nat
      /\ Size[call[t].m] \in Nat
      /\ Offset[call[t].m] + Size[call[t].m] <= Len(bytes)
  BY <1>1, LayoutAssumption DEF IInv, Transferring, TypeOK, Calls
<1>3. CASE call[t].op = "extract"
  BY <1>2, <1>3 DEF Target, Wanted
<1>4. CASE call[t].op # "extract"
  <2>1. pointer[call[t].h] \in Nat /\ pointer[call[t].h] <= Size[call[t].m]
    BY <1>1, <1>2, <1>4, ActorsAssumption DEF IInv, Transferring, TypeOK, PointerInWindow
  <2>2. /\ Wanted(t) = Clipped(pointer[call[t].h], call[t].n, Size[call[t].m])
        /\ Target(t) = Offset[call[t].m] + pointer[call[t].h]
    BY <1>4 DEF Target, Wanted
  <2>3. /\ Wanted(t) \in Nat
        /\ pointer[call[t].h] + Wanted(t) <= Size[call[t].m]
        /\ Wanted(t) = Available(pointer[call[t].h], Size[call[t].m], call[t].n)
    <3> DEFINE p == pointer[call[t].h]
               n == call[t].n
               size == Size[call[t].m]
    <3>1. p \in Nat /\ n \in Nat /\ size \in Nat /\ p <= size
      BY <1>2, <2>1
    <3> HIDE DEF p, n, size
    <3>2. /\ Clipped(p, n, size) \in Nat
          /\ p + Clipped(p, n, size) <= size
          /\ Clipped(p, n, size) = Available(p, size, n)
      BY <3>1, ClippedIsAvailable
    <3> QED
      BY <2>2, <3>2 DEF p, n, size
  <2>4. Len(bytes) \in Nat
    BY DEF IInv, TypeOK
  <2>5. Target(t) \in Nat /\ Target(t) + Wanted(t) <= Len(bytes)
    BY <1>2, <2>1, <2>2, <2>3, <2>4
  <2> QED
    BY <2>2, <2>3, <2>5
<1> QED
  BY <1>3, <1>4

(* There is never a second thread in the critical section, or one that     *)
(* moves the stream with no lock while another is in it.                   *)
LEMMA OneBusy ==
  ASSUME Setting, IInv, NEW t \in Threads, NEW u \in Threads,
         InSection(t), InSection(u) \/ Sizes(u)
  PROVE  t = u
<1>1. CASE Alone
  BY <1>1 DEF Alone
<1>2. CASE Lockable /\ "getsize" \notin Ops
  BY <1>2 DEF IInv, Exclusive, Sizes
<1> QED
  BY <1>1, <1>2 DEF Setting

(***************************************************************************)
(* The invariant is inductive.                                             *)
(***************************************************************************)
LEMMA InitIInv == Init => IInv
<1> SUFFICES ASSUME Init PROVE IInv
  OBVIOUS
<1>1. TypeOK
  <2>1. file \in Stream
    BY DEF Init, Rewound, Stream
  <2>2. bytes \in Seq(Int) /\ Len(bytes) = Len(Image)
    BY LayoutAssumption DEF Init
  <2>3. call \in [Threads -> Calls]
    BY DEF Init, NoCall, Call, Calls
  <2>4. moved \in [Threads -> [n : Nat, data : Seq(Int), failed : BOOLEAN, eof : BOOLEAN]]
    BY DEF Init, NothingMoved, Moved
  <2>5. result \in [Threads -> [failed : BOOLEAN, eof : BOOLEAN, data : Seq(Int)]]
    BY DEF Init, Returned
  <2> QED
    BY <2>1, <2>2, <2>3, <2>4, <2>5 DEF Init, TypeOK, States
<1>2. Exclusive
  BY ActorsAssumption DEF Init, Exclusive, InSection
<1>3. Engaged /\ CursorIsOurs /\ Carries /\ Clips
  BY DEF Init, Engaged, CursorIsOurs, Carries, Clips, Wrote
<1>4. PointerInWindow /\ Opened
  BY ActorsAssumption, LayoutAssumption DEF Init, PointerInWindow, Opened
<1> QED
  BY <1>1, <1>2, <1>3, <1>4 DEF IInv

(* What no other call sees: the places of its transfer stay.               *)
Undisturbed(t) ==
  \A u \in Threads : u # t /\ Working(u) => Target(u)' = Target(u) /\ Wanted(u)' = Wanted(u)

(* Opening a window puts its cursor at the start.                          *)
LEMMA OpenStoredIInv ==
  ASSUME Setting, IInv, NEW t \in Threads, NEW h \in Handles, NEW m \in Members,
         OpenStored(t, h, m)
  PROVE  IInv'
<1> USE DEF IInv, OpenStored, Construct, Idle, archiveVars, handleVars, threadVars
<1>1. TypeOK'
  <2>1. /\ member' \in [Handles -> Members \cup {NoMember}]
        /\ pointer' \in [Handles -> Nat]
        /\ crashed' \in BOOLEAN
    <3>1. CASE member' = [member EXCEPT ![h] = m] /\ pointer' = [pointer EXCEPT ![h] = 0]
               /\ crashed' = crashed
      <4> HIDE DEF OpenStored, Construct
      <4> QED
        BY <3>1 DEF TypeOK
    <3>2. CASE crashed' = TRUE /\ member' = member /\ pointer' = pointer
      BY <3>2 DEF TypeOK
    <3> QED
      BY <3>1, <3>2
  <2>2. UNCHANGED <<file, bytes, mutex, pc, call, moved, result>>
    OBVIOUS
  <2> HIDE DEF OpenStored, Construct
  <2> QED
    BY <2>1, <2>2 DEF TypeOK
<1>2. Exclusive' /\ Opened'
  BY DEF Exclusive, InSection, Opened, TypeOK
<1>3. Engaged'
  BY ActorsAssumption DEF Engaged, Transferring, Working, Sizes, TypeOK
<1>4. PointerInWindow'
  BY LayoutAssumption DEF PointerInWindow, TypeOK
<1>5. Undisturbed(t)
  BY ActorsAssumption DEF Undisturbed, Engaged, Transferring, Working, Sizes, TypeOK, Target,
                          Wanted
<1>6. CursorIsOurs' /\ Carries' /\ Clips'
  BY <1>5 DEF CursorIsOurs, Carries, Clips, Wrote, Undisturbed, Working
<1> QED
  BY <1>1, <1>2, <1>3, <1>4, <1>6

(* A call at the end of its window changes no more than its result.        *)
LEMMA AtEndIInv ==
  ASSUME Setting, IInv, NEW t \in Threads, NEW h \in Handles, NEW op, AtEnd(t, h, op)
  PROVE  IInv'
<1> USE DEF IInv, AtEnd, archiveVars, handleVars, threadVars
<1>1. TypeOK'
  BY DEF TypeOK, Returned
<1> QED
  BY <1>1 DEF Exclusive, InSection, Engaged, Transferring, Working, Sizes, Opened,
              PointerInWindow, CursorIsOurs, Carries, Clips, Wrote, Target, Wanted

(* Entering a call: the thread is about to ask for the mutex.              *)
LEMMA InsideIInv ==
  ASSUME Setting, IInv, NEW t \in Threads, NEW h \in Handles, NEW op \in {"read", "write"},
         NEW n \in Counts, Inside(t, h, op, n)
  PROVE  IInv'
<1> USE DEF IInv, Inside, Enter, Call, Idle, archiveVars, handleVars
<1>1. Call(op, h, member[h], n) \in Calls
  BY LayoutAssumption DEF TypeOK, Calls
<1>2. TypeOK'
  BY <1>1 DEF TypeOK, States
<1>3. Exclusive' /\ PointerInWindow' /\ Opened'
  BY DEF Exclusive, InSection, PointerInWindow, Opened, TypeOK
<1>4. Engaged'
  <2>1. Transferring(t)'
    BY DEF Transferring, Working, Opened, TypeOK
  <2>2. \A u \in Threads : u # t => pc'[u] = pc[u] /\ call'[u] = call[u]
    BY DEF TypeOK
  <2> QED
    BY <2>1, <2>2 DEF Engaged, Transferring, Working, Sizes
<1>5. Undisturbed(t)
  BY DEF Undisturbed, Target, Wanted, TypeOK
<1>6. CursorIsOurs' /\ Carries' /\ Clips'
  BY <1>5 DEF CursorIsOurs, Carries, Clips, Wrote, Undisturbed, Working, TypeOK
<1> QED
  BY <1>2, <1>3, <1>4, <1>6

LEMMA ExtractIInv ==
  ASSUME Setting, IInv, NEW t \in Threads, NEW m \in Members, Extract(t, m)
  PROVE  IInv'
<1> USE DEF IInv, Extract, Enter, Call, Idle, archiveVars, handleVars
<1>1. Call("extract", NoHandle, m, 0) \in Calls
  BY DEF Calls
<1>2. TypeOK'
  BY <1>1 DEF TypeOK, States
<1>3. Exclusive' /\ PointerInWindow' /\ Opened'
  BY DEF Exclusive, InSection, PointerInWindow, Opened, TypeOK
<1>4. Engaged'
  BY DEF Engaged, Transferring, Working, Sizes, TypeOK
<1>5. Undisturbed(t)
  BY DEF Undisturbed, Target, Wanted, TypeOK
<1>6. CursorIsOurs' /\ Carries' /\ Clips'
  BY <1>5 DEF CursorIsOurs, Carries, Clips, Wrote, Undisturbed, Working, TypeOK
<1> QED
  BY <1>2, <1>3, <1>4, <1>6

(* Moving a handle's cursor disturbs no call in progress: the only thread  *)
(* that uses the handle is the one that moves it.                          *)
LEMMA SoughtAlone ==
  ASSUME Setting, IInv, NEW t \in Threads, NEW h \in Handles, NEW p \in Counts,
         SeekHandle(t, h, p), NEW u \in Threads, Working(u), call[u].op # "extract"
  PROVE  call[u].h # h /\ u # t
  BY DEF Setting, Private, Alone, IInv, Engaged, Transferring, Working, Sizes, SeekHandle, Idle

LEMMA SeekHandleIInv ==
  ASSUME Setting, IInv, NEW t \in Threads, NEW h \in Handles, NEW p \in Counts,
         SeekHandle(t, h, p)
  PROVE  IInv'
<1>1. \A u \in Threads : Working(u) /\ call[u].op # "extract" => call[u].h # h
  BY SoughtAlone
<1> USE DEF IInv, SeekHandle, Idle, archiveVars, threadVars
<1>2. member[h] \in Members /\ Size[member[h]] \in Nat /\ p \in Nat
  BY LayoutAssumption DEF TypeOK
<1>3. TypeOK'
  BY <1>2 DEF TypeOK
<1>4. Exclusive' /\ Engaged' /\ Opened'
  BY DEF Exclusive, InSection, Engaged, Transferring, Working, Sizes, Opened
<1>5. PointerInWindow'
  BY <1>2 DEF PointerInWindow, TypeOK
<1>6. Undisturbed(t)
  BY <1>1 DEF Undisturbed, Engaged, Transferring, Working, Sizes, Target, Wanted, TypeOK
<1>7. CursorIsOurs' /\ Carries' /\ Clips'
  BY <1>6 DEF CursorIsOurs, Carries, Clips, Wrote, Undisturbed, Working
<1> QED
  BY <1>3, <1>4, <1>5, <1>7

LEMMA LockIInv ==
  ASSUME Setting, IInv, NEW t \in Threads, Lock(t)
  PROVE  IInv'
<1> USE DEF IInv, Lock, handleVars
<1>1. TypeOK'
  BY DEF TypeOK, States
<1>2. Exclusive'
  BY ActorsAssumption DEF Exclusive, InSection, TypeOK
<1>3. Engaged' /\ PointerInWindow' /\ Opened'
  BY DEF Engaged, Transferring, Working, Sizes, PointerInWindow, Opened, TypeOK
<1>4. CursorIsOurs' /\ Carries' /\ Clips'
  BY DEF CursorIsOurs, Carries, Clips, Wrote, Target, Wanted, TypeOK
<1> QED
  BY <1>1, <1>2, <1>3, <1>4

(* Without a mutex there is one thread, which goes on alone.               *)
LEMMA LockNullIInv ==
  ASSUME Setting, IInv, NEW t \in Threads, LockNull(t)
  PROVE  IInv'
<1> USE DEF IInv, LockNull, archiveVars, handleVars
<1>1. TypeOK'
  BY DEF TypeOK, States
<1>2. Exclusive' /\ PointerInWindow' /\ Opened'
  BY DEF Exclusive, PointerInWindow, Opened
<1>3. Engaged'
  BY DEF Engaged, Transferring, Working, Sizes, TypeOK
<1>4. CursorIsOurs' /\ Carries' /\ Clips'
  BY DEF CursorIsOurs, Carries, Clips, Wrote, Target, Wanted, TypeOK
<1> QED
  BY <1>1, <1>2, <1>3, <1>4

(* Between its seek and the end of its transfer a call has the stream.     *)
LEMMA SeekParentIInv ==
  ASSUME Setting, IInv, NEW t \in Threads, SeekParent(t)
  PROVE  IInv'
<1>1. \A u \in Threads : InSection(u) \/ Sizes(u) => u = t
  BY OneBusy DEF SeekParent, InSection
<1> USE DEF IInv, SeekParent, SetPosition, handleVars
<1>2. Target(t) \in Nat
  BY WantedType DEF Working
<1>3. TypeOK'
  BY <1>2 DEF TypeOK, States, Stream
<1>4. Exclusive'
  BY DEF Exclusive, InSection, TypeOK
<1>5. Engaged' /\ PointerInWindow' /\ Opened'
  BY DEF Engaged, Transferring, Working, Sizes, PointerInWindow, Opened, TypeOK
<1>6. \A u \in Threads : Target(u)' = Target(u) /\ Wanted(u)' = Wanted(u)
  BY DEF Target, Wanted
<1>7. file'.pos = Target(t)
  BY DEF TypeOK, Stream
<1>8. CursorIsOurs'
  BY <1>1, <1>6, <1>7 DEF CursorIsOurs, InSection, TypeOK
<1>9. Carries' /\ Clips'
  BY <1>6 DEF Carries, Clips, Wrote, TypeOK
<1> QED
  BY <1>3, <1>4, <1>5, <1>8, <1>9

(* The stream is where the call wants it, and the archive is long enough:  *)
(* the transfer is complete and nothing but the member is in it.           *)
LEMMA ReadsOwn ==
  ASSUME Setting, IInv, NEW t \in Threads, ReadParent(t)
  PROVE  /\ Target(t) \in Nat /\ Wanted(t) \in Nat
         /\ Slice(bytes, Target(t), Wanted(t)) \in Seq(Int)
         /\ file'.pos \in Nat /\ file' = [file EXCEPT !.pos = file'.pos, !.eof = file.eof]
         /\ moved' = [moved EXCEPT ![t] =
              Moved(Wanted(t), Slice(bytes, Target(t), Wanted(t)), file.err, file.eof)]
<1> USE DEF ReadParent
<1>1. /\ file.pos = Target(t)
      /\ Target(t) \in Nat /\ Wanted(t) \in Nat
      /\ Target(t) + Wanted(t) <= Len(bytes)
  BY WantedType DEF IInv, CursorIsOurs, Working
<1>2. Available(file.pos, Len(bytes), Wanted(t)) = Wanted(t)
  BY <1>1 DEF Available, IInv, TypeOK
<1> DEFINE eof == ReadData(file, Len(bytes), Wanted(t)).eof
<1>3. /\ file' = [file EXCEPT !.pos = Target(t) + Wanted(t), !.eof = file.eof]
      /\ eof = file.eof
  <2>1. ~(Wanted(t) < Wanted(t))
    BY <1>1
  <2>2. file.eof \in BOOLEAN
    BY DEF IInv, TypeOK, Stream
  <2>3. (file.eof \/ Wanted(t) < Wanted(t)) = file.eof
    BY <2>1, <2>2
  <2>4. ReadData(file, Len(bytes), Wanted(t))
          = [file EXCEPT !.pos = Target(t) + Wanted(t), !.eof = file.eof]
    BY <1>1, <1>2, <2>3 DEF ReadData
  <2> QED
    BY <2>4 DEF IInv, TypeOK, Stream
<1>4. Slice(bytes, Target(t), Wanted(t)) \in Seq(Int)
  BY <1>1, SliceType DEF IInv, TypeOK
<1>5. moved' = [moved EXCEPT ![t] =
        Moved(Wanted(t), Slice(bytes, Target(t), Wanted(t)), file.err, eof)]
  BY <1>1, <1>2
<1>7. file'.pos = Target(t) + Wanted(t)
  BY <1>3 DEF IInv, TypeOK, Stream
<1>8. moved' = [moved EXCEPT ![t] =
        Moved(Wanted(t), Slice(bytes, Target(t), Wanted(t)), file.err, file.eof)]
  <2> HIDE DEF eof, ReadParent
  <2> QED
    BY <1>3, <1>5
<1>9. file'.pos \in Nat /\ file' = [file EXCEPT !.pos = file'.pos, !.eof = file.eof]
  BY <1>1, <1>3, <1>7
<1> HIDE DEF eof, ReadParent
<1> QED
  BY <1>1, <1>4, <1>8, <1>9

LEMMA ReadParentIInv ==
  ASSUME Setting, IInv, NEW t \in Threads, ReadParent(t)
  PROVE  IInv'
<1>1. /\ Target(t) \in Nat /\ Wanted(t) \in Nat
      /\ Slice(bytes, Target(t), Wanted(t)) \in Seq(Int)
      /\ file'.pos \in Nat /\ file' = [file EXCEPT !.pos = file'.pos, !.eof = file.eof]
  BY ReadsOwn
<1>2. \A u \in Threads : InSection(u) => u = t
  BY OneBusy DEF ReadParent, InSection
<1>3. /\ pc[t] = "transfer" /\ call[t].op # "write"
      /\ pc' = [pc EXCEPT ![t] = "return"]
      /\ UNCHANGED <<bytes, mutex, handleVars, call, result, crashed>>
  BY DEF ReadParent
<1> DEFINE data == Slice(bytes, Target(t), Wanted(t))
<1>4. moved' = [moved EXCEPT ![t] = Moved(Wanted(t), data, file.err, file.eof)]
  BY ReadsOwn
<1> HIDE DEF data
<1> USE DEF IInv, handleVars
<1>5. TypeOK'
  <2>1. file' \in Stream
    BY <1>1 DEF TypeOK, Stream
  <2>2. moved' \in [Threads -> [n : Nat, data : Seq(Int), failed : BOOLEAN, eof : BOOLEAN]]
    <3>1. file.err \in BOOLEAN /\ file.eof \in BOOLEAN
      BY DEF TypeOK, Stream
    <3>2. Moved(Wanted(t), data, file.err, file.eof)
            \in [n : Nat, data : Seq(Int), failed : BOOLEAN, eof : BOOLEAN]
      BY <1>1, <3>1 DEF Moved, data
    <3> QED
      BY <1>4, <3>2 DEF TypeOK
  <2> QED
    BY <1>3, <2>1, <2>2 DEF TypeOK, States
<1>6. Exclusive'
  BY <1>3 DEF Exclusive, InSection, TypeOK
<1>7. Engaged' /\ PointerInWindow' /\ Opened'
  BY <1>3 DEF Engaged, Transferring, Working, Sizes, PointerInWindow, Opened, TypeOK
<1>8. \A u \in Threads : Target(u)' = Target(u) /\ Wanted(u)' = Wanted(u)
  BY <1>3 DEF Target, Wanted
<1>9. CursorIsOurs'
  BY <1>2, <1>3 DEF CursorIsOurs, InSection, TypeOK
<1>10. Carries' /\ Clips'
  <2> SUFFICES ASSUME NEW u \in Threads, pc'[u] = "return"
               PROVE  /\ call'[u].op # "write" =>
                           /\ moved'[u].n = Wanted(u)
                           /\ moved'[u].data = Slice(bytes, Target(u), Wanted(u))
                      /\ call'[u].op = "write" => moved'[u].n = Wanted(u)
    BY <1>3, <1>8 DEF Carries, Clips, Wrote
  <2>1. CASE u = t
    BY <1>3, <1>4, <2>1 DEF TypeOK, Moved, data
  <2>2. CASE u # t
    BY <1>2, <1>3, <2>2 DEF InSection, TypeOK
  <2> QED
    BY <2>1, <2>2
<1> QED
  BY <1>5, <1>6, <1>7, <1>9, <1>10

(* A write leaves the length of the archive alone, and what is not between *)
(* its window's cursor and its window's end.                               *)
LEMMA WritesOwn ==
  ASSUME Setting, IInv, NEW t \in Threads, WriteParent(t)
  PROVE  /\ Target(t) \in Nat /\ Wanted(t) \in Nat
         /\ bytes' \in Seq(Int) /\ Len(bytes') = Len(bytes)
         /\ \A i \in 1..Len(bytes) :
              bytes'[i] = IF Writable /\ i \in Target(t) + 1 .. Target(t) + Wanted(t)
                          THEN NewByte ELSE bytes[i]
         /\ file' \in Stream
         /\ file'.err = (file.err \/ (Wanted(t) > 0 /\ ~Writable))
         /\ file'.eof = file.eof
<1> USE DEF WriteParent
<1>1. /\ file.pos = Target(t)
      /\ Target(t) \in Nat /\ Wanted(t) \in Nat
  BY WantedType DEF IInv, CursorIsOurs, Working
<1>2. bytes' \in [1..Len(bytes) -> Int]
  BY LayoutAssumption DEF IInv, TypeOK
<1>3. /\ file' \in Stream
      /\ file'.err = (file.err \/ (Wanted(t) > 0 /\ ~Writable))
      /\ file'.eof = file.eof
  <2>1. file \in Stream /\ file.pos + Wanted(t) \in Nat
    BY <1>1 DEF IInv, TypeOK
  <2>2. file' = WriteData(file, Wanted(t), Writable)
    OBVIOUS
  <2> HIDE DEF WriteParent
  <2>3. CASE Wanted(t) = 0 \/ Writable
    <3>1. file' = [file EXCEPT !.pos = file.pos + Wanted(t)]
      BY <2>2, <2>3 DEF WriteData
    <3>2. ~(Wanted(t) > 0 /\ ~Writable)
      BY <1>1, <2>3
    <3> QED
      BY <2>1, <3>1, <3>2 DEF Stream
  <2>4. CASE ~(Wanted(t) = 0 \/ Writable)
    <3>1. file' = [file EXCEPT !.err = TRUE]
      BY <2>2, <2>4 DEF WriteData
    <3>2. Wanted(t) > 0 /\ ~Writable
      BY <1>1, <2>4
    <3> QED
      BY <2>1, <3>1, <3>2 DEF Stream
  <2> QED
    BY <2>3, <2>4
<1>4. bytes' \in Seq(Int) /\ Len(bytes') = Len(bytes)
  <2>1. Len(bytes) \in Nat
    BY DEF IInv, TypeOK
  <2> QED
    BY <1>2, <2>1
<1> QED
  BY <1>1, <1>3, <1>4

LEMMA WriteParentIInv ==
  ASSUME Setting, IInv, NEW t \in Threads, WriteParent(t)
  PROVE  IInv'
<1>1. /\ Target(t) \in Nat /\ Wanted(t) \in Nat
      /\ bytes' \in Seq(Int) /\ Len(bytes') = Len(bytes)
      /\ file' \in Stream
  BY WritesOwn
<1>2. \A u \in Threads : InSection(u) => u = t
  BY OneBusy DEF WriteParent, InSection
<1>3. /\ pc[t] = "transfer" /\ call[t].op = "write"
      /\ moved' = [moved EXCEPT ![t] = Moved(Wanted(t), <<>>, file'.err, FALSE)]
      /\ pc' = [pc EXCEPT ![t] = "return"]
      /\ UNCHANGED <<mutex, handleVars, call, result, crashed>>
  BY DEF WriteParent
<1> USE DEF IInv, handleVars
<1>4. TypeOK'
  <2>1. moved' \in [Threads -> [n : Nat, data : Seq(Int), failed : BOOLEAN, eof : BOOLEAN]]
    <3>1. Moved(Wanted(t), <<>>, file'.err, FALSE)
            \in [n : Nat, data : Seq(Int), failed : BOOLEAN, eof : BOOLEAN]
      BY <1>1 DEF Moved, Stream
    <3> QED
      BY <1>3, <3>1 DEF TypeOK
  <2> QED
    BY <1>1, <1>3, <2>1 DEF TypeOK, States
<1>5. Exclusive'
  BY <1>3 DEF Exclusive, InSection, TypeOK
<1>6. Engaged' /\ PointerInWindow' /\ Opened'
  BY <1>3 DEF Engaged, Transferring, Working, Sizes, PointerInWindow, Opened, TypeOK
<1>7. \A u \in Threads : Target(u)' = Target(u) /\ Wanted(u)' = Wanted(u)
  BY <1>3 DEF Target, Wanted
<1>8. \A u \in Threads : pc'[u] \in {"transfer", "return"} => u = t /\ pc'[u] = "return"
  BY <1>2, <1>3 DEF InSection, TypeOK
<1>9. CursorIsOurs' /\ Carries'
  BY <1>3, <1>8 DEF CursorIsOurs, Carries
<1>10. Clips'
  BY <1>3, <1>7, <1>8 DEF Clips, Wrote, TypeOK, Moved
<1> QED
  BY <1>4, <1>5, <1>6, <1>9, <1>10

(* Leaving the critical section disturbs no other call: none is in it.     *)
LEMMA LeftAlone ==
  ASSUME Setting, IInv, NEW t \in Threads, InSection(t), pc' = [pc EXCEPT ![t] = "idle"]
  PROVE  CursorIsOurs' /\ Carries' /\ Clips'
<1>1. \A u \in Threads : InSection(u) => u = t
  BY OneBusy
<1>2. \A u \in Threads : pc'[u] \notin {"transfer", "return"}
  BY <1>1 DEF InSection, IInv, TypeOK
<1> QED
  BY <1>2 DEF CursorIsOurs, Carries, Clips, Wrote

LEMMA LeaveIInv ==
  ASSUME Setting, IInv, NEW t \in Threads, InSection(t),
         NEW r \in [failed : BOOLEAN, eof : BOOLEAN, data : Seq(Int)], Leave(t, r),
         pointer' \in [Handles -> Nat], PointerInWindow',
         UNCHANGED <<file, bytes, member, crashed>>
  PROVE  IInv'
<1>1. CursorIsOurs' /\ Carries' /\ Clips'
  BY LeftAlone DEF Leave
<1> USE DEF IInv, Leave
<1>2. TypeOK'
  <2>1. call' \in [Threads -> Calls]
    BY DEF TypeOK, NoCall, Call, Calls
  <2>2. moved' \in [Threads -> [n : Nat, data : Seq(Int), failed : BOOLEAN, eof : BOOLEAN]]
    BY DEF TypeOK, NothingMoved, Moved
  <2>3. result' \in [Threads -> [failed : BOOLEAN, eof : BOOLEAN, data : Seq(Int)]]
    BY DEF TypeOK
  <2> QED
    BY <2>1, <2>2, <2>3 DEF TypeOK, States
<1>3. Exclusive'
  BY ActorsAssumption DEF Exclusive, InSection, TypeOK
<1>4. Engaged' /\ Opened'
  BY DEF Engaged, Transferring, Working, Sizes, Opened, TypeOK
<1> QED
  BY <1>1, <1>2, <1>3, <1>4

(* The cursor of a window moves by what was moved, which lies within it.   *)
LEMMA AdvanceStays ==
  ASSUME Setting, IInv, NEW t \in Threads, pc[t] = "return", call[t].op # "extract",
         Advance(t), member' = member
  PROVE  pointer' \in [Handles -> Nat] /\ PointerInWindow'
<1> DEFINE h == call[t].h
<1>1. Transferring(t)
  BY DEF IInv, Engaged, Sizes
<1>2. moved[t].n = Wanted(t) /\ moved[t].n \in Nat
  BY <1>1 DEF IInv, Carries, Clips, Wrote, TypeOK
<1>3. /\ h \in Handles /\ member[h] = call[t].m
      /\ pointer[h] + moved[t].n <= Size[member[h]]
  BY <1>1, <1>2, WantedType DEF Transferring
<1>4. pointer' = [pointer EXCEPT ![h] = pointer[h] + moved[t].n]
  BY DEF Advance
<1> HIDE DEF h
<1> QED
  BY <1>2, <1>3, <1>4 DEF IInv, PointerInWindow, TypeOK

LEMMA ReturnReadIInv ==
  ASSUME Setting, IInv, NEW t \in Threads, ReturnRead(t)
  PROVE  IInv'
<1> USE DEF ReturnRead
<1>1. pointer' \in [Handles -> Nat] /\ PointerInWindow' /\ InSection(t)
  BY AdvanceStays DEF InSection
<1>2. Returned(moved[t].failed, moved[t].eof \/ PastEnd(t), moved[t].data)
        \in [failed : BOOLEAN, eof : BOOLEAN, data : Seq(Int)]
  BY DEF IInv, TypeOK, Returned, PastEnd
<1> QED
  BY <1>1, <1>2, LeaveIInv

LEMMA ReturnWriteIInv ==
  ASSUME Setting, IInv, NEW t \in Threads, ReturnWrite(t)
  PROVE  IInv'
<1> USE DEF ReturnWrite
<1>1. pointer' \in [Handles -> Nat] /\ PointerInWindow' /\ InSection(t)
  BY AdvanceStays DEF InSection
<1>2. Returned(moved[t].failed \/ PastEnd(t), PastEnd(t), <<>>)
        \in [failed : BOOLEAN, eof : BOOLEAN, data : Seq(Int)]
  BY DEF IInv, TypeOK, Returned, PastEnd
<1> QED
  BY <1>1, <1>2, LeaveIInv

LEMMA ReturnExtractIInv ==
  ASSUME Setting, IInv, NEW t \in Threads, ReturnExtract(t)
  PROVE  IInv'
<1> USE DEF ReturnExtract, handleVars
<1> PICK accepted \in BOOLEAN :
           Leave(t, Returned(~accepted, FALSE, IF accepted THEN moved[t].data ELSE <<>>))
  OBVIOUS
<1>1. pointer' \in [Handles -> Nat] /\ PointerInWindow' /\ InSection(t)
  BY DEF InSection, IInv, TypeOK, PointerInWindow
<1>2. Returned(~accepted, FALSE, IF accepted THEN moved[t].data ELSE <<>>)
        \in [failed : BOOLEAN, eof : BOOLEAN, data : Seq(Int)]
  BY DEF IInv, TypeOK, Returned
<1> QED
  BY <1>1, <1>2, LeaveIInv

(* Asking for the size moves the stream, but nobody is in a transfer.      *)
LEMMA GetSizeTellIInv ==
  ASSUME Setting, IInv, NEW t \in Threads, GetSizeTell(t)
  PROVE  IInv'
<1> USE DEF IInv, GetSizeTell, Idle, Call, archiveVars, handleVars
<1>1. TypeOK'
  <2>1. Call("getsize", NoHandle, NoMember, file.pos) \in Calls
    BY DEF TypeOK, Stream, Calls
  <2> QED
    BY <2>1 DEF TypeOK, States
<1>2. Exclusive' /\ PointerInWindow' /\ Opened'
  BY DEF Exclusive, InSection, PointerInWindow, Opened, TypeOK
<1>3. Engaged'
  BY DEF Engaged, Transferring, Working, Sizes, TypeOK
<1>4. Undisturbed(t)
  BY DEF Undisturbed, Target, Wanted, TypeOK
<1>5. CursorIsOurs' /\ Carries' /\ Clips'
  BY <1>4 DEF CursorIsOurs, Carries, Clips, Wrote, Undisturbed, Working, TypeOK
<1> QED
  BY <1>1, <1>2, <1>3, <1>5

LEMMA GetSizeIInv ==
  ASSUME Setting, IInv, NEW t \in Threads, GetSizeToEnd(t) \/ GetSizeRestore(t)
  PROVE  IInv'
<1>1. Sizes(t)
  BY DEF IInv, Engaged, Transferring, Working, GetSizeToEnd, GetSizeRestore
<1>2. \A u \in Threads : ~InSection(u)
  BY <1>1, OneBusy DEF Sizes, InSection
<1> USE DEF IInv, GetSizeToEnd, GetSizeRestore, SetPosition, handleVars
<1>3. TypeOK'
  <2>1. NoCall \in Calls
    BY DEF NoCall, Call, Calls
  <2>2. call[t].n \in Nat /\ Len(bytes) \in Nat
    BY DEF TypeOK, Calls
  <2>3. file' \in Stream
    BY <2>2 DEF TypeOK, Stream
  <2> QED
    BY <2>1, <2>3 DEF TypeOK, States
<1>4. Exclusive' /\ PointerInWindow' /\ Opened'
  BY <1>1 DEF Exclusive, InSection, Sizes, PointerInWindow, Opened, TypeOK
<1>5. Engaged'
  BY <1>1 DEF Engaged, Transferring, Working, Sizes, TypeOK
<1>6. \A u \in Threads : pc'[u] \notin {"transfer", "return"}
  BY <1>2 DEF InSection, TypeOK
<1>7. CursorIsOurs' /\ Carries' /\ Clips'
  BY <1>6 DEF CursorIsOurs, Carries, Clips, Wrote
<1> QED
  BY <1>3, <1>4, <1>5, <1>7

LEMMA NextIInv ==
  ASSUME Setting, IInv, [Next]_vars
  PROVE  IInv'
<1>1. ASSUME NEW t \in Threads, Begin(t)
      PROVE  IInv'
  <2>1. CASE \E h \in Handles, m \in Members : OpenStored(t, h, m)
    BY <2>1, OpenStoredIInv
  <2>2. CASE \E h \in Handles, op \in {"read", "write"} : AtEnd(t, h, op)
    BY <2>2, AtEndIInv
  <2>3. CASE \E h \in Handles, op \in {"read", "write"}, n \in Counts : Inside(t, h, op, n)
    BY <2>3, InsideIInv
  <2>4. CASE \E h \in Handles, p \in Counts : SeekHandle(t, h, p)
    BY <2>4, SeekHandleIInv
  <2>5. CASE \E m \in Members : Extract(t, m)
    BY <2>5, ExtractIInv
  <2>6. CASE GetSizeTell(t)
    BY <2>6, GetSizeTellIInv
  <2> QED
    BY <1>1, <2>1, <2>2, <2>3, <2>4, <2>5, <2>6 DEF Begin
<1>2. ASSUME NEW t \in Threads, Lock(t)
      PROVE  IInv'
  BY <1>2, LockIInv
<1>3. ASSUME NEW t \in Threads, Continue(t)
      PROVE  IInv'
  BY <1>3, LockNullIInv, SeekParentIInv, ReadParentIInv, WriteParentIInv, ReturnReadIInv,
     ReturnWriteIInv, ReturnExtractIInv, GetSizeIInv DEF Continue, Locked
<1>4. CASE UNCHANGED vars
  BY <1>4 DEF vars, archiveVars, handleVars, threadVars, IInv, TypeOK, Exclusive, InSection,
              Engaged, Transferring, Working, Sizes, Opened, PointerInWindow, CursorIsOurs,
              Carries, Clips, Wrote, Target, Wanted
<1> QED
  BY <1>1, <1>2, <1>3, <1>4 DEF Next

LEMMA Invariant == ASSUME Setting PROVE Spec => []IInv
<1>1. IInv /\ [Next]_vars => IInv'
  BY NextIInv
<1> QED
  BY <1>1, InitIInv, PTL DEF Spec

(* Places in the archive and places in a window.                           *)
LEMMA Shift ==
  ASSUME NEW off \in Nat, NEW p \in Nat, NEW k \in Nat, NEW size \in Nat, p + k <= size,
         NEW at, at = off + p
  PROVE  /\ \A i \in Nat : off + i \in at + 1 .. at + k <=> i \in p + 1 .. p + k
         /\ \A i \in at + 1 .. at + k : i > off /\ i <= off + size
  OBVIOUS

Within(i, m) == i > Offset[m] /\ i <= Offset[m] + Size[m]

(* What a write may touch lies in its window.                              *)
LEMMA WriteWithin ==
  ASSUME Setting, IInv, NEW t \in Threads, WriteParent(t)
  PROVE  /\ Transferring(t) /\ call[t].op = "write"
         /\ \A i \in Target(t) + 1 .. Target(t) + Wanted(t) : Within(i, call[t].m)
         /\ \A i \in Nat : Offset[call[t].m] + i \in Target(t) + 1 .. Target(t) + Wanted(t)
              <=> i \in pointer[call[t].h] + 1 .. pointer[call[t].h] + Wanted(t)
<1> DEFINE m == call[t].m
           p == pointer[call[t].h]
           k == Wanted(t)
           at == Target(t)
<1>1. Transferring(t) /\ Working(t) /\ call[t].op = "write"
  BY DEF WriteParent, IInv, Engaged, Sizes, Working
<1>2. m \in Members /\ Offset[m] \in Nat /\ Size[m] \in Nat /\ p \in Nat
  BY <1>1, LayoutAssumption DEF Transferring, IInv, TypeOK
<1>3. k \in Nat /\ p + k <= Size[m] /\ at = Offset[m] + p
  BY <1>1, WantedType
<1> HIDE DEF m, p, k, at
<1>4. /\ \A i \in at + 1 .. at + k : Within(i, m)
      /\ \A i \in Nat : Offset[m] + i \in at + 1 .. at + k <=> i \in p + 1 .. p + k
  BY <1>2, <1>3, Shift DEF Within
<1> QED
  BY <1>1, <1>4 DEF m, p, k, at

(***************************************************************************)
(* What the runs check of every setting.                                   *)
(***************************************************************************)
(* Every variable keeps its type: no count or position ever goes negative, *)
(* although SubFile computes them by subtraction.                          *)
THEOREM Typing == ASSUME Setting PROVE Spec => []TypeOK
<1>1. IInv => TypeOK
  BY DEF IInv
<1> QED
  BY <1>1, Invariant, PTL

(* A seek beyond a window's end stops at the end, and no read or write,    *)
(* whoever else uses the handle, takes its cursor further (SubFile.cpp).   *)
THEOREM Window == ASSUME Setting PROVE Spec => []PointerInWindow
<1>1. IInv => PointerInWindow
  BY DEF IInv
<1> QED
  BY <1>1, Invariant, PTL

(* Nobody moves the archive's stream between a call's seek and transfer.   *)
THEOREM Cursor == ASSUME Setting PROVE Spec => []CursorIsOurs
<1>1. IInv => CursorIsOurs
  BY DEF IInv
<1> QED
  BY <1>1, Invariant, PTL

(* Where a call is sent, and how far, is where a file that holds just its  *)
(* member would have sent it.                                              *)
LEMMA CarriesDue ==
  ASSUME IInv PROVE OwnBytes
<1> SUFFICES ASSUME NEW t \in Threads, pc[t] = "return", call[t].op # "write"
             PROVE  moved[t].data = Due(t) /\ moved[t].n = Len(Due(t))
  BY DEF OwnBytes
<1>1. Transferring(t) /\ Working(t)
  BY DEF IInv, Engaged, Sizes, Working
<1>2. /\ moved[t].n = Wanted(t)
      /\ moved[t].data = Slice(bytes, Target(t), Wanted(t))
  BY DEF IInv, Carries
<1>3. /\ Target(t) \in Nat /\ Wanted(t) \in Nat
      /\ Target(t) + Wanted(t) <= Len(bytes)
      /\ bytes \in Seq(Int)
  BY <1>1, WantedType DEF IInv, TypeOK
<1>4. Len(Slice(bytes, Target(t), Wanted(t))) = Wanted(t)
  BY <1>3, SliceType
<1>5. CASE call[t].op = "extract"
  <2>1. Target(t) = Offset[call[t].m] /\ Wanted(t) = Size[call[t].m]
    BY <1>1, <1>5, LayoutAssumption DEF Target, Wanted, Transferring
  <2> QED
    BY <1>2, <1>4, <1>5, <2>1 DEF Due
<1>6. CASE call[t].op # "extract"
  <2>1. /\ Target(t) = Offset[call[t].m] + pointer[call[t].h]
        /\ Wanted(t) = Available(pointer[call[t].h], Size[call[t].m], call[t].n)
    BY <1>1, <1>6, WantedType
  <2> QED
    BY <1>2, <1>4, <1>6, <2>1 DEF Due
<1> QED
  BY <1>5, <1>6

(* Every transfer carries exactly the bytes of its own member.             *)
THEOREM Bytes == ASSUME Setting PROVE Spec => []OwnBytes
<1>1. IInv => OwnBytes
  BY CarriesDue
<1> QED
  BY <1>1, Invariant, PTL

(* Whatever two threads do with copies of one handle, a write touches the  *)
(* bytes it was asked to, at its own handle's cursor and in that handle's  *)
(* window, and no other one (SubFile.cpp:54-58).                           *)
THEOREM WritesInside == ASSUME Setting PROVE Spec => WritesStayInside
<1> DEFINE Written(i) == \E t \in Threads : /\ pc[t] = "transfer" /\ pc'[t] = "return"
                                            /\ call[t].op = "write"
                                            /\ Reaches(t, i)
           Kept == \A i \in 1..Len(bytes) : bytes'[i] # bytes[i] => Written(i)
<1>1. ASSUME Setting, IInv, [Next]_vars PROVE Kept
  <2>1. ASSUME NEW t \in Threads, WriteParent(t) PROVE Kept
    <3> DEFINE h == call[t].h
               m == call[t].m
               p == pointer[h]
               k == Wanted(t)
    <3>1. \A i \in 1..Len(bytes) :
            bytes'[i] = IF Writable /\ i \in Target(t) + 1 .. Target(t) + k
                        THEN NewByte ELSE bytes[i]
      BY <1>1, <2>1, WritesOwn
    <3>2. Transferring(t) /\ Working(t) /\ call[t].op = "write"
      BY <1>1, <2>1 DEF WriteParent, IInv, Engaged, Sizes, Working
    <3>3. /\ h \in Handles /\ member[h] = m /\ m \in Members /\ m # NoMember
          /\ call[t].n \in Nat /\ p \in Nat
          /\ Offset[m] \in Nat /\ Size[m] \in Nat
      BY <1>1, <3>2, ActorsAssumption, LayoutAssumption DEF Transferring, IInv, TypeOK
    <3>4. /\ k = Available(p, Size[m], call[t].n)
          /\ Target(t) = Offset[m] + p
          /\ p + k <= Size[m] /\ k \in Nat
      BY <1>1, <3>2, WantedType
    <3>5. pc[t] = "transfer" /\ pc'[t] = "return"
      BY <1>1, <2>1 DEF WriteParent, IInv, TypeOK
    <3> HIDE DEF h, m, p, k
    <3>6. k <= call[t].n
      BY <3>3, <3>4 DEF Available
    <3>7. ASSUME NEW i \in 1..Len(bytes), i \in Target(t) + 1 .. Target(t) + k
          PROVE  /\ i > Offset[m] + p
                 /\ i <= Offset[m] + p + call[t].n
                 /\ i <= Offset[m] + Size[m]
      BY <3>3, <3>4, <3>6, <3>7
    <3>8. ASSUME NEW i \in 1..Len(bytes), bytes'[i] # bytes[i]
          PROVE  Reaches(t, i)
      <4>1. i \in Target(t) + 1 .. Target(t) + k
        BY <3>1, <3>8
      <4> QED
        BY <3>3, <3>7, <4>1 DEF Reaches, h, m, p
    <3> QED
      BY <3>2, <3>5, <3>8
  <2>2. ASSUME bytes' = bytes PROVE Kept
    BY <2>2
  <2>3. ASSUME NEW t \in Threads, Begin(t) \/ Lock(t) PROVE bytes' = bytes
    BY <2>3 DEF Begin, Lock, OpenStored, Construct, AtEnd, Inside, SeekHandle, Extract, GetSizeTell,
                archiveVars
  <2>4. ASSUME NEW t \in Threads, Continue(t), ~WriteParent(t) PROVE bytes' = bytes
    BY <2>4 DEF Continue, Locked, LockNull, SeekParent, ReadParent, ReturnRead, ReturnWrite,
                ReturnExtract, GetSizeToEnd, GetSizeRestore, archiveVars
  <2>5. UNCHANGED vars => bytes' = bytes
    BY DEF vars, archiveVars
  <2> QED
    BY <1>1, <2>1, <2>2, <2>3, <2>4, <2>5 DEF Next
<1>2. ASSUME Setting PROVE IInv /\ [Next]_vars => [Kept]_vars
  BY <1>1, <1>2
<1> QED
  BY <1>2, Invariant, PTL DEF Spec, WritesStayInside

(***************************************************************************)
(* Members behave as files of their own, but for the error a refused write *)
(* leaves to all of them.  A write through one of two members that overlap *)
(* changes both: where the archive can be written its members are apart.   *)
(***************************************************************************)
Separate ==
  "write" \in Ops /\ Writable =>
    \A m, o \in Members : \A i \in 1..Len(Image) : Within(i, m) /\ Within(i, o) => m = o

(* A call carries out the error flag the stream still has, and never       *)
(* end-of-file: its window lies in the archive.  What can only be decoded  *)
(* is as it was packed.                                                    *)
Reports ==
  /\ \A t \in Threads : pc[t] = "transfer" => file.eof = FALSE
  /\ \A t \in Threads :
       pc[t] = "return" => moved[t].failed = file.err /\ moved[t].eof = FALSE
  /\ \A m \in Packed : ContentNow[m] = Content[m]

(* The bytes of a member, as they are now.                                 *)
LEMMA ContentOf ==
  ASSUME IInv, NEW m \in Members
  PROVE  /\ Len(ContentNow[m]) = Size[m]
         /\ Size[m] \in Nat
         /\ ContentNow[m] = Slice(bytes, Offset[m], Size[m])
         /\ Slice(ContentNow[m], 0, Size[m]) = ContentNow[m]
         /\ \A p, k \in Nat : p + k <= Size[m] =>
              Slice(ContentNow[m], p, k) = Slice(bytes, Offset[m] + p, k)
<1>1. /\ Offset[m] \in Nat /\ Size[m] \in Nat /\ bytes \in Seq(Int)
      /\ Offset[m] + Size[m] <= Len(bytes)
  BY LayoutAssumption DEF IInv, TypeOK
<1>2. ContentNow[m] = Slice(bytes, Offset[m], Size[m])
  BY DEF ContentNow
<1>3. Len(ContentNow[m]) = Size[m]
  BY <1>1, <1>2, SliceType
<1>4. \A p, k \in Nat : p + k <= Size[m] =>
        Slice(ContentNow[m], p, k) = Slice(bytes, Offset[m] + p, k)
  BY <1>1, <1>2, SliceOfSlice
<1>5. Slice(ContentNow[m], 0, Size[m]) = ContentNow[m]
  <2>1. Slice(ContentNow[m], 0, Size[m]) = Slice(bytes, Offset[m] + 0, Size[m])
    BY <1>1, <1>4
  <2> QED
    BY <1>1, <1>2, <2>1
<1> QED
  BY <1>1, <1>2, <1>3, <1>4, <1>5

(* A write changes its own member where it should, and no other one.       *)
LEMMA WriteChanges ==
  ASSUME Setting, Separate, IInv, NEW t \in Threads, WriteParent(t)
  PROVE  LET m == call[t].m
             p == pointer[call[t].h]
         IN  ContentNow' = [ContentNow EXCEPT ![m] =
               [i \in 1..Len(ContentNow[m]) |->
                  IF Writable /\ i \in p + 1 .. p + Wanted(t) THEN NewByte
                  ELSE ContentNow[m][i]]]
<1> DEFINE m == call[t].m
           p == pointer[call[t].h]
           k == Wanted(t)
<1>1. /\ Target(t) \in Nat /\ k \in Nat
      /\ \A i \in 1..Len(bytes) :
           bytes'[i] = IF Writable /\ i \in Target(t) + 1 .. Target(t) + k
                       THEN NewByte ELSE bytes[i]
  BY WritesOwn
<1>2. Working(t) /\ call[t].op = "write"
  BY DEF WriteParent, Working
<1>3. m \in Members /\ "write" \in Ops
  BY <1>2 DEF IInv, Engaged, Transferring, Working, Sizes
<1>4. /\ \A i \in Target(t) + 1 .. Target(t) + k : Within(i, m)
      /\ \A i \in Nat : Offset[m] + i \in Target(t) + 1 .. Target(t) + k
                        <=> i \in p + 1 .. p + k
  BY WriteWithin
<1>5. \A o \in Members : /\ Offset[o] \in Nat /\ Size[o] \in Nat
                         /\ Offset[o] + Size[o] <= Len(bytes)
                         /\ Len(bytes) = Len(Image) /\ Len(bytes) \in Nat
  BY LayoutAssumption DEF IInv, TypeOK
<1> DEFINE New == [i \in 1..Len(ContentNow[m]) |->
                     IF Writable /\ i \in p + 1 .. p + k THEN NewByte ELSE ContentNow[m][i]]
<1>6. ContentNow' = [o \in Members |-> Slice(bytes', Offset[o], Size[o])]
  BY DEF ContentNow
<1>7. Slice(bytes', Offset[m], Size[m]) = New
  <2>1. /\ Len(ContentNow[m]) = Size[m]
        /\ \A i \in 1..Size[m] : ContentNow[m][i] = bytes[Offset[m] + i]
    <3>1. Len(ContentNow[m]) = Size[m] /\ ContentNow[m] = Slice(bytes, Offset[m], Size[m])
      BY <1>3, ContentOf
    <3> QED
      BY <3>1 DEF Slice
  <2>2. \A i \in 1..Size[m] : Offset[m] + i \in 1..Len(bytes)
    BY <1>3, <1>5
  <2>3. \A i \in 1..Size[m] :
          Offset[m] + i \in Target(t) + 1 .. Target(t) + k <=> i \in p + 1 .. p + k
    BY <1>4
  <2>4. \A i \in 1..Size[m] :
          bytes'[Offset[m] + i]
            = IF Writable /\ i \in p + 1 .. p + k THEN NewByte ELSE ContentNow[m][i]
    <3> HIDE DEF m, p, k
    <3> QED
      BY <1>1, <2>1, <2>2, <2>3
  <2> HIDE DEF m, p, k
  <2> QED
    BY <2>1, <2>4 DEF Slice
<1>8. ASSUME NEW o \in Members, o # m
      PROVE  Slice(bytes', Offset[o], Size[o]) = ContentNow[o]
  <2>1. ASSUME NEW i \in 1..Size[o]
        PROVE  bytes'[Offset[o] + i] = bytes[Offset[o] + i]
    <3>1. Offset[o] + i \in 1..Len(bytes) /\ Within(Offset[o] + i, o)
      BY <1>5 DEF Within
    <3>2. Writable => ~Within(Offset[o] + i, m)
      BY <1>3, <1>5, <1>8, <3>1 DEF Separate
    <3>3. Writable => Offset[o] + i \notin Target(t) + 1 .. Target(t) + k
      BY <1>4, <3>2
    <3> QED
      BY <1>1, <3>1, <3>3
  <2>2. ContentNow[o] = Slice(bytes, Offset[o], Size[o])
    BY ContentOf
  <2> HIDE DEF m, p, k, New
  <2> QED
    BY <2>1, <2>2 DEF Slice
<1> HIDE DEF m, p, k, New
<1>9. ContentNow' = [ContentNow EXCEPT ![m] = New]
  BY <1>3, <1>6, <1>7, <1>8 DEF ContentNow
<1> QED
  BY <1>9 DEF m, p, k, New

LEMMA InitReports == Init => Reports
  BY LayoutAssumption DEF Init, Reports, Rewound, ContentNow, Content

(* What moves the stream's cursor forgets an end and keeps an error.       *)
LEMMA SeeksReport ==
  ASSUME IInv, Reports, NEW t \in Threads, SeekParent(t) \/ GetSizeToEnd(t) \/ GetSizeRestore(t)
  PROVE  /\ file'.eof = FALSE /\ file'.err = file.err
         /\ bytes' = bytes /\ moved' = moved
         /\ \A u \in Threads : pc'[u] = "return" => pc[u] = "return"
<1>1. PICK q : file' = SetPosition(file, q)
  BY DEF SeekParent, GetSizeToEnd, GetSizeRestore
<1>2. file'.eof = FALSE /\ file'.err = file.err
  BY <1>1 DEF SetPosition, IInv, TypeOK, Stream
<1> QED
  BY <1>2 DEF SeekParent, GetSizeToEnd, GetSizeRestore, IInv, TypeOK

LEMMA NextReports ==
  ASSUME Setting, Separate, IInv, Reports, [Next]_vars
  PROVE  Reports'
<1>1. ASSUME NEW t \in Threads, WriteParent(t)
      PROVE  Reports'
  <2>1. Transferring(t) /\ call[t].op = "write" /\ InSection(t)
    BY <1>1 DEF WriteParent, IInv, Engaged, Sizes, InSection
  <2>2. call[t].m \in Members \ Packed
    BY <2>1 DEF Transferring
  <2>3. \A u \in Threads : pc'[u] \in {"transfer", "return"} => u = t /\ pc'[u] = "return"
    BY <1>1, <2>1, OneBusy DEF WriteParent, InSection, IInv, TypeOK
  <2>4. moved'[t].failed = file'.err /\ moved'[t].eof = FALSE
    BY <1>1 DEF WriteParent, IInv, TypeOK, Moved
  <2>5. \A m \in Packed : ContentNow'[m] = ContentNow[m]
    BY <1>1, <2>2, WriteChanges, LayoutAssumption DEF ContentNow
  <2> QED
    BY <2>3, <2>4, <2>5 DEF Reports, Content
<1>2. ASSUME NEW t \in Threads, ReadParent(t)
      PROVE  Reports'
  <2>1. InSection(t) /\ pc[t] = "transfer"
    BY <1>2 DEF ReadParent, InSection
  <2>2. \A u \in Threads : pc'[u] \in {"transfer", "return"} => u = t /\ pc'[u] = "return"
    BY <1>2, <2>1, OneBusy DEF ReadParent, InSection, IInv, TypeOK
  <2>3. moved'[t].failed = file.err /\ moved'[t].eof = file.eof
    BY <1>2, ReadsOwn DEF IInv, TypeOK, Moved
  <2>4. file'.err = file.err
    BY <1>2, ReadsOwn DEF IInv, TypeOK, Stream
  <2>5. ContentNow' = ContentNow
    BY <1>2 DEF ReadParent, ContentNow
  <2> QED
    BY <2>1, <2>2, <2>3, <2>4, <2>5 DEF Reports, Content
<1>3. ASSUME NEW t \in Threads, ReturnRead(t) \/ ReturnWrite(t) \/ ReturnExtract(t)
      PROVE  Reports'
  <2>1. PICK r : Leave(t, r) /\ file' = file /\ bytes' = bytes
    BY <1>3 DEF ReturnRead, ReturnWrite, ReturnExtract
  <2> QED
    BY <2>1 DEF Leave, Reports, ContentNow, Content, IInv, TypeOK
<1>4. ASSUME NEW t \in Threads,
             SeekParent(t) \/ GetSizeToEnd(t) \/ GetSizeRestore(t)
      PROVE  Reports'
  BY <1>4, SeeksReport DEF Reports, ContentNow, Content
<1>5. ASSUME NEW t \in Threads, Begin(t) \/ Lock(t) \/ LockNull(t)
      PROVE  Reports'
  <2>1. /\ file' = file /\ bytes' = bytes /\ moved' = moved
        /\ \A u \in Threads : pc'[u] \in {"transfer", "return"} => pc[u] = pc'[u]
    BY <1>5 DEF Begin, Lock, LockNull, OpenStored, Construct, AtEnd, Inside, SeekHandle, Extract,
                GetSizeTell, Enter, archiveVars, threadVars, IInv, TypeOK
  <2> QED
    BY <2>1 DEF Reports, ContentNow, Content
<1>6. CASE UNCHANGED vars
  BY <1>6 DEF vars, archiveVars, threadVars, Reports, ContentNow, Content
<1> QED
  BY <1>1, <1>2, <1>3, <1>4, <1>5, <1>6 DEF Next, Continue, Locked

(***************************************************************************)
(* The refinement mapping.  A write takes effect when its bytes reach the  *)
(* archive, before its handle's cursor moves; at most one is that far.     *)
(***************************************************************************)
Answer(t) == Returned(moved[t].failed \/ PastEnd(t), PastEnd(t), <<>>)

Ahead(t) == pointer[call[t].h] + moved[t].n

Mapping ==
  /\ (\A t \in Threads : ~Wrote(t)) => CursorNow = pointer /\ ResultNow = result
  /\ \A t \in Threads : Wrote(t) =>
       /\ call[t].h \in Handles
       /\ member[call[t].h] = call[t].m
       /\ call[t].m \in Members
       /\ moved[t].n = Available(pointer[call[t].h], Size[call[t].m], call[t].n)
       /\ CursorNow = [pointer EXCEPT ![call[t].h] = Ahead(t)]
       /\ ResultNow = [result EXCEPT ![t] = Answer(t)]

LEMMA Maps == ASSUME Setting PROVE IInv => Mapping
<1> SUFFICES ASSUME IInv PROVE Mapping
  OBVIOUS
<1>1. ASSUME \A t \in Threads : ~Wrote(t)
      PROVE  CursorNow = pointer /\ ResultNow = result
  BY <1>1 DEF CursorNow, ResultNow, IInv, TypeOK
<1>2. ASSUME NEW t \in Threads, Wrote(t)
      PROVE  /\ call[t].h \in Handles
             /\ member[call[t].h] = call[t].m
             /\ call[t].m \in Members
             /\ moved[t].n = Available(pointer[call[t].h], Size[call[t].m], call[t].n)
             /\ CursorNow = [pointer EXCEPT ![call[t].h] = Ahead(t)]
             /\ ResultNow = [result EXCEPT ![t] = Answer(t)]
  <2>1. Transferring(t) /\ call[t].op = "write" /\ Working(t)
    BY <1>2 DEF IInv, Engaged, Sizes, Wrote, Transferring
  <2>2. \A u \in Threads : Wrote(u) => u = t
    BY <1>2, OneBusy DEF Wrote, InSection
  <2>3. moved[t].n = Available(pointer[call[t].h], Size[call[t].m], call[t].n)
    BY <1>2, <2>1, WantedType DEF IInv, Clips
  <2>4. CursorNow = [pointer EXCEPT ![call[t].h] = Ahead(t)]
    <3>1. \A h \in Handles : (\E u \in Threads : Wrote(u) /\ call[u].h = h) <=> h = call[t].h
      BY <1>2, <2>2
    <3>2. (CHOOSE u \in Threads : Wrote(u) /\ call[u].h = call[t].h) = t
      BY <1>2, <2>2
    <3> QED
      BY <3>1, <3>2 DEF CursorNow, Ahead, IInv, TypeOK
  <2>5. ResultNow = [result EXCEPT ![t] = Answer(t)]
    BY <1>2, <2>2 DEF ResultNow, Answer, IInv, TypeOK
  <2> QED
    BY <2>1, <2>3, <2>4, <2>5 DEF Transferring
<1> QED
  BY <1>1, <1>2 DEF Mapping

LEMMA MapsNext == ASSUME Setting PROVE IInv' => Mapping'
  BY Maps, PTL

(* A step that lets the writes be changes the mapped cursors and results   *)
(* exactly as it changes the cursors and results.                          *)
LEMMA Keeps ==
  ASSUME Setting, IInv, IInv',
         \A u \in Threads : Wrote(u)' <=> Wrote(u),
         \A u \in Threads : Wrote(u) =>
           /\ call'[u] = call[u]
           /\ moved'[u] = moved[u]
           /\ pointer'[call[u].h] = pointer[call[u].h]
  PROVE  \/ /\ CursorNow = pointer /\ ResultNow = result
            /\ CursorNow' = pointer' /\ ResultNow' = result'
         \/ \E u \in Threads :
              /\ Wrote(u)
              /\ CursorNow = [pointer EXCEPT ![call[u].h] = Ahead(u)]
              /\ CursorNow' = [pointer' EXCEPT ![call[u].h] = Ahead(u)]
              /\ ResultNow = [result EXCEPT ![u] = Answer(u)]
              /\ ResultNow' = [result' EXCEPT ![u] = Answer(u)]
<1>1. Mapping /\ Mapping'
  BY Maps, MapsNext
<1>2. CASE \A u \in Threads : ~Wrote(u)
  BY <1>1, <1>2 DEF Mapping
<1>3. ASSUME NEW u \in Threads, Wrote(u)
      PROVE  /\ CursorNow = [pointer EXCEPT ![call[u].h] = Ahead(u)]
             /\ CursorNow' = [pointer' EXCEPT ![call[u].h] = Ahead(u)]
             /\ ResultNow = [result EXCEPT ![u] = Answer(u)]
             /\ ResultNow' = [result' EXCEPT ![u] = Answer(u)]
  <2>1. Answer(u)' = Answer(u)
    BY <1>3 DEF Answer, PastEnd
  <2>2. Wrote(u)' /\ call'[u] = call[u] /\ moved'[u] = moved[u]
        /\ pointer'[call[u].h] = pointer[call[u].h]
    BY <1>3
  <2>3. /\ CursorNow = [pointer EXCEPT ![call[u].h] = Ahead(u)]
        /\ ResultNow = [result EXCEPT ![u] = Answer(u)]
    BY <1>1, <1>3 DEF Mapping, Ahead
  <2>4. /\ CursorNow' = [pointer' EXCEPT ![call[u].h] = Ahead(u)]
        /\ ResultNow' = [result' EXCEPT ![u] = Answer(u)]
    BY <1>1, <2>1, <2>2 DEF Mapping, Ahead
  <2> QED
    BY <2>3, <2>4
<1> QED
  BY <1>2, <1>3

(* What no window sees is a stutter of the abstract specification.         *)
LEMMA Stutters ==
  ASSUME Setting, IInv, IInv',
         \A u \in Threads : Wrote(u)' <=> Wrote(u),
         \A u \in Threads : Wrote(u) => call'[u] = call[u] /\ moved'[u] = moved[u],
         UNCHANGED <<member, pointer, bytes, result>>, file'.err = file.err
  PROVE  UNCHANGED Unpacked!vars
<1>1. CursorNow' = CursorNow /\ ResultNow' = ResultNow
  BY Keeps
<1>2. ContentNow' = ContentNow
  BY DEF ContentNow
<1> QED
  BY <1>1, <1>2 DEF Unpacked!vars

(* The abstract specification computes with the same operators.            *)
LEMMA SameOperators ==
  /\ \A pos, len, n : Unpacked!Available(pos, len, n) = Available(pos, len, n)
  /\ \A b, from, n : Unpacked!Slice(b, from, n) = Slice(b, from, n)
  /\ \A failed, eof, data : Unpacked!Returned(failed, eof, data) = Returned(failed, eof, data)
  BY DEF Available, Slice, Returned, Unpacked!Available, Unpacked!Slice, Unpacked!Returned

(* What is left to a mapped cursor.                                        *)
LEMMA LeftNow ==
  ASSUME NEW h, NEW n, NEW p, NEW size, CursorNow[h] = p, Len(ContentNow[member[h]]) = size
  PROVE  /\ Unpacked!Left(h, n) = Available(p, size, n)
         /\ Unpacked!AtEnd(h) <=> p >= size
  BY SameOperators DEF Unpacked!Left, Unpacked!AtEnd

(* The types of what is mapped.                                            *)
LEMMA MappedType ==
  ASSUME Setting, IInv
  PROVE  /\ CursorNow \in [Handles -> Nat]
         /\ \E f : ResultNow = [t \in Threads |-> f[t]]
<1>1. Mapping
  BY Maps
<1>2. ASSUME NEW t \in Threads, Wrote(t) PROVE Ahead(t) \in Nat
  BY <1>1, <1>2 DEF Ahead, Mapping, IInv, TypeOK
<1>3. CursorNow \in [Handles -> Nat]
  BY <1>1, <1>2 DEF Mapping, IInv, TypeOK
<1>4. ResultNow = [t \in Threads |-> ResultNow[t]]
  BY DEF ResultNow
<1> QED
  BY <1>3, <1>4

(* A step on a handle nobody writes through changes its mapped cursor.     *)
LEMMA Moves ==
  ASSUME Setting, IInv, IInv', NEW h \in Handles, NEW q \in Nat,
         pointer' = [pointer EXCEPT ![h] = q], UNCHANGED <<pc, call, moved, result>>,
         \A u \in Threads : Wrote(u) => call[u].h # h
  PROVE  CursorNow' = [CursorNow EXCEPT ![h] = q] /\ ResultNow' = ResultNow
<1>1. /\ \A u \in Threads : Wrote(u)' <=> Wrote(u)
      /\ \A u \in Threads : Wrote(u) =>
           /\ call[u].h \in Handles
           /\ call'[u] = call[u]
           /\ moved'[u] = moved[u]
           /\ pointer'[call[u].h] = pointer[call[u].h]
  BY Maps DEF Mapping, Wrote, IInv, TypeOK
<1>2. CASE /\ CursorNow = pointer /\ ResultNow = result
           /\ CursorNow' = pointer' /\ ResultNow' = result'
  BY <1>2
<1>3. ASSUME NEW u \in Threads, Wrote(u),
             CursorNow = [pointer EXCEPT ![call[u].h] = Ahead(u)],
             CursorNow' = [pointer' EXCEPT ![call[u].h] = Ahead(u)],
             ResultNow = [result EXCEPT ![u] = Answer(u)],
             ResultNow' = [result' EXCEPT ![u] = Answer(u)]
      PROVE  CursorNow' = [CursorNow EXCEPT ![h] = q] /\ ResultNow' = ResultNow
  <2>1. call[u].h \in Handles /\ call[u].h # h /\ pointer \in [Handles -> Nat]
    BY <1>1, <1>3 DEF IInv, TypeOK
  <2>2. [[pointer EXCEPT ![h] = q] EXCEPT ![call[u].h] = Ahead(u)]
          = [[pointer EXCEPT ![call[u].h] = Ahead(u)] EXCEPT ![h] = q]
    BY <2>1
  <2> QED
    BY <1>3, <2>2
<1> QED
  BY <1>1, <1>2, <1>3, Keeps

(* A window is opened, or the program stops.                               *)
LEMMA OpenStoredOpens ==
  ASSUME Setting, IInv, IInv', NEW t \in Threads, NEW h \in Handles, NEW m \in Members,
         OpenStored(t, h, m)
  PROVE  Unpacked!Open(h, m) \/ UNCHANGED Unpacked!vars
<1>1. /\ member[h] = NoMember
      /\ UNCHANGED <<file, bytes, pc, call, moved, result>>
  BY DEF OpenStored, Construct, archiveVars, threadVars
<1>2. CASE /\ member' = [member EXCEPT ![h] = m]
           /\ pointer' = [pointer EXCEPT ![h] = 0]
  <2>1. \A u \in Threads : Wrote(u) => call[u].h # h /\ call[u].h \in Handles
    BY <1>1, Maps, ActorsAssumption DEF Mapping
  <2>2. CursorNow' = [CursorNow EXCEPT ![h] = 0] /\ ResultNow' = ResultNow
    BY <1>1, <1>2, <2>1, Moves
  <2>3. ContentNow' = ContentNow
    BY <1>1 DEF ContentNow
  <2> QED
    BY <1>1, <1>2, <2>2, <2>3 DEF Unpacked!Open
<1>3. CASE UNCHANGED handleVars
  BY <1>1, <1>3, Stutters DEF handleVars, Wrote
<1> QED
  BY <1>2, <1>3 DEF OpenStored, Construct

(* A cursor is moved, on a handle nobody writes through.                   *)
LEMMA SeekHandleSeeks ==
  ASSUME Setting, IInv, IInv', NEW t \in Threads, NEW h \in Handles, NEW p \in Counts,
         SeekHandle(t, h, p)
  PROVE  Unpacked!Seek(h, p)
<1> DEFINE q == IF p <= Size[member[h]] THEN p ELSE Size[member[h]]
<1>1. /\ member[h] # NoMember /\ member' = member
      /\ pointer' = [pointer EXCEPT ![h] = q]
      /\ UNCHANGED <<file, bytes, pc, call, moved, result>>
  BY DEF SeekHandle, archiveVars, threadVars
<1>2. \A u \in Threads : Wrote(u) => call[u].h # h /\ call[u].h \in Handles
  BY SoughtAlone, Maps DEF Wrote, Working, Mapping
<1>3. q \in Nat
  BY <1>1, LayoutAssumption DEF IInv, TypeOK
<1> HIDE DEF q
<1>4. CursorNow' = [CursorNow EXCEPT ![h] = q] /\ ResultNow' = ResultNow
  BY <1>1, <1>2, <1>3, Moves
<1>5. ContentNow' = ContentNow
  BY <1>1 DEF ContentNow
<1>6. Len(ContentNow[member[h]]) = Size[member[h]]
  BY <1>1, ContentOf DEF IInv, TypeOK
<1> QED
  BY <1>1, <1>4, <1>5, <1>6 DEF Unpacked!Seek, q

(* A read or write at the end of its window is a read of nothing, even     *)
(* while another thread writes nothing there.                              *)
LEMMA AtEndReads ==
  ASSUME Setting, IInv, IInv', NEW t \in Threads, NEW h \in Handles, NEW op, AtEnd(t, h, op)
  PROVE  \E n \in Counts : Unpacked!Read(t, h, n)
<1> PICK n \in Counts : TRUE
  BY LayoutAssumption
<1>1. /\ member[h] # NoMember /\ pointer[h] >= Size[member[h]] /\ pc[t] = "idle"
      /\ result' = [result EXCEPT ![t] = Returned(FALSE, TRUE, <<>>)]
      /\ UNCHANGED <<file, bytes, member, pointer, pc, call, moved>>
  BY DEF AtEnd, Idle, archiveVars, handleVars, threadVars
<1>2. /\ member[h] \in Members /\ n \in Nat
      /\ pointer[h] \in Nat /\ pointer[h] = Size[member[h]]
  BY <1>1, LayoutAssumption DEF IInv, TypeOK, PointerInWindow
<1>3. \A u \in Threads : Wrote(u)' <=> Wrote(u)
  BY <1>1 DEF Wrote
<1>4. \A u \in Threads : Wrote(u) =>
        /\ u # t
        /\ call[u].h = h => Ahead(u) = pointer[h]
  <2> SUFFICES ASSUME NEW u \in Threads, Wrote(u)
               PROVE  u # t /\ (call[u].h = h => Ahead(u) = pointer[h])
    OBVIOUS
  <2>1. u # t
    BY <1>1 DEF Wrote
  <2>2. ASSUME call[u].h = h PROVE Ahead(u) = pointer[h]
    <3>1. moved[u].n = Available(pointer[h], Size[member[h]], call[u].n)
      BY <2>2, Maps DEF Mapping
    <3>2. moved[u].n = 0
      BY <1>2, <3>1 DEF Available
    <3> QED
      BY <1>2, <2>2, <3>2 DEF Ahead
  <2> QED
    BY <2>1, <2>2
<1>5. /\ CursorNow' = CursorNow
      /\ CursorNow[h] = pointer[h]
      /\ ResultNow' = [ResultNow EXCEPT ![t] = Returned(FALSE, TRUE, <<>>)]
  <2>1. CASE /\ CursorNow = pointer /\ ResultNow = result
             /\ CursorNow' = pointer' /\ ResultNow' = result'
    BY <1>1, <2>1
  <2>2. ASSUME NEW u \in Threads, Wrote(u),
               CursorNow = [pointer EXCEPT ![call[u].h] = Ahead(u)],
               CursorNow' = [pointer' EXCEPT ![call[u].h] = Ahead(u)],
               ResultNow = [result EXCEPT ![u] = Answer(u)],
               ResultNow' = [result' EXCEPT ![u] = Answer(u)]
        PROVE  /\ CursorNow' = CursorNow
               /\ CursorNow[h] = pointer[h]
               /\ ResultNow' = [ResultNow EXCEPT ![t] = Returned(FALSE, TRUE, <<>>)]
    <3>1. CursorNow' = CursorNow
      BY <1>1, <2>2
    <3>2. CursorNow[h] = pointer[h]
      BY <1>4, <2>2 DEF IInv, TypeOK
    <3>3. u # t /\ DOMAIN result = Threads
      BY <1>4, <2>2 DEF IInv, TypeOK
    <3>4. ResultNow' = [ResultNow EXCEPT ![t] = Returned(FALSE, TRUE, <<>>)]
      BY <1>1, <2>2, <3>3
    <3> QED
      BY <3>1, <3>2, <3>4
  <2>3. \A u \in Threads : Wrote(u) =>
          /\ call'[u] = call[u]
          /\ moved'[u] = moved[u]
          /\ pointer'[call[u].h] = pointer[call[u].h]
    BY <1>1
  <2> QED
    BY <1>3, <2>1, <2>2, <2>3, Keeps
<1>6. CursorNow' = [CursorNow EXCEPT ![h] = CursorNow[h] + 0]
  BY <1>2, <1>5, MappedType
<1>7. ContentNow' = ContentNow
  BY <1>1 DEF ContentNow
<1>8. Len(ContentNow[member[h]]) = pointer[h]
  BY <1>2, ContentOf
<1>9. Unpacked!Left(h, n) = 0 /\ Unpacked!AtEnd(h)
  <2>1. /\ Unpacked!Left(h, n) = Available(pointer[h], pointer[h], n)
        /\ Unpacked!AtEnd(h) <=> pointer[h] >= pointer[h]
    BY <1>5, <1>8, LeftNow
  <2> QED
    BY <1>2, <2>1 DEF Available
<1>12. Unpacked!EofFits(h, n, TRUE) /\ Unpacked!FailureFits(h, FALSE, file.err)
  BY <1>9 DEF Unpacked!EofFits, Unpacked!FailureFits
<1>10. Unpacked!Returned(FALSE, TRUE, Unpacked!Slice(ContentNow[member[h]], CursorNow[h], 0))
         = Returned(FALSE, TRUE, <<>>)
  <2>1. Slice(ContentNow[member[h]], CursorNow[h], 0) = <<>>
    BY DEF Slice
  <2> QED
    BY <2>1, SameOperators
<1>11. Unpacked!Read(t, h, n)
  BY <1>1, <1>5, <1>6, <1>7, <1>9, <1>10, <1>12 DEF Unpacked!Read
<1> QED
  BY <1>11

(* A read takes effect when it returns.                                    *)
LEMMA NoneElse ==
  ASSUME Setting, IInv, IInv', NEW t \in Threads, InSection(t), ~Wrote(t),
         pc' = [pc EXCEPT ![t] = "idle"]
  PROVE  /\ CursorNow = pointer /\ ResultNow = result
         /\ CursorNow' = pointer' /\ ResultNow' = result'
<1>1. \A u \in Threads : ~Wrote(u)
  BY OneBusy DEF Wrote, InSection
<1>2. \A u \in Threads : ~Wrote(u)'
  BY OneBusy DEF Wrote, InSection, IInv, TypeOK
<1> QED
  BY <1>1, <1>2, Maps, MapsNext DEF Mapping

LEMMA ReturnReadReads ==
  ASSUME Setting, IInv, IInv', Reports, NEW t \in Threads, ReturnRead(t)
  PROVE  \E h \in Handles, n \in Counts : Unpacked!Read(t, h, n)
<1> DEFINE h == call[t].h
           n == call[t].n
           m == call[t].m
           k == moved[t].n
           p == pointer[h]
           eof == moved[t].eof \/ PastEnd(t)
<1>1. /\ pc[t] = "return" /\ call[t].op = "read"
      /\ pointer' = [pointer EXCEPT ![h] = p + k]
      /\ pc' = [pc EXCEPT ![t] = "idle"]
      /\ result' = [result EXCEPT ![t] = Returned(moved[t].failed, eof, moved[t].data)]
      /\ file' = file /\ bytes' = bytes /\ member' = member
  BY DEF ReturnRead, Advance, Leave
<1>2. Transferring(t) /\ Working(t)
  BY <1>1 DEF IInv, Engaged, Sizes, Working
<1>3. /\ h \in Handles /\ n \in Counts /\ n \in Nat
      /\ m \in Members /\ member[h] = m
      /\ p \in Nat /\ k \in Nat /\ Size[m] \in Nat
  BY <1>1, <1>2, LayoutAssumption DEF Transferring, IInv, TypeOK
<1>4. /\ k = Wanted(t)
      /\ moved[t].data = Slice(bytes, Target(t), k)
      /\ moved[t].failed = file.err /\ moved[t].eof = FALSE
  BY <1>1 DEF IInv, Carries, Reports
<1>5. k = Available(p, Size[m], n) /\ p + k <= Size[m] /\ Target(t) = Offset[m] + p
  BY <1>1, <1>2, <1>4, WantedType
<1>6. Len(ContentNow[m]) = Size[m] /\ moved[t].data = Slice(ContentNow[m], p, k)
  BY <1>3, <1>4, <1>5, ContentOf
<1>7. eof \in BOOLEAN /\ file.err \in BOOLEAN
  BY DEF IInv, TypeOK, Stream, PastEnd
<1>8. (k < n => eof) /\ (eof <=> p + k + n > Size[m])
  <2>1. eof <=> p + k + n > Size[m]
    BY <1>4 DEF PastEnd
  <2>2. k < n => p + k = Size[m]
    <3> HIDE DEF h, n, m, k, p, eof
    <3> QED
      BY <1>3, <1>5 DEF Available
  <2> HIDE DEF h, n, m, k, p
  <2> QED
    BY <1>3, <2>1, <2>2
<1>9. /\ CursorNow = pointer /\ CursorNow' = pointer'
      /\ ResultNow = result /\ ResultNow' = result'
  BY <1>1, NoneElse DEF InSection, Wrote
<1>10. ContentNow' = ContentNow
  BY <1>1 DEF ContentNow
<1> HIDE DEF h, n, m, k, p, eof
<1>11. k = Unpacked!Left(h, n)
  BY <1>3, <1>5, <1>6, <1>9, LeftNow DEF p
<1>17. Unpacked!EofFits(h, n, eof) /\ Unpacked!FailureFits(h, file.err, file.err)
  BY <1>3, <1>6, <1>8, <1>9, <1>11 DEF Unpacked!EofFits, Unpacked!FailureFits, p
<1>12. Unpacked!Returned(file.err, eof, Unpacked!Slice(ContentNow[member[h]], CursorNow[h], k))
         = Returned(moved[t].failed, eof, moved[t].data)
  BY <1>3, <1>4, <1>6, <1>9, SameOperators DEF p
<1>13. member[h] # NoMember
  BY <1>3, ActorsAssumption
<1>14. CursorNow' = [CursorNow EXCEPT ![h] = CursorNow[h] + k]
  BY <1>1, <1>9 DEF p
<1>15. ResultNow' = [ResultNow EXCEPT ![t] =
         Unpacked!Returned(file.err, eof, Unpacked!Slice(ContentNow[member[h]], CursorNow[h], k))]
  BY <1>1, <1>9, <1>12
<1>16. Unpacked!Read(t, h, n)
  BY <1>1, <1>7, <1>10, <1>11, <1>13, <1>14, <1>15, <1>17 DEF Unpacked!Read
<1> QED
  BY <1>3, <1>16

(* A load takes effect when it returns; the decoder cannot refuse it.      *)
LEMMA ReturnExtractExtracts ==
  ASSUME Setting, IInv, IInv', Reports, NEW t \in Threads, ReturnExtract(t)
  PROVE  \E m \in Members : Unpacked!Extract(t, m)
<1> DEFINE m == call[t].m
<1>1. /\ pc[t] = "return" /\ call[t].op = "extract"
      /\ pc' = [pc EXCEPT ![t] = "idle"]
      /\ UNCHANGED <<file, bytes, member, pointer>>
  BY DEF ReturnExtract, Leave, handleVars
<1>2. Transferring(t)
  BY <1>1 DEF IInv, Engaged, Sizes
<1>3. m \in Members /\ Target(t) = Offset[m] /\ Wanted(t) = Size[m]
  BY <1>1, <1>2, LayoutAssumption DEF Transferring, Target, Wanted
<1>4. moved[t].data = ContentNow[m]
  BY <1>1, <1>3 DEF IInv, Carries, ContentNow
<1>5. m \in Packed => moved[t].data = Slice(Image, Offset[m], Size[m])
  BY <1>3, <1>4 DEF Reports, Content
<1>6. result' = [result EXCEPT ![t] = Returned(FALSE, FALSE, moved[t].data)]
  BY <1>5 DEF ReturnExtract, Leave, Returned
<1>7. /\ CursorNow = pointer /\ CursorNow' = pointer'
      /\ ResultNow = result /\ ResultNow' = result'
  BY <1>1, NoneElse DEF InSection, Wrote
<1>8. ContentNow' = ContentNow
  BY <1>1 DEF ContentNow
<1> HIDE DEF m
<1>9. Unpacked!Returned(FALSE, FALSE, Unpacked!Slice(ContentNow[m], 0, Len(ContentNow[m])))
        = Returned(FALSE, FALSE, moved[t].data)
  BY <1>3, <1>4, ContentOf, SameOperators
<1>10. Unpacked!Extract(t, m)
  BY <1>1, <1>6, <1>7, <1>8, <1>9 DEF Unpacked!Extract
<1> QED
  BY <1>3, <1>10

(* A write takes effect when it reaches the archive ...                    *)
LEMMA WriteParentWrites ==
  ASSUME Setting, Separate, IInv, IInv', Reports, Reports', NEW t \in Threads,
         WriteParent(t)
  PROVE  \E h \in Handles, n \in Counts : Unpacked!Write(t, h, n)
<1> DEFINE h == call[t].h
           n == call[t].n
           m == call[t].m
           k == Wanted(t)
           p == pointer[h]
<1>1. /\ pc[t] = "transfer" /\ call[t].op = "write"
      /\ moved' = [moved EXCEPT ![t] = Moved(k, <<>>, file'.err, FALSE)]
      /\ pc' = [pc EXCEPT ![t] = "return"]
      /\ UNCHANGED <<member, pointer, call, result>>
  BY DEF WriteParent, handleVars
<1>2. Transferring(t) /\ Working(t)
  BY <1>1 DEF IInv, Engaged, Sizes, Working
<1>3. /\ h \in Handles /\ n \in Counts /\ n \in Nat
      /\ m \in Members /\ member[h] = m /\ member[h] # NoMember
      /\ p \in Nat /\ k \in Nat /\ Size[m] \in Nat
  BY <1>1, <1>2, LayoutAssumption, ActorsAssumption, WantedType DEF Transferring, IInv, TypeOK
<1>4. k = Available(p, Size[m], n) /\ p + k <= Size[m]
  BY <1>1, <1>2, WantedType
<1>5. (file.err)' = (file.err \/ (k > 0 /\ ~Writable))
  BY WritesOwn
<1>6. \A u \in Threads : ~Wrote(u)
  BY <1>1, OneBusy DEF Wrote, InSection
<1>7. Wrote(t)'
  BY <1>1 DEF Wrote, IInv, TypeOK
<1>8. CursorNow = pointer /\ ResultNow = result
  BY <1>6, Maps DEF Mapping
<1>9. moved'[t].n = k
  BY <1>1 DEF Moved, IInv, TypeOK
<1>10. CursorNow' = [pointer EXCEPT ![h] = p + k]
  BY <1>1, <1>7, <1>9, MapsNext DEF Mapping, Ahead
<1> DEFINE r == Answer(t)'
           failed == moved'[t].failed \/ PastEnd(t)'
           eof == PastEnd(t)'
<1>11. ResultNow' = [result EXCEPT ![t] = r]
  BY <1>1, <1>7, MapsNext DEF Mapping
<1>12. r = Returned(failed, eof, <<>>)
  BY DEF Answer, Returned
<1>13. failed \in BOOLEAN /\ eof \in BOOLEAN
  <2>1. moved'[t].failed \in BOOLEAN
    BY DEF IInv, TypeOK
  <2> QED
    BY <2>1 DEF PastEnd
<1>14. (k < n => eof) /\ (eof <=> p + k + n > Size[m])
  <2>1. eof <=> p + k + n > Size[m]
    BY <1>1, <1>9 DEF PastEnd
  <2>2. k < n => p + k = Size[m]
    <3> HIDE DEF h, n, m, k, p
    <3> QED
      BY <1>3, <1>4 DEF Available
  <2> HIDE DEF h, n, m, k, p, eof
  <2> QED
    BY <1>3, <2>1, <2>2
<1>15. ContentNow' = [ContentNow EXCEPT ![m] =
               [i \in 1..Len(ContentNow[m]) |->
                  IF Writable /\ i \in p + 1 .. p + k THEN NewByte ELSE ContentNow[m][i]]]
  BY WriteChanges
<1>16. Len(ContentNow[m]) = Size[m]
  BY <1>3, ContentOf
<1>21. failed = ((file.err)' \/ eof)
  <2>1. moved'[t].failed = file'.err
    BY <1>1 DEF Moved, IInv, TypeOK
  <2> QED
    BY <2>1
<1> HIDE DEF h, n, m, k, p, r, failed, eof
<1>17. k = Unpacked!Left(h, n) /\ CursorNow[h] = p
  BY <1>3, <1>4, <1>8, <1>16, LeftNow DEF p
<1>22. /\ Unpacked!EofFits(h, n, eof)
       /\ Unpacked!FailureFits(h, failed, (file.err)' \/ eof)
  BY <1>3, <1>14, <1>16, <1>17, <1>21 DEF Unpacked!EofFits, Unpacked!FailureFits
<1>18. CursorNow' = [CursorNow EXCEPT ![h] = CursorNow[h] + k]
  BY <1>8, <1>10, <1>17
<1>19. ResultNow' = [ResultNow EXCEPT ![t] = Unpacked!Returned(failed, eof, <<>>)]
  BY <1>8, <1>11, <1>12, SameOperators
<1>20. Unpacked!Write(t, h, n)
  BY <1>1, <1>3, <1>5, <1>13, <1>15, <1>17, <1>18, <1>19, <1>22 DEF Unpacked!Write
<1> QED
  BY <1>3, <1>20

(* ... and its return shows no more than it did then.                      *)
LEMMA ReturnWriteStutters ==
  ASSUME Setting, IInv, IInv', NEW t \in Threads, ReturnWrite(t)
  PROVE  UNCHANGED Unpacked!vars
<1>1. /\ pc[t] = "return" /\ call[t].op = "write"
      /\ pointer' = [pointer EXCEPT ![call[t].h] = Ahead(t)]
      /\ pc' = [pc EXCEPT ![t] = "idle"]
      /\ result' = [result EXCEPT ![t] = Answer(t)]
      /\ file' = file /\ bytes' = bytes /\ member' = member
  BY DEF ReturnWrite, Advance, Leave, Ahead, Answer
<1>2. Wrote(t)
  BY <1>1 DEF Wrote
<1>3. CursorNow = pointer' /\ ResultNow = result'
  BY <1>1, <1>2, Maps DEF Mapping
<1>4. \A u \in Threads : ~Wrote(u)'
  BY <1>1, OneBusy DEF Wrote, InSection, IInv, TypeOK
<1>5. CursorNow' = pointer' /\ ResultNow' = result'
  BY <1>4, MapsNext DEF Mapping
<1>6. ContentNow' = ContentNow
  BY <1>1 DEF ContentNow
<1> QED
  BY <1>1, <1>3, <1>5, <1>6 DEF Unpacked!vars

(* Every step is a step of the abstract specification or a stutter.        *)
LEMMA NextUnpacks ==
  ASSUME Setting, Separate, IInv, IInv', Reports, Reports', [Next]_vars
  PROVE  [Unpacked!Next]_(Unpacked!vars)
<1> USE DEF Unpacked!Next
<1>1. ASSUME NEW t \in Threads, NEW h \in Handles, NEW m \in Members, OpenStored(t, h, m)
      PROVE  Unpacked!Next \/ UNCHANGED Unpacked!vars
  BY <1>1, OpenStoredOpens
<1>2. ASSUME NEW t \in Threads, NEW h \in Handles, NEW op, AtEnd(t, h, op)
      PROVE  Unpacked!Next
  BY <1>2, AtEndReads
<1>3. ASSUME NEW t \in Threads, NEW h \in Handles, NEW p \in Counts, SeekHandle(t, h, p)
      PROVE  Unpacked!Next
  BY <1>3, SeekHandleSeeks
<1>4. ASSUME NEW t \in Threads,
             \/ \E h \in Handles, op \in {"read", "write"}, n \in Counts : Inside(t, h, op, n)
             \/ \E m \in Members : Extract(t, m)
             \/ GetSizeTell(t) \/ Lock(t) \/ LockNull(t) \/ SeekParent(t)
             \/ GetSizeToEnd(t) \/ GetSizeRestore(t)
      PROVE  UNCHANGED Unpacked!vars
  <2>1. /\ UNCHANGED <<member, pointer, bytes, result, moved>>
        /\ \A u \in Threads : u # t => pc'[u] = pc[u] /\ call'[u] = call[u]
        /\ pc[t] # "return" /\ pc'[t] # "return"
    BY <1>4 DEF Inside, Extract, GetSizeTell, Lock, LockNull, SeekParent, GetSizeToEnd,
                GetSizeRestore, Enter, Idle, archiveVars, handleVars, IInv, TypeOK
  <2>2. \A u \in Threads : Wrote(u)' <=> Wrote(u)
    BY <2>1 DEF Wrote
  <2>3. \A u \in Threads : Wrote(u) => call'[u] = call[u] /\ moved'[u] = moved[u]
    BY <2>1 DEF Wrote
  <2>4. file'.err = file.err
    <3>1. CASE SeekParent(t) \/ GetSizeToEnd(t) \/ GetSizeRestore(t)
      BY <3>1, SeeksReport
    <3>2. CASE ~(SeekParent(t) \/ GetSizeToEnd(t) \/ GetSizeRestore(t))
      BY <1>4, <3>2 DEF Inside, Extract, GetSizeTell, Lock, LockNull, archiveVars
    <3> QED
      BY <3>1, <3>2
  <2> QED
    BY <2>1, <2>2, <2>3, <2>4, Stutters
<1>5. ASSUME NEW t \in Threads, ReadParent(t)
      PROVE  UNCHANGED Unpacked!vars
  <2>1. /\ UNCHANGED <<member, pointer, bytes, result, call>>
        /\ call[t].op # "write"
        /\ \A u \in Threads : u # t => pc'[u] = pc[u] /\ moved'[u] = moved[u]
    BY <1>5 DEF ReadParent, handleVars, IInv, TypeOK
  <2>2. \A u \in Threads : Wrote(u)' <=> Wrote(u)
    BY <2>1 DEF Wrote
  <2>3. \A u \in Threads : Wrote(u) => call'[u] = call[u] /\ moved'[u] = moved[u]
    BY <2>1 DEF Wrote
  <2>4. file'.err = file.err
    BY <1>5, ReadsOwn DEF IInv, TypeOK, Stream
  <2> QED
    BY <2>1, <2>2, <2>3, <2>4, Stutters
<1>6. ASSUME NEW t \in Threads, WriteParent(t)
      PROVE  Unpacked!Next
  BY <1>6, WriteParentWrites
<1>7. ASSUME NEW t \in Threads, ReturnWrite(t)
      PROVE  UNCHANGED Unpacked!vars
  BY <1>7, ReturnWriteStutters
<1>8. ASSUME NEW t \in Threads, ReturnRead(t)
      PROVE  Unpacked!Next
  BY <1>8, ReturnReadReads
<1>9. ASSUME NEW t \in Threads, ReturnExtract(t)
      PROVE  Unpacked!Next
  BY <1>9, ReturnExtractExtracts
<1>10. CASE UNCHANGED vars
  BY <1>10, Stutters DEF vars, archiveVars, handleVars, threadVars, Wrote
<1> QED
  BY <1>1, <1>2, <1>3, <1>4, <1>5, <1>6, <1>7, <1>8, <1>9, <1>10
     DEF Next, Begin, Continue, Locked

(* Members behave as files of their own, each call taking effect at one    *)
(* instant, whether threads share the stream, share a handle, write, or    *)
(* one thread runs with no mutex at all.                                   *)
THEOREM Implements == ASSUME Setting, Separate PROVE Spec => UnpackedSpec
<1>1. Init => Unpacked!Init
  <2> SUFFICES ASSUME Init PROVE Unpacked!Init
    OBVIOUS
  <2>1. \A t \in Threads : ~Wrote(t)
    BY DEF Init, Wrote
  <2>2. CursorNow = pointer /\ ResultNow = result
    BY <2>1, InitIInv DEF CursorNow, ResultNow, IInv, TypeOK
  <2>3. ContentNow = Content
    BY DEF Init, ContentNow, Content
  <2> QED
    BY <2>2, <2>3 DEF Init, Rewound, Unpacked!Init, Returned, Unpacked!Returned
<1>2. IInv /\ Reports /\ [Next]_vars => Reports'
  BY NextReports
<1>3. IInv /\ IInv' /\ Reports /\ Reports' /\ [Next]_vars => [Unpacked!Next]_(Unpacked!vars)
  BY NextUnpacks
<1> QED
  BY <1>1, <1>2, <1>3, InitReports, Invariant, PTL DEF Spec, UnpackedSpec, Unpacked!Spec
=============================================================================

-------------------------- MODULE UnpackedMembers --------------------------
(***************************************************************************)
(* What mounting an archive promises (README.md, "as if they were          *)
(* unpacked"): every member is a file of its own, every handle has a       *)
(* cursor nobody else moves, and every call takes effect at once.  Where   *)
(* the archive was opened in a mode that can write, so are its members.    *)
(*                                                                         *)
(* In three things a member is less than a file of its own, and this       *)
(* module says in which: after a write that was refused, every call that   *)
(* transfers something reports a failure, whatever member it is on; a call *)
(* may report end-of-file as soon as another one like it would meet it;    *)
(* and a write that reports end-of-file reports a failure with it.  The    *)
(* documentation says neither: EofOnlyBeyondEnd of SharedArchive is        *)
(* violated, by reads and by writes.                                       *)
(***************************************************************************)
EXTENDS StdFile

CONSTANTS Threads,   \* callers
          Handles,   \* open files
          Members,   \* archive members
          NoMember,  \* what a handle that is not open stands for
          Original,  \* [Members -> Seq(byte)]: what they hold at first
          NewByte,   \* what writers write
          Counts,    \* byte counts asked for, and positions sought
          Writable   \* members can be written

VARIABLES member,    \* [Handles -> Members \cup {NoMember}]
          cursor,    \* [Handles -> Nat]
          content,   \* [Members -> Seq(byte)]
          result,    \* what the last call of each thread returned
          refused    \* a write was refused

vars == <<member, cursor, content, result, refused>>

Returned(failed, eof, data) == [failed |-> failed, eof |-> eof, data |-> data]

Init ==
  /\ member = [h \in Handles |-> NoMember]
  /\ cursor = [h \in Handles |-> 0]
  /\ content = Original
  /\ result = [t \in Threads |-> Returned(FALSE, FALSE, <<>>)]
  /\ refused = FALSE

Open(h, m) ==
  /\ member[h] = NoMember
  /\ member' = [member EXCEPT ![h] = m]
  /\ cursor' = [cursor EXCEPT ![h] = 0]
  /\ UNCHANGED <<content, result, refused>>

AtEnd(h) == cursor[h] >= Len(content[member[h]])

Left(h, n) == Available(cursor[h], Len(content[member[h]]), n)

(* End-of-file must be reported of n bytes when less was left, and may be  *)
(* when less than n is left behind them.                                   *)
EofFits(h, n, eof) ==
  /\ Left(h, n) < n => eof
  /\ eof => AtEnd(h) \/ cursor[h] + Left(h, n) + n > Len(content[member[h]])

(* A failure is reported when there is one; nothing is tried at the end.   *)
FailureFits(h, failed, bad) == failed = bad \/ (AtEnd(h) /\ ~failed)

(* A read returns the bytes at the cursor and moves the cursor past them.  *)
Read(t, h, n) ==
  /\ member[h] # NoMember
  /\ cursor' = [cursor EXCEPT ![h] = cursor[h] + Left(h, n)]
  /\ \E failed, eof \in BOOLEAN :
       /\ EofFits(h, n, eof)
       /\ FailureFits(h, failed, refused)
       /\ result' = [result EXCEPT ![t] =
            Returned(failed, eof, Slice(content[member[h]], cursor[h], Left(h, n)))]
  /\ UNCHANGED <<member, content, refused>>

(* A write changes what lies from the cursor on, up to the member's end,   *)
(* and moves the cursor past it, refused or not.                           *)
Write(t, h, n) ==
  LET m == member[h]
  IN  /\ m # NoMember
      /\ cursor' = [cursor EXCEPT ![h] = cursor[h] + Left(h, n)]
      /\ content' = [content EXCEPT ![m] =
           [i \in 1..Len(content[m]) |->
              IF Writable /\ i \in cursor[h] + 1 .. cursor[h] + Left(h, n)
              THEN NewByte ELSE content[m][i]]]
      /\ refused' = (refused \/ (Left(h, n) > 0 /\ ~Writable))
      /\ \E failed, eof \in BOOLEAN :
           /\ EofFits(h, n, eof)
           /\ FailureFits(h, failed, refused' \/ eof)
           /\ result' = [result EXCEPT ![t] = Returned(failed, eof, <<>>)]
      /\ UNCHANGED member

(* Seeking past the end stops at the end.                                  *)
Seek(h, p) ==
  /\ member[h] # NoMember
  /\ cursor' = [cursor EXCEPT ![h] =
                  IF p <= Len(content[member[h]]) THEN p ELSE Len(content[member[h]])]
  /\ UNCHANGED <<member, content, result, refused>>

(* Loading a whole member touches no handle, and reports no failure.       *)
Extract(t, m) ==
  /\ result' = [result EXCEPT ![t] =
                  Returned(FALSE, FALSE, Slice(content[m], 0, Len(content[m])))]
  /\ UNCHANGED <<member, cursor, content, refused>>

Next ==
  \/ \E h \in Handles, m \in Members : Open(h, m)
  \/ \E t \in Threads, h \in Handles, n \in Counts : Read(t, h, n) \/ Write(t, h, n)
  \/ \E h \in Handles, p \in Counts : Seek(h, p)
  \/ \E t \in Threads, m \in Members : Extract(t, m)

Spec == Init /\ [][Next]_vars
=============================================================================

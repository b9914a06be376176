---------------------------- MODULE MemRefFile ----------------------------
(***************************************************************************)
(* A file in memory: a buffer, its size and one cursor.  A MemRefFile that *)
(* owns its buffer grows and shrinks with each write; a view on somebody   *)
(* else's buffer keeps its size and refuses a write that does not fit as a *)
(* whole.  Operators only: the module that owns a file keeps its record in *)
(* a variable.  m_size is Len(data); what the buffer has reserved behind   *)
(* it cannot be read, and holds Junk when the file grows over it.          *)
(***************************************************************************)
LOCAL INSTANCE Integers
LOCAL INSTANCE Sequences

CONSTANTS
  Junk,     \* a byte nobody has set
  MinSize   \* min_size: the size of a new file

Owned(bytes) == [data |-> bytes, pos |-> 0, owns |-> TRUE]

View(bytes) == [data |-> bytes, pos |-> 0, owns |-> FALSE]

(* MemRefFile(): min_size bytes from malloc, and they count as content.    *)
New == Owned([i \in 1..MinSize |-> Junk])

(* Resize to n, where that is possible.                                    *)
Resizable(f, n) == f.owns \/ n <= Len(f.data)

\* Mutant: a buffer that is large enough stays as it is.
ResizedUp(f, n) ==
  IF f.owns /\ n > Len(f.data)
  THEN [f EXCEPT !.data = [i \in 1..n |-> IF i <= Len(f.data) THEN f.data[i] ELSE Junk]]
  ELSE f

(* Down to n, too.                                                         *)
Resized(f, n) ==
  IF f.owns
  THEN [f EXCEPT !.data = [i \in 1..n |-> IF i <= Len(f.data) THEN f.data[i] ELSE Junk]]
  ELSE f

SetPosition(f, p) == [f EXCEPT !.pos = p]

(* What a transfer of n bytes at position p of a file of len finds.        *)
Found(p, len, n) == IF len <= p THEN 0 ELSE IF len < p + n THEN len - p ELSE n

(* ReadData: copies what is found, the cursor passes it.                   *)
BytesRead(f, n) == [i \in 1..Found(f.pos, Len(f.data), n) |-> f.data[f.pos + i]]

(* WriteData: the size becomes the end of what is written, unless the      *)
(* buffer is somebody else's.                                              *)
WriteData(f, new) ==
  LET end == f.pos + Len(new)
      g == Resized(f, end)
  IN  IF Resizable(f, end)
      THEN [g EXCEPT !.data = [i \in 1..Len(g.data) |->
                                 IF i \in f.pos + 1 .. end THEN new[i - f.pos] ELSE g.data[i]],
                     !.pos = end]
      ELSE f
=============================================================================

------------------------------ MODULE StdFile ------------------------------
(***************************************************************************)
(* A stdio stream as StdFile uses it: one cursor, a sticky end-of-file     *)
(* flag and a sticky error flag.  Operators only: the modules that own a   *)
(* stream keep its record in a variable and its bytes in another one.      *)
(* Positions count from 0 as in the code; byte p of the file is bytes[p+1].*)
(***************************************************************************)
EXTENDS Integers, Sequences

Stream == [pos : Nat, eof : BOOLEAN, err : BOOLEAN]

(* The stream Open leaves behind.                                          *)
Rewound == [pos |-> 0, eof |-> FALSE, err |-> FALSE]

(* The n bytes that start at position from.                                *)
Slice(bytes, from, n) == [i \in 1..n |-> bytes[from + i]]

(* How many of n bytes a transfer at position pos of a file of len finds.  *)
Available(pos, len, n) ==
  IF pos >= len THEN 0 ELSE IF pos + n <= len THEN n ELSE len - pos

(* fseek: moves the cursor and forgets end-of-file, but not an error.      *)
SetPosition(s, p) == [s EXCEPT !.pos = p, !.eof = FALSE]

(* fread: the cursor passes what was found, a short read sets eof.         *)
ReadData(s, len, n) ==
  LET k == Available(s.pos, len, n)
  IN  [s EXCEPT !.pos = s.pos + k, !.eof = s.eof \/ k < n]

\* Mutant: the error of a refused write is not kept.
WriteDataForgets(s, n, writable) ==
  IF n = 0 \/ writable THEN [s EXCEPT !.pos = s.pos + n] ELSE s

(* fwrite: of no bytes it does nothing; of more, a stream whose mode       *)
(* cannot write refuses them with a sticky error.                          *)
WriteData(s, n, writable) ==
  IF n = 0 \/ writable THEN [s EXCEPT !.pos = s.pos + n] ELSE [s EXCEPT !.err = TRUE]

(* The bytes after fwrite put new ones at position p, which is not behind  *)
(* their end; of the new ones, no more than the disk has room for.         *)
Stored(new, room) == Slice(new, 0, IF Len(new) <= room THEN Len(new) ELSE room)

Overwritten(bytes, p, new) ==
  [i \in 1 .. (IF p + Len(new) > Len(bytes) THEN p + Len(new) ELSE Len(bytes)) |->
     IF i \in p + 1 .. p + Len(new) THEN new[i - p] ELSE bytes[i]]
=============================================================================

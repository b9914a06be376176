-------------------------- MODULE RoundTripProofs --------------------------
(***************************************************************************)
(* What was added is what is found, and of an archive that was not written *)
(* to its end nothing is found, for any number of entries, any names and   *)
(* contents, any file written to and any limit.                            *)
(***************************************************************************)
EXTENDS ZipRoundTripProofs

(***************************************************************************)
(* What was asked of the writer, and what it noted.                        *)
(***************************************************************************)
Asked(k) ==
  /\ headers[k].name \in Names /\ headers[k].name = added[k].path
  /\ headers[k].method \in Methods /\ headers[k].method = added[k].method
  /\ headers[k].size \in Nat /\ headers[k].size = Len(added[k].stored)
  /\ added[k].whole => added[k].stored = added[k].content

Requested ==
  /\ cursor \in [Sources -> Nat]
  /\ \A k \in 1 .. Len(headers) : Asked(k)

(***************************************************************************)
(* The central directory.                                                  *)
(***************************************************************************)
CentralOf(k) == Bytes(Central(headers[k]))

TheRecord == Bytes(End(sizeOfCD, currOffset))

(* How far behind its beginning each entry of the directory ends.          *)
Ends(cd) ==
  /\ cd \in [0 .. Len(headers) -> Nat]
  /\ cd[0] = 0
  /\ \A k \in 1 .. Len(headers) : cd[k] = cd[k - 1] + CentralSize + Len(headers[k].name)
  /\ \A k \in 0 .. Len(headers) - 1 : cd[k] < cd[Len(headers)]
  /\ cd[Len(headers)] < Limit => sizeOfCD = cd[Len(headers)]

Counted == \E cd : Ends(cd)

(* The entries lie before it.                                              *)
Behind(start) ==
  /\ start \in Nat
  /\ start <= Limit => \A k \in 1 .. Len(headers) : Placed(k)
  /\ start < Limit => currOffset = start

Listed(cd, start, k) ==
  /\ Has(start + cd[k - 1], CentralOf(k))
  /\ Has(start + cd[k - 1] + CentralSize, NameOf(k))

(* What remains of the directory when j calls have been made.              *)
Remaining(j) == [i \in 1 .. 2 * Len(headers) + 2 - j |-> Directory[i + j]]

AtEntry(cd, start, k) ==
  /\ todo = Remaining(2 * k) /\ pos = start + cd[k]
  /\ \A i \in 1 .. k : Listed(cd, start, i)

AtName(cd, start, k) ==
  /\ k < Len(headers)
  /\ todo = Remaining(2 * k + 1) /\ pos = start + cd[k] + CentralSize
  /\ \A i \in 1 .. k : Listed(cd, start, i)
  /\ Has(start + cd[k], CentralOf(k + 1))

AtFields(cd, start) ==
  /\ todo = Remaining(2 * Len(headers) + 1)
  /\ pos = start + cd[Len(headers)] + SignatureSize
  /\ \A i \in 1 .. Len(headers) : Listed(cd, start, i)
  /\ Has(start + cd[Len(headers)], SubSeq(TheRecord, 1, SignatureSize))

Sealed(cd, start) ==
  /\ todo = <<>>
  /\ pos = start + cd[Len(headers)] + EndSize
  /\ \A i \in 1 .. Len(headers) : Listed(cd, start, i)
  /\ Has(start + cd[Len(headers)], TheRecord)

Going(cd, start) ==
  \/ \E k \in 0 .. Len(headers) : AtEntry(cd, start, k) \/ AtName(cd, start, k)
  \/ AtFields(cd, start)
  \/ Sealed(cd, start)

Closing ==
  /\ phase \in {"closing", "written", "closed"} /\ ~refused =>
       \E cd, start : Ends(cd) /\ Behind(start) /\ Going(cd, start)
  /\ phase \in {"written", "closed"} => todo = <<>>

(* Also of what is refused the calls are made.                             *)
Left == phase = "closing" => \E j \in 0 .. 2 * Len(headers) + 2 : todo = Remaining(j)

(* A whole archive.                                                        *)
Whole == \E cd, start : Ends(cd) /\ Behind(start) /\ Sealed(cd, start)

(***************************************************************************)
(* The bytes of the file, and those that are still to be written.          *)
(***************************************************************************)
Pieces(h, a) == {Local(h), Name(h), Data(a.stored, h.method), Central(h)}

Ours ==
  (UNION {Pieces(headers[k], added[k]) : k \in 1 .. Len(headers)})
    \cup (IF phase = "ready" THEN {} ELSE {End(sizeOfCD, currOffset)})

ByteOf(b, pieces) == b = <<b[1], b[2]>> /\ b[1] \in pieces

(* A byte of a content, of a record only if an archive was stored.         *)
OfContent(b, clear) ==
  /\ b \in PlainBytes \cup RecordBytes
  /\ clear => b[1].kind # "end"

Set(b, pieces, clear) == ByteOf(b, pieces) \/ OfContent(b, clear)

(* The first byte of a record, and the last.                               *)
IsFirst(b) == b[1].kind = "end" /\ b[2] = 1

IsLast(b) == b[1].kind = "end" /\ b[2] = EndSize

Clean == pos = 0 \/ \A i \in 1 .. Len(Archive) : Archive[i] # Junk

Known ==
  /\ \A i \in 1 .. Len(Archive) : Archive[i] \in {Foreign, Junk} \/ Set(Archive[i], Ours, Unmistakable)
  /\ \A w \in 1 .. Len(todo) : \A i \in 1 .. Len(todo[w]) :
       /\ Set(todo[w][i], Ours, Unmistakable)
       /\ Unmistakable /\ IsLast(todo[w][i]) =>
            phase # "ready" /\ w = Len(todo) /\ i = Len(todo[w])
  /\ Clean
  /\ medium.kind = "memory" /\ ~medium.file.owns =>
       \A i \in 1 .. Len(Archive) : Archive[i] # Junk

(* Where the file ends; of a full disk nothing is left.                    *)
Extent ==
  /\ phase # "stopped" =>
       /\ medium.kind = "stdio" => Len(Archive) = pos /\ (refused => pos = medium.room)
       /\ medium.kind = "memory" /\ medium.file.owns /\ pos > 0 => Len(Archive) = pos
  /\ medium.kind = "memory" /\ medium.file.owns => ~refused

(* The record's last byte is written last, when all of the rest is there.  *)
LastIsLast ==
  EndsThere /\ Unmistakable =>
    \A i \in 1 .. Len(Archive) : IsLast(Archive[i]) => i = pos /\ ~refused /\ Whole

(* Its first byte is no further from the end than its size, and that only  *)
(* if its last one is there.                                               *)
Near(i) ==
  /\ phase # "ready"
  /\ phase = "closing" =>
       Len(todo) <= 1 /\ (Len(todo) = 1 => Len(Archive) <= i - 1 + SignatureSize)
  /\ Len(Archive) <= i - 1 + EndSize
  /\ Len(Archive) = i - 1 + EndSize => IsLast(Archive[Len(Archive)])

FirstIsNear ==
  EndsThere /\ Unmistakable => \A i \in 1 .. Len(Archive) : IsFirst(Archive[i]) => Near(i)

(***************************************************************************)
(* The reader.                                                             *)
(***************************************************************************)
EntryOf(k) ==
  [path |-> Normal(headers[k].name), method |-> headers[k].method, size |-> headers[k].size,
   compressed |-> headers[k].compressed, offset |-> DataAt(k)]

Scanned(cd, start) ==
  /\ reader # "garbled"
  /\ Len(entries) <= Len(headers)
  /\ tell = start + cd[Len(entries)]
  /\ \A k \in 1 .. Len(entries) : entries[k] = EntryOf(k)
  /\ reader = "open" => Len(entries) = Len(headers)

Followed ==
  \E cd, start : Ends(cd) /\ Behind(start) /\ Sealed(cd, start) /\ Scanned(cd, start)

(* When the last bytes that look like a record are this archive's.         *)
Trusted == Fits /\ (Complete \/ (EndsThere /\ Unmistakable))

Reading ==
  /\ tell \in Int /\ entries \in Seq(Entry32)
  /\ record.offset \in Int32 /\ record.size \in Int32
  /\ reader # "none" => phase \in {"closed", "stopped"}
  /\ reader \in {"refused", "undefined"} => ~IsSigned(LastBytes)
  /\ reader = "undefined" => Undetermined
  /\ reader \in {"scan", "open"} => IsPiece(LastBytes, "end") /\ record = Piece(LastBytes)
  /\ reader \in {"scan", "open", "garbled"} /\ Trusted => Followed
  /\ reader \in {"none", "refused", "undefined"} => tell = 0 /\ entries = <<>>

RInv ==
  /\ Requested /\ Counted /\ Closing /\ Left /\ Known /\ Extent
  /\ LastIsLast /\ FirstIsNear /\ Reading

(* The bounds of what is counted.                                          *)
Bounds ==
  /\ refused \in BOOLEAN
  /\ currOffset \in Int32 /\ sizeOfCD \in Int32
  /\ Len(headers) <= MaxEntries
  /\ \A k \in 1 .. Len(headers) : headers[k].offset \in Int32
  /\ Len(todo) <= 2 * MaxEntries + 3
  /\ phase \in {"ready", "closing", "written", "closed", "stopped"}
  /\ reader \in {"none", "scan", "refused", "undefined", "garbled", "open"}

(***************************************************************************)
(* Bytes, pieces and what a reader gets.                                   *)
(***************************************************************************)
LEMMA Archives ==
  ASSUME Types
  PROVE  /\ Len(Archive) \in Nat /\ pos \in Nat /\ medium.room \in Nat
         /\ medium.kind \in {"stdio", "memory"}
         /\ medium.file = [data |-> Archive, pos |-> pos, owns |-> medium.file.owns]
         /\ phase # "stopped" => pos <= Len(Archive) /\ (medium.kind = "stdio" => pos <= medium.room)
         /\ Len(headers) \in Nat /\ Len(added) = Len(headers) /\ Len(todo) \in Nat
BY DEF Types, IsMedium, IsFile, IsSeq, Archive, pos

(* Whatever is read was in the file.                                       *)
LEMMA ByteRead ==
  ASSUME Types, NEW p \in Int, NEW n \in Nat
  PROVE  LET b == BytesAt(p, n)
         IN  /\ IsSeq(b) /\ Len(b) <= n
             /\ \A i \in 1 .. Len(b) : p + i \in 1 .. Len(Archive) /\ b[i] = Archive[p + i]
<1> DEFINE b == BytesAt(p, n)
<1>1. Len(Archive) \in Nat /\ medium.file = [data |-> Archive, pos |-> pos, owns |-> medium.file.owns]
  BY Archives
<1>2. CASE p < 0
  <2>1. b = <<>>
    BY <1>2 DEF BytesAt
  <2> QED
    BY <2>1 DEF IsSeq
<1>3. CASE p >= 0 /\ medium.kind = "stdio"
  <2> DEFINE k == Std!Available(p, Len(Archive), n)
  <2>1. k \in Nat /\ k <= n /\ \A i \in 1 .. k : p + i \in 1 .. Len(Archive)
    BY <1>1, <1>3 DEF Std!Available
  <2>2. b = [i \in 1 .. k |-> Archive[p + i]]
    BY <1>3 DEF BytesAt, Std!Slice
  <2> HIDE DEF k, b
  <2>3. Len(b) = k /\ b = [i \in 1 .. k |-> b[i]]
    BY <2>1, <2>2
  <2> QED
    BY <2>1, <2>2, <2>3 DEF b, IsSeq
<1>4. CASE p >= 0 /\ medium.kind # "stdio"
  <2> DEFINE k == Mem!Found(p, Len(Archive), n)
  <2>1. k \in Nat /\ k <= n /\ \A i \in 1 .. k : p + i \in 1 .. Len(Archive)
    BY <1>1, <1>4 DEF Mem!Found
  <2>2. b = [i \in 1 .. k |-> Archive[p + i]]
    <3>1. Mem!SetPosition(medium.file, p) = [data |-> Archive, pos |-> p, owns |-> medium.file.owns]
      BY <1>1 DEF Mem!SetPosition
    <3> QED
      BY <1>4, <3>1 DEF BytesAt, Mem!BytesRead
  <2> HIDE DEF k, b
  <2>3. Len(b) = k /\ b = [i \in 1 .. k |-> b[i]]
    BY <2>1, <2>2
  <2> QED
    BY <2>1, <2>2, <2>3 DEF b, IsSeq
<1> QED
  BY <1>2, <1>3, <1>4

LEMMA PieceOf ==
  ASSUME NEW piece, piece.bytes \in Nat \ {0}
  PROVE  /\ Len(Bytes(piece)) = piece.bytes
         /\ \A i \in 1 .. piece.bytes : Bytes(piece)[i] = <<piece, i>>
         /\ Bytes(piece) # <<>>
         /\ Piece(Bytes(piece)) = piece
         /\ IsPiece(Bytes(piece), piece.kind)
<1>1. Len(Bytes(piece)) = piece.bytes /\ \A i \in 1 .. piece.bytes : Bytes(piece)[i] = <<piece, i>>
  BY DEF Bytes
<1>2. Bytes(piece)[1] = <<piece, 1>>
  BY <1>1
<1>3. Bytes(piece) # <<>>
  BY <1>1
<1>4. Bytes(piece)[1][1] = piece
  BY <1>2
<1> QED
  BY <1>1, <1>3, <1>4 DEF Piece, IsPiece

LEMMA PieceRead ==
  ASSUME NEW bytes, NEW kind, IsPiece(bytes, kind), Piece(bytes).bytes \in Nat
  PROVE  /\ bytes = Bytes(Piece(bytes)) /\ Piece(bytes).kind = kind
         /\ Len(bytes) = Piece(bytes).bytes /\ Len(bytes) > 0
         /\ \A i \in 1 .. Len(bytes) : bytes[i] = <<Piece(bytes), i>>
<1>1. bytes # <<>> /\ bytes = Bytes(Piece(bytes)) /\ Piece(bytes).kind = kind
  BY DEF IsPiece, Piece
<1> DEFINE p == Piece(bytes)
<1> HIDE DEF p
<1>2. bytes = [k \in 1 .. p.bytes |-> <<p, k>>]
  BY <1>1 DEF Bytes, p
<1>3. Len(bytes) = p.bytes
  BY <1>2 DEF p
<1>4. Len(bytes) > 0
  BY <1>1, <1>2, <1>3 DEF p
<1> QED
  BY <1>1, <1>2, <1>3, <1>4 DEF p

(***************************************************************************)
(* One write.                                                              *)
(***************************************************************************)
(* n bytes are taken.                                                      *)
Takes(f, new, n, len, data) ==
  /\ f = [data |-> data, pos |-> pos + n, owns |-> medium.file.owns]
  /\ Len(data) = len
  /\ \A i \in 1 .. len :
       \/ i \in 1 .. Len(Archive) /\ data[i] = Archive[i] /\ (i <= pos \/ i > pos + n)
       \/ i - pos \in 1 .. n /\ data[i] = new[i - pos]
  /\ medium.kind = "stdio" =>
       /\ Len(Archive) = pos => len = pos + n
       /\ n = Len(new) \/ pos + n = medium.room
  /\ medium.kind = "memory" /\ medium.file.owns => n = Len(new) /\ len = pos + n
  /\ medium.kind = "memory" /\ ~medium.file.owns => len = Len(Archive)

LEMMA WrittenAs ==
  ASSUME Types, phase # "stopped", NEW new, Len(new) \in Nat
  PROVE  \E n \in 0 .. Len(new), len \in Nat : \E data : Takes(Written(new), new, n, len, data)
<1> DEFINE f == Written(new)
<1>1. /\ pos \in Nat /\ Len(Archive) \in Nat /\ pos <= Len(Archive) /\ medium.room \in Nat
      /\ medium.kind \in {"stdio", "memory"}
      /\ medium.kind = "stdio" => pos <= medium.room
      /\ medium.file = [data |-> Archive, pos |-> pos, owns |-> medium.file.owns]
  BY Archives
<1>2. CASE medium.kind = "stdio"
  <2> DEFINE part == Std!Stored(new, medium.room - pos)
             n == IF Len(new) <= medium.room - pos THEN Len(new) ELSE medium.room - pos
             m == IF pos + n > Len(Archive) THEN pos + n ELSE Len(Archive)
             data == [i \in 1..m |-> IF i \in pos + 1 .. pos + n THEN part[i - pos] ELSE Archive[i]]
  <2>1. n \in 0 .. Len(new) /\ m \in Nat /\ pos + n <= medium.room /\ pos + n <= m
    BY <1>1, <1>2
  <2>2. part = [i \in 1..n |-> new[i]] /\ Len(part) = n
    <3>1. part = [i \in 1..n |-> new[0 + i]]
      BY DEF Std!Stored, Std!Slice
    <3>2. part = [i \in 1..n |-> new[i]]
      BY <2>1, <3>1
    <3> QED
      BY <2>1, <3>2
  <2>3. f = [medium.file EXCEPT !.data = data, !.pos = pos + n]
    BY <1>1, <1>2, <2>2 DEF Written, Grown, Std!Overwritten, pos, Archive
  <2>4. f = [data |-> data, pos |-> pos + n, owns |-> medium.file.owns]
    <3> HIDE DEF data, n, f
    <3> QED
      BY <1>1, <2>3, Replaced
  <2>5. Len(data) = m
    BY <2>1
  <2>6. ASSUME NEW i \in 1 .. m
        PROVE  \/ i \in 1 .. Len(Archive) /\ data[i] = Archive[i] /\ (i <= pos \/ i > pos + n)
               \/ i - pos \in 1 .. n /\ data[i] = new[i - pos]
    <3>1. CASE i \in pos + 1 .. pos + n
      <4>1. i - pos \in 1 .. n
        BY <1>1, <2>1, <3>1
      <4>2. data[i] = part[i - pos]
        BY <3>1
      <4> HIDE DEF n
      <4> QED
        BY <2>2, <4>1, <4>2
    <3>2. CASE i \notin pos + 1 .. pos + n
      <4>1. data[i] = Archive[i]
        BY <3>2
      <4>2. i \in 1 .. Len(Archive) /\ (i <= pos \/ i > pos + n)
        BY <1>1, <2>1, <3>2
      <4> QED
        BY <4>1, <4>2
    <3> QED
      BY <3>1, <3>2
  <2>7. /\ Len(Archive) = pos => m = pos + n
        /\ n = Len(new) \/ pos + n = medium.room
    BY <1>1, <2>1
  <2>8. Takes(f, new, n, m, data)
    <3> HIDE DEF n, m, data, f
    <3> QED
      BY <1>2, <2>4, <2>5, <2>6, <2>7 DEF Takes
  <2> QED
    BY <2>1, <2>8
<1>3. CASE medium.kind # "stdio" /\ ~Mem!Resizable(medium.file, pos + Len(new))
  <2>1. f = medium.file /\ ~medium.file.owns
    BY <1>3 DEF Written, Mem!WriteData, Mem!Resizable, pos
  <2>2. f = [data |-> Archive, pos |-> pos + 0, owns |-> medium.file.owns]
    BY <1>1, <2>1
  <2>3. \A i \in 1 .. Len(Archive) : i <= pos \/ i > pos + 0
    BY <1>1
  <2>4. Takes(f, new, 0, Len(Archive), Archive)
    <3> HIDE DEF f
    <3> QED
      BY <1>3, <2>1, <2>2, <2>3 DEF Takes
  <2>5. 0 \in 0 .. Len(new)
    OBVIOUS
  <2> QED
    BY <1>1, <2>4, <2>5
<1>4. CASE medium.kind # "stdio" /\ Mem!Resizable(medium.file, pos + Len(new))
  <2> DEFINE end == pos + Len(new)
             g == Mem!Resized(medium.file, end)
             data == [i \in 1..Len(g.data) |-> IF i \in pos + 1 .. end THEN new[i - pos] ELSE g.data[i]]
  <2>1. /\ g = [data |-> g.data, pos |-> pos, owns |-> medium.file.owns]
        /\ Len(g.data) \in Nat /\ end <= Len(g.data) /\ end \in Nat
        /\ \A i \in 1 .. Len(g.data) :
             i \in pos + 1 .. end \/ (i \in 1 .. Len(Archive) /\ g.data[i] = Archive[i])
        /\ medium.file.owns => Len(g.data) = end
        /\ ~medium.file.owns => Len(g.data) = Len(Archive)
    <3>1. CASE medium.file.owns
      <4> DEFINE d == [i \in 1..end |-> IF i <= Len(Archive) THEN Archive[i] ELSE Junk]
      <4>1. g = [data |-> d, pos |-> pos, owns |-> medium.file.owns]
        <5>1. g = [medium.file EXCEPT !.data = d]
          BY <3>1 DEF Mem!Resized, Archive
        <5> HIDE DEF d, g
        <5> QED
          BY <1>1, <5>1
      <4>2. Len(d) = end /\ end \in Nat
        BY <1>1
      <4>3. \A i \in 1 .. end : i \in pos + 1 .. end \/ (i \in 1 .. Len(Archive) /\ d[i] = Archive[i])
        BY <1>1
      <4> HIDE DEF d, g, end
      <4>4. g.data = d /\ g.pos = pos /\ g.owns = medium.file.owns
        BY <4>1
      <4> QED
        BY <3>1, <4>1, <4>2, <4>3, <4>4
    <3>2. CASE ~medium.file.owns
      <4>1. g = medium.file /\ end <= Len(Archive) /\ end \in Nat
        BY <1>1, <1>4, <3>2 DEF Mem!Resized, Mem!Resizable, Archive
      <4>2. g.data = Archive
        BY <4>1 DEF Archive
      <4> HIDE DEF g, end
      <4> QED
        BY <1>1, <3>2, <4>1, <4>2
    <3> QED
      BY <3>1, <3>2
  <2>2. f = [g EXCEPT !.data = data, !.pos = end]
    BY <1>4 DEF Written, Mem!WriteData, pos
  <2>3. f = [data |-> data, pos |-> end, owns |-> medium.file.owns]
    <3>1. PICK old : g = [data |-> old, pos |-> pos, owns |-> medium.file.owns]
      BY <2>1
    <3> HIDE DEF data, g, end, f
    <3> QED
      BY <2>2, <3>1, Replaced
  <2>4. Len(data) = Len(g.data)
    BY <2>1
  <2>5. ASSUME NEW i \in 1 .. Len(g.data)
        PROVE  \/ i \in 1 .. Len(Archive) /\ data[i] = Archive[i] /\ (i <= pos \/ i > end)
               \/ i - pos \in 1 .. Len(new) /\ data[i] = new[i - pos]
    <3>1. CASE i \in pos + 1 .. end
      <4>1. i - pos \in 1 .. Len(new)
        BY <1>1, <3>1
      <4>2. data[i] = new[i - pos]
        BY <3>1
      <4> QED
        BY <4>1, <4>2
    <3>2. CASE i \notin pos + 1 .. end
      <4>1. data[i] = g.data[i]
        BY <3>2
      <4>2. i <= pos \/ i > end
        BY <1>1, <2>1, <3>2
      <4> QED
        BY <2>1, <3>2, <4>1, <4>2
    <3> QED
      BY <3>1, <3>2
  <2>6. Takes(f, new, Len(new), Len(g.data), data)
    <3>1. medium.file.owns => Len(g.data) = pos + Len(new)
      BY <2>1
    <3>2. ~medium.file.owns => Len(g.data) = Len(Archive)
      BY <2>1
    <3>3. end = pos + Len(new)
      OBVIOUS
    <3> HIDE DEF data, g, f, end
    <3> QED
      BY <1>4, <2>3, <2>4, <2>5, <3>1, <3>2, <3>3 DEF Takes
  <2>7. Len(new) \in 0 .. Len(new)
    OBVIOUS
  <2> QED
    BY <2>1, <2>6, <2>7
<1> QED
  BY <1>2, <1>3, <1>4

LEMMA EachByte ==
  ASSUME NEW piece, piece.bytes \in Nat
  PROVE  /\ Len(Bytes(piece)) = piece.bytes
         /\ \A i \in 1 .. Len(Bytes(piece)) : Bytes(piece)[i] = <<piece, i>>
BY DEF Bytes

(***************************************************************************)
(* The pieces of an archive.                                               *)
(***************************************************************************)
LEMMA Kinds ==
  ASSUME Types, NEW k \in 1 .. Len(headers), NEW q \in Pieces(headers[k], added[k])
  PROVE  /\ q.kind \in {"local", "name", "data", "central"} /\ q.bytes \in Nat
         /\ q.kind = "local" => q = Local(headers[k])
         /\ q.kind = "name" => q = Name(headers[k])
         /\ q.kind = "central" => q = Central(headers[k])
<1>1. Noted(k)
  BY DEF Types
<1>2. /\ Local(headers[k]).kind = "local" /\ Local(headers[k]).bytes = LocalSize
      /\ Name(headers[k]).kind = "name" /\ Name(headers[k]).bytes = Len(headers[k].name)
      /\ Central(headers[k]).kind = "central" /\ Central(headers[k]).bytes = CentralSize
  BY DEF Local, Name, Central
<1>3. /\ Data(added[k].stored, headers[k].method).kind = "data"
      /\ Data(added[k].stored, headers[k].method).bytes = headers[k].compressed
  BY <1>1 DEF Data, Noted
<1>4. LocalSize \in Nat /\ CentralSize \in Nat
  BY SizesAssumption
<1> QED
  BY <1>1, <1>2, <1>3, <1>4 DEF Pieces, Noted

LEMMA RecordKind ==
  /\ End(sizeOfCD, currOffset).kind = "end" /\ End(sizeOfCD, currOffset).bytes = EndSize
  /\ EndSize \in Nat \ {0} /\ SignatureSize \in Nat \ {0} /\ SignatureSize < EndSize
  /\ LocalSize \in Nat \ {0} /\ CentralSize \in Nat \ {0}
<1>1. EndSize \in Nat /\ SignatureSize \in 1 .. EndSize - 1
  BY SizesAssumption
<1>2. SignatureSize \in Nat \ {0} /\ SignatureSize < EndSize /\ EndSize # 0
  BY <1>1
<1> QED
  BY <1>1, <1>2, SizesAssumption DEF End

LEMMA NotOurs ==
  /\ Foreign[1].kind = "foreign" /\ Junk[1].kind = "junk" /\ Foreign # Junk
BY DEF Foreign, Junk

(* A piece of the archive's is not junk, and the record only when that is  *)
(* written.                                                                *)
LEMMA OursAre ==
  ASSUME Types, NEW q \in Ours
  PROVE  /\ q.kind \notin {"junk", "foreign"} /\ q.bytes \in Nat
         /\ q.kind = "end" => phase # "ready" /\ q = End(sizeOfCD, currOffset)
         /\ q.kind # "end" => \E k \in 1 .. Len(headers) : q \in Pieces(headers[k], added[k])
<1>1. CASE \E k \in 1 .. Len(headers) : q \in Pieces(headers[k], added[k])
  <2>1. PICK k \in 1 .. Len(headers) : q \in Pieces(headers[k], added[k])
    BY <1>1
  <2>2. q.kind \in {"local", "name", "data", "central"} /\ q.bytes \in Nat
    BY <2>1, Kinds
  <2> QED
    BY <1>1, <2>2
<1>2. CASE phase # "ready" /\ q = End(sizeOfCD, currOffset)
  BY <1>2, RecordKind
<1>3. (\E k \in 1 .. Len(headers) : q \in Pieces(headers[k], added[k]))
        \/ (phase # "ready" /\ q = End(sizeOfCD, currOffset))
  BY DEF Ours
<1> QED
  BY <1>1, <1>2, <1>3

LEMMA ContentKinds ==
  ASSUME NEW b \in PlainBytes \cup RecordBytes
  PROVE  /\ b = <<b[1], b[2]>> /\ b[1].kind \in {"plain", "end"} /\ b[1].bytes \in Nat /\ b # Junk
         /\ b[1].kind = "end" => b[1].offset \in Int32 /\ b[1].size \in Int32 /\ b[1].bytes = EndSize
<1>1. b = <<b[1], b[2]>>
  BY DEF PlainBytes, RecordBytes
<1>2. CASE b \in PlainBytes
  <2>1. b[1].kind = "plain" /\ b[1].bytes = 0
    BY <1>2 DEF PlainBytes
  <2> QED
    BY <1>1, <2>1, NotOurs
<1>3. CASE b \in RecordBytes
  <2>1. /\ b[1].kind = "end" /\ b[1].bytes = EndSize
        /\ b[1].offset \in Int32 /\ b[1].size \in Int32
    BY <1>3 DEF RecordBytes
  <2> QED
    BY <1>1, <2>1, NotOurs, RecordKind
<1> QED
  BY <1>2, <1>3

(* A byte that was set is not junk; that of a record, unless an archive    *)
(* was stored, is that of this one's.                                      *)
LEMMA SetAre ==
  ASSUME Types, NEW b, Set(b, Ours, Unmistakable)
  PROVE  /\ b # Junk /\ b = <<b[1], b[2]>> /\ b[1].bytes \in Nat
         /\ b[1].kind \notin {"junk", "foreign"}
         /\ Unmistakable /\ b[1].kind = "end" =>
              phase # "ready" /\ b[1] = End(sizeOfCD, currOffset)
<1>1. CASE ByteOf(b, Ours)
  <2>1. b = <<b[1], b[2]>> /\ b[1] \in Ours
    BY <1>1 DEF ByteOf
  <2>2. /\ b[1].kind \notin {"junk", "foreign"} /\ b[1].bytes \in Nat
        /\ b[1].kind = "end" => phase # "ready" /\ b[1] = End(sizeOfCD, currOffset)
    BY <2>1, OursAre
  <2> QED
    BY <2>1, <2>2, NotOurs
<1>2. CASE OfContent(b, Unmistakable)
  BY <1>2, ContentKinds DEF OfContent
<1> QED
  BY <1>1, <1>2 DEF Set

LEMMA NoRecord ==
  ASSUME Types, Known, phase = "ready", Unmistakable, NEW i \in 1 .. Len(Archive)
  PROVE  Archive[i][1].kind # "end"
<1>1. Archive[i] \in {Foreign, Junk} \/ Set(Archive[i], Ours, Unmistakable)
  BY DEF Known
<1>2. CASE Archive[i] \in {Foreign, Junk}
  BY <1>2, NotOurs
<1>3. CASE Set(Archive[i], Ours, Unmistakable)
  BY <1>3, SetAre
<1> QED
  BY <1>1, <1>2, <1>3

(***************************************************************************)
(* The first state.                                                        *)
(***************************************************************************)
LEMMA InitRInv == ASSUME Init PROVE RInv
<1>1. PICK m \in Media : medium = [m EXCEPT !.file = Mem!SetPosition(m.file, 0)]
  BY DEF Init, WriterInit
<1>2. IInv
  BY InitIInv
<1>3. /\ medium.kind = m.kind /\ Archive = m.file.data /\ pos = 0
      /\ medium.file.owns = m.file.owns
  <2> DEFINE f == Mem!SetPosition(m.file, 0)
  <2>1. IsMedium(m)
    BY MediaAre
  <2>2. f = [m.file EXCEPT !.pos = 0]
    BY DEF Mem!SetPosition
  <2>3. PICK a, b, c : m.file = [data |-> a, pos |-> b, owns |-> c]
    BY <2>1 DEF IsMedium, IsFile
  <2> HIDE DEF f
  <2>4. f.data = m.file.data /\ f.pos = 0 /\ f.owns = m.file.owns
    BY <2>2, <2>3
  <2>5. PICK d, e : m = [kind |-> d, file |-> m.file, room |-> e]
    BY <2>1 DEF IsMedium
  <2>6. medium = [m EXCEPT !.file = f]
    BY <1>1 DEF f
  <2>7. medium.kind = m.kind /\ medium.file = f
    BY <2>5, <2>6
  <2> QED
    BY <2>4, <2>7 DEF Archive, pos
<1>4. /\ refused = FALSE /\ headers = <<>> /\ sizeOfCD = 0 /\ currOffset = 0
      /\ todo = <<>> /\ phase = "ready" /\ added = <<>>
      /\ reader = "none" /\ record = End(0, 0) /\ tell = 0 /\ entries = <<>>
  BY DEF Init, WriterInit
<1>5. Len(headers) = 0 /\ Len(todo) = 0
  BY <1>4
<1>6. Requested
  <2>1. cursor \in [Sources -> Nat]
    BY DEF Init, WriterInit, Cursors
  <2> QED
    BY <1>5, <2>1 DEF Requested
<1>7. Counted
  <2> DEFINE cd == [k \in 0 .. 0 |-> 0]
  <2>1. cd \in [0 .. Len(headers) -> Nat] /\ cd[0] = 0
    BY <1>5
  <2>2. 1 .. Len(headers) = {} /\ 0 .. Len(headers) - 1 = {}
    BY <1>5
  <2>3. cd[Len(headers)] = 0
    BY <1>5
  <2> HIDE DEF cd
  <2>4. Ends(cd)
    BY <1>4, <2>1, <2>2, <2>3 DEF Ends
  <2> QED
    BY <2>4 DEF Counted
<1>8. Closing
  BY <1>4 DEF Closing
<1>9. /\ m.kind = "stdio" => Archive = <<>>
      /\ m.kind = "memory" => \A i \in 1 .. Len(Archive) : Archive[i] \in {Foreign, Junk}
      /\ m.kind = "memory" /\ ~medium.file.owns => \A i \in 1 .. Len(Archive) : Archive[i] = Foreign
      /\ m.kind \in {"stdio", "memory"}
  BY <1>3, MediaAre DEF IsMedium
<1>10. Known
  <2>1. \A i \in 1 .. Len(Archive) : Archive[i] \in {Foreign, Junk}
    <3>1. CASE m.kind = "stdio"
      BY <1>9, <3>1
    <3> QED
      BY <1>9, <3>1
  <2>2. Clean
    BY <1>3 DEF Clean
  <2> QED
    BY <1>3, <1>5, <1>9, <2>1, <2>2, NotOurs DEF Known
<1>11. Extent
  BY <1>3, <1>4, <1>9 DEF Extent
<1>12. LastIsLast /\ FirstIsNear
  <2>1. Unmistakable => \A i \in 1 .. Len(Archive) : Archive[i][1].kind # "end"
    BY <1>2, <1>4, <1>10, NoRecord DEF IInv
  <2> QED
    BY <2>1 DEF LastIsLast, FirstIsNear, IsLast, IsFirst
<1>13. Reading
  <2>1. record.offset \in Int32 /\ record.size \in Int32
    BY <1>4, WriterAssumption DEF End, Int32
  <2> QED
    BY <1>4, <2>1 DEF Reading
<1>14. Left
  BY <1>4 DEF Left
<1> QED
  BY <1>6, <1>7, <1>8, <1>10, <1>11, <1>12, <1>13, <1>14 DEF RInv

(***************************************************************************)
(* A call that notes an entry.                                             *)
(***************************************************************************)
Request(h, a) ==
  /\ h.name \in Names /\ h.name = a.path
  /\ h.method \in Methods /\ h.method = a.method
  /\ h.size \in Nat /\ h.size = Len(a.stored) /\ IsSeq(a.stored)
  /\ \A i \in 1 .. Len(a.stored) : a.stored[i] \in PlainBytes \cup RecordBytes
  /\ a.whole => a.stored = a.content
  /\ h.compressed \in Nat /\ h.compressed = CompressedSize(a.stored, h.method)

LEMMA NoteRInv ==
  ASSUME IInv, RInv, Idle, UNCHANGED readerVars, NEW h, NEW writes, NEW a, Note(h, writes),
         added' = Append(added, a), cursor' \in [Sources -> Nat], Request(h, a),
         \/ writes = <<Bytes(Local(h)), Bytes(Name(h)), Encoded(a.stored, h.method)>>
         \/ writes = <<Bytes(Local(h)), Bytes(Name(h))>>
  PROVE  RInv'
<1>0. PICK n : n = Len(headers) + 1
  OBVIOUS
<1>1. /\ headers' = Append(headers, h) /\ todo' = writes
      /\ sizeOfCD' = Wrap(sizeOfCD + CentralSize + Len(h.name))
      /\ UNCHANGED <<medium, refused, phase>>
      /\ todo = <<>> /\ phase = "ready"
      /\ UNCHANGED <<reader, record, tell, entries>>
  BY DEF Note, Idle, readerVars
<1>2. /\ Len(headers) \in Nat /\ Len(added) = Len(headers)
      /\ IsSeq(headers) /\ IsSeq(added) /\ n \in Nat \ {0} /\ Types
  BY <1>0 DEF IInv, Types, IsSeq
<1>3. /\ Len(headers') = n /\ Len(added') = n
      /\ headers'[n] = h /\ added'[n] = a
      /\ \A k \in 1..Len(headers) : headers'[k] = headers[k] /\ added'[k] = added[k]
  BY <1>0, <1>1, <1>2, Appended
<1>4. \A k \in 1 .. n : k # n => k \in 1 .. Len(headers)
  BY <1>0, <1>2
<1>5. pos' = pos /\ Archive' = Archive
  BY <1>1 DEF pos, Archive
<1>6. Requested'
  <2> SUFFICES ASSUME NEW k \in 1 .. n PROVE Asked(k)'
    BY <1>3 DEF Requested
  <2>1. CASE k = n
    BY <1>3, <2>1 DEF Request, Asked
  <2>2. CASE k # n
    <3>1. k \in 1 .. Len(headers)
      BY <1>4, <2>2
    <3>2. Asked(k) /\ headers'[k] = headers[k] /\ added'[k] = added[k]
      BY <1>3, <3>1 DEF RInv, Requested
    <3> QED
      BY <3>2 DEF Asked
  <2> QED
    BY <2>1, <2>2
<1>7. Counted'
  <2>1. PICK cd : Ends(cd)
    BY DEF RInv, Counted
  <2>2. PICK l : l = Len(headers)
    OBVIOUS
  <2>3. PICK e : e = cd[l] + CentralSize + Len(h.name)
    OBVIOUS
  <2>4. /\ cd \in [0 .. l -> Nat] /\ cd[0] = 0 /\ cd[l] \in Nat
        /\ \A k \in 1 .. l : cd[k] = cd[k - 1] + CentralSize + Len(headers[k].name)
        /\ \A k \in 0 .. l - 1 : cd[k] < cd[l]
        /\ cd[l] < Limit => sizeOfCD = cd[l]
        /\ l \in Nat /\ n = l + 1
    BY <1>0, <1>2, <2>1, <2>2 DEF Ends
  <2>5. Len(h.name) \in Nat /\ CentralSize \in Nat \ {0}
    BY SizesAssumption, NamesAssumption DEF Request
  <2>6. e \in Nat /\ cd[l] < e
    BY <2>3, <2>4, <2>5
  <2> DEFINE new == [k \in 0 .. n |-> IF k = n THEN e ELSE cd[k]]
  <2>7. /\ new \in [0 .. n -> Nat] /\ new[n] = e
        /\ \A k \in 0 .. l : new[k] = cd[k]
    BY <2>4, <2>6
  <2> HIDE DEF new
  <2>8. new[0] = 0
    BY <2>4, <2>7
  <2>9. ASSUME NEW k \in 1 .. n
        PROVE  new[k] = new[k - 1] + CentralSize + Len(headers'[k].name)
    <3>1. CASE k = n
      <4>1. k - 1 = l /\ l \in 0 .. l
        BY <2>4, <3>1
      <4> QED
        BY <1>3, <2>3, <2>7, <3>1, <4>1
    <3>2. CASE k # n
      <4>1. k \in 1 .. l /\ k \in 0 .. l /\ k - 1 \in 0 .. l
        BY <2>4, <3>2
      <4> QED
        BY <1>3, <2>2, <2>4, <2>7, <4>1
    <3> QED
      BY <3>1, <3>2
  <2>10. ASSUME NEW k \in 0 .. n - 1 PROVE new[k] < new[n]
    <3>1. k \in 0 .. l /\ cd[l] \in Nat
      BY <2>4
    <3>2. new[k] = cd[k] /\ cd[k] \in Nat
      BY <2>4, <2>7, <3>1
    <3>3. k = l \/ k \in 0 .. l - 1
      BY <2>4, <3>1
    <3>4. k = l \/ cd[k] < cd[l]
      BY <2>4, <3>3
    <3> QED
      BY <2>6, <2>7, <3>1, <3>2, <3>4
  <2>11. new[n] < Limit => sizeOfCD' = new[n]
    <3> SUFFICES ASSUME e < Limit PROVE sizeOfCD' = e
      BY <2>7
    <3>1. Limit \in Nat
      BY WriterAssumption
    <3>2. sizeOfCD = cd[l]
      BY <2>4, <2>6, <3>1
    <3>3. sizeOfCD + CentralSize + Len(h.name) = e
      BY <2>3, <3>2
    <3> QED
      BY <1>1, <2>6, <3>3, WrapSmall
  <2>12. Ends(new)'
    BY <1>3, <2>7, <2>8, <2>9, <2>10, <2>11 DEF Ends
  <2> QED
    BY <2>12 DEF Counted
<1>8. Closing' /\ Left'
  BY <1>1 DEF Closing, Left
<1>15. Unmistakable' =>
         /\ Unmistakable
         /\ h.method = "NONE" => \A i \in 1 .. Len(a.stored) : a.stored[i][1].kind # "end"
  <2> SUFFICES ASSUME Unmistakable'
               PROVE  /\ Unmistakable
                      /\ h.method = "NONE" => \A i \in 1 .. Len(a.stored) : a.stored[i][1].kind # "end"
    OBVIOUS
  <2>1. DOMAIN added = 1 .. Len(headers) /\ DOMAIN added' = 1 .. n /\ n \in 1 .. n
    <3>1. IsSeq(added')
      BY <1>1, <1>2, Appended
    <3> QED
      BY <1>2, <1>3, <3>1 DEF IsSeq
  <2>2. Unmistakable
    <3>1. \A k \in DOMAIN added : k \in DOMAIN added' /\ added'[k] = added[k]
      BY <1>0, <1>2, <1>3, <2>1
    <3> QED
      BY <3>1 DEF Unmistakable
  <2>3. ASSUME h.method = "NONE", NEW i \in 1 .. Len(a.stored) PROVE a.stored[i][1].kind # "end"
    <3>1. a.method = "NONE" /\ i \in DOMAIN a.stored
      BY <2>3 DEF Request, IsSeq
    <3> QED
      BY <1>3, <2>1, <3>1 DEF Unmistakable
  <2> QED
    BY <2>2, <2>3
<1>9. /\ Ours \subseteq Ours'
      /\ Local(h) \in Ours' /\ Name(h) \in Ours' /\ Data(a.stored, h.method) \in Ours'
  <2> DEFINE P(k) == Pieces(headers[k], added[k])
             Q(k) == Pieces(headers'[k], added'[k])
  <2>1. Ours = UNION {P(k) : k \in 1 .. Len(headers)}
    BY <1>1 DEF Ours
  <2>2. Ours' = UNION {Q(k) : k \in 1 .. n}
    BY <1>1, <1>3 DEF Ours
  <2>3. \A k \in 1 .. Len(headers) : P(k) = Q(k) /\ k \in 1 .. n
    BY <1>0, <1>2, <1>3
  <2>4. Q(n) = Pieces(h, a) /\ n \in 1 .. n
    BY <1>2, <1>3
  <2>5. {Local(h), Name(h), Data(a.stored, h.method)} \subseteq Pieces(h, a)
    BY DEF Pieces
  <2> HIDE DEF P, Q
  <2>6. Ours \subseteq Ours'
    BY <2>1, <2>2, <2>3
  <2> QED
    BY <2>2, <2>4, <2>5, <2>6
<1>10. ASSUME NEW w \in 1 .. Len(todo'), NEW i \in 1 .. Len(todo'[w])
       PROVE  /\ Set(todo'[w][i], Ours', Unmistakable')
              /\ Unmistakable' => ~IsLast(todo'[w][i])
  <2> DEFINE L == Local(h)
             N == Name(h)
             D == Data(a.stored, h.method)
             E == Encoded(a.stored, h.method)
  <2>1. /\ L.kind = "local" /\ N.kind = "name" /\ D.kind = "data"
        /\ L.bytes \in Nat /\ N.bytes \in Nat /\ D.bytes \in Nat
    <3>1. Len(h.name) \in Nat /\ LocalSize \in Nat
      BY SizesAssumption, NamesAssumption DEF Request
    <3>2. /\ L.kind = "local" /\ N.kind = "name" /\ D.kind = "data"
          /\ L.bytes = LocalSize /\ N.bytes = Len(h.name) /\ D.bytes = h.compressed
      BY DEF Local, Name, Data, Request
    <3>3. h.compressed \in Nat
      BY DEF Request
    <3> QED
      BY <3>1, <3>2, <3>3
  <2>2. writes = <<Bytes(L), Bytes(N), E>> \/ writes = <<Bytes(L), Bytes(N)>>
    OBVIOUS
  <2>3. {L, N, D} \subseteq Ours'
    BY <1>9
  <2>4. E = Bytes(D) \/ (h.method = "NONE" /\ E = a.stored)
    BY DEF Encoded
  <2> HIDE DEF L, N, D, E
  <2>5. todo'[w] = Bytes(L) \/ todo'[w] = Bytes(N) \/ todo'[w] = E
    <3>1. CASE todo' = <<Bytes(L), Bytes(N), E>>
      <4>1. w = 1 \/ w = 2 \/ w = 3
        BY <3>1
      <4> QED
        BY <3>1, <4>1
    <3>2. CASE todo' = <<Bytes(L), Bytes(N)>>
      <4>1. w = 1 \/ w = 2
        BY <3>2
      <4> QED
        BY <3>2, <4>1
    <3> QED
      BY <1>1, <2>2, <3>1, <3>2
  <2>6. CASE \E q \in {L, N, D} : todo'[w] = Bytes(q)
    <3>1. PICK q \in {L, N, D} : todo'[w] = Bytes(q)
      BY <2>6
    <3>2. q.bytes \in Nat /\ q.kind # "end" /\ q \in Ours'
      BY <2>1, <2>3, <3>1
    <3>3. todo'[w][i] = <<q, i>>
      BY <3>1, <3>2, EachByte
    <3> QED
      BY <3>2, <3>3 DEF Set, ByteOf, IsLast
  <2>7. CASE h.method = "NONE" /\ todo'[w] = a.stored
    <3>1. /\ todo'[w][i] \in PlainBytes \cup RecordBytes
          /\ Unmistakable' => todo'[w][i][1].kind # "end"
      BY <1>15, <2>7 DEF Request
    <3> QED
      BY <3>1 DEF Set, OfContent, IsLast
  <2> QED
    BY <2>4, <2>5, <2>6, <2>7
<1>11. Known'
  <2>1. \A i \in 1 .. Len(Archive) :
          Archive[i] \in {Foreign, Junk} \/ Set(Archive[i], Ours', Unmistakable')
    BY <1>9, <1>15 DEF RInv, Known, Set, ByteOf, OfContent
  <2>2. Clean'
    BY <1>5 DEF RInv, Known, Clean
  <2>3. /\ \A i \in 1 .. Len(Archive') :
             Archive'[i] \in {Foreign, Junk} \/ Set(Archive'[i], Ours', Unmistakable')
        /\ medium'.kind = "memory" /\ ~medium'.file.owns =>
             \A i \in 1 .. Len(Archive') : Archive'[i] # Junk
    BY <1>1, <1>5, <2>1 DEF RInv, Known
  <2> QED
    BY <1>10, <2>2, <2>3 DEF Known
<1>12. Extent'
  BY <1>1, <1>5 DEF RInv, Extent
<1>13. LastIsLast' /\ FirstIsNear'
  <2>1. Unmistakable' => \A i \in 1 .. Len(Archive) : Archive[i][1].kind # "end"
    BY <1>1, <1>2, <1>15, NoRecord DEF RInv
  <2> QED
    BY <1>5, <2>1 DEF LastIsLast, FirstIsNear, IsLast, IsFirst
<1>14. Reading'
  BY <1>1 DEF RInv, Reading
<1> QED
  BY <1>6, <1>7, <1>8, <1>11, <1>12, <1>13, <1>14 DEF RInv

LEMMA PassedOn ==
  ASSUME cursor \in [Sources -> Nat], NEW s \in Sources
  PROVE  Passed(s) \in [Sources -> Nat]
<1>1. Len(Content[s]) \in Nat
  BY WriterAssumption
<1> QED
  BY <1>1 DEF Passed

LEMMA AddFileRInv ==
  ASSUME IInv, RInv, UNCHANGED readerVars,
         NEW path \in FilePaths, NEW s \in Sources, NEW method \in Methods,
         AddFile(path, s, method)
  PROVE  RInv'
<1> DEFINE h == Header(path, method, Gets(s), currOffset)
           a == [path |-> path, method |-> method, content |-> Content[s],
                 stored |-> Gets(s), whole |-> s \in InMemory \/ cursor[s] = 0]
           writes == <<Bytes(Local(h)), Bytes(Name(h)), Encoded(Gets(s), method)>>
<1>1. Idle /\ Note(h, writes) /\ added' = Append(added, a)
  BY DEF AddFile
<1>2. Content[s] \in Seq(PlainBytes \cup RecordBytes) /\ cursor[s] \in Nat /\ cursor \in [Sources -> Nat]
  BY WriterAssumption DEF RInv, Requested
<1>3. /\ IsSeq(Gets(s))
      /\ \A i \in 1 .. Len(Gets(s)) : Gets(s)[i] \in PlainBytes \cup RecordBytes
  BY <1>2, GetsSeq
<1>4. s \in InMemory \/ cursor[s] = 0 => Gets(s) = Content[s]
  <2> DEFINE c == Content[s]
  <2>1. Len(c) \in Nat /\ DOMAIN c = 1 .. Len(c) /\ c = [i \in 1 .. Len(c) |-> c[i]]
    BY <1>2
  <2>2. CASE s \in InMemory
    BY <2>2 DEF Gets
  <2>3. CASE s \notin InMemory /\ cursor[s] = 0
    <3>1. Gets(s) = [i \in 1 .. Len(c) |-> IF 0 + i <= Len(c) THEN c[0 + i] ELSE Stale]
      BY <2>1, <2>3 DEF Gets
    <3> HIDE DEF c
    <3>2. Gets(s) = [i \in 1 .. Len(c) |-> c[i]]
      BY <2>1, <3>1
    <3> QED
      BY <2>1, <3>2 DEF c
  <2> QED
    BY <2>2, <2>3
<1>5. CompressedSize(Gets(s), method) \in Nat
  BY <1>3, SizesAssumption DEF CompressedSize, IsSeq
<1>6. path \in Names
  BY DEF Names
<1>7. /\ h.name = path /\ h.method = method /\ h.size = Len(Gets(s))
      /\ h.compressed = CompressedSize(Gets(s), method)
  BY DEF Header
<1>8. /\ a.path = path /\ a.method = method /\ a.stored = Gets(s) /\ a.content = Content[s]
      /\ a.whole <=> (s \in InMemory \/ cursor[s] = 0)
  OBVIOUS
<1>10. cursor' \in [Sources -> Nat]
  BY <1>2, PassedOn DEF AddFile
<1> HIDE DEF h, a
<1>9. Request(h, a)
  BY <1>3, <1>4, <1>5, <1>6, <1>7, <1>8 DEF Request, IsSeq
<1>11. writes = <<Bytes(Local(h)), Bytes(Name(h)), Encoded(a.stored, h.method)>>
  BY <1>7, <1>8
<1> HIDE DEF writes
<1> QED
  BY <1>1, <1>9, <1>10, <1>11, NoteRInv

LEMMA CreateDirectoryRInv ==
  ASSUME IInv, RInv, UNCHANGED readerVars, NEW path \in DirPaths, CreateDirectory(path)
  PROVE  RInv'
<1> DEFINE h == Header(DirName(path), "NONE", <<>>, currOffset)
           a == [path |-> DirName(path), method |-> "NONE", content |-> <<>>,
                 stored |-> <<>>, whole |-> TRUE]
           writes == <<Bytes(Local(h)), Bytes(Name(h))>>
<1>1. Idle /\ Note(h, writes) /\ added' = Append(added, a)
  BY DEF CreateDirectory
<1>2. DirName(path) \in Names
  BY DEF Names
<1>3. /\ h.name = DirName(path) /\ h.method = "NONE" /\ h.size = 0
      /\ h.compressed = CompressedSize(<<>>, "NONE")
  BY DEF Header
<1>4. CompressedSize(<<>>, "NONE") = 0
  BY DEF CompressedSize
<1>5. IsSeq(<<>>) /\ Len(<<>>) = 0 /\ "NONE" \in Methods
  BY DEF IsSeq, Methods
<1>6. /\ a.path = DirName(path) /\ a.method = "NONE" /\ a.stored = <<>> /\ a.content = <<>>
  OBVIOUS
<1> HIDE DEF h, a
<1>7. Request(h, a)
  BY <1>2, <1>3, <1>4, <1>5, <1>6 DEF Request
<1>8. cursor' \in [Sources -> Nat]
  BY DEF CreateDirectory, RInv, Requested
<1> QED
  BY <1>1, <1>7, <1>8, NoteRInv

(***************************************************************************)
(* The calls of the destructor.                                            *)
(***************************************************************************)
LEMMA Calls ==
  ASSUME NEW n \in Nat, n = Len(headers)
  PROVE  /\ Len(Directory) = 2 * n + 2
         /\ \A k \in 1 .. n : Directory[2 * k - 1] = CentralOf(k) /\ Directory[2 * k] = NameOf(k)
         /\ Directory[2 * n + 1] = SubSeq(TheRecord, 1, SignatureSize)
         /\ Directory[2 * n + 2] = SubSeq(TheRecord, SignatureSize + 1, EndSize)
<1> DEFINE R == Bytes(End(sizeOfCD, currOffset))
           part(k) == LET h == headers[(k + 1) \div 2]
                      IN  Bytes(IF k % 2 = 1 THEN Central(h) ELSE Name(h))
<1>1. Directory = [k \in 1 .. 2 * n + 2 |->
                     IF k = 2 * n + 1 THEN SubSeq(R, 1, SignatureSize)
                     ELSE IF k = 2 * n + 2 THEN SubSeq(R, SignatureSize + 1, EndSize)
                     ELSE part(k)]
  BY DEF Directory
<1>2. ASSUME NEW k \in 1 .. n
      PROVE  part(2 * k - 1) = CentralOf(k) /\ part(2 * k) = NameOf(k)
  <2>1. (2 * k - 1 + 1) \div 2 = k /\ (2 * k - 1) % 2 = 1
    OBVIOUS
  <2>2. (2 * k + 1) \div 2 = k /\ (2 * k) % 2 # 1
    OBVIOUS
  <2> QED
    BY <2>1, <2>2 DEF CentralOf, NameOf
<1> HIDE DEF R, part
<1>3. Len(Directory) = 2 * n + 2
  BY <1>1
<1>4. ASSUME NEW k \in 1 .. n
      PROVE  Directory[2 * k - 1] = part(2 * k - 1) /\ Directory[2 * k] = part(2 * k)
  <2>1. /\ 2 * k - 1 \in 1 .. 2 * n + 2 /\ 2 * k - 1 # 2 * n + 1 /\ 2 * k - 1 # 2 * n + 2
        /\ 2 * k \in 1 .. 2 * n + 2 /\ 2 * k # 2 * n + 1 /\ 2 * k # 2 * n + 2
    OBVIOUS
  <2> QED
    BY <1>1, <2>1
<1>5. /\ 2 * n + 1 \in 1 .. 2 * n + 2 /\ 2 * n + 2 \in 1 .. 2 * n + 2 /\ 2 * n + 2 # 2 * n + 1
  OBVIOUS
<1> QED
  BY <1>1, <1>2, <1>3, <1>4, <1>5 DEF R, TheRecord

LEMMA Remain ==
  ASSUME NEW n \in Nat, n = Len(headers), NEW j \in 0 .. 2 * n + 1
  PROVE  /\ IsSeq(Remaining(j)) /\ Len(Remaining(j)) = 2 * n + 2 - j /\ Remaining(j) # <<>>
         /\ Head(Remaining(j)) = Directory[j + 1]
         /\ Tail(Remaining(j)) = Remaining(j + 1)
<1> DEFINE r == Remaining(j)
<1>1. r = [i \in 1 .. 2 * n + 2 - j |-> Directory[i + j]]
  BY DEF Remaining
<1>2. Len(r) = 2 * n + 2 - j /\ 2 * n + 2 - j \in Nat \ {0} /\ 1 + j = j + 1
  BY <1>1
<1>3. r[1] = Directory[j + 1]
  BY <1>1, <1>2
<1>4. IsSeq(r)
  BY <1>1, <1>2 DEF IsSeq
<1> HIDE DEF r
<1>5. r # <<>>
  BY <1>2
<1>6. /\ Len(Tail(r)) = 2 * n + 1 - j /\ IsSeq(Tail(r))
      /\ \A i \in 1 .. 2 * n + 1 - j : Tail(r)[i] = r[i + 1] /\ i + 1 \in 1 .. 2 * n + 2 - j
  <2>1. Len(r) - 1 = 2 * n + 1 - j
    BY <1>2
  <2> QED
    BY <1>2, <1>4, <1>5, <2>1, Tailed
<1>7. Tail(r) = [i \in 1 .. 2 * n + 1 - j |-> Directory[i + (j + 1)]]
  <2>1. ASSUME NEW i \in 1 .. 2 * n + 1 - j PROVE Tail(r)[i] = Directory[i + (j + 1)]
    <3>1. r[i + 1] = Directory[(i + 1) + j]
      BY <1>1, <1>6
    <3>2. (i + 1) + j = i + (j + 1)
      OBVIOUS
    <3> QED
      BY <1>6, <3>1, <3>2
  <2> QED
    BY <1>6, <2>1 DEF IsSeq
<1>8. 2 * n + 1 - j = 2 * n + 2 - (j + 1)
  OBVIOUS
<1>9. Remaining(j + 1) = [i \in 1 .. 2 * n + 2 - (j + 1) |-> Directory[i + (j + 1)]]
  BY DEF Remaining
<1>10. Head(r) = r[1]
  BY <1>2, <1>4 DEF IsSeq
<1> QED
  BY <1>2, <1>3, <1>4, <1>5, <1>7, <1>8, <1>9, <1>10 DEF r

LEMMA CallSizes ==
  ASSUME Types
  PROVE  /\ \A k \in 1 .. Len(headers) : /\ Len(CentralOf(k)) = CentralSize
                                         /\ Len(NameOf(k)) = Len(headers[k].name)
                                         /\ Len(headers[k].name) \in Nat
         /\ Len(TheRecord) = EndSize /\ IsSeq(TheRecord)
         /\ Len(SubSeq(TheRecord, 1, SignatureSize)) = SignatureSize
         /\ \A i \in 1 .. SignatureSize : SubSeq(TheRecord, 1, SignatureSize)[i] = TheRecord[i]
         /\ Len(SubSeq(TheRecord, SignatureSize + 1, EndSize)) = EndSize - SignatureSize
         /\ \A i \in 1 .. EndSize - SignatureSize :
              SubSeq(TheRecord, SignatureSize + 1, EndSize)[i] = TheRecord[SignatureSize + i]
<1>1. ASSUME NEW k \in 1 .. Len(headers)
      PROVE  /\ Len(CentralOf(k)) = CentralSize
             /\ Len(NameOf(k)) = Len(headers[k].name)
             /\ Len(headers[k].name) \in Nat
  <2>1. Noted(k)
    BY DEF Types
  <2>2. Central(headers[k]).bytes = CentralSize /\ CentralSize \in Nat
    BY SizesAssumption DEF Central
  <2> QED
    BY <2>1, <2>2, Sizes, EachByte DEF CentralOf, Noted
<1> DEFINE R == TheRecord
<1>2. Len(R) = EndSize /\ IsSeq(R)
  BY RecordKind, EachByte, BytesOf DEF TheRecord
<1> HIDE DEF R
<1>3. PICK S : R \in Seq(S)
  <2>1. R \in Seq({R[i] : i \in 1 .. Len(R)})
    BY <1>2 DEF IsSeq
  <2> QED
    BY <2>1
<1>4. /\ EndSize \in Nat /\ SignatureSize \in Nat /\ 1 \in 1 .. Len(R) + 1 /\ SignatureSize <= Len(R)
      /\ SignatureSize < EndSize
  BY <1>2, RecordKind
<1>5. /\ Len(SubSeq(R, 1, SignatureSize)) = SignatureSize
      /\ \A i \in 1 .. SignatureSize : SubSeq(R, 1, SignatureSize)[i] = R[i]
  <2>1. SubSeq(R, 1, SignatureSize) = [i \in 1 .. SignatureSize |-> R[1 + i - 1]]
    BY <1>2, <1>3, <1>4
  <2> QED
    BY <1>4, <2>1
<1>6. /\ Len(SubSeq(R, SignatureSize + 1, EndSize)) = EndSize - SignatureSize
      /\ \A i \in 1 .. EndSize - SignatureSize :
           SubSeq(R, SignatureSize + 1, EndSize)[i] = R[SignatureSize + i]
  <2>1. SubSeq(R, SignatureSize + 1, EndSize)
          = [i \in 1 .. EndSize - SignatureSize |-> R[SignatureSize + i]]
    BY <1>2, <1>3, <1>4
  <2> QED
    BY <1>4, <2>1
<1> QED
  BY <1>1, <1>2, <1>5, <1>6 DEF R

(* Only the last two calls write bytes of a record.                        *)
LEMMA DirectoryBytes ==
  ASSUME Types, NEW n \in Nat, n = Len(headers), NEW w \in 1 .. 2 * n + 2,
         NEW i \in 1 .. Len(Directory[w])
  PROVE  LET R == End(sizeOfCD, currOffset)
             b == Directory[w][i]
         IN  /\ w <= 2 * n => \E k \in 1 .. n : \E q \in {Central(headers[k]), Name(headers[k])} :
                               b = <<q, i>> /\ q.kind # "end"
             /\ w = 2 * n + 1 => Len(Directory[w]) = SignatureSize /\ b = <<R, i>>
             /\ w = 2 * n + 2 => Len(Directory[w]) = EndSize - SignatureSize
                                 /\ b = <<R, SignatureSize + i>>
<1> DEFINE R == End(sizeOfCD, currOffset)
<1>1. /\ \A k \in 1 .. n : Directory[2 * k - 1] = CentralOf(k) /\ Directory[2 * k] = NameOf(k)
      /\ Directory[2 * n + 1] = SubSeq(TheRecord, 1, SignatureSize)
      /\ Directory[2 * n + 2] = SubSeq(TheRecord, SignatureSize + 1, EndSize)
  BY Calls
<1>2. \A j \in 1 .. EndSize : TheRecord[j] = <<R, j>>
  BY RecordKind, EachByte DEF TheRecord
<1>3. SignatureSize \in Nat /\ EndSize \in Nat /\ SignatureSize < EndSize
  BY RecordKind
<1> HIDE DEF R
<1>4. ASSUME w <= 2 * n
      PROVE  \E k \in 1 .. n : \E q \in {Central(headers[k]), Name(headers[k])} :
               Directory[w][i] = <<q, i>> /\ q.kind # "end"
  <2>1. PICK k \in 1 .. n : w = 2 * k - 1 \/ w = 2 * k
    <3>1. PICK k : k = (w + 1) \div 2
      OBVIOUS
    <3>2. k \in 1 .. n /\ (w = 2 * k - 1 \/ w = 2 * k)
      BY <1>4, <3>1
    <3> QED
      BY <3>2
  <2>2. PICK q \in {Central(headers[k]), Name(headers[k])} : Directory[w] = Bytes(q)
    BY <1>1, <2>1 DEF CentralOf, NameOf
  <2>3. q.bytes \in Nat /\ q.kind # "end"
    <3>1. q \in Pieces(headers[k], added[k])
      BY <2>2 DEF Pieces
    <3> QED
      BY <3>1, Kinds
  <2>4. Directory[w][i] = <<q, i>>
    BY <2>2, <2>3, EachByte
  <2> QED
    BY <2>3, <2>4
<1>5. ASSUME w = 2 * n + 1
      PROVE  Len(Directory[w]) = SignatureSize /\ Directory[w][i] = <<R, i>>
  <2>1. Len(Directory[w]) = SignatureSize /\ i \in 1 .. SignatureSize /\ Directory[w][i] = TheRecord[i]
    BY <1>1, <1>5, CallSizes
  <2> QED
    BY <1>2, <1>3, <2>1
<1>6. ASSUME w = 2 * n + 2
      PROVE  Len(Directory[w]) = EndSize - SignatureSize /\ Directory[w][i] = <<R, SignatureSize + i>>
  <2>1. /\ Len(Directory[w]) = EndSize - SignatureSize
        /\ i \in 1 .. EndSize - SignatureSize /\ Directory[w][i] = TheRecord[SignatureSize + i]
    BY <1>1, <1>6, CallSizes
  <2>2. SignatureSize + i \in 1 .. EndSize
    BY <1>3, <2>1
  <2> QED
    BY <1>2, <2>1, <2>2
<1> QED
  BY <1>4, <1>5, <1>6 DEF R

(* When nothing is left to write, all is written.                          *)
LEMMA Ended ==
  ASSUME Types, todo = <<>>, NEW cd, NEW start, Going(cd, start)
  PROVE  Sealed(cd, start)
<1>0. PICK n : n = Len(headers)
  OBVIOUS
<1>1. n \in Nat
  BY <1>0, Archives
<1>2. \A k \in 0 .. n : ~AtEntry(cd, start, k)
  <2> SUFFICES ASSUME NEW k \in 0 .. n PROVE Remaining(2 * k) # <<>>
    BY DEF AtEntry
  <2>1. 2 * k \in 0 .. 2 * n + 1
    BY <1>1
  <2> QED
    BY <1>0, <1>1, <2>1, Remain
<1>3. \A k \in 0 .. n : ~AtName(cd, start, k)
  <2> SUFFICES ASSUME NEW k \in 0 .. n, k < n PROVE Remaining(2 * k + 1) # <<>>
    BY <1>0 DEF AtName
  <2>1. 2 * k + 1 \in 0 .. 2 * n + 1
    BY <1>1
  <2> QED
    BY <1>0, <1>1, <2>1, Remain
<1>4. ~AtFields(cd, start)
  <2>1. 2 * n + 1 \in 0 .. 2 * n + 1
    BY <1>1
  <2> QED
    BY <1>0, <1>1, <2>1, Remain DEF AtFields
<1> QED
  BY <1>0, <1>2, <1>3, <1>4 DEF Going

(* A call of the destructor's that is done brings it further.              *)
LEMMA GoingOn ==
  ASSUME Types, Write, ~refused', phase = "closing", NEW cd, NEW start,
         Ends(cd), Behind(start), Going(cd, start)
  PROVE  /\ Ends(cd)' /\ Behind(start)' /\ Going(cd, start)'
         /\ todo' = <<>> => Sealed(cd, start)'
<1>0. PICK n : n = Len(headers)
  OBVIOUS
<1>1. /\ UNCHANGED <<headers, currOffset, sizeOfCD, phase, added>>
      /\ todo # <<>> /\ todo' = Tail(todo)
  BY DEF Write
<1>2. pos' = pos + Len(Head(todo)) /\ n \in Nat /\ pos \in Nat
  BY <1>0, WriteFacts, Archives
<1>3. Ends(cd)'
  BY <1>1 DEF Ends
<1>4. Behind(start)'
  <2>1. \A k \in 1 .. n : Placed(k) => Placed(k)'
    BY <1>0, PlacedKept
  <2> QED
    BY <1>0, <1>1, <2>1 DEF Behind
<1>5. ASSUME NEW k \in 1 .. n, Listed(cd, start, k)
      PROVE  Listed(cd, start, k)'
  <2>1. Len(CentralOf(k)) \in Nat /\ Len(NameOf(k)) \in Nat
    BY <1>0, CallSizes, SizesAssumption
  <2>2. PICK p, q : p = start + cd[k - 1] /\ q = start + cd[k - 1] + CentralSize
    OBVIOUS
  <2>3. Has(p, CentralOf(k)) /\ Has(q, NameOf(k))
    BY <1>5, <2>2 DEF Listed
  <2>4. /\ p \in Nat /\ p + Len(CentralOf(k)) <= pos'
        /\ \A i \in 1..Len(CentralOf(k)) : Archive'[p + i] = CentralOf(k)[i]
    BY <2>1, <2>3, HasKept
  <2>5. /\ q \in Nat /\ q + Len(NameOf(k)) <= pos'
        /\ \A i \in 1..Len(NameOf(k)) : Archive'[q + i] = NameOf(k)[i]
    BY <2>1, <2>3, HasKept
  <2>6. CentralOf(k)' = CentralOf(k) /\ NameOf(k)' = NameOf(k)
    BY <1>1 DEF CentralOf, NameOf
  <2>7. Has(p, CentralOf(k))' /\ Has(q, NameOf(k))'
    BY <2>4, <2>5, <2>6 DEF Has
  <2> QED
    BY <2>2, <2>7 DEF Listed
<1>6. \A j : Remaining(j)' = Remaining(j)
  BY <1>1 DEF Remaining, Directory
<1>7. TheRecord' = TheRecord
  BY <1>1 DEF TheRecord
<1>8. /\ start \in Nat /\ \A k \in 0 .. n : cd[k] \in Nat
      /\ \A k \in 1 .. n : cd[k] = cd[k - 1] + CentralSize + Len(headers[k].name)
      /\ CentralSize \in Nat /\ SignatureSize \in Nat /\ EndSize \in Nat
  BY <1>0, RecordKind DEF Ends, Behind
<1>9. ASSUME NEW k \in 0 .. n, k < n, AtEntry(cd, start, k)
      PROVE  AtName(cd, start, k)'
  <2>1. 2 * k \in 0 .. 2 * n + 1 /\ k + 1 \in 1 .. n /\ 2 * (k + 1) - 1 = 2 * k + 1
    BY <1>2, <1>9
  <2>2. Head(todo) = CentralOf(k + 1) /\ todo' = Remaining(2 * k + 1)
    BY <1>0, <1>1, <1>2, <1>9, <2>1, Remain, Calls DEF AtEntry
  <2>3. pos = start + cd[k] /\ \A i \in 1 .. k : Listed(cd, start, i)
    BY <1>9 DEF AtEntry
  <2>4. pos' = start + cd[k] + CentralSize
    BY <1>0, <1>2, <2>1, <2>2, <2>3, CallSizes
  <2>5. /\ pos + Len(CentralOf(k + 1)) <= pos'
        /\ \A i \in 1..Len(CentralOf(k + 1)) : Archive'[pos + i] = CentralOf(k + 1)[i]
    BY <2>2, HasNew
  <2>6. CentralOf(k + 1)' = CentralOf(k + 1)
    BY <1>1 DEF CentralOf
  <2>7. Has(start + cd[k], CentralOf(k + 1))'
    BY <1>2, <2>3, <2>5, <2>6 DEF Has
  <2>8. \A i \in 1 .. k : Listed(cd, start, i)'
    BY <1>2, <1>5, <1>9, <2>3
  <2>9. todo' = Remaining(2 * k + 1)'
    BY <1>6, <2>2
  <2> QED
    BY <1>0, <1>1, <1>9, <2>4, <2>7, <2>8, <2>9 DEF AtName
<1>10. ASSUME AtEntry(cd, start, n)
       PROVE  AtFields(cd, start)'
  <2>1. 2 * n \in 0 .. 2 * n + 1
    BY <1>2
  <2> DEFINE s == SubSeq(TheRecord, 1, SignatureSize)
  <2>2. Head(todo) = s /\ todo' = Remaining(2 * n + 1)
    <3>1. todo = Remaining(2 * n)
      BY <1>10 DEF AtEntry
    <3>2. /\ Head(Remaining(2 * n)) = Directory[2 * n + 1]
          /\ Tail(Remaining(2 * n)) = Remaining(2 * n + 1)
      BY <1>0, <1>2, <2>1, Remain
    <3>3. Directory[2 * n + 1] = s
      BY <1>0, <1>2, Calls
    <3> QED
      BY <1>1, <3>1, <3>2, <3>3
  <2>3. pos = start + cd[n] /\ \A i \in 1 .. n : Listed(cd, start, i)
    BY <1>10 DEF AtEntry
  <2>4. pos' = start + cd[n] + SignatureSize
    BY <1>2, <2>2, <2>3, CallSizes
  <2>5. pos + Len(s) <= pos' /\ \A i \in 1..Len(s) : Archive'[pos + i] = s[i]
    BY <2>2, HasNew
  <2>6. s' = s
    BY <1>7
  <2> HIDE DEF s
  <2>7. Has(start + cd[n], s)'
    BY <1>2, <2>3, <2>5, <2>6 DEF Has
  <2>8. \A i \in 1 .. n : Listed(cd, start, i)'
    BY <1>5, <2>3
  <2>9. todo' = Remaining(2 * n + 1)'
    BY <1>6, <2>2
  <2> QED
    BY <1>0, <1>1, <2>4, <2>7, <2>8, <2>9 DEF AtFields, s
<1>11. ASSUME NEW k \in 0 .. n, AtName(cd, start, k)
       PROVE  k + 1 \in 0 .. n /\ AtEntry(cd, start, k + 1)'
  <2>0. k < n
    BY <1>0, <1>11 DEF AtName
  <2>1. /\ 2 * k + 1 \in 0 .. 2 * n + 1 /\ k + 1 \in 1 .. n /\ k + 1 \in 0 .. n
        /\ 2 * (k + 1) = 2 * k + 2 /\ (2 * k + 1) + 1 = 2 * k + 2 /\ (k + 1) - 1 = k
    BY <1>2, <2>0
  <2>2. Head(todo) = NameOf(k + 1) /\ todo' = Remaining(2 * (k + 1))
    BY <1>0, <1>1, <1>2, <1>11, <2>1, Remain, Calls DEF AtName
  <2>3. /\ pos = start + cd[k] + CentralSize /\ Has(start + cd[k], CentralOf(k + 1))
        /\ \A i \in 1 .. k : Listed(cd, start, i)
    BY <1>11 DEF AtName
  <2>4. Len(NameOf(k + 1)) = Len(headers[k + 1].name) /\ Len(headers[k + 1].name) \in Nat
    BY <1>0, <2>1, CallSizes
  <2>5. pos' = start + cd[k + 1]
    <3>1. cd[k + 1] = cd[k] + CentralSize + Len(headers[k + 1].name) /\ cd[k] \in Nat
      BY <1>8, <2>1
    <3>2. PICK c, l : c = cd[k] /\ l = Len(headers[k + 1].name)
      OBVIOUS
    <3>3. pos' = pos + l /\ pos = start + c + CentralSize /\ cd[k + 1] = c + CentralSize + l
      BY <1>2, <2>2, <2>3, <2>4, <3>1, <3>2
    <3>4. c \in Nat /\ l \in Nat
      BY <2>4, <3>1, <3>2
    <3>5. start \in Nat /\ CentralSize \in Nat
      BY <1>8
    <3>6. start + c + CentralSize + l = start + (c + CentralSize + l)
      BY <3>4, <3>5
    <3> QED
      BY <3>3, <3>6
  <2>6. /\ pos + Len(NameOf(k + 1)) <= pos'
        /\ \A i \in 1..Len(NameOf(k + 1)) : Archive'[pos + i] = NameOf(k + 1)[i]
    BY <2>2, HasNew
  <2>7. CentralOf(k + 1)' = CentralOf(k + 1) /\ NameOf(k + 1)' = NameOf(k + 1)
    BY <1>1 DEF CentralOf, NameOf
  <2>8. Has(start + cd[k] + CentralSize, NameOf(k + 1))'
    BY <1>2, <2>3, <2>6, <2>7 DEF Has
  <2>9. Has(start + cd[k], CentralOf(k + 1))'
    <3>1. Len(CentralOf(k + 1)) \in Nat
      BY <1>0, <1>8, <2>1, CallSizes
    <3>2. PICK p : p = start + cd[k]
      OBVIOUS
    <3>3. /\ p \in Nat /\ p + Len(CentralOf(k + 1)) <= pos'
          /\ \A i \in 1..Len(CentralOf(k + 1)) : Archive'[p + i] = CentralOf(k + 1)[i]
      BY <2>3, <3>1, <3>2, HasKept
    <3> QED
      BY <2>7, <3>2, <3>3 DEF Has
  <2>10. \A i \in 1 .. k + 1 : Listed(cd, start, i)'
    <3>1. Listed(cd, start, k + 1)'
      BY <2>1, <2>8, <2>9 DEF Listed
    <3>2. \A i \in 1 .. k : Listed(cd, start, i)'
      BY <1>2, <1>5, <2>0, <2>3
    <3> QED
      BY <3>1, <3>2
  <2>11. todo' = Remaining(2 * (k + 1))'
    BY <1>6, <2>2
  <2> QED
    BY <2>1, <2>5, <2>10, <2>11 DEF AtEntry
<1>12. ASSUME AtFields(cd, start)
       PROVE  Sealed(cd, start)'
  <2>1. 2 * n + 1 \in 0 .. 2 * n + 1 /\ (2 * n + 1) + 1 = 2 * n + 2
    BY <1>2
  <2> DEFINE s == SubSeq(TheRecord, 1, SignatureSize)
             t == SubSeq(TheRecord, SignatureSize + 1, EndSize)
  <2>2. Head(todo) = t /\ todo' = Remaining(2 * n + 2)
    <3>1. todo = Remaining(2 * n + 1)
      BY <1>0, <1>12 DEF AtFields
    <3>2. /\ Head(Remaining(2 * n + 1)) = Directory[(2 * n + 1) + 1]
          /\ Tail(Remaining(2 * n + 1)) = Remaining((2 * n + 1) + 1)
      BY <1>0, <1>2, <2>1, Remain
    <3>3. Directory[2 * n + 2] = t
      BY <1>0, <1>2, Calls
    <3> QED
      BY <1>1, <2>1, <3>1, <3>2, <3>3
  <2>3. todo' = <<>>
    <3>1. 2 * n + 2 - (2 * n + 2) = 0
      BY <1>2
    <3>2. Remaining(2 * n + 2) = [i \in 1 .. 0 |-> Directory[i + (2 * n + 2)]]
      BY <1>0, <3>1 DEF Remaining
    <3> QED
      BY <2>2, <3>2
  <2>4. /\ pos = start + cd[n] + SignatureSize /\ Has(start + cd[n], s)
        /\ \A i \in 1 .. n : Listed(cd, start, i)
    BY <1>0, <1>12 DEF AtFields
  <2>5. /\ Len(TheRecord) = EndSize /\ Len(s) = SignatureSize /\ Len(t) = EndSize - SignatureSize
        /\ \A i \in 1 .. SignatureSize : s[i] = TheRecord[i]
        /\ \A i \in 1 .. EndSize - SignatureSize : t[i] = TheRecord[SignatureSize + i]
    BY CallSizes
  <2>6. SignatureSize < EndSize /\ cd[n] \in Nat
    BY <1>2, <1>8, RecordKind
  <2> HIDE DEF s, t
  <2>7. pos' = start + cd[n] + EndSize
    BY <1>2, <1>8, <2>2, <2>4, <2>5, <2>6
  <2>8. PICK p : p = start + cd[n]
    OBVIOUS
  <2>9. p \in Nat /\ \A i \in 1 .. SignatureSize : Archive'[p + i] = TheRecord[i]
    <3>1. /\ p \in Nat /\ p + Len(s) <= pos'
          /\ \A i \in 1..Len(s) : Archive'[p + i] = s[i]
      <4>1. Has(p, s) /\ Len(s) \in Nat
        BY <1>8, <2>4, <2>5, <2>8
      <4> QED
        BY <4>1, HasKept
    <3> QED
      BY <2>5, <3>1
  <2>10. \A i \in 1 .. EndSize - SignatureSize : Archive'[pos + i] = TheRecord[SignatureSize + i]
    <3>1. \A i \in 1..Len(t) : Archive'[pos + i] = t[i]
      BY <2>2, HasNew
    <3> QED
      BY <2>5, <3>1
  <2>11. ASSUME NEW i \in 1 .. EndSize
         PROVE  Archive'[p + i] = TheRecord[i]
    <3>1. CASE i <= SignatureSize
      <4>1. i \in 1 .. SignatureSize
        BY <1>8, <3>1
      <4> QED
        BY <2>9, <4>1
    <3>2. CASE i > SignatureSize
      <4>1. PICK j \in 1 .. EndSize - SignatureSize : i = SignatureSize + j
        <5>1. i - SignatureSize \in 1 .. EndSize - SignatureSize
          BY <1>8, <2>6, <3>2
        <5>2. i = SignatureSize + (i - SignatureSize)
          BY <1>8
        <5> QED
          BY <5>1, <5>2
      <4>2. pos + j = p + i
        BY <1>8, <2>4, <2>6, <2>8, <4>1
      <4> QED
        BY <2>10, <4>1, <4>2
    <3> QED
      BY <1>8, <3>1, <3>2
  <2>12. Has(p, TheRecord)'
    BY <1>7, <2>5, <2>7, <2>8, <2>9, <2>11 DEF Has
  <2>13. \A i \in 1 .. n : Listed(cd, start, i)'
    BY <1>5, <2>4
  <2> QED
    BY <1>0, <1>1, <2>3, <2>7, <2>8, <2>12, <2>13 DEF Sealed
<1>13. \A j \in 0 .. 2 * n + 1 : Remaining(j)' # <<>>
  BY <1>0, <1>2, <1>6, Remain
<1>14. Going(cd, start)' /\ (todo' = <<>> => Sealed(cd, start)')
  <2>1. ASSUME NEW k \in 0 .. n, AtEntry(cd, start, k), k < n
        PROVE  Going(cd, start)' /\ todo' # <<>>
    <3>1. AtName(cd, start, k)'
      BY <1>9, <2>1
    <3>2. todo' = Remaining(2 * k + 1)' /\ 2 * k + 1 \in 0 .. 2 * n + 1
      BY <1>2, <2>1, <3>1 DEF AtName
    <3> QED
      BY <1>0, <1>1, <1>13, <3>1, <3>2 DEF Going
  <2>2. ASSUME AtEntry(cd, start, n)
        PROVE  Going(cd, start)' /\ todo' # <<>>
    <3>1. AtFields(cd, start)'
      BY <1>10, <2>2
    <3>2. todo' = Remaining(2 * n + 1)' /\ 2 * n + 1 \in 0 .. 2 * n + 1
      BY <1>0, <1>1, <1>2, <3>1 DEF AtFields
    <3> QED
      BY <1>13, <3>1, <3>2 DEF Going
  <2>3. ASSUME NEW k \in 0 .. n, AtName(cd, start, k)
        PROVE  Going(cd, start)' /\ todo' # <<>>
    <3>1. k + 1 \in 0 .. n /\ AtEntry(cd, start, k + 1)'
      BY <1>11, <2>3
    <3>2. todo' = Remaining(2 * (k + 1))' /\ 2 * (k + 1) \in 0 .. 2 * n + 1
      BY <1>2, <3>1 DEF AtEntry
    <3> QED
      BY <1>0, <1>1, <1>13, <3>1, <3>2 DEF Going
  <2>4. AtFields(cd, start) => Going(cd, start)' /\ Sealed(cd, start)'
    BY <1>12 DEF Going
  <2>5. ~Sealed(cd, start)
    BY <1>1 DEF Sealed
  <2>6. \A k \in 0 .. n : k = n \/ k < n
    BY <1>2
  <2> QED
    BY <1>0, <2>1, <2>2, <2>3, <2>4, <2>5, <2>6 DEF Going
<1> QED
  BY <1>3, <1>4, <1>14

(***************************************************************************)
(* A write.                                                                *)
(***************************************************************************)
(* What becomes of the file, whether all of it was written or not.         *)
Grows(n) ==
  /\ n \in 0 .. Len(Head(todo)) /\ pos' = pos + n
  /\ medium'.kind = medium.kind /\ medium'.room = medium.room
  /\ medium'.file.owns = medium.file.owns
  /\ Len(Archive') \in Nat
  /\ \A i \in 1 .. Len(Archive') :
       \/ i \in 1 .. Len(Archive) /\ Archive'[i] = Archive[i] /\ (i <= pos \/ i > pos + n)
       \/ i - pos \in 1 .. n /\ Archive'[i] = Head(todo)[i - pos]
  /\ medium.kind = "stdio" =>
       /\ Len(Archive) = pos => Len(Archive') = pos'
       /\ n = Len(Head(todo)) \/ pos' = medium.room
       /\ pos' <= medium.room
  /\ medium.kind = "memory" /\ medium.file.owns =>
       n = Len(Head(todo)) /\ Len(Archive') = pos'
  /\ refused' <=> (refused \/ n # Len(Head(todo)))

LEMMA WriteGrows ==
  ASSUME Types, Write
  PROVE  \E n : Grows(n)
<1> DEFINE new == Head(todo)
           f == Written(new)
<1>1. /\ phase # "stopped" /\ medium' = [medium EXCEPT !.file = f]
      /\ refused' = (refused \/ pos' # pos + Len(new))
  BY DEF Write, pos
<1>2. /\ Len(new) \in Nat /\ pos \in Nat
      /\ medium'.kind = "stdio" => pos' <= medium'.room
  BY WriteFacts, Archives
<1> HIDE DEF f, new
<1>2a. PICK n \in 0 .. Len(new), len \in Nat : \E data : Takes(f, new, n, len, data)
  BY <1>1, <1>2, WrittenAs DEF f
<1>3. PICK data : Takes(f, new, n, len, data)
  BY <1>2a
<1>4. medium' = [kind |-> medium.kind, file |-> f, room |-> medium.room]
  <2>1. PICK a, b, c : medium = [kind |-> a, file |-> b, room |-> c]
    BY DEF Types, IsMedium
  <2> QED
    BY <1>1, <2>1
<1>5. f = [data |-> data, pos |-> pos + n, owns |-> medium.file.owns]
  BY <1>3 DEF Takes
<1>6. pos' = pos + n /\ Archive' = data /\ medium'.file.owns = medium.file.owns
  BY <1>4, <1>5 DEF pos, Archive
<1>7. medium'.kind = medium.kind /\ medium'.room = medium.room
  BY <1>4
<1>8. refused' <=> (refused \/ n # Len(new))
  <2>1. (pos' # pos + Len(new)) <=> (n # Len(new))
    BY <1>2, <1>6
  <2> QED
    BY <1>1, <2>1
<1>9. Len(Archive') = len
  BY <1>3, <1>6 DEF Takes
<1>10. /\ \A i \in 1 .. len :
            \/ i \in 1 .. Len(Archive) /\ Archive'[i] = Archive[i] /\ (i <= pos \/ i > pos + n)
            \/ i - pos \in 1 .. n /\ Archive'[i] = new[i - pos]
       /\ medium.kind = "stdio" =>
            /\ Len(Archive) = pos => len = pos'
            /\ n = Len(new) \/ pos' = medium.room
       /\ medium.kind = "memory" /\ medium.file.owns => n = Len(new) /\ len = pos'
  BY <1>3, <1>6 DEF Takes
<1>11. Grows(n)
  BY <1>2, <1>6, <1>7, <1>8, <1>9, <1>10 DEF Grows, new
<1> QED
  BY <1>11

(* The calls of the destructor's that are left, and where a record begins. *)
LEMMA WriteNear ==
  ASSUME Types, Left, FirstIsNear, Known, Extent, Write
  PROVE  Left' /\ FirstIsNear'
<1> DEFINE new == Head(todo)
           R == End(sizeOfCD, currOffset)
<1>1. /\ phase \in {"ready", "closing"} /\ todo # <<>> /\ todo' = Tail(todo)
      /\ UNCHANGED <<headers, currOffset, sizeOfCD, phase, added>>
  BY DEF Write
<1>2. PICK n : Grows(n)
  BY WriteGrows
<1>3. PICK m : m = Len(headers)
  OBVIOUS
<1>4. /\ m \in Nat /\ pos \in Nat /\ Len(Archive) \in Nat /\ Len(Archive') \in Nat
      /\ SignatureSize \in Nat \ {0} /\ EndSize \in Nat \ {0} /\ SignatureSize < EndSize
      /\ medium.kind \in {"stdio", "memory"} /\ Len(new) \in Nat
  BY <1>2, <1>3, Archives, RecordKind, WriteFacts DEF Grows
<1>5. /\ n \in 0 .. Len(new) /\ n \in Nat /\ pos' = pos + n
      /\ medium'.kind = medium.kind /\ medium'.file.owns = medium.file.owns
  BY <1>2, <1>4 DEF Grows
<1>6. ASSUME phase = "closing"
      PROVE  \E j \in 0 .. 2 * m + 1 :
               /\ todo = Remaining(j) /\ new = Directory[j + 1] /\ Len(todo) = 2 * m + 2 - j
               /\ todo' = Remaining(j + 1) /\ Len(todo') = 2 * m + 1 - j
  <2>1. PICK j \in 0 .. 2 * m + 2 : todo = Remaining(j)
    BY <1>3, <1>6 DEF Left
  <2>2. j # 2 * m + 2
    <3>1. 2 * m + 2 - (2 * m + 2) = 0
      BY <1>4
    <3>2. Remaining(2 * m + 2) = [i \in 1 .. 0 |-> Directory[i + (2 * m + 2)]]
      BY <1>3, <3>1 DEF Remaining
    <3> QED
      BY <1>1, <2>1, <3>2
  <2>3. j \in 0 .. 2 * m + 1
    BY <1>4, <2>2
  <2>4. /\ Len(Remaining(j)) = 2 * m + 2 - j /\ IsSeq(Remaining(j)) /\ Remaining(j) # <<>>
        /\ Head(Remaining(j)) = Directory[j + 1] /\ Tail(Remaining(j)) = Remaining(j + 1)
    BY <1>3, <1>4, <2>3, Remain
  <2>5. Len(todo') = 2 * m + 1 - j
    <3>1. Len(Tail(Remaining(j))) = Len(Remaining(j)) - 1
      BY <2>4, Tailed
    <3>2. PICK l : l = Len(Remaining(j))
      OBVIOUS
    <3>3. l = 2 * m + 2 - j /\ Len(todo') = l - 1
      BY <1>1, <2>1, <2>4, <3>1, <3>2
    <3> QED
      BY <1>4, <2>3, <3>3
  <2> QED
    BY <1>1, <2>1, <2>3, <2>4, <2>5
<1>7. ASSUME NEW w \in 1 .. 2 * m + 2, NEW x \in 1 .. Len(Directory[w])
      PROVE  /\ w <= 2 * m => \E k \in 1 .. m : \E q \in {Central(headers[k]), Name(headers[k])} :
                               Directory[w][x] = <<q, x>> /\ q.kind # "end"
             /\ w = 2 * m + 1 => Len(Directory[w]) = SignatureSize /\ Directory[w][x] = <<R, x>>
             /\ w = 2 * m + 2 => Directory[w][x] = <<R, SignatureSize + x>>
  <2>1. m \in Nat
    BY <1>4
  <2> QED
    BY <1>3, <2>1, DirectoryBytes, Zenon
<1>8. R.kind = "end"
  BY RecordKind
<1> HIDE DEF R
<1>9. Left'
  <2> SUFFICES ASSUME phase = "closing"
               PROVE  \E j \in 0 .. 2 * m + 2 : todo' = Remaining(j)'
    BY <1>1, <1>3 DEF Left
  <2>1. PICK j \in 0 .. 2 * m + 1 : todo' = Remaining(j + 1)
    BY <1>6
  <2>2. j + 1 \in 0 .. 2 * m + 2 /\ Remaining(j + 1)' = Remaining(j + 1)
    BY <1>1, <1>4 DEF Remaining, Directory
  <2> QED
    BY <2>1, <2>2
<1>10. ASSUME EndsThere', Unmistakable', NEW i \in 1 .. Len(Archive'), IsFirst(Archive'[i])
      PROVE  Near(i)'
  <2>1. EndsThere /\ Unmistakable
    BY <1>1, <1>5, <1>10 DEF EndsThere, Unmistakable
  <2>2. \/ i \in 1 .. Len(Archive) /\ Archive'[i] = Archive[i] /\ (i <= pos \/ i > pos + n)
        \/ i - pos \in 1 .. n /\ Archive'[i] = new[i - pos]
    BY <1>2 DEF Grows
  \* The file ends where the write did.
  <2>3. /\ Len(Archive') = pos + n
        /\ i \in 1 .. Len(Archive) /\ (i <= pos \/ i > pos + n) => Len(Archive) = pos
    <3>1. CASE medium.kind = "stdio"
      BY <1>1, <1>2, <1>5, <3>1 DEF Extent, Grows
    <3>2. CASE medium.kind = "memory" /\ medium.file.owns
      <4>1. Len(Archive') = pos + n
        BY <1>2, <1>5, <3>2 DEF Grows
      <4>2. pos > 0 => Len(Archive) = pos
        BY <1>1, <3>2 DEF Extent
      <4>3. i <= pos => pos > 0
        BY <1>4
      <4>4. ~(i > pos + n)
        BY <1>4, <1>5, <4>1
      <4> QED
        BY <4>1, <4>2, <4>3, <4>4
    <3> QED
      BY <1>4, <2>1, <3>1, <3>2 DEF EndsThere
  <2>4. CASE i \in 1 .. Len(Archive) /\ Archive'[i] = Archive[i] /\ (i <= pos \/ i > pos + n)
    <3>1. Near(i)
      BY <1>10, <2>1, <2>4 DEF FirstIsNear, IsFirst
    <3>2. phase = "closing"
      BY <1>1, <3>1 DEF Near
    <3>3. PICK j \in 0 .. 2 * m + 1 :
            /\ new = Directory[j + 1] /\ Len(todo) = 2 * m + 2 - j /\ Len(todo') = 2 * m + 1 - j
      BY <1>6, <3>2
    <3>4. j = 2 * m + 1 /\ Len(todo) = 1 /\ Len(todo') = 0
      <4>1. Len(todo) <= 1
        BY <3>1, <3>2 DEF Near
      <4> QED
        BY <1>4, <3>3, <4>1
    <3>5. pos <= i - 1 + SignatureSize
      BY <2>3, <2>4, <3>1, <3>2, <3>4 DEF Near
    <3>6. Len(new) = EndSize - SignatureSize
      <4>1. new = SubSeq(TheRecord, SignatureSize + 1, EndSize)
        <5>1. j + 1 = 2 * m + 2
          BY <1>4, <3>4
        <5> QED
          BY <1>3, <1>4, <3>3, <5>1, Calls
      <4> QED
        BY <4>1, CallSizes
    <3>7. Len(Archive') <= i - 1 + EndSize
      BY <1>4, <1>5, <2>3, <3>5, <3>6
    <3>8. ASSUME Len(Archive') = i - 1 + EndSize
          PROVE  IsLast(Archive'[Len(Archive')])
      <4>1. n = Len(new) /\ n \in 1 .. Len(new)
        BY <1>4, <1>5, <2>3, <3>5, <3>6, <3>8
      <4>2. PICK e : e = Len(Archive')
        OBVIOUS
      <4>3. e \in 1 .. Len(Archive') /\ ~(e \in 1 .. Len(Archive)) /\ e - pos = n
        BY <1>4, <1>5, <2>3, <2>4, <4>1, <4>2
      <4>4. Archive'[e] = new[n]
        BY <1>2, <4>3 DEF Grows
      <4>5. new[n] = <<R, SignatureSize + n>>
        <5>1. PICK w : w = j + 1
          OBVIOUS
        <5>2. w = 2 * m + 2 /\ w \in 1 .. 2 * m + 2 /\ new = Directory[w]
          BY <1>4, <3>3, <3>4, <5>1
        <5>3. n \in 1 .. Len(Directory[w])
          BY <4>1, <5>2
        <5>4. Directory[w][n] = <<R, SignatureSize + n>>
          BY <1>7, <5>2, <5>3
        <5> QED
          BY <5>2, <5>4
      <4>6. SignatureSize + n = EndSize
        BY <1>4, <3>6, <4>1
      <4> QED
        BY <1>8, <4>2, <4>4, <4>5, <4>6 DEF IsLast
    <3>9. phase' # "ready" /\ Len(todo') <= 1 /\ Len(todo') # 1
      <4>1. phase' # "ready"
        BY <1>1, <3>2
      <4>2. PICK l : l = Len(todo')
        OBVIOUS
      <4>3. l = 0
        BY <3>4, <4>2
      <4> QED
        BY <4>1, <4>2, <4>3
    <3> QED
      BY <3>7, <3>8, <3>9 DEF Near
  <2>5. CASE i - pos \in 1 .. n /\ Archive'[i] = new[i - pos]
    <3>1. PICK x : x = i - pos
      OBVIOUS
    <3>2. x \in 1 .. Len(new) /\ IsFirst(new[x]) /\ i = pos + x
      <4>1. x \in 1 .. Len(new) /\ i = pos + x
        BY <1>4, <1>5, <2>5, <3>1
      <4>2. Archive'[i] = new[x]
        BY <2>5, <3>1
      <4> QED
        BY <1>10, <4>1, <4>2 DEF IsFirst
    <3>3. phase = "closing"
      <4>1. 1 \in 1 .. Len(todo) /\ new = todo[1]
        <5>1. IsSeq(todo)
          BY DEF Types
        <5> QED
          BY <1>1, <5>1 DEF IsSeq
      <4>2. Set(new[x], Ours, Unmistakable)
        BY <3>2, <4>1 DEF Known
      <4> QED
        BY <1>1, <2>1, <3>2, <4>2, SetAre DEF IsFirst
    <3>4. PICK j \in 0 .. 2 * m + 1 : new = Directory[j + 1] /\ Len(todo') = 2 * m + 1 - j
      BY <1>6, <3>3
    <3>5. /\ j + 1 <= 2 * m => new[x][1].kind # "end"
          /\ j + 1 = 2 * m + 1 => Len(new) = SignatureSize /\ new[x] = <<R, x>>
          /\ j + 1 = 2 * m + 2 => new[x] = <<R, SignatureSize + x>>
      <4>1. PICK w : w = j + 1
        OBVIOUS
      <4>2. w \in 1 .. 2 * m + 2 /\ x \in 1 .. Len(Directory[w]) /\ new = Directory[w]
        BY <1>4, <3>2, <3>4, <4>1
      <4>3. w <= 2 * m => \E k \in 1 .. m : \E q \in {Central(headers[k]), Name(headers[k])} :
                               Directory[w][x] = <<q, x>> /\ q.kind # "end"
        BY <1>7, <4>2
      <4>4. w = 2 * m + 1 => Len(Directory[w]) = SignatureSize /\ Directory[w][x] = <<R, x>>
        BY <1>7, <4>2
      <4>5. w = 2 * m + 2 => Directory[w][x] = <<R, SignatureSize + x>>
        BY <1>7, <4>2
      <4> QED
        BY <4>1, <4>2, <4>3, <4>4, <4>5
    <3>6. j = 2 * m /\ x = 1
      <4>1. ~(j + 1 <= 2 * m)
        BY <3>2, <3>5 DEF IsFirst
      <4>2. j + 1 # 2 * m + 2
        <5>1. SignatureSize + x # 1
          BY <1>4, <3>2
        <5> QED
          BY <3>2, <3>5, <5>1 DEF IsFirst
      <4>3. j = 2 * m
        BY <1>4, <4>1, <4>2
      <4> QED
        BY <3>2, <3>5, <4>3 DEF IsFirst
    <3>7. Len(todo') = 1 /\ Len(new) = SignatureSize
      BY <1>4, <3>4, <3>5, <3>6
    <3>8. Len(Archive') <= i - 1 + SignatureSize
      BY <1>4, <1>5, <2>3, <3>2, <3>6, <3>7
    <3>9. Len(Archive') < i - 1 + EndSize
      BY <1>4, <3>8
    <3> QED
      <4>1. phase' # "ready" /\ Len(todo') = 1
        BY <1>1, <3>3, <3>7
      <4>2. PICK c : c = Len(Archive')
        OBVIOUS
      <4>3. c <= i - 1 + EndSize /\ c # i - 1 + EndSize /\ c <= i - 1 + SignatureSize
        BY <1>4, <3>8, <3>9, <4>2
      <4> QED
        BY <4>1, <4>2, <4>3 DEF Near
  <2> QED
    BY <2>2, <2>4, <2>5
<1> QED
  BY <1>9, <1>10 DEF FirstIsNear

LEMMA WriteRInv ==
  ASSUME IInv, RInv, Write, UNCHANGED readerVars
  PROVE  RInv'
<1> DEFINE new == Head(todo)
<1>1. /\ Types /\ phase \in {"ready", "closing"} /\ todo # <<>>
      /\ UNCHANGED <<headers, currOffset, sizeOfCD, phase, cursor, added>>
      /\ UNCHANGED <<reader, record, tell, entries>>
  BY DEF IInv, Write, readerVars
<1>2. PICK n : Grows(n)
  BY <1>1, WriteGrows
<1>3. PICK l : l = Len(todo)
  OBVIOUS
<1>4. /\ l \in Nat \ {0} /\ Len(new) \in Nat /\ new = todo[1] /\ Len(todo') = l - 1
      /\ \A i \in 1 .. l - 1 : todo'[i] = todo[i + 1] /\ i + 1 \in 1 .. l
  <2>1. IsSeq(todo) /\ todo' = Tail(todo)
    BY <1>1, WriteFacts DEF Types
  <2>2. l \in Nat \ {0}
    BY <1>1, <1>3, <2>1, WriteFacts DEF IsSeq
  <2>3. new = todo[1]
    BY <1>3, <2>1, <2>2 DEF IsSeq
  <2> QED
    BY <1>1, <1>3, <2>1, <2>2, <2>3, WriteFacts, Tailed
<1> HIDE DEF new
<1>5. /\ n \in 0 .. Len(new) /\ n \in Nat /\ pos' = pos + n /\ pos \in Nat
      /\ Len(Archive) \in Nat /\ Len(Archive') \in Nat
      /\ medium'.kind = medium.kind /\ medium'.room = medium.room
      /\ medium'.file.owns = medium.file.owns
      /\ refused' <=> (refused \/ n # Len(new))
  BY <1>1, <1>2, <1>4, Archives DEF Grows, new
<1>6. \A i \in 1 .. Len(Archive') :
        \/ i \in 1 .. Len(Archive) /\ Archive'[i] = Archive[i] /\ (i <= pos \/ i > pos + n)
        \/ i - pos \in 1 .. n /\ i - pos \in 1 .. Len(new) /\ Archive'[i] = new[i - pos]
  BY <1>2, <1>4, <1>5 DEF Grows, new
<1>7. /\ medium.kind = "stdio" =>
           /\ Len(Archive) = pos => Len(Archive') = pos'
           /\ n = Len(new) \/ pos' = medium.room
           /\ pos' <= medium.room /\ medium.room \in Nat
      /\ medium.kind = "memory" /\ medium.file.owns => n = Len(new) /\ Len(Archive') = pos'
      /\ medium.kind \in {"stdio", "memory"}
  BY <1>1, <1>2, Archives DEF Grows, new
<1>8. Requested' /\ Counted'
  BY <1>1 DEF RInv, Requested, Asked, Counted, Ends
<1>9. Closing'
  <2> SUFFICES ASSUME phase = "closing", ~refused'
               PROVE  \E cd, start : (Ends(cd) /\ Behind(start) /\ Going(cd, start))'
    BY <1>1 DEF Closing
  <2>1. PICK cd, start : Ends(cd) /\ Behind(start) /\ Going(cd, start)
    BY <1>5 DEF RInv, Closing
  <2>2. Ends(cd)' /\ Behind(start)' /\ Going(cd, start)'
    BY <1>1, <2>1, GoingOn
  <2> QED
    BY <2>2
<1>10. /\ Ours' = Ours /\ (Unmistakable' <=> Unmistakable) /\ (EndsThere' <=> EndsThere)
       /\ \A i \in 1 .. Len(Archive) :
            Archive[i] \in {Foreign, Junk} \/ Set(Archive[i], Ours, Unmistakable)
       /\ \A w \in 1 .. l : \A i \in 1 .. Len(todo[w]) :
            /\ Set(todo[w][i], Ours, Unmistakable)
            /\ Unmistakable /\ IsLast(todo[w][i]) => phase # "ready" /\ w = l /\ i = Len(todo[w])
       /\ \A i \in 1 .. Len(new) : Set(new[i], Ours, Unmistakable) /\ new[i] # Junk
       /\ Clean
       /\ medium.kind = "memory" /\ ~medium.file.owns =>
            \A i \in 1 .. Len(Archive) : Archive[i] # Junk
  <2>1. Ours' = Ours /\ (Unmistakable' <=> Unmistakable) /\ (EndsThere' <=> EndsThere)
    BY <1>1, <1>5 DEF Ours, Unmistakable, EndsThere
  <2>2. \A i \in 1 .. Len(new) : Set(new[i], Ours, Unmistakable)
    BY <1>3, <1>4 DEF RInv, Known
  <2>3. \A i \in 1 .. Len(new) : new[i] # Junk
    BY <1>1, <2>2, SetAre
  <2> QED
    BY <1>3, <2>1, <2>2, <2>3 DEF RInv, Known
<1>11. Known'
  <2>1. \A i \in 1 .. Len(Archive') :
          Archive'[i] \in {Foreign, Junk} \/ Set(Archive'[i], Ours', Unmistakable')
    <3>1. \A i \in 1 .. Len(Archive') :
            Archive'[i] \in {Foreign, Junk} \/ Set(Archive'[i], Ours, Unmistakable)
      BY <1>6, <1>10
    <3> QED
      BY <1>10, <3>1 DEF Set, OfContent
  <2>2. ASSUME NEW w \in 1 .. Len(todo'), NEW i \in 1 .. Len(todo'[w])
        PROVE  /\ Set(todo'[w][i], Ours', Unmistakable')
               /\ Unmistakable' /\ IsLast(todo'[w][i]) =>
                    phase' # "ready" /\ w = Len(todo') /\ i = Len(todo'[w])
    <3>1. w \in 1 .. l - 1 /\ todo'[w] = todo[w + 1] /\ w + 1 \in 1 .. l
      BY <1>4
    <3>2. /\ Set(todo[w + 1][i], Ours, Unmistakable)
          /\ Unmistakable /\ IsLast(todo[w + 1][i]) =>
               phase # "ready" /\ w + 1 = l /\ i = Len(todo[w + 1])
      BY <1>10, <3>1
    <3>4. Set(todo[w + 1][i], Ours', Unmistakable')
      BY <1>10, <3>2 DEF Set, OfContent
    <3>3. w + 1 = l => w = Len(todo')
      BY <1>4, <3>1
    <3> QED
      BY <1>1, <1>10, <3>1, <3>2, <3>3, <3>4
  <2>3. Clean'
    <3> SUFFICES ASSUME pos' # 0, NEW i \in 1 .. Len(Archive') PROVE Archive'[i] # Junk
      BY DEF Clean
    <3>1. CASE i - pos \in 1 .. n /\ i - pos \in 1 .. Len(new) /\ Archive'[i] = new[i - pos]
      BY <1>10, <3>1
    <3>2. CASE i \in 1 .. Len(Archive) /\ Archive'[i] = Archive[i] /\ (i <= pos \/ i > pos + n)
      <4>1. CASE medium.kind = "memory" /\ ~medium.file.owns
        BY <1>10, <3>2, <4>1
      <4>2. CASE medium.kind = "stdio"
        <5>1. Len(Archive) = pos
          BY <1>1, <4>2 DEF RInv, Extent
        <5>2. pos # 0
          BY <3>2, <5>1
        <5> QED
          BY <1>10, <3>2, <5>2 DEF Clean
      <4>3. CASE medium.kind = "memory" /\ medium.file.owns
        <5>1. i <= pos' /\ pos' = pos + n
          BY <1>5, <1>7, <4>3
        <5>2. pos # 0
          BY <1>5, <3>2, <5>1
        <5> QED
          BY <1>10, <3>2, <5>2 DEF Clean
      <4> QED
        BY <1>7, <4>1, <4>2, <4>3
    <3> QED
      BY <1>6, <3>1, <3>2
  <2>4. medium'.kind = "memory" /\ ~medium'.file.owns =>
          \A i \in 1 .. Len(Archive') : Archive'[i] # Junk
    BY <1>5, <1>6, <1>10
  <2> QED
    BY <2>1, <2>2, <2>3, <2>4 DEF Known
<1>12. Extent'
  <2>1. phase' = phase /\ phase # "stopped"
    BY <1>1
  <2>2. medium.kind = "stdio" => Len(Archive') = pos' /\ (refused' => pos' = medium.room)
    <3> SUFFICES ASSUME medium.kind = "stdio"
                 PROVE  Len(Archive') = pos' /\ (refused' => pos' = medium.room)
      OBVIOUS
    <3>1. Len(Archive) = pos /\ (refused => pos = medium.room)
      BY <2>1 DEF RInv, Extent
    <3>2. refused => pos' = medium.room
      BY <1>5, <1>7, <3>1
    <3> QED
      BY <1>5, <1>7, <3>1, <3>2
  <2>3. medium.kind = "memory" /\ medium.file.owns => Len(Archive') = pos' /\ ~refused'
    BY <1>5, <1>7 DEF RInv, Extent
  <2> QED
    BY <1>5, <2>1, <2>2, <2>3 DEF Extent
<1>13. LastIsLast'
  <2> SUFFICES ASSUME EndsThere', Unmistakable', NEW i \in 1 .. Len(Archive'), IsLast(Archive'[i])
               PROVE  i = pos' /\ ~refused' /\ Whole'
    BY DEF LastIsLast, IsLast
  <2>1. EndsThere /\ Unmistakable
    BY <1>10
  <2>2. i - pos \in 1 .. n /\ i - pos \in 1 .. Len(new) /\ Archive'[i] = new[i - pos]
    <3> SUFFICES ASSUME i \in 1 .. Len(Archive), Archive'[i] = Archive[i] PROVE FALSE
      BY <1>6
    <3>1. Whole
      BY <2>1 DEF RInv, LastIsLast
    <3> QED
      BY <1>1, <3>1 DEF Whole, Sealed
  <2>3. phase # "ready" /\ l = 1 /\ i - pos = Len(new)
    <3>1. 1 \in 1 .. l /\ IsLast(todo[1][i - pos]) /\ i - pos \in 1 .. Len(todo[1])
      BY <1>4, <2>2
    <3> QED
      BY <1>4, <1>10, <2>1, <3>1
  <2>4. n = Len(new) /\ i = pos'
    BY <1>4, <1>5, <2>2, <2>3
  <2>5. ~refused'
    <3>1. CASE medium.kind = "stdio"
      <4>1. refused => pos = medium.room
        BY <1>1, <3>1 DEF RInv, Extent
      <4> QED
        BY <1>5, <1>7, <2>2, <2>4, <3>1, <4>1
    <3>2. CASE medium.kind # "stdio"
      BY <1>5, <1>7, <1>12, <2>1, <3>2 DEF Extent, EndsThere
    <3> QED
      BY <3>1, <3>2
  <2>6. Whole'
    <3>1. PICK cd, start : Ends(cd) /\ Behind(start) /\ Going(cd, start)
      BY <1>1, <1>5, <2>3, <2>5 DEF RInv, Closing
    <3>2. todo' = <<>>
      <4>1. Len(todo') = 0 /\ IsSeq(todo')
        BY <1>1, <1>4, <2>3, WriteFacts
      <4> QED
        BY <4>1 DEF IsSeq
    <3>3. Ends(cd)' /\ Behind(start)' /\ Sealed(cd, start)'
      BY <1>1, <2>3, <2>5, <3>1, <3>2, GoingOn
    <3> QED
      BY <3>3 DEF Whole
  <2> QED
    BY <2>4, <2>5, <2>6
<1>14. Reading'
  BY <1>1 DEF RInv, Reading
<1>15. Left' /\ FirstIsNear'
  BY <1>1, WriteNear DEF RInv
<1> QED
  BY <1>8, <1>9, <1>11, <1>12, <1>13, <1>14, <1>15 DEF RInv

(***************************************************************************)
(* The destructor begins, and ends; the program stops.                     *)
(***************************************************************************)
LEMMA DestroyRInv ==
  ASSUME IInv, RInv, Destroy, UNCHANGED readerVars
  PROVE  RInv'
<1>1. /\ phase = "ready" /\ phase' = "closing" /\ todo = <<>> /\ todo' = Directory
      /\ UNCHANGED <<medium, refused, headers, currOffset, sizeOfCD, cursor, added>>
      /\ UNCHANGED <<reader, record, tell, entries>>
      /\ Types /\ Layout
  BY DEF Destroy, Idle, IInv, readerVars
<1>2. pos' = pos /\ Archive' = Archive /\ pos \in Nat
  BY <1>1, Archives DEF pos, Archive
<1>3. PICK n : n = Len(headers)
  OBVIOUS
<1>4. n \in Nat
  BY <1>1, <1>3, Archives
<1>5. Requested' /\ Counted'
  BY <1>1 DEF RInv, Requested, Asked, Counted, Ends
<1>13. todo' = Remaining(0)'
  <2>1. Remaining(0) = [i \in 1 .. 2 * n + 2 |-> Directory[i]]
    BY <1>3, <1>4 DEF Remaining
  <2>2. Directory = [i \in 1 .. 2 * n + 2 |-> Directory[i]]
    BY <1>3, <1>4 DEF Directory
  <2>3. Remaining(0)' = Remaining(0)
    BY <1>1 DEF Remaining, Directory
  <2> QED
    BY <1>1, <2>1, <2>2, <2>3
<1>6. Closing'
  <2> SUFFICES ASSUME ~refused
               PROVE  \E cd, start : (Ends(cd) /\ Behind(start) /\ Going(cd, start))'
    BY <1>1 DEF Closing
  <2>1. PICK cd : Ends(cd)
    BY DEF RInv, Counted
  <2>2. PICK start : start = pos
    OBVIOUS
  <2>3. Ends(cd)'
    BY <1>1, <2>1 DEF Ends
  <2>4. Behind(start)'
    <3>1. start <= Limit => \A k \in 1 .. n : Placed(k)
      BY <1>1, <1>3, <2>2 DEF Layout, Finished
    <3>2. \A k \in 1 .. n : Placed(k) => Placed(k)'
      BY <1>1, <1>2 DEF Placed, Has, NameAt1, DataAt, LocalOf, NameOf, DataOf
    <3>3. start < Limit => currOffset = start
      BY <1>1, <2>2 DEF Layout
    <3> QED
      BY <1>1, <1>2, <1>3, <2>2, <3>1, <3>2, <3>3 DEF Behind
  <2>5. AtEntry(cd, start, 0)'
    <3>1. pos' = start + cd[0]
      BY <1>2, <2>1, <2>2 DEF Ends
    <3> QED
      BY <1>13, <3>1 DEF AtEntry
  <2>6. Going(cd, start)'
    <3>1. 0 \in 0 .. Len(headers')
      BY <1>1, <1>3, <1>4
    <3> QED
      BY <2>5, <3>1 DEF Going
  <2> QED
    BY <2>3, <2>4, <2>6
<1>7. Ours \subseteq Ours' /\ End(sizeOfCD, currOffset) \in Ours'
  BY <1>1 DEF Ours
<1>8. ASSUME NEW w \in 1 .. Len(Directory), NEW i \in 1 .. Len(Directory[w])
      PROVE  /\ Set(Directory[w][i], Ours', Unmistakable')
             /\ IsLast(Directory[w][i]) => w = Len(Directory) /\ i = Len(Directory[w])
  <2> DEFINE R == End(sizeOfCD, currOffset)
             d == Directory[w][i]
  <2>1. w \in 1 .. 2 * n + 2 /\ Len(Directory) = 2 * n + 2
    BY <1>3, <1>4, Calls
  <2>2. /\ w <= 2 * n => \E k \in 1 .. n : \E q \in {Central(headers[k]), Name(headers[k])} :
                          d = <<q, i>> /\ q.kind # "end"
        /\ w = 2 * n + 1 => Len(Directory[w]) = SignatureSize /\ d = <<R, i>>
        /\ w = 2 * n + 2 => Len(Directory[w]) = EndSize - SignatureSize
                            /\ d = <<R, SignatureSize + i>>
    BY <1>1, <1>3, <1>4, <2>1, DirectoryBytes
  <2>3. SignatureSize \in Nat /\ EndSize \in Nat /\ SignatureSize < EndSize
    BY RecordKind
  <2>4. R \in Ours'
    BY <1>7
  <2> HIDE DEF R, d
  <2>5. CASE w <= 2 * n
    <3>1. PICK k \in 1 .. n : \E q \in {Central(headers[k]), Name(headers[k])} :
                          d = <<q, i>> /\ q.kind # "end"
      BY <2>2, <2>5
    <3>2. PICK q \in {Central(headers[k]), Name(headers[k])} : d = <<q, i>> /\ q.kind # "end"
      BY <3>1
    <3>3. q \in Pieces(headers[k], added[k])
      BY <3>2 DEF Pieces
    <3>4. q \in Ours'
      BY <1>3, <1>7, <3>3 DEF Ours
    <3> QED
      BY <3>2, <3>4 DEF Set, ByteOf, IsLast, d
  <2>6. CASE w = 2 * n + 1
    <3>1. d = <<R, i>> /\ i # EndSize
      BY <2>2, <2>3, <2>6
    <3> QED
      BY <2>4, <3>1 DEF Set, ByteOf, IsLast, d
  <2>7. CASE w = 2 * n + 2
    <3>1. d = <<R, SignatureSize + i>> /\ (SignatureSize + i = EndSize => i = Len(Directory[w]))
      BY <2>2, <2>3, <2>7
    <3> QED
      BY <2>1, <2>4, <2>7, <3>1 DEF Set, ByteOf, IsLast, d
  <2>8. w <= 2 * n \/ w = 2 * n + 1 \/ w = 2 * n + 2
    BY <1>4, <2>1
  <2> QED
    BY <2>5, <2>6, <2>7, <2>8
<1>9. Known'
  <2>1. \A i \in 1 .. Len(Archive) :
          Archive[i] \in {Foreign, Junk} \/ Set(Archive[i], Ours', Unmistakable')
    BY <1>1, <1>7 DEF RInv, Known, Set, ByteOf, OfContent, Unmistakable
  <2>2. Clean'
    BY <1>2 DEF RInv, Known, Clean
  <2>3. /\ \A i \in 1 .. Len(Archive') :
             Archive'[i] \in {Foreign, Junk} \/ Set(Archive'[i], Ours', Unmistakable')
        /\ medium'.kind = "memory" /\ ~medium'.file.owns =>
             \A i \in 1 .. Len(Archive') : Archive'[i] # Junk
    BY <1>1, <1>2, <2>1 DEF RInv, Known
  <2> QED
    BY <1>1, <1>8, <2>2, <2>3 DEF Known
<1>10. Extent'
  BY <1>1, <1>2 DEF RInv, Extent
<1>11. LastIsLast' /\ FirstIsNear'
  <2>1. Unmistakable => \A i \in 1 .. Len(Archive) : Archive[i][1].kind # "end"
    BY <1>1, NoRecord DEF RInv
  <2>2. Unmistakable' <=> Unmistakable
    BY <1>1 DEF Unmistakable
  <2> QED
    BY <1>2, <2>1, <2>2 DEF LastIsLast, FirstIsNear, IsLast, IsFirst
<1>12. Reading'
  BY <1>1 DEF RInv, Reading
<1>14. Left'
  <2>1. 0 \in 0 .. 2 * Len(headers') + 2
    BY <1>1, <1>3, <1>4
  <2> QED
    BY <1>13, <2>1 DEF Left
<1> QED
  BY <1>5, <1>6, <1>9, <1>10, <1>11, <1>12, <1>14 DEF RInv

LEMMA CloseRInv ==
  ASSUME IInv, RInv, Close \/ Release, UNCHANGED readerVars
  PROVE  RInv'
<1>1. /\ phase \in {"closing", "written"} /\ phase' \in {"written", "closed"} /\ todo = <<>>
      /\ UNCHANGED <<medium, refused, headers, currOffset, sizeOfCD, todo, cursor, added>>
      /\ UNCHANGED <<reader, record, tell, entries>>
  BY DEF Close, Release, RInv, Closing, readerVars
<1>2. pos' = pos /\ Archive' = Archive
  BY <1>1 DEF pos, Archive
<1>3. Requested' /\ Counted'
  BY <1>1 DEF RInv, Requested, Asked, Counted, Ends
<1>4. \A k \in 1 .. Len(headers) : Placed(k)' <=> Placed(k)
  BY <1>1, <1>2 DEF Placed, Has, NameAt1, DataAt, LocalOf, NameOf, DataOf
<1>5. \A cd, start : Ends(cd) /\ Behind(start) => Ends(cd)' /\ Behind(start)'
  BY <1>1, <1>4 DEF Ends, Behind
<1>6. \A cd, start : Sealed(cd, start) => Sealed(cd, start)'
  BY <1>1, <1>2 DEF Sealed, Listed, Has, TheRecord, CentralOf, NameOf
<1>7. Closing'
  <2> SUFFICES ASSUME ~refused
               PROVE  \E cd, start : (Ends(cd) /\ Behind(start) /\ Going(cd, start))'
    BY <1>1 DEF Closing
  <2>1. PICK cd, start : Ends(cd) /\ Behind(start) /\ Going(cd, start)
    BY <1>1 DEF RInv, Closing
  <2>2. Sealed(cd, start)
    BY <1>1, <2>1, Ended DEF IInv
  <2> QED
    BY <1>5, <1>6, <2>1, <2>2 DEF Going
<1>8. Known'
  <2>1. Ours' = Ours /\ (Unmistakable' <=> Unmistakable)
    BY <1>1 DEF Ours, Unmistakable
  <2>2. Clean'
    BY <1>2 DEF RInv, Known, Clean
  <2>3. \A b : Set(b, Ours, Unmistakable) => Set(b, Ours', Unmistakable')
    BY <2>1 DEF Set, OfContent
  <2> QED
    BY <1>1, <1>2, <2>1, <2>2, <2>3 DEF RInv, Known
<1>9. Extent'
  BY <1>1, <1>2 DEF RInv, Extent
<1>10. LastIsLast' /\ FirstIsNear'
  <2>1. Whole => Whole'
    BY <1>5, <1>6 DEF Whole
  <2>2. (EndsThere' <=> EndsThere) /\ (Unmistakable' <=> Unmistakable)
    BY <1>1 DEF EndsThere, Unmistakable
  <2>3. LastIsLast'
    BY <1>1, <1>2, <2>1, <2>2 DEF RInv, LastIsLast, IsLast
  <2>4. \A i : Near(i) => Near(i)'
    BY <1>1, <1>2 DEF Near, IsLast
  <2> QED
    BY <1>1, <1>2, <2>2, <2>3, <2>4 DEF RInv, FirstIsNear, IsFirst
<1>11. Reading'
  BY <1>1 DEF RInv, Reading
<1>12. Left'
  BY <1>1 DEF Left
<1> QED
  BY <1>3, <1>7, <1>8, <1>9, <1>10, <1>11, <1>12 DEF RInv

LEMMA StopRInv ==
  ASSUME IInv, RInv, Stop, UNCHANGED readerVars
  PROVE  RInv'
<1>1. PICK c \in 0 .. Len(Archive) :
        /\ medium.kind = "memory" => c = Len(Archive)
        /\ medium' = [medium EXCEPT !.file.data = Std!Slice(Archive, 0, c)]
  BY DEF Stop
<1>2. /\ phase \in {"ready", "closing", "written"} /\ phase' = "stopped"
      /\ UNCHANGED <<refused, headers, currOffset, sizeOfCD, todo, cursor, added>>
      /\ UNCHANGED <<reader, record, tell, entries>>
      /\ Types
  BY DEF Stop, IInv, readerVars
<1>3. /\ medium'.kind = medium.kind /\ medium'.room = medium.room
      /\ medium'.file.owns = medium.file.owns /\ pos' = pos
      /\ Archive' = [i \in 1 .. c |-> Archive[0 + i]]
  <2> DEFINE part == Std!Slice(Archive, 0, c)
             f == [medium.file EXCEPT !.data = part]
  <2>1. medium' = [medium EXCEPT !.file = f]
    BY <1>1
  <2>2. PICK a, b, d : medium.file = [data |-> a, pos |-> b, owns |-> d]
    BY <1>2 DEF Types, IsMedium, IsFile
  <2>3. PICK e, g, h : medium = [kind |-> e, file |-> g, room |-> h]
    BY <1>2 DEF Types, IsMedium
  <2> HIDE DEF part
  <2>4. f.data = part /\ f.pos = pos /\ f.owns = medium.file.owns
    BY <2>2 DEF pos
  <2> HIDE DEF f
  <2>5. medium'.kind = medium.kind /\ medium'.room = medium.room /\ medium'.file = f
    BY <2>1, <2>3
  <2> QED
    BY <2>4, <2>5 DEF part, pos, Archive, Std!Slice
<1>4. c \in Nat /\ c <= Len(Archive) /\ Len(Archive) \in Nat /\ pos \in Nat
  BY <1>2, Archives
<1>5. Len(Archive') = c /\ \A i \in 1 .. c : Archive'[i] = Archive[i] /\ i \in 1 .. Len(Archive)
  BY <1>3, <1>4
<1>6. Requested' /\ Counted'
  BY <1>2 DEF RInv, Requested, Asked, Counted, Ends
<1>7. Closing' /\ Left'
  BY <1>2 DEF Closing, Left
<1>8. \A b : Set(b, Ours, Unmistakable) => Set(b, Ours', Unmistakable')
  <2>1. Ours \subseteq Ours' /\ (Unmistakable' <=> Unmistakable)
    BY <1>2 DEF Ours, Unmistakable
  <2> QED
    BY <2>1 DEF Set, ByteOf, OfContent
<1>9. Known'
  <2>1. \A i \in 1 .. Len(Archive') :
          Archive'[i] \in {Foreign, Junk} \/ Set(Archive'[i], Ours', Unmistakable')
    BY <1>5, <1>8 DEF RInv, Known
  <2>2. \A w \in 1 .. Len(todo') : \A i \in 1 .. Len(todo'[w]) :
          /\ Set(todo'[w][i], Ours', Unmistakable')
          /\ Unmistakable' /\ IsLast(todo'[w][i]) =>
               phase' # "ready" /\ w = Len(todo') /\ i = Len(todo'[w])
    <3>1. Unmistakable' <=> Unmistakable
      BY <1>2 DEF Unmistakable
    <3> QED
      BY <1>2, <1>8, <3>1 DEF RInv, Known
  <2>3. Clean'
    BY <1>3, <1>5 DEF RInv, Known, Clean
  <2>4. medium'.kind = "memory" /\ ~medium'.file.owns =>
          \A i \in 1 .. Len(Archive') : Archive'[i] # Junk
    BY <1>3, <1>5 DEF RInv, Known
  <2> QED
    BY <2>1, <2>2, <2>3, <2>4 DEF Known
<1>10. Extent'
  BY <1>2, <1>3 DEF RInv, Extent
<1>11. LastIsLast'
  <2> SUFFICES ASSUME EndsThere', Unmistakable', NEW i \in 1 .. Len(Archive'), IsLast(Archive'[i])
               PROVE  i = pos' /\ ~refused' /\ Whole'
    BY DEF LastIsLast, IsLast
  <2>1. EndsThere /\ Unmistakable
    BY <1>2, <1>3 DEF EndsThere, Unmistakable
  <2>2. i = pos /\ ~refused /\ Whole /\ i <= c
    BY <1>4, <1>5, <2>1 DEF RInv, LastIsLast
  <2> DEFINE Still(p, b) == /\ p \in Nat /\ p + Len(b) <= pos'
                            /\ \A j \in 1 .. Len(b) : Archive'[p + j] = b[j]
  <2>3. ASSUME NEW p, NEW b, Len(b) \in Nat, Has(p, b)
        PROVE  Still(p, b)
    <3>1. p \in Nat /\ p + Len(b) <= pos
      BY <2>3 DEF Has
    <3>2. ASSUME NEW j \in 1 .. Len(b) PROVE Archive'[p + j] = b[j]
      <4>1. p + j \in 1 .. c
        BY <1>4, <2>2, <2>3, <3>1
      <4>2. Archive[p + j] = b[j]
        BY <2>3 DEF Has
      <4> QED
        BY <1>5, <4>1, <4>2
    <3> QED
      BY <1>3, <3>1, <3>2
  <2> HIDE DEF Still
  <2>4. PICK cd, start : Ends(cd) /\ Behind(start) /\ Sealed(cd, start)
    BY <2>2 DEF Whole
  <2>5. PICK n : n = Len(headers)
    OBVIOUS
  <2>6. /\ \A k \in 1 .. n : /\ LocalOf(k)' = LocalOf(k) /\ NameOf(k)' = NameOf(k)
                             /\ DataOf(k)' = DataOf(k) /\ CentralOf(k)' = CentralOf(k)
                             /\ NameAt1(k)' = NameAt1(k) /\ DataAt(k)' = DataAt(k)
        /\ TheRecord' = TheRecord
    BY <1>2 DEF LocalOf, NameOf, DataOf, CentralOf, NameAt1, DataAt, TheRecord
  <2>7. ASSUME NEW k \in 1 .. n
        PROVE  /\ Len(LocalOf(k)) \in Nat /\ Len(NameOf(k)) \in Nat /\ Len(DataOf(k)) \in Nat
               /\ Len(CentralOf(k)) \in Nat
    <3>1. Noted(k)
      BY <1>2, <2>5 DEF Types
    <3> QED
      BY <1>2, <2>5, <3>1, Sizes, CallSizes, SizesAssumption DEF Noted
  <2>8. Ends(cd)'
    BY <1>2, <2>4 DEF Ends
  <2>9. Behind(start)'
    <3>1. ASSUME NEW k \in 1 .. n, Placed(k) PROVE Placed(k)'
      <4>1. /\ Still(headers[k].offset, LocalOf(k))
            /\ Still(NameAt1(k), NameOf(k))
            /\ Still(DataAt(k), DataOf(k))
        BY <2>3, <2>7, <3>1 DEF Placed
      <4> QED
        BY <1>2, <2>6, <4>1 DEF Placed, Has, Still
    <3> QED
      BY <1>2, <2>4, <2>5, <3>1 DEF Behind
  <2>10. Sealed(cd, start)'
    <3>1. ASSUME NEW k \in 1 .. n PROVE Listed(cd, start, k)'
      <4>1. Has(start + cd[k - 1], CentralOf(k)) /\ Has(start + cd[k - 1] + CentralSize, NameOf(k))
        BY <2>4, <2>5 DEF Sealed, Listed
      <4>2. /\ Still(start + cd[k - 1], CentralOf(k))
            /\ Still(start + cd[k - 1] + CentralSize, NameOf(k))
        BY <2>3, <2>7, <4>1
      <4> QED
        BY <2>6, <4>2 DEF Listed, Has, Still
    <3>2. Has(start + cd[n], TheRecord)'
      <4>1. Has(start + cd[n], TheRecord) /\ Len(TheRecord) \in Nat
        BY <1>2, <2>4, <2>5, CallSizes, RecordKind DEF Sealed
      <4>2. Still(start + cd[n], TheRecord)
        BY <2>3, <4>1
      <4> QED
        BY <2>6, <4>2 DEF Has, Still
    <3> QED
      BY <1>2, <1>3, <2>4, <2>5, <3>1, <3>2 DEF Sealed
  <2> QED
    BY <1>2, <1>3, <2>2, <2>8, <2>9, <2>10 DEF Whole
<1>12. Reading'
  BY <1>2 DEF RInv, Reading
<1>13. FirstIsNear'
  <2> SUFFICES ASSUME EndsThere', Unmistakable', NEW i \in 1 .. Len(Archive'), IsFirst(Archive'[i])
               PROVE  Near(i)'
    BY DEF FirstIsNear, IsFirst
  <2>1. EndsThere /\ Unmistakable
    BY <1>2, <1>3 DEF EndsThere, Unmistakable
  <2>2. Near(i)
    BY <1>5, <2>1 DEF RInv, FirstIsNear, IsFirst
  <2>3. c <= i - 1 + EndSize
    BY <1>4, <1>5, <2>2, RecordKind DEF Near
  <2>4. ASSUME c = i - 1 + EndSize PROVE IsLast(Archive'[c])
    <3>1. c = Len(Archive) /\ c \in 1 .. c
      BY <1>4, <1>5, <2>2, <2>4, RecordKind DEF Near
    <3>2. Archive'[c] = Archive[Len(Archive)]
      BY <1>5, <3>1
    <3> QED
      BY <2>2, <2>4, <3>1, <3>2 DEF Near, IsLast
  <2> QED
    BY <1>2, <1>5, <2>3, <2>4 DEF Near
<1> QED
  BY <1>6, <1>7, <1>9, <1>10, <1>11, <1>12, <1>13 DEF RInv

(***************************************************************************)
(* OpenArchive.                                                            *)
(***************************************************************************)
(* A piece that is read is a piece that was written, or the record of an   *)
(* archive that was stored.                                                *)
LEMMA FoundPiece ==
  ASSUME Types, Known, NEW p \in Int, NEW n \in Nat, NEW kind,
         kind \notin {"junk", "foreign", "plain"}, IsPiece(BytesAt(p, n), kind)
  PROVE  LET q == Piece(BytesAt(p, n))
         IN  /\ q.kind = kind
             /\ kind # "end" => q \in Ours
             /\ q \in Ours \/ (q.offset \in Int32 /\ q.size \in Int32)
<1> DEFINE b == BytesAt(p, n)
<1>1. /\ IsSeq(b)
      /\ \A i \in 1 .. Len(b) : p + i \in 1 .. Len(Archive) /\ b[i] = Archive[p + i]
  BY ByteRead
<1> HIDE DEF b
<1>2. b # <<>> /\ b[1][1].kind = kind /\ IsPiece(b, kind)
  BY DEF IsPiece, b
<1>3. Len(b) # 0
  BY <1>1, <1>2 DEF IsSeq
<1>4. 1 \in 1 .. Len(b)
  BY <1>1, <1>3 DEF IsSeq
<1>5. b[1] \in {Foreign, Junk} \/ Set(b[1], Ours, Unmistakable)
  BY <1>1, <1>4 DEF Known
<1>6. Set(b[1], Ours, Unmistakable)
  BY <1>2, <1>5, NotOurs
<1>7. CASE ByteOf(b[1], Ours)
  BY <1>2, <1>7 DEF ByteOf, Piece, b
<1>8. CASE OfContent(b[1], Unmistakable)
  <2>1. b[1] \in PlainBytes \cup RecordBytes
    BY <1>8 DEF OfContent
  <2>2. kind = "end" /\ b[1][1].offset \in Int32 /\ b[1][1].size \in Int32
    BY <1>2, <2>1, ContentKinds
  <2> QED
    BY <1>2, <2>2 DEF Piece, b
<1> QED
  BY <1>6, <1>7, <1>8 DEF Set

(* A record has its signature.                                             *)
LEMMA PieceSigned ==
  ASSUME Types, Known, IsPiece(LastBytes, "end")
  PROVE  IsSigned(LastBytes)
<1>1. EndSize \in Nat \ {0} /\ SignatureSize \in Nat \ {0} /\ SignatureSize < EndSize
  BY RecordKind
<1>2. LastBytes # <<>> /\ LastBytes = Bytes(LastBytes[1][1]) /\ LastBytes[1][1].kind = "end"
  BY DEF IsPiece
<1>3. PICK p : p = Len(Archive) - EndSize
  OBVIOUS
<1>4. p \in Int /\ LastBytes = BytesAt(p, EndSize)
  BY <1>1, <1>3, Archives DEF LastBytes
<1>5. /\ IsSeq(LastBytes)
      /\ \A i \in 1 .. Len(LastBytes) :
           p + i \in 1 .. Len(Archive) /\ LastBytes[i] = Archive[p + i]
  BY <1>1, <1>4, ByteRead
<1>6. 1 \in 1 .. Len(LastBytes)
  BY <1>2, <1>5 DEF IsSeq
<1>7. Set(LastBytes[1], Ours, Unmistakable)
  <2>1. LastBytes[1] \in {Foreign, Junk} \/ Set(LastBytes[1], Ours, Unmistakable)
    BY <1>5, <1>6 DEF Known
  <2> QED
    BY <1>2, <2>1, NotOurs
<1>8. LastBytes[1][1].bytes = EndSize
  <2>1. CASE ByteOf(LastBytes[1], Ours)
    <3>1. LastBytes[1][1] = End(sizeOfCD, currOffset)
      BY <1>2, <2>1, OursAre DEF ByteOf
    <3> QED
      BY <3>1 DEF End
  <2>2. CASE OfContent(LastBytes[1], Unmistakable)
    BY <1>2, <2>2, ContentKinds DEF OfContent
  <2> QED
    BY <1>7, <2>1, <2>2 DEF Set
<1>9. Len(LastBytes) = EndSize /\ \A k \in 1 .. EndSize : LastBytes[k] = <<LastBytes[1][1], k>>
  BY <1>1, <1>2, <1>8, BytesOf, EachByte
<1>10. \A k \in 1 .. SignatureSize : k \in 1 .. EndSize
  BY <1>1
<1> QED
  BY <1>1, <1>2, <1>9, <1>10 DEF IsSigned

(* If no archive was stored, a signature at the end of the file is that of *)
(* the record that the writer wrote, and all of the archive is there; of   *)
(* one that was written to its end it is in any case.                      *)
LEMMA RecordFound ==
  ASSUME Types, Closing, Known, Extent, LastIsLast, FirstIsNear, Trusted,
         Complete \/ IsSigned(LastBytes)
  PROVE  /\ Len(Archive) = pos /\ Whole
         /\ IsPiece(LastBytes, "end") /\ Piece(LastBytes) = End(sizeOfCD, currOffset)
         /\ IsSigned(LastBytes)
<1>1. /\ Len(Archive) \in Nat /\ pos \in Nat /\ medium.kind \in {"stdio", "memory"}
      /\ EndSize \in Nat \ {0} /\ SignatureSize \in Nat \ {0} /\ SignatureSize < EndSize
      /\ Len(headers) \in Nat
  BY Archives, RecordKind
<1>2. Len(Archive) = pos /\ Whole
  <2>1. CASE Complete
    <3>1. PICK cd, start : Ends(cd) /\ Behind(start) /\ Going(cd, start)
      BY <2>1 DEF Complete, Closing
    <3>2. Sealed(cd, start)
      BY <2>1, <3>1, Ended DEF Complete, Closing
    <3>3. PICK n : n = Len(headers)
      OBVIOUS
    <3>4. pos = start + cd[n] + EndSize /\ start \in Nat /\ cd[n] \in Nat
      BY <1>1, <3>1, <3>2, <3>3 DEF Ends, Behind, Sealed
    <3>5. pos > 0
      BY <1>1, <3>4
    <3>6. Len(Archive) = pos
      BY <1>1, <2>1, <3>5 DEF Complete, Extent, pos
    <3> QED
      BY <3>1, <3>2, <3>6 DEF Whole
  <2>2. CASE EndsThere /\ Unmistakable /\ IsSigned(LastBytes)
    <3>1. PICK p : p = Len(Archive) - EndSize
      OBVIOUS
    <3>2. p \in Int /\ LastBytes = BytesAt(p, EndSize)
      BY <1>1, <3>1 DEF LastBytes
    <3>3. 1 \in 1 .. Len(LastBytes) /\ 1 \in 1 .. SignatureSize
      <4>1. IsSeq(LastBytes) /\ SignatureSize <= Len(LastBytes)
        BY <1>1, <2>2, <3>2, ByteRead DEF IsSigned
      <4> QED
        BY <1>1, <4>1 DEF IsSeq
    <3>4. LastBytes[1][1].kind = "end" /\ LastBytes[1][2] = 1
      BY <2>2, <3>3 DEF IsSigned
    <3>5. p + 1 \in 1 .. Len(Archive) /\ LastBytes[1] = Archive[p + 1]
      BY <1>1, <3>2, <3>3, ByteRead
    <3>6. Near(p + 1)
      BY <2>2, <3>4, <3>5 DEF FirstIsNear, IsFirst
    <3>7. Len(Archive) = (p + 1) - 1 + EndSize /\ Len(Archive) \in 1 .. Len(Archive)
      BY <1>1, <3>1, <3>5
    <3>8. IsLast(Archive[Len(Archive)])
      BY <3>6, <3>7 DEF Near
    <3> QED
      BY <2>2, <3>7, <3>8 DEF LastIsLast
  <2> QED
    BY <2>1, <2>2 DEF Trusted
<1>3. PICK cd, start : Ends(cd) /\ Behind(start) /\ Sealed(cd, start)
  BY <1>2 DEF Whole
<1>4. PICK n : n = Len(headers)
  OBVIOUS
<1>5. pos = start + cd[n] + EndSize /\ start \in Nat /\ cd[n] \in Nat /\ Has(start + cd[n], TheRecord)
  BY <1>1, <1>3, <1>4 DEF Ends, Behind, Sealed
<1>6. LastBytes = TheRecord
  <2>1. Len(Archive) - EndSize = start + cd[n]
    BY <1>1, <1>2, <1>5
  <2>2. Len(TheRecord) = EndSize /\ IsSeq(TheRecord)
    BY CallSizes
  <2>3. BytesAt(start + cd[n], EndSize) = TheRecord
    BY <1>1, <1>2, <1>5, <2>2, Reads
  <2> QED
    BY <2>1, <2>3 DEF LastBytes
<1>7. IsPiece(LastBytes, "end") /\ Piece(LastBytes) = End(sizeOfCD, currOffset)
  BY <1>6, RecordKind, PieceOf DEF TheRecord
<1>8. IsSigned(LastBytes)
  <2>1. Len(TheRecord) = EndSize /\ \A k \in 1 .. EndSize : TheRecord[k] = <<End(sizeOfCD, currOffset), k>>
    BY RecordKind, EachByte DEF TheRecord
  <2>2. \A k \in 1 .. SignatureSize : k \in 1 .. EndSize
    BY <1>1
  <2> QED
    BY <1>1, <1>6, <2>1, <2>2, RecordKind DEF IsSigned
<1> QED
  BY <1>2, <1>7, <1>8

(* The reader, and a call of the writer's that fails, leave the file alone.*)
LeftAlone ==
  /\ UNCHANGED <<medium, refused, headers, currOffset, sizeOfCD, todo, phase, added>>
  /\ cursor' \in [Sources -> Nat]

LEMMA Untouched ==
  ASSUME RInv, LeftAlone
  PROVE  /\ Requested' /\ Counted' /\ Closing' /\ Left' /\ Known' /\ Extent'
         /\ LastIsLast' /\ FirstIsNear'
         /\ phase' = phase /\ medium' = medium
         /\ LastBytes' = LastBytes /\ (Undetermined' <=> Undetermined)
         /\ (Trusted' <=> Trusted)
         /\ Len(headers') = Len(headers) /\ \A k : EntryOf(k)' = EntryOf(k)
         /\ \A cd, start : /\ Ends(cd)' <=> Ends(cd)
                           /\ Behind(start)' <=> Behind(start)
                           /\ Sealed(cd, start)' <=> Sealed(cd, start)
<1>1. /\ UNCHANGED <<medium, refused, headers, currOffset, sizeOfCD, todo, phase, added>>
      /\ cursor' \in [Sources -> Nat]
  BY DEF LeftAlone
<1>2. pos' = pos /\ Archive' = Archive
  BY <1>1 DEF pos, Archive
<1>4. LastBytes' = LastBytes
  BY <1>1, <1>2 DEF LastBytes, BytesAt
<1>5. Undetermined' <=> Undetermined
  BY <1>1, <1>2, <1>4 DEF Undetermined
<1>6. /\ (Trusted' <=> Trusted) /\ (EndsThere' <=> EndsThere)
      /\ (Unmistakable' <=> Unmistakable)
  BY <1>1, <1>2 DEF Trusted, Complete, Fits, EndsThere, Unmistakable
<1>7. \A k : /\ LocalOf(k)' = LocalOf(k) /\ NameOf(k)' = NameOf(k)
             /\ DataOf(k)' = DataOf(k) /\ CentralOf(k)' = CentralOf(k)
             /\ NameAt1(k)' = NameAt1(k) /\ DataAt(k)' = DataAt(k)
             /\ EntryOf(k)' = EntryOf(k)
  BY <1>1 DEF LocalOf, NameOf, DataOf, CentralOf, NameAt1, DataAt, EntryOf
<1>8. TheRecord' = TheRecord /\ Directory' = Directory /\ Ours' = Ours
  BY <1>1 DEF TheRecord, Directory, Ours
<1>9. \A k : Placed(k)' <=> Placed(k)
  BY <1>1, <1>2, <1>7 DEF Placed, Has
<1>10. \A cd, start : (Ends(cd)' <=> Ends(cd)) /\ (Behind(start)' <=> Behind(start))
  BY <1>1, <1>9 DEF Ends, Behind
<1>11. \A cd, start, k : Listed(cd, start, k)' <=> Listed(cd, start, k)
  BY <1>2, <1>7 DEF Listed, Has
<1>12. \A cd, start : Sealed(cd, start)' <=> Sealed(cd, start)
  BY <1>1, <1>2, <1>8, <1>11 DEF Sealed, Has
<1>13. Requested' /\ Counted' /\ Extent'
  BY <1>1, <1>2, <1>10 DEF RInv, Requested, Asked, Counted, Extent
<1>14. Known'
  <2>1. Clean'
    BY <1>2 DEF RInv, Known, Clean
  <2>2. \A b : Set(b, Ours, Unmistakable) => Set(b, Ours', Unmistakable')
    BY <1>6, <1>8 DEF Set, OfContent
  <2> QED
    BY <1>1, <1>2, <1>6, <2>1, <2>2 DEF RInv, Known
<1>15. LastIsLast' /\ FirstIsNear'
  <2>1. Whole' <=> Whole
    BY <1>10, <1>12 DEF Whole
  <2>2. \A i : Near(i) => Near(i)'
    BY <1>1, <1>2 DEF Near, IsLast
  <2>3. LastIsLast'
    BY <1>1, <1>2, <1>6, <2>1 DEF RInv, LastIsLast, IsLast
  <2> QED
    BY <1>1, <1>2, <1>6, <2>2, <2>3 DEF RInv, FirstIsNear, IsFirst
<1>16. Closing' /\ Left'
  <2>1. \A j : Remaining(j)' = Remaining(j)
    BY <1>1, <1>8 DEF Remaining
  <2>2. \A cd, start, k : /\ AtEntry(cd, start, k)' <=> AtEntry(cd, start, k)
                          /\ AtName(cd, start, k)' <=> AtName(cd, start, k)
    BY <1>1, <1>2, <1>7, <1>11, <2>1 DEF AtEntry, AtName, Has
  <2>3. \A cd, start : AtFields(cd, start)' <=> AtFields(cd, start)
    BY <1>1, <1>2, <1>8, <1>11, <2>1 DEF AtFields, Has
  <2>4. \A cd, start : Going(cd, start)' <=> Going(cd, start)
    BY <1>1, <1>12, <2>2, <2>3 DEF Going
  <2> QED
    BY <1>1, <1>10, <2>1, <2>4 DEF RInv, Closing, Left
<1> QED
  BY <1>1, <1>4, <1>5, <1>6, <1>7, <1>10, <1>12, <1>13, <1>14, <1>15, <1>16

LEMMA ReaderAlone ==
  ASSUME RInv, UNCHANGED writerVars
  PROVE  LeftAlone
BY DEF LeftAlone, writerVars, RInv, Requested

(* In a whole archive that ends within 2^31 the record says where the      *)
(* directory begins and ends, and the loop's test is exact.                *)
LEMMA Inside ==
  ASSUME Types, Fits, Len(Archive) = pos, NEW cd, NEW start,
         Ends(cd), Behind(start), Sealed(cd, start), record = End(sizeOfCD, currOffset),
         NEW k \in 0 .. Len(headers), tell = start + cd[k]
  PROVE  /\ InDirectory = {cd[k] < cd[Len(headers)]}
         /\ start < Limit /\ currOffset = start
         /\ k < Len(headers) => cd[k] < cd[Len(headers)]
<1>1. PICK n, c : n = Len(headers) /\ c = cd[k]
  OBVIOUS
<1>2. n \in Nat /\ k \in 0 .. n
  BY <1>1, Archives
<1>3. /\ start \in Nat /\ cd[n] \in Nat /\ c \in Nat /\ c <= cd[n]
      /\ k < n => c < cd[n]
  <2>1. /\ start \in Nat /\ cd \in [0 .. n -> Nat]
        /\ \A i \in 0 .. n - 1 : cd[i] < cd[n]
    BY <1>1 DEF Ends, Behind
  <2>2. cd[n] \in Nat /\ c \in Nat
    BY <1>1, <1>2, <2>1
  <2>3. k = n \/ k \in 0 .. n - 1
    BY <1>2
  <2> QED
    BY <1>1, <1>2, <2>1, <2>2, <2>3
<1>4. start + cd[n] < Limit /\ Limit \in Nat
  <2>1. pos = start + cd[n] + EndSize /\ EndSize \in Nat
    BY <1>1, RecordKind DEF Sealed
  <2>2. pos - EndSize = start + cd[n]
    BY <1>3, <2>1
  <2> QED
    BY <2>2, WriterAssumption DEF Fits
<1>5. currOffset = start /\ sizeOfCD = cd[n] /\ start < Limit
  BY <1>1, <1>3, <1>4 DEF Ends, Behind
<1>6. record.offset = start /\ record.size = cd[n]
  BY <1>5 DEF End
<1>7. Wrap(tell) = start + c
  BY <1>1, <1>3, <1>4, WrapSmall
<1>8. Wrap(tell) - record.offset = c /\ Wrap(c) = c
  <2>1. start + c - start = c /\ c < Limit
    BY <1>3, <1>4
  <2> QED
    BY <1>3, <1>6, <1>7, <2>1, WrapSmall
<1>9. InDirectory = {c < cd[n], c < cd[n]}
  BY <1>6, <1>8 DEF InDirectory
<1> QED
  BY <1>1, <1>3, <1>5, <1>9

(* Each entry is read as it was noted.                                     *)
LEMMA EntryRead ==
  ASSUME Types, Requested, Len(Archive) = pos, NEW cd, NEW start,
         Behind(start), start < Limit, Sealed(cd, start),
         NEW k \in 0 .. Len(headers), k < Len(headers), tell = start + cd[k]
  PROVE  /\ Legible
         /\ Piece(CentralAt) = Central(headers[k + 1])
         /\ Piece(LocalAt) = Local(headers[k + 1])
         /\ Piece(NameAt) = Name(headers[k + 1])
<1>1. PICK j : j = k + 1
  OBVIOUS
<1>2. j \in 1 .. Len(headers) /\ j - 1 = k
  BY <1>1, Archives
<1>3. /\ Noted(j) /\ Asked(j) /\ Placed(j) /\ Listed(cd, start, j)
  <2>1. start <= Limit
    BY WriterAssumption DEF Behind
  <2> QED
    BY <1>2, <2>1 DEF Types, Requested, Behind, Sealed
<1>4. Len(headers[j].name) \in Nat \ {0}
  <2>1. headers[j].name \in Seq(Characters) \ {<<>>}
    BY <1>3, NamesAssumption DEF Asked
  <2> QED
    BY <2>1
<1>5. pos <= Len(Archive)
  BY Archives
<1>6. /\ Len(CentralOf(j)) = CentralSize /\ Len(LocalOf(j)) = LocalSize
      /\ Len(NameOf(j)) = Len(headers[j].name)
      /\ IsSeq(CentralOf(j)) /\ IsSeq(LocalOf(j)) /\ IsSeq(NameOf(j))
      /\ Piece(CentralOf(j)) = Central(headers[j]) /\ IsPiece(CentralOf(j), "central")
      /\ Piece(LocalOf(j)) = Local(headers[j]) /\ IsPiece(LocalOf(j), "local")
      /\ Piece(NameOf(j)) = Name(headers[j]) /\ IsPiece(NameOf(j), "name")
  <2>1. /\ Central(headers[j]).bytes = CentralSize /\ Central(headers[j]).kind = "central"
        /\ Local(headers[j]).bytes = LocalSize /\ Local(headers[j]).kind = "local"
        /\ Name(headers[j]).bytes = Len(headers[j].name) /\ Name(headers[j]).kind = "name"
    BY DEF Central, Local, Name
  <2>2. CentralSize \in Nat \ {0} /\ LocalSize \in Nat \ {0}
    BY RecordKind
  <2> QED
    BY <1>4, <2>1, <2>2, PieceOf, BytesOf DEF CentralOf, LocalOf, NameOf
<1>7. CentralAt = CentralOf(j)
  <2>1. Has(tell, CentralOf(j))
    BY <1>2, <1>3 DEF Listed
  <2> QED
    BY <1>5, <1>6, <2>1, Reads DEF CentralAt
<1>8. /\ Piece(CentralAt).offset = headers[j].offset
  BY <1>6, <1>7 DEF Central
<1>9. LocalAt = LocalOf(j)
  <2>1. Has(headers[j].offset, LocalOf(j))
    BY <1>3 DEF Placed
  <2> QED
    BY <1>5, <1>6, <1>8, <2>1, Reads DEF LocalAt
<1>10. Piece(LocalAt).nameLength = Len(headers[j].name)
  BY <1>6, <1>9 DEF Local
<1>11. NameAt = NameOf(j)
  <2>1. Has(headers[j].offset + LocalSize, NameOf(j))
    BY <1>3 DEF Placed, NameAt1
  <2> QED
    BY <1>5, <1>6, <1>8, <1>10, <2>1, Reads DEF NameAt
<1> QED
  BY <1>1, <1>6, <1>7, <1>9, <1>11 DEF Legible

LEMMA OpenRInv ==
  ASSUME IInv, RInv, Bounds, OpenArchive
  PROVE  RInv'
<1>1. /\ LeftAlone /\ entries' = entries
      /\ phase \in {"closed", "stopped"} /\ reader = "none"
      /\ Types
  BY ReaderAlone DEF OpenArchive, IInv
<1>2. /\ entries = <<>> /\ tell = 0
      /\ record.offset \in Int32 /\ record.size \in Int32
  BY <1>1 DEF RInv, Reading
<1>3. Len(entries') = 0 /\ entries' \in Seq(Entry32)
  BY <1>1, <1>2
<1>4. /\ LastBytes' = LastBytes /\ phase' = phase
      /\ (Trusted' <=> Trusted) /\ (Undetermined' <=> Undetermined)
  BY <1>1, Untouched
<1>5. ASSUME Trusted, Complete \/ IsSigned(LastBytes)
      PROVE  /\ Len(Archive) = pos /\ Whole
             /\ IsPiece(LastBytes, "end") /\ Piece(LastBytes) = End(sizeOfCD, currOffset)
  BY <1>1, <1>5, RecordFound DEF RInv
<1>6. CASE IsPiece(LastBytes, "end")
  <2>1. IsSigned(LastBytes)
    BY <1>1, <1>6, PieceSigned DEF RInv
  <2>2. /\ record' = Piece(LastBytes) /\ tell' = StartAt(Piece(LastBytes).offset)
        /\ reader' = "scan"
    BY <1>6, <2>1 DEF OpenArchive
  <2>3. Piece(LastBytes).offset \in Int32 /\ Piece(LastBytes).size \in Int32
    <3>1. PICK p : p = Len(Archive) - EndSize
      OBVIOUS
    <3>2. p \in Int /\ EndSize \in Nat /\ LastBytes = BytesAt(p, EndSize)
      BY <1>1, <3>1, Archives, RecordKind DEF LastBytes
    <3>3. /\ Piece(LastBytes).kind = "end"
          /\ \/ Piece(LastBytes) \in Ours
             \/ Piece(LastBytes).offset \in Int32 /\ Piece(LastBytes).size \in Int32
      BY <1>1, <1>6, <3>2, FoundPiece DEF RInv
    <3>4. CASE Piece(LastBytes) \in Ours
      <4>1. Piece(LastBytes) = End(sizeOfCD, currOffset)
        BY <1>1, <3>3, <3>4, OursAre
      <4> QED
        BY <4>1 DEF End, Bounds
    <3> QED
      BY <3>3, <3>4
  <2>4. tell' \in Int
    <3>1. Len(Archive) \in Int /\ Piece(LastBytes).offset \in Int
      BY <1>1, <2>3, Archives, WriterAssumption DEF Int32
    <3> QED
      BY <2>2, <3>1 DEF StartAt
  <2>5. ASSUME Trusted PROVE Followed'
    <3>1. /\ Len(Archive) = pos /\ Whole /\ Fits
          /\ Piece(LastBytes) = End(sizeOfCD, currOffset)
      BY <1>5, <2>5, <2>1 DEF Trusted
    <3>2. PICK cd, start : Ends(cd) /\ Behind(start) /\ Sealed(cd, start)
      BY <3>1 DEF Whole
    <3>3. start \in Nat /\ cd[0] = 0
      BY <3>2 DEF Ends, Behind
    <3>4. currOffset = start
      <4>1. PICK n : n = Len(headers)
        OBVIOUS
      <4>2. cd[n] \in Nat /\ Limit \in Nat
        BY <1>1, <3>2, <4>1, Archives, WriterAssumption DEF Ends
      <4>3. pos = start + cd[n] + EndSize /\ EndSize \in Nat
        BY <3>2, <4>1, RecordKind DEF Sealed
      <4>4. start < Limit
        BY <3>1, <3>3, <4>2, <4>3 DEF Fits
      <4> QED
        BY <3>2, <4>4 DEF Behind
    <3>5. tell' = start + cd[0]
      BY <2>2, <3>1, <3>3, <3>4 DEF StartAt, End
    <3>6. Len(headers') \in Nat
      BY <1>1, Untouched, Archives
    <3>7. Scanned(cd, start)'
      BY <1>3, <2>2, <3>5, <3>6 DEF Scanned
    <3> QED
      BY <1>1, <3>2, <3>7, Untouched DEF Followed
  <2>6. Reading'
    BY <1>1, <1>3, <1>4, <1>6, <2>2, <2>3, <2>4, <2>5 DEF Reading
  <2> QED
    BY <1>1, <2>6, Untouched DEF RInv
<1>7. CASE ~IsPiece(LastBytes, "end") /\ IsSigned(LastBytes)
  <2>1. reader' = "garbled" /\ UNCHANGED <<record, tell>>
    BY <1>7 DEF OpenArchive
  <2>2. ~Trusted
    BY <1>5, <1>7
  <2>3. Reading'
    BY <1>1, <1>2, <1>3, <1>4, <2>1, <2>2 DEF Reading
  <2> QED
    BY <1>1, <2>3, Untouched DEF RInv
<1>8. CASE ~IsSigned(LastBytes) /\ ~IsPiece(LastBytes, "end")
  <2>1. /\ reader' \in {"refused", "undefined"} /\ (reader' = "undefined" => Undetermined)
        /\ record' = record /\ tell' = tell
    BY <1>8 DEF OpenArchive
  <2>2. Reading'
    BY <1>1, <1>2, <1>3, <1>4, <1>8, <2>1 DEF Reading
  <2> QED
    BY <1>1, <2>2, Untouched DEF RInv
<1> QED
  BY <1>6, <1>7, <1>8

(* Where the loop stands in a whole archive.                               *)
LEMMA LoopAt ==
  ASSUME IInv, RInv, reader = "scan", Trusted
  PROVE  /\ Types /\ Fits /\ Requested /\ Len(Archive) = pos /\ record = End(sizeOfCD, currOffset)
         /\ Len(entries) \in 0 .. Len(headers)
         /\ \E cd, start : Ends(cd) /\ Behind(start) /\ Sealed(cd, start) /\ Scanned(cd, start)
<1>1. IsPiece(LastBytes, "end") /\ record = Piece(LastBytes) /\ Followed /\ entries \in Seq(Entry32)
  BY DEF RInv, Reading
<1>2. Types /\ Requested /\ Fits
  BY DEF IInv, RInv, Trusted
<1>3. Len(Archive) = pos /\ record = End(sizeOfCD, currOffset)
  BY <1>1, <1>2, PieceSigned, RecordFound DEF RInv
<1>4. Len(entries) \in 0 .. Len(headers)
  <2>1. Len(entries) <= Len(headers) /\ Len(entries) \in Nat
    BY <1>1 DEF Followed, Scanned
  <2> QED
    BY <1>2, <2>1, Archives
<1> QED
  BY <1>1, <1>2, <1>3, <1>4 DEF Followed

(* What an iteration adds is an entry.                                     *)
LEMMA AnEntry ==
  ASSUME IInv, RInv, Legible
  PROVE  LET c == Piece(CentralAt)
             n == Piece(LocalAt).nameLength
         IN  /\ [path |-> Normal(Piece(NameAt).name), method |-> c.method, size |-> c.size,
                 compressed |-> c.compressed, offset |-> c.offset + LocalSize + n] \in Entry32
             /\ tell + CentralSize + c.nameLength \in Int
<1>1. /\ Types /\ Known /\ Requested /\ tell \in Int
      /\ LocalSize \in Nat /\ CentralSize \in Nat
  BY SizesAssumption DEF IInv, RInv, Reading
<1>2. PICK j \in 1 .. Len(headers) : Piece(CentralAt) = Central(headers[j])
  <2>1. Piece(CentralAt) \in Ours /\ Piece(CentralAt).kind = "central"
    BY <1>1, FoundPiece DEF Legible, CentralAt
  <2>2. PICK j \in 1 .. Len(headers) : Piece(CentralAt) \in Pieces(headers[j], added[j])
    BY <1>1, <2>1, OursAre
  <2> QED
    BY <1>1, <2>1, <2>2, Kinds
<1>3. /\ Noted(j) /\ Asked(j)
  BY <1>1, <1>2 DEF Types, Requested
<1>4. /\ Piece(CentralAt).offset \in Int /\ Piece(CentralAt).method \in Methods
      /\ Piece(CentralAt).size \in Nat /\ Piece(CentralAt).compressed \in Nat
      /\ Piece(CentralAt).nameLength \in Nat
  BY <1>2, <1>3 DEF Central, Noted, Asked
<1>5. PICK i \in 1 .. Len(headers) : Piece(LocalAt) = Local(headers[i])
  <2>1. Piece(LocalAt) \in Ours /\ Piece(LocalAt).kind = "local"
    BY <1>1, <1>4, FoundPiece DEF Legible, LocalAt
  <2>2. PICK i \in 1 .. Len(headers) : Piece(LocalAt) \in Pieces(headers[i], added[i])
    BY <1>1, <2>1, OursAre
  <2> QED
    BY <1>1, <2>1, <2>2, Kinds
<1>6. Piece(LocalAt).nameLength \in Nat
  <2>1. Noted(i)
    BY <1>1 DEF Types
  <2> QED
    BY <1>5, <2>1 DEF Local, Noted
<1>7. PICK m \in 1 .. Len(headers) : Piece(NameAt) = Name(headers[m])
  <2>1. Piece(NameAt) \in Ours /\ Piece(NameAt).kind = "name"
    <3>1. Piece(CentralAt).offset + LocalSize \in Int
      BY <1>1, <1>4
    <3> QED
      BY <1>1, <1>6, <3>1, FoundPiece DEF Legible, NameAt
  <2>2. PICK m \in 1 .. Len(headers) : Piece(NameAt) \in Pieces(headers[m], added[m])
    BY <1>1, <2>1, OursAre
  <2> QED
    BY <1>1, <2>1, <2>2, Kinds
<1>8. Normal(Piece(NameAt).name) \in Seq(Characters)
  <2>1. Asked(m)
    BY <1>1 DEF Requested
  <2>2. Piece(NameAt).name = headers[m].name
    BY <1>7 DEF Name
  <2> QED
    BY <2>1, <2>2, NamesAssumption DEF Asked
<1>9. /\ Piece(CentralAt).offset + LocalSize + Piece(LocalAt).nameLength \in Int
      /\ tell + CentralSize + Piece(CentralAt).nameLength \in Int
  BY <1>1, <1>4, <1>6
<1> QED
  BY <1>4, <1>8, <1>9 DEF Entry32

LEMMA ScanEntryRInv ==
  ASSUME IInv, RInv, ScanEntry
  PROVE  RInv'
<1> DEFINE c == Piece(CentralAt)
           e == [path |-> Normal(Piece(NameAt).name), method |-> c.method, size |-> c.size,
                 compressed |-> c.compressed,
                 offset |-> c.offset + LocalSize + Piece(LocalAt).nameLength]
<1>1. /\ LeftAlone /\ reader = "scan" /\ reader' = "scan" /\ record' = record
      /\ entries' = Append(entries, e) /\ tell' = tell + CentralSize + c.nameLength
      /\ TRUE \in InDirectory /\ Legible
  BY ReaderAlone DEF ScanEntry
<1>2. e \in Entry32 /\ tell' \in Int
  BY <1>1, AnEntry
<1> HIDE DEF e
<1>3. /\ entries \in Seq(Entry32) /\ IsPiece(LastBytes, "end") /\ record = Piece(LastBytes)
      /\ phase \in {"closed", "stopped"}
      /\ record.offset \in Int32 /\ record.size \in Int32
  BY <1>1 DEF RInv, Reading
<1>4. PICK k : k = Len(entries)
  OBVIOUS
<1>5. /\ entries' \in Seq(Entry32) /\ Len(entries') = k + 1 /\ entries'[k + 1] = e
      /\ k \in Nat /\ \A i \in 1 .. k : entries'[i] = entries[i]
  BY <1>1, <1>2, <1>3, <1>4
<1>6. ASSUME Trusted PROVE Followed'
  <2>1. /\ Types /\ Fits /\ Requested /\ Len(Archive) = pos /\ record = End(sizeOfCD, currOffset)
        /\ k \in 0 .. Len(headers)
    BY <1>1, <1>4, <1>6, LoopAt
  <2>2. PICK cd, start : Ends(cd) /\ Behind(start) /\ Sealed(cd, start) /\ Scanned(cd, start)
    BY <1>1, <1>6, LoopAt
  <2>3. tell = start + cd[k]
    BY <1>4, <2>2 DEF Scanned
  <2>4. /\ InDirectory = {cd[k] < cd[Len(headers)]} /\ start < Limit
    BY <2>1, <2>2, <2>3, Inside
  <2>5. k < Len(headers)
    <3>1. k = Len(headers) => cd[Len(headers)] < cd[Len(headers)] /\ cd[Len(headers)] \in Nat
      BY <1>1, <2>1, <2>2, <2>4 DEF Ends
    <3> QED
      BY <2>1, <3>1, Archives
  <2>6. /\ c = Central(headers[k + 1]) /\ Piece(LocalAt) = Local(headers[k + 1])
        /\ Piece(NameAt) = Name(headers[k + 1])
    BY <2>1, <2>2, <2>3, <2>4, <2>5, EntryRead
  <2>7. e = EntryOf(k + 1)
    BY <2>6 DEF e, EntryOf, Central, Local, Name, DataAt, NameAt1
  <2>8. tell' = start + cd[k + 1] /\ k + 1 <= Len(headers)
    <3>1. k + 1 \in 1 .. Len(headers) /\ (k + 1) - 1 = k
      BY <2>1, <2>5, Archives
    <3>2. PICK l : l = Len(headers[k + 1].name)
      OBVIOUS
    <3>3. cd[k + 1] = cd[k] + CentralSize + l /\ cd[k] \in Nat /\ start \in Nat
      BY <2>1, <2>2, <3>1, <3>2 DEF Ends, Behind
    <3>4. l \in Nat /\ CentralSize \in Nat
      BY <2>1, <3>1, <3>2, SizesAssumption DEF Types, Noted
    <3>5. c.nameLength = l
      BY <2>6, <3>2 DEF Central
    <3>6. tell' = start + cd[k] + CentralSize + l
      BY <1>1, <2>3, <3>5
    <3>7. start + cd[k] + CentralSize + l = start + (cd[k] + CentralSize + l)
      BY <3>3, <3>4
    <3> QED
      BY <3>1, <3>3, <3>6, <3>7
  <2>9. Scanned(cd, start)'
    <3>1. Len(headers') = Len(headers) /\ \A i : EntryOf(i)' = EntryOf(i)
      BY <1>1, Untouched
    <3>2. \A i \in 1 .. k : entries[i] = EntryOf(i)
      BY <1>4, <2>2 DEF Scanned
    <3>3. \A i \in 1 .. k + 1 : entries'[i] = EntryOf(i)
      BY <1>5, <2>7, <3>2
    <3> QED
      BY <1>1, <1>5, <2>8, <3>1, <3>3 DEF Scanned
  <2> QED
    BY <1>1, <2>2, <2>9, Untouched DEF Followed
<1>7. Reading'
  <2>1. LastBytes' = LastBytes /\ phase' = phase /\ (Trusted' <=> Trusted)
    BY <1>1, Untouched
  <2> QED
    BY <1>1, <1>2, <1>3, <1>5, <1>6, <2>1 DEF Reading
<1> QED
  BY <1>1, <1>7, Untouched DEF RInv

LEMMA ScanGarbledRInv ==
  ASSUME IInv, RInv, ScanGarbled
  PROVE  RInv'
<1>1. /\ LeftAlone /\ reader = "scan" /\ reader' = "garbled"
      /\ UNCHANGED <<record, tell, entries>>
      /\ TRUE \in InDirectory /\ ~Legible
  BY ReaderAlone DEF ScanGarbled
<1>2. ASSUME Trusted PROVE FALSE
  <2>1. PICK k : k = Len(entries)
    OBVIOUS
  <2>2. /\ Types /\ Fits /\ Requested /\ Len(Archive) = pos /\ record = End(sizeOfCD, currOffset)
        /\ k \in 0 .. Len(headers)
    BY <1>1, <1>2, <2>1, LoopAt
  <2>3. PICK cd, start : Ends(cd) /\ Behind(start) /\ Sealed(cd, start) /\ Scanned(cd, start)
    BY <1>1, <1>2, LoopAt
  <2>4. tell = start + cd[k]
    BY <2>1, <2>3 DEF Scanned
  <2>5. /\ InDirectory = {cd[k] < cd[Len(headers)]} /\ start < Limit
    BY <2>2, <2>3, <2>4, Inside
  <2>6. k < Len(headers)
    <3>1. k = Len(headers) => cd[Len(headers)] < cd[Len(headers)] /\ cd[Len(headers)] \in Nat
      BY <1>1, <2>2, <2>3, <2>5 DEF Ends
    <3> QED
      BY <2>2, <3>1, Archives
  <2> QED
    BY <1>1, <2>2, <2>3, <2>4, <2>5, <2>6, EntryRead
<1>3. Reading'
  <2>1. LastBytes' = LastBytes /\ phase' = phase /\ (Trusted' <=> Trusted)
    BY <1>1, Untouched
  <2> QED
    BY <1>1, <1>2, <2>1 DEF RInv, Reading
<1> QED
  BY <1>1, <1>3, Untouched DEF RInv

LEMMA EndScanRInv ==
  ASSUME IInv, RInv, EndScan
  PROVE  RInv'
<1>1. /\ LeftAlone /\ reader = "scan" /\ reader' = "open"
      /\ UNCHANGED <<record, tell, entries>>
      /\ FALSE \in InDirectory
  BY ReaderAlone DEF EndScan
<1>2. ASSUME Trusted PROVE Followed'
  <2>1. PICK k : k = Len(entries)
    OBVIOUS
  <2>2. /\ Types /\ Fits /\ Requested /\ Len(Archive) = pos /\ record = End(sizeOfCD, currOffset)
        /\ k \in 0 .. Len(headers)
    BY <1>1, <1>2, <2>1, LoopAt
  <2>3. PICK cd, start : Ends(cd) /\ Behind(start) /\ Sealed(cd, start) /\ Scanned(cd, start)
    BY <1>1, <1>2, LoopAt
  <2>4. tell = start + cd[k]
    BY <2>1, <2>3 DEF Scanned
  <2>5. InDirectory = {cd[k] < cd[Len(headers)]} /\ (k < Len(headers) => cd[k] < cd[Len(headers)])
    BY <2>2, <2>3, <2>4, Inside
  <2>6. k = Len(headers)
    <3>1. ~(k < Len(headers))
      BY <1>1, <2>5
    <3> QED
      BY <2>2, <3>1, Archives
  <2>7. Scanned(cd, start)'
    <3>1. Len(headers') = Len(headers) /\ \A i : EntryOf(i)' = EntryOf(i)
      BY <1>1, Untouched
    <3> QED
      BY <1>1, <2>1, <2>3, <2>6, <3>1 DEF Scanned
  <2> QED
    BY <1>1, <2>3, <2>7, Untouched DEF Followed
<1>3. Reading'
  <2>1. LastBytes' = LastBytes /\ phase' = phase /\ (Trusted' <=> Trusted)
    BY <1>1, Untouched
  <2> QED
    BY <1>1, <1>2, <2>1 DEF RInv, Reading
<1> QED
  BY <1>1, <1>3, Untouched DEF RInv

(* No step of the reader's.                                                *)
LEMMA NothingRInv ==
  ASSUME RInv, LeftAlone, UNCHANGED readerVars
  PROVE  RInv'
<1>1. UNCHANGED <<reader, record, tell, entries>>
  BY DEF readerVars
<1>2. Followed => Followed'
  <2>1. \A cd, start : Scanned(cd, start) => Scanned(cd, start)'
    <3>1. Len(headers') = Len(headers) /\ \A i : EntryOf(i)' = EntryOf(i)
      BY Untouched
    <3> QED
      BY <1>1, <3>1 DEF Scanned
  <2> QED
    BY <2>1, Untouched DEF Followed
<1>3. Reading'
  <2>1. /\ LastBytes' = LastBytes /\ phase' = phase /\ (Undetermined' <=> Undetermined)
        /\ (Trusted' <=> Trusted)
    BY Untouched
  <2> QED
    BY <1>1, <1>2, <2>1 DEF RInv, Reading
<1> QED
  BY <1>3, Untouched DEF RInv

(* Of a file that could not be compressed only the source has changed.     *)
LEMMA AddFileFailsRInv ==
  ASSUME IInv, RInv, NEW s \in Sources, AddFileFails(s), UNCHANGED readerVars
  PROVE  RInv'
<1>1. LeftAlone
  BY PassedOn DEF AddFileFails, LeftAlone, RInv, Requested
<1> QED
  BY <1>1, NothingRInv

(***************************************************************************)
(* What is counted keeps to its bounds.                                    *)
(***************************************************************************)
LEMMA WrapRange ==
  ASSUME NEW n \in Int
  PROVE  Wrap(n) \in Int32
BY WriterAssumption DEF Wrap, Int32

LEMMA InitBounds == ASSUME Init PROVE Bounds
<1>1. /\ refused = FALSE /\ headers = <<>> /\ currOffset = 0 /\ sizeOfCD = 0 /\ todo = <<>>
      /\ phase = "ready" /\ reader = "none"
  BY DEF Init, WriterInit
<1>2. 0 \in Int32 /\ MaxEntries \in Nat
  BY WriterAssumption DEF Int32
<1>3. Len(headers) = 0 /\ Len(todo) = 0
  BY <1>1
<1>4. /\ Len(headers) <= MaxEntries /\ Len(todo) <= 2 * MaxEntries + 3
      /\ \A k \in 1 .. Len(headers) : headers[k].offset \in Int32
  BY <1>2, <1>3
<1>5. refused \in BOOLEAN
  BY <1>1
<1> QED
  BY <1>1, <1>2, <1>4, <1>5 DEF Bounds

LEMMA NoteBounds ==
  ASSUME IInv, Bounds, UNCHANGED readerVars, NEW h, NEW writes, Note(h, writes),
         Len(headers) < MaxEntries, h.offset = currOffset, Len(h.name) \in Nat,
         h.compressed \in Nat, Len(writes) \in {2, 3}
  PROVE  Bounds'
<1>1. /\ headers' = Append(headers, h) /\ todo' = writes
      /\ sizeOfCD' = Wrap(sizeOfCD + CentralSize + Len(h.name))
      /\ currOffset' = Wrap(currOffset + LocalSize + Len(h.name) + h.compressed)
      /\ UNCHANGED <<refused, phase, reader>>
  BY DEF Note, readerVars
<1>2. PICK n : n = Len(headers)
  OBVIOUS
<1>3. n \in Nat /\ IsSeq(headers) /\ MaxEntries \in Nat /\ currOffset \in Int32 /\ sizeOfCD \in Int32
  BY <1>2, WriterAssumption DEF IInv, Types, IsSeq, Bounds
<1>4. currOffset \in Int /\ sizeOfCD \in Int /\ CentralSize \in Nat /\ LocalSize \in Nat
  BY <1>3, WriterAssumption, SizesAssumption DEF Int32
<1>5. currOffset' \in Int32 /\ sizeOfCD' \in Int32
  <2>1. /\ currOffset + LocalSize + Len(h.name) + h.compressed \in Int
        /\ sizeOfCD + CentralSize + Len(h.name) \in Int
    <3>1. PICK l, c : l = Len(h.name) /\ c = h.compressed
      OBVIOUS
    <3>2. l \in Nat /\ c \in Nat
      BY <3>1
    <3>3. currOffset + LocalSize + l + c \in Int /\ sizeOfCD + CentralSize + l \in Int
      BY <1>4, <3>2
    <3> QED
      BY <3>1, <3>3
  <2> QED
    BY <1>1, <2>1, WrapRange
<1>6. /\ Len(headers') = n + 1 /\ headers'[n + 1] = h
      /\ \A k \in 1 .. n : headers'[k] = headers[k]
  BY <1>1, <1>2, <1>3, Appended
<1>7. \A k \in 1 .. n + 1 : headers'[k].offset \in Int32
  <2> SUFFICES ASSUME NEW k \in 1 .. n + 1 PROVE headers'[k].offset \in Int32
    OBVIOUS
  <2>1. k = n + 1 \/ k \in 1 .. n
    BY <1>3
  <2> QED
    BY <1>2, <1>3, <1>6, <2>1 DEF Bounds
<1>8. Len(todo') <= 2 * MaxEntries + 3 /\ n + 1 <= MaxEntries
  <2>1. Len(todo') = 2 \/ Len(todo') = 3
    BY <1>1
  <2>2. n < MaxEntries
    BY <1>2
  <2>3. PICK m : m = MaxEntries
    OBVIOUS
  <2>4. n + 1 <= m /\ 2 <= 2 * m + 3 /\ 3 <= 2 * m + 3
    BY <1>3, <2>2, <2>3
  <2> QED
    BY <2>1, <2>3, <2>4
<1> QED
  BY <1>1, <1>5, <1>6, <1>7, <1>8 DEF Bounds

LEMMA NextBounds == ASSUME IInv, RInv, Bounds, [Next]_vars PROVE Bounds'
<1>1. ASSUME NEW path \in FilePaths, NEW s \in Sources, NEW method \in Methods,
             AddFile(path, s, method), UNCHANGED readerVars
      PROVE  Bounds'
  <2> DEFINE h == Header(path, method, Gets(s), currOffset)
             writes == <<Bytes(Local(h)), Bytes(Name(h)), Encoded(Gets(s), method)>>
  <2>1. Note(h, writes) /\ Len(headers) < MaxEntries /\ Len(writes) = 3
    BY <1>1 DEF AddFile
  <2>2. h.name = path /\ h.offset = currOffset /\ h.compressed = CompressedSize(Gets(s), method)
    BY DEF Header
  <2>3. Len(path) \in Nat /\ Len(Gets(s)) \in Nat
    BY WriterAssumption, GetsSeq DEF IsSeq
  <2>4. CompressedSize(Gets(s), method) \in Nat
    BY <2>3, SizesAssumption DEF CompressedSize
  <2> HIDE DEF h, writes
  <2> QED
    BY <1>1, <2>1, <2>2, <2>3, <2>4, NoteBounds
<1>2. ASSUME NEW path \in DirPaths, CreateDirectory(path), UNCHANGED readerVars
      PROVE  Bounds'
  <2> DEFINE h == Header(DirName(path), "NONE", <<>>, currOffset)
             writes == <<Bytes(Local(h)), Bytes(Name(h))>>
  <2>1. Note(h, writes) /\ Len(headers) < MaxEntries /\ Len(writes) = 2
    BY <1>2 DEF CreateDirectory
  <2>2. h.name = DirName(path) /\ h.offset = currOffset /\ h.compressed = CompressedSize(<<>>, "NONE")
    BY DEF Header
  <2>3. Len(DirName(path)) \in Nat /\ CompressedSize(<<>>, "NONE") = 0
    BY NamesAssumption DEF Names, CompressedSize
  <2> HIDE DEF h, writes
  <2> QED
    BY <1>2, <2>1, <2>2, <2>3, NoteBounds
<1>3. MaxEntries \in Nat /\ Len(todo) \in Nat /\ Len(headers) \in Nat
  BY WriterAssumption, Archives DEF IInv
<1>4. ASSUME Write, UNCHANGED readerVars
      PROVE  Bounds'
  <2>1. /\ UNCHANGED <<headers, currOffset, sizeOfCD, phase, reader>>
        /\ todo # <<>> /\ todo' = Tail(todo)
        /\ refused' \in BOOLEAN
    BY <1>4 DEF Write, readerVars
  <2>2. Len(todo') = Len(todo) - 1
    BY <2>1, Tailed DEF IInv, Types
  <2> QED
    BY <1>3, <2>1, <2>2 DEF Bounds
<1>5. ASSUME Destroy, UNCHANGED readerVars
      PROVE  Bounds'
  <2>1. /\ UNCHANGED <<refused, headers, currOffset, sizeOfCD, reader>>
        /\ todo' = Directory /\ phase' = "closing"
    BY <1>5 DEF Destroy, readerVars
  <2>2. Len(todo') = 2 * Len(headers) + 2
    BY <1>3, <2>1, Calls
  <2>3. Len(headers) <= MaxEntries
    BY DEF Bounds
  <2>4. Len(todo') <= 2 * MaxEntries + 3
    BY <1>3, <2>2, <2>3
  <2> QED
    BY <2>1, <2>4 DEF Bounds
<1>6. ASSUME Close \/ Release \/ Stop, UNCHANGED readerVars
      PROVE  Bounds'
  BY <1>6 DEF Bounds, Close, Release, Stop, readerVars
<1>7. ASSUME OpenArchive \/ ScanEntry \/ ScanGarbled \/ EndScan
      PROVE  Bounds'
  <2>1. reader' \in {"none", "scan", "refused", "undefined", "garbled", "open"}
    BY <1>7 DEF OpenArchive, ScanEntry, ScanGarbled, EndScan
  <2>2. UNCHANGED <<refused, headers, currOffset, sizeOfCD, todo, phase>>
    BY <1>7 DEF OpenArchive, ScanEntry, ScanGarbled, EndScan, writerVars
  <2> QED
    BY <2>1, <2>2 DEF Bounds
<1>8. CASE UNCHANGED vars
  BY <1>8 DEF Bounds, vars, writerVars, readerVars
<1>9. ASSUME NEW s \in Sources, AddFileFails(s), UNCHANGED readerVars
      PROVE  Bounds'
  BY <1>9 DEF Bounds, AddFileFails, readerVars
<1> QED
  BY <1>1, <1>2, <1>4, <1>5, <1>6, <1>7, <1>8, <1>9 DEF Next, WriterNext

(***************************************************************************)
(* What the reader gets of an entry.                                       *)
(***************************************************************************)
LEMMA Opened ==
  ASSUME Types, pos <= Len(Archive), NEW k \in 1 .. Len(headers), Asked(k), Placed(k),
         Promised(added[k]), NEW mutex
  PROVE  OpenEntry(EntryOf(k), mutex) = Locked(mutex, {File(added[k].content)})
<1> DEFINE e == EntryOf(k)
           x == added[k].stored
           d == Data(x, headers[k].method)
<1>1. Noted(k)
  BY DEF Types
<1>2. /\ e.method = headers[k].method /\ e.size = headers[k].size /\ e.offset = DataAt(k)
      /\ e.compressed = headers[k].compressed
  BY DEF EntryOf
<1>3. /\ headers[k].method \in Methods /\ headers[k].method = added[k].method
      /\ headers[k].size = Len(x) /\ Len(x) \in Nat /\ IsSeq(x) /\ x = added[k].content
      /\ headers[k].compressed \in Nat
      /\ headers[k].compressed = CompressedSize(x, headers[k].method)
  BY <1>1 DEF Asked, Noted, Promised
<1>4. Len(x) = 0 => x = <<>>
  BY <1>3 DEF IsSeq
<1>5. /\ d.kind = "data" /\ d.bytes = headers[k].compressed /\ d.content = x
      /\ d.method = headers[k].method
  BY <1>3 DEF Data
<1>6. Has(DataAt(k), DataOf(k)) /\ e.offset # -1
  <2>1. Has(DataAt(k), DataOf(k)) /\ DataAt(k) \in Nat
    BY DEF Placed, Has
  <2> QED
    BY <1>2, <2>1
<1>7. CASE headers[k].method = "NONE"
  <2>1. DataOf(k) = x /\ e.size = Len(x)
    BY <1>2, <1>3, <1>7 DEF DataOf, Encoded
  <2>2. BytesAt(e.offset, e.size) = x
    BY <1>2, <1>3, <1>6, <2>1, Reads
  <2> HIDE DEF e, x, d
  <2>3. Window(e, BytesAt(e.offset, e.size)) = {File(x)}
    BY <2>1, <2>2 DEF Window
  <2>4. OpenEntry(e, mutex) = Locked(mutex, {File(x)})
    BY <1>2, <1>6, <1>7, <2>3 DEF OpenEntry
  <2> QED
    BY <1>3, <2>4 DEF e
<1>8. CASE headers[k].method # "NONE"
  <2>1. DataOf(k) = Bytes(d) /\ Len(Bytes(d)) = headers[k].compressed /\ IsSeq(Bytes(d))
    <3>1. DataOf(k) = Bytes(d)
      BY <1>3, <1>8 DEF DataOf, Encoded
    <3>2. Len(DataOf(k)) = headers[k].compressed /\ IsSeq(DataOf(k))
      BY <1>3, EncodedAs DEF DataOf
    <3> HIDE DEF d
    <3> QED
      BY <3>1, <3>2
  <2>2. BytesAt(e.offset, e.compressed) = Bytes(d)
    BY <1>2, <1>6, <2>1, Reads
  <2> HIDE DEF e, x, d
  <2>3. ~(e.method = "LZ4" /\ e.size = 0)
    BY <1>2, <1>3, <1>4 DEF Promised
  <2>4. d.bytes \in Nat \ {0}
    BY <1>2, <1>3, <1>4, <1>5, <1>8, <2>3, SizesAssumption DEF CompressedSize
  <2>5. IsPiece(Bytes(d), "data") /\ Piece(Bytes(d)) = d
    BY <1>5, <2>4, PieceOf
  <2>6. Decoded(e, Bytes(d)) = {File(x)}
    BY <1>2, <1>3, <1>5, <2>3, <2>5 DEF Decoded
  <2>7. OpenEntry(e, mutex) = Locked(mutex, {File(x)})
    BY <1>2, <1>6, <1>8, <2>2, <2>6 DEF OpenEntry
  <2> QED
    BY <1>3, <2>7 DEF e
<1> QED
  BY <1>7, <1>8

(***************************************************************************)
(* The theorems.                                                           *)
(***************************************************************************)
(* The invariant, from the first state on.                                 *)
THEOREM Consistent == Spec => [](IInv /\ RInv /\ Bounds)
<1>1. Spec => []IInv
  BY Inductive
<1>2. Init => RInv /\ Bounds
  BY InitRInv, InitBounds
<1>3. IInv /\ RInv /\ Bounds /\ [Next]_vars => RInv' /\ Bounds'
  <2> SUFFICES ASSUME IInv, RInv, Bounds, [Next]_vars PROVE RInv'
    BY NextBounds
  <2>1. ASSUME NEW path \in FilePaths, NEW s \in Sources, NEW method \in Methods,
               AddFile(path, s, method), UNCHANGED readerVars
        PROVE  RInv'
    BY <2>1, AddFileRInv
  <2>2. ASSUME NEW path \in DirPaths, CreateDirectory(path), UNCHANGED readerVars
        PROVE  RInv'
    BY <2>2, CreateDirectoryRInv
  <2>3. CASE Write /\ UNCHANGED readerVars
    BY <2>3, WriteRInv
  <2>4. CASE Destroy /\ UNCHANGED readerVars
    BY <2>4, DestroyRInv
  <2>5. CASE (Close \/ Release) /\ UNCHANGED readerVars
    BY <2>5, CloseRInv
  <2>6. CASE Stop /\ UNCHANGED readerVars
    BY <2>6, StopRInv
  <2>7. CASE OpenArchive
    BY <2>7, OpenRInv
  <2>8. CASE ScanEntry
    BY <2>8, ScanEntryRInv
  <2>9. CASE ScanGarbled
    BY <2>9, ScanGarbledRInv
  <2>10. CASE EndScan
    BY <2>10, EndScanRInv
  <2>11. CASE UNCHANGED vars
    <3>1. LeftAlone /\ UNCHANGED readerVars
      BY <2>11, ReaderAlone DEF vars
    <3> QED
      BY <3>1, NothingRInv
  <2>12. ASSUME NEW s \in Sources, AddFileFails(s), UNCHANGED readerVars
         PROVE  RInv'
    BY <2>12, AddFileFailsRInv
  <2> QED
    BY <2>1, <2>2, <2>3, <2>4, <2>5, <2>6, <2>7, <2>8, <2>9, <2>10, <2>11, <2>12
    DEF Next, WriterNext
<1> QED
  BY <1>1, <1>2, <1>3, PTL DEF Spec

(* The types of the variables: the counters of ZipWriter stay int32_t, and *)
(* every entry ZipReader adds is made of fields that were written, also    *)
(* from an archive that is not whole (ZipArchive.cpp:173-234).             *)
THEOREM Typing == Spec => []TypeOK
<1>1. IInv /\ RInv /\ Bounds => TypeOK
  <2> SUFFICES ASSUME IInv, RInv, Bounds PROVE TypeOK
    OBVIOUS
  <2>1. Types /\ DOMAIN headers = 1 .. Len(headers)
    BY DEF IInv, Types, IsSeq
  <2>2. record.offset \in Int32 /\ record.size \in Int32
    BY DEF RInv, Reading
  <2>3. medium.kind \in {"stdio", "memory"} /\ medium.file.pos \in Nat /\ Len(headers) = Len(added)
    BY <2>1 DEF Types, IsMedium, pos
  <2>4. cursor \in [Sources -> Nat] /\ tell \in Int /\ entries \in Seq(Entry32)
    BY DEF RInv, Requested, Reading
  <2> QED
    BY <2>1, <2>2, <2>3, <2>4 DEF TypeOK, Bounds
<1> QED
  BY <1>1, Consistent, PTL

(* What was added is what is found: an archive that ZipWriter wrote to its *)
(* end opens, and ZipReader finds the entries that were added, in order,   *)
(* under their normal paths, whatever else was stored in it.  When it has  *)
(* an entry for every depth, FindEntry and both overloads of OpenFile give *)
(* for each path what was added under it; without a mutex the program may  *)
(* stop at the LockGuard instead (ZipArchive.cpp:142-309).                 *)
THEOREM WhatIsAddedIsFound == Spec => []RoundTrip
<1>1. IInv /\ RInv /\ Bounds => RoundTrip
  <2> SUFFICES ASSUME IInv, RInv, Bounds, Complete
               PROVE  /\ reader \in {"none", "scan", "open"}
                      /\ reader = "open" =>
                           /\ Len(entries) = Len(added)
                           /\ \A k \in DOMAIN added : entries[k].path = Normal(added[k].path)
                           /\ GapFree => \A k \in DOMAIN added : Opens(k)
    BY DEF RoundTrip
  <2>1. Trusted /\ Fits /\ Types
    BY DEF Trusted, Complete, IInv
  <2>2. /\ Len(Archive) = pos /\ IsSigned(LastBytes)
        /\ IsPiece(LastBytes, "end") /\ Piece(LastBytes) = End(sizeOfCD, currOffset)
    BY <2>1, RecordFound DEF RInv
  <2>3. reader \in {"none", "scan", "open"}
    <3>1. reader \notin {"refused", "undefined", "garbled"}
      BY <2>1, <2>2 DEF RInv, Reading, Followed, Scanned
    <3> QED
      BY <3>1 DEF Bounds
  <2>4. ASSUME reader = "open"
        PROVE  /\ Len(entries) = Len(added)
               /\ \A k \in DOMAIN added : entries[k].path = Normal(added[k].path)
               /\ GapFree => \A k \in DOMAIN added : Opens(k)
    <3>1. PICK cd, start : Ends(cd) /\ Behind(start) /\ Sealed(cd, start) /\ Scanned(cd, start)
      BY <2>1, <2>4 DEF RInv, Reading, Followed
    <3>2. /\ Len(entries) = Len(headers) /\ tell = start + cd[Len(entries)]
          /\ \A k \in 1 .. Len(entries) : entries[k] = EntryOf(k)
          /\ DOMAIN entries = 1 .. Len(entries)
      BY <2>4, <3>1 DEF Scanned, RInv, Reading
    <3>3. /\ Len(added) = Len(headers) /\ DOMAIN added = 1 .. Len(headers)
          /\ Len(headers) \in 0 .. Len(headers)
      BY <2>1, Archives DEF Types, IsSeq
    <3>4. record = End(sizeOfCD, currOffset)
      BY <2>2, <2>4 DEF RInv, Reading
    <3>5. start < Limit
      BY <2>1, <2>2, <3>1, <3>2, <3>3, <3>4, Inside
    <3>6. ASSUME NEW k \in DOMAIN added
          PROVE  /\ k \in 1 .. Len(headers) /\ entries[k] = EntryOf(k)
                 /\ entries[k].path = Normal(added[k].path)
                 /\ entries[k].method = added[k].method
                 /\ Asked(k) /\ Placed(k)
      <4>1. k \in 1 .. Len(headers) /\ entries[k] = EntryOf(k)
        BY <3>2, <3>3
      <4>2. Asked(k)
        BY <4>1 DEF RInv, Requested
      <4>3. start <= Limit
        BY <3>1, <3>5, WriterAssumption DEF Behind
      <4>4. Placed(k)
        BY <3>1, <4>1, <4>3 DEF Behind
      <4> QED
        BY <4>1, <4>2, <4>4 DEF EntryOf, Asked
    <3>7. ASSUME GapFree, NEW k \in DOMAIN added,
                 \A j \in Namesakes(k) : Promised(added[j]), NEW mutex \in Mutexes
          PROVE  /\ OpenFile(added[k].path, mutex) = Locked(mutex, Contents(k))
                 /\ (\A j \in Namesakes(k) : added[j].method # "LZ4") =>
                      OpenFileInto(added[k].path, mutex) = Locked(mutex, Contents(k))
      <4> DEFINE S == Namesakes(k)
                 g == [j \in S |-> File(added[j].content)]
                 o == [j \in S |-> OpenEntry(entries[j], mutex)]
      <4>1. k \in S /\ \A j \in S : j \in DOMAIN added
        BY DEF Namesakes
      <4>2. {j \in DOMAIN entries : entries[j].path = Normal(added[k].path)} = S
        BY <3>2, <3>3, <3>6 DEF Namesakes
      <4>3. FindEntry(added[k].path) = {entries[j] : j \in S}
        <5>1. S # {}
          BY <4>1
        <5> HIDE DEF S
        <5> QED
          BY <3>7, <4>2, <5>1 DEF FindEntry
      <4>4. entries # <<>>
        BY <3>7 DEF GapFree
      <4>5. ASSUME NEW j \in S
            PROVE  OpenEntry(entries[j], mutex) = Locked(mutex, {g[j]})
        <5>1. j \in DOMAIN added /\ Promised(added[j])
          BY <3>7, <4>1
        <5>2. pos <= Len(Archive)
          BY <2>1, <2>2, Archives
        <5>3. OpenEntry(EntryOf(j), mutex) = Locked(mutex, {File(added[j].content)})
          BY <2>1, <3>6, <5>1, <5>2, Opened
        <5> QED
          BY <3>6, <5>1, <5>3
      <4>6. {g[j] : j \in S} = Contents(k)
        BY DEF Contents
      <4>7. \A j \in S : o[j] = OpenEntry(entries[j], mutex)
        OBVIOUS
      <4> HIDE DEF S, g, o
      <4>10. OpenFile(added[k].path, mutex) = UNION {OpenEntry(e, mutex) : e \in {entries[j] : j \in S}}
        BY <4>3, <4>4 DEF OpenFile
      <4>8. UNION {OpenEntry(e, mutex) : e \in {entries[j] : j \in S}} = Locked(mutex, {g[j] : j \in S})
        <5>1. \A j \in S : o[j] = Locked(mutex, {g[j]})
          BY <4>5, <4>7
        <5>2. CASE mutex
          <6>1. \A j \in S : o[j] = {g[j]}
            BY <5>1, <5>2 DEF Locked
          <6>2. Locked(mutex, {g[j] : j \in S}) = {g[j] : j \in S}
            BY <5>2 DEF Locked
          <6> QED
            BY <4>7, <6>1, <6>2
        <5>3. CASE ~mutex
          <6>1. \A j \in S : o[j] = {g[j], Stopped}
            BY <5>1, <5>3 DEF Locked
          <6>2. Locked(mutex, {g[j] : j \in S}) = {g[j] : j \in S} \cup {Stopped}
            BY <5>3 DEF Locked
          <6> QED
            BY <4>1, <4>7, <6>1, <6>2
        <5> QED
          BY <5>2, <5>3
      <4>9. ASSUME \A j \in S : added[j].method # "LZ4"
            PROVE  OpenFileInto(added[k].path, mutex) = Locked(mutex, Contents(k))
        <5>1. \A j \in S : OpenEntryInto(entries[j], mutex) = OpenEntry(entries[j], mutex)
          BY <3>6, <4>1, <4>9 DEF OpenEntryInto
        <5>2. UNION {OpenEntryInto(e, mutex) : e \in {entries[j] : j \in S}}
                = UNION {OpenEntry(e, mutex) : e \in {entries[j] : j \in S}}
          BY <5>1
        <5>3. OpenFileInto(added[k].path, mutex)
                = UNION {OpenEntryInto(e, mutex) : e \in {entries[j] : j \in S}}
          BY <4>3, <4>4 DEF OpenFileInto
        <5> QED
          BY <4>6, <4>8, <5>2, <5>3
      <4> QED
        BY <4>6, <4>8, <4>9, <4>10 DEF S
    <3>8. GapFree => \A k \in DOMAIN added : Opens(k)
      BY <3>7 DEF Opens
    <3> QED
      BY <3>2, <3>3, <3>6, <3>8
  <2> QED
    BY <2>3, <2>4
<1> QED
  BY <1>1, Consistent, PTL

(* All or nothing: of a stdio file or a buffer that grows, whose writer    *)
(* was stopped before its end or whose disk was full, OpenArchive finds    *)
(* every entry or none and takes nothing else for a header, provided that  *)
(* no archive was stored in this one, whose record its test of the         *)
(* signature alone (ZipArchive.cpp:84) cannot tell from its own.  What it  *)
(* does with a record that it could not read is left to chance only in a   *)
(* file that is too short for one or that nothing was written to.          *)
THEOREM AllIsFoundOrNothing == Spec => []AllOrNothing
<1>1. IInv /\ RInv /\ Bounds => AllOrNothing
  <2> SUFFICES ASSUME IInv, RInv, Bounds, EndsThere, Fits, Unmistakable
               PROVE  /\ reader # "garbled"
                      /\ reader = "open" => Len(entries) = Len(added) /\ todo = <<>>
                      /\ reader = "undefined" => Len(Archive) < EndSize \/ medium.file.pos = 0
    BY DEF AllOrNothing
  <2>1. Types /\ Len(added) = Len(headers) /\ Trusted
    BY DEF IInv, Types, Trusted
  <2>2. reader # "garbled"
    BY <2>1 DEF RInv, Reading, Followed, Scanned
  <2>3. reader = "open" => Len(entries) = Len(added) /\ todo = <<>>
    BY <2>1 DEF RInv, Reading, Followed, Scanned, Sealed
  <2>4. ASSUME reader = "undefined", ~(Len(Archive) < EndSize) PROVE pos = 0
    <3>1. Unset(LastBytes)
      BY <2>4 DEF RInv, Reading, Undetermined
    <3>2. PICK k \in 1 .. Len(LastBytes) : LastBytes[k] = Junk
      BY <3>1 DEF Unset
    <3>3. PICK p : p = Len(Archive) - EndSize
      OBVIOUS
    <3>4. p \in Int /\ EndSize \in Nat /\ LastBytes = BytesAt(p, EndSize)
      BY <2>1, <3>3, Archives, RecordKind DEF LastBytes
    <3>5. p + k \in 1 .. Len(Archive) /\ Archive[p + k] = Junk
      BY <2>1, <3>2, <3>4, ByteRead
    <3> QED
      BY <3>5 DEF RInv, Known, Clean
  <2> QED
    BY <2>2, <2>3, <2>4 DEF pos
<1> QED
  BY <1>1, Consistent, PTL
=============================================================================

------------------------ MODULE ZipRoundTripProofs ------------------------
(***************************************************************************)
(* Each entry lies where its header says, for any number of entries, any   *)
(* names and contents, any file written to and any limit.                  *)
(***************************************************************************)
EXTENDS ZipRoundTrip, TLAPS

IsSeq(s) == Len(s) \in Nat /\ s = [i \in 1..Len(s) |-> s[i]]

IsFile(f) == f = [data |-> f.data, pos |-> f.pos, owns |-> f.owns] /\ Len(f.data) \in Nat

IsMedium(m) ==
  /\ m = [kind |-> m.kind, file |-> m.file, room |-> m.room]
  /\ m.kind \in {"stdio", "memory"}
  /\ IsFile(m.file)
  /\ m.room \in Nat

(***************************************************************************)
(* The invariant.                                                          *)
(***************************************************************************)
pos == medium.file.pos

Noted(k) ==
  /\ Len(headers[k].name) \in Nat
  /\ headers[k].offset \in Int
  /\ headers[k].compressed \in Nat
  /\ headers[k].compressed = CompressedSize(added[k].stored, headers[k].method)
  /\ IsSeq(added[k].stored)

Types ==
  /\ IsMedium(medium)
  /\ pos \in Nat
  /\ phase # "stopped" =>
       /\ pos <= Len(Archive)
       /\ medium.kind = "stdio" => pos <= medium.room
  /\ IsSeq(headers) /\ IsSeq(added) /\ Len(added) = Len(headers)
  /\ \A k \in 1..Len(headers) : Noted(k)
  /\ IsSeq(todo) /\ \A k \in 1..Len(todo) : Len(todo[k]) \in Nat
  /\ currOffset \in Int

NameAt1(k) == headers[k].offset + LocalSize

DataAt(k) == NameAt1(k) + Len(headers[k].name)

EndOf(k) == DataAt(k) + headers[k].compressed

LocalOf(k) == Bytes(Local(headers[k]))

NameOf(k) == Bytes(Name(headers[k]))

DataOf(k) == Encoded(added[k].stored, headers[k].method)

(* The archive has these bytes from position p on.                         *)
Has(p, bytes) == p \in Nat /\ p + Len(bytes) <= pos /\ \A i \in 1..Len(bytes) : Archive[p + i] = bytes[i]

Placed(k) ==
  /\ Has(headers[k].offset, LocalOf(k))
  /\ Has(NameAt1(k), NameOf(k))
  /\ Has(DataAt(k), DataOf(k))

(* A directory has no data, and no call that writes it.                    *)
Rest(k, ofFile, ofDirectory) ==
  \/ todo = ofFile
  \/ todo = ofDirectory /\ headers[k].compressed = 0

(* How far the call that noted the last header has come.                   *)
Stage(k) ==
  \/ /\ Rest(k, <<LocalOf(k), NameOf(k), DataOf(k)>>, <<LocalOf(k), NameOf(k)>>)
     /\ pos < Limit => headers[k].offset = pos
  \/ /\ Rest(k, <<NameOf(k), DataOf(k)>>, <<NameOf(k)>>)
     /\ pos <= Limit => Has(headers[k].offset, LocalOf(k)) /\ NameAt1(k) = pos
  \/ /\ todo = <<DataOf(k)>>
     /\ pos <= Limit => /\ Has(headers[k].offset, LocalOf(k))
                        /\ Has(NameAt1(k), NameOf(k))
                        /\ DataAt(k) = pos

Layout ==
  ~refused /\ phase # "stopped" =>
    /\ pos <= Limit => \A k \in 1..Len(headers) : Finished(k) => Placed(k)
    /\ phase = "ready" /\ todo = <<>> /\ pos < Limit => currOffset = pos
    /\ phase = "ready" /\ todo # <<>> =>
         /\ headers # <<>>
         /\ Stage(Len(headers))
         /\ currOffset = Wrap(EndOf(Len(headers)))

IInv == Types /\ Layout

(***************************************************************************)
(* Bytes and pieces.                                                       *)
(***************************************************************************)
LEMMA WrapSmall ==
  ASSUME NEW n \in Nat, n < Limit
  PROVE  Wrap(n) = n
BY WriterAssumption DEF Wrap

LEMMA WrapInt ==
  ASSUME NEW n \in Int
  PROVE  Wrap(n) \in Int
BY WriterAssumption DEF Wrap

LEMMA LenOf ==
  ASSUME NEW n \in Nat, NEW f, f = [i \in 1..n |-> f[i]]
  PROVE  Len(f) = n
OBVIOUS

LEMMA Replaced ==
  ASSUME NEW a, NEW b, NEW c, NEW d, NEW p, NEW f, f = [data |-> a, pos |-> b, owns |-> c],
         NEW g, g = [f EXCEPT !.data = d, !.pos = p]
  PROVE  g = [data |-> d, pos |-> p, owns |-> c]
OBVIOUS

LEMMA Appended ==
  ASSUME NEW s, IsSeq(s), NEW x
  PROVE  LET t == Append(s, x)
         IN  /\ Len(t) = Len(s) + 1 /\ IsSeq(t) /\ t[Len(s) + 1] = x
             /\ \A k \in 1..Len(s) : t[k] = s[k]
<1> DEFINE t == Append(s, x)
<1>1. /\ Len(t) = Len(s) + 1 /\ t[Len(s) + 1] = x
      /\ \A k \in 1..Len(s) : t[k] = s[k]
  BY DEF IsSeq
<1>2. t = [i \in 1..Len(t) |-> t[i]]
  <2> DEFINE S == {s[i] : i \in 1..Len(s)} \cup {x}
  <2>1. s \in Seq(S) /\ x \in S
    BY DEF IsSeq
  <2>2. t \in Seq(S)
    <3> HIDE DEF S
    <3> QED
      BY <2>1
  <2> HIDE DEF S, t
  <2> QED
    BY <2>2
<1> QED
  BY <1>1, <1>2 DEF IsSeq

LEMMA Tailed ==
  ASSUME NEW s, IsSeq(s), s # <<>>
  PROVE  LET t == Tail(s)
         IN  /\ Len(t) = Len(s) - 1 /\ Len(s) - 1 \in Nat /\ IsSeq(t)
             /\ \A i \in 1..Len(s) - 1 : t[i] = s[i + 1] /\ i + 1 \in 1..Len(s)
<1> DEFINE S == {s[i] : i \in 1..Len(s)}
           t == Tail(s)
<1>1. s \in Seq(S)
  BY DEF IsSeq
<1> HIDE DEF S
<1>2. /\ Len(t) = Len(s) - 1 /\ Len(s) - 1 \in Nat
      /\ \A i \in 1..Len(s) - 1 : t[i] = s[i + 1] /\ i + 1 \in 1..Len(s)
  BY <1>1
<1>3. t \in Seq(S)
  BY <1>1
<1> HIDE DEF t
<1>4. IsSeq(t)
  BY <1>3 DEF IsSeq
<1> QED
  BY <1>2, <1>4 DEF t

LEMMA NonEmpty ==
  ASSUME NEW x, NEW y, NEW z
  PROVE  <<x, y>> # <<>> /\ <<x, y, z>> # <<>>
OBVIOUS

LEMMA Offset ==
  ASSUME NEW x \in Int, NEW y \in Nat, NEW z \in Nat
  PROVE  x + LocalSize + y + z \in Int
<1>1. LocalSize \in Nat
  BY SizesAssumption
<1> QED
  BY <1>1

LEMMA BytesOf ==
  ASSUME NEW piece, piece.bytes \in Nat
  PROVE  IsSeq(Bytes(piece))
<1>1. Len(Bytes(piece)) = piece.bytes
  BY DEF Bytes
<1> QED
  BY <1>1 DEF IsSeq, Bytes

LEMMA EncodedAs ==
  ASSUME NEW x, IsSeq(x), NEW method
  PROVE  /\ CompressedSize(x, method) \in Nat
         /\ Len(Encoded(x, method)) = CompressedSize(x, method)
         /\ IsSeq(Encoded(x, method))
<1>1. CompressedSize(x, method) \in Nat
  BY SizesAssumption DEF CompressedSize, IsSeq
<1>2. CASE method = "NONE"
  BY <1>1, <1>2 DEF CompressedSize, Encoded
<1>3. CASE method # "NONE"
  <2>1. Data(x, method).bytes = CompressedSize(x, method)
    BY DEF Data
  <2>2. IsSeq(Bytes(Data(x, method))) /\ Len(Bytes(Data(x, method))) = CompressedSize(x, method)
    BY <1>1, <2>1, BytesOf DEF Bytes
  <2> QED
    BY <1>1, <1>3, <2>2 DEF Encoded
<1> QED
  BY <1>2, <1>3

LEMMA Sizes ==
  ASSUME NEW k, Noted(k)
  PROVE  /\ Len(LocalOf(k)) = LocalSize
         /\ Len(NameOf(k)) = Len(headers[k].name)
         /\ Len(DataOf(k)) = headers[k].compressed
<1>1. Len(LocalOf(k)) = LocalSize /\ Len(NameOf(k)) = Len(headers[k].name)
  BY SizesAssumption DEF LocalOf, NameOf, Bytes, Local, Name, Noted
<1>2. Len(DataOf(k)) = headers[k].compressed
  BY EncodedAs DEF DataOf, Noted
<1> QED
  BY <1>1, <1>2

(* Bytes the file has are what a reader gets.                              *)
LEMMA Reads ==
  ASSUME Types, pos <= Len(Archive), NEW p, NEW bytes, IsSeq(bytes), Has(p, bytes)
  PROVE  BytesAt(p, Len(bytes)) = bytes
<1>1. /\ p \in Nat /\ Len(bytes) \in Nat /\ p + Len(bytes) <= Len(Archive) /\ Len(Archive) \in Nat
      /\ bytes = [i \in 1..Len(bytes) |-> bytes[i]]
      /\ \A i \in 1..Len(bytes) : Archive[p + i] = bytes[i]
  BY DEF Has, Types, IsSeq, IsMedium, IsFile, Archive
<1>2. [i \in 1..Len(bytes) |-> Archive[p + i]] = bytes
  BY <1>1
<1>3. CASE medium.kind = "stdio"
  <2>1. Std!Available(p, Len(Archive), Len(bytes)) = Len(bytes)
    BY <1>1 DEF Std!Available
  <2> QED
    BY <1>1, <1>2, <1>3, <2>1 DEF BytesAt, Std!Slice
<1>4. CASE medium.kind # "stdio"
  <2>1. Mem!Found(p, Len(Archive), Len(bytes)) = Len(bytes)
    BY <1>1 DEF Mem!Found
  <2>2. Mem!SetPosition(medium.file, p) = [data |-> Archive, pos |-> p, owns |-> medium.file.owns]
    BY DEF Types, IsMedium, IsFile, Mem!SetPosition, Archive
  <2> QED
    BY <1>1, <1>2, <1>4, <2>1, <2>2 DEF BytesAt, Mem!BytesRead
<1> QED
  BY <1>3, <1>4

(***************************************************************************)
(* One write.                                                              *)
(***************************************************************************)
LEMMA WrittenFile ==
  ASSUME Types, phase # "stopped", NEW new, Len(new) \in Nat
  PROVE  LET f == Written(new)
         IN  /\ IsFile(f) /\ f.pos \in Nat /\ f.pos <= Len(f.data)
             /\ medium.kind = "stdio" => f.pos <= medium.room
             /\ f.pos = pos + Len(new) =>
                  /\ \A i \in 1..pos : f.data[i] = Archive[i]
                  /\ \A i \in 1..Len(new) : f.data[pos + i] = new[i]
<1> DEFINE f == Written(new)
<1>1. /\ pos \in Nat /\ Len(Archive) \in Nat /\ pos <= Len(Archive) /\ medium.room \in Nat
      /\ medium.kind = "stdio" => pos <= medium.room
      /\ medium.file = [data |-> Archive, pos |-> pos, owns |-> medium.file.owns]
  BY DEF Types, IsMedium, IsFile, Archive, pos
<1>2. CASE medium.kind = "stdio"
  <2> DEFINE part == Std!Stored(new, medium.room - pos)
             n == IF Len(new) <= medium.room - pos THEN Len(new) ELSE medium.room - pos
             m == IF pos + n > Len(Archive) THEN pos + n ELSE Len(Archive)
             data == [i \in 1..m |-> IF i \in pos + 1 .. pos + n THEN part[i - pos] ELSE Archive[i]]
  <2>1. n \in Nat /\ m \in Nat /\ pos + n <= medium.room /\ pos + n <= m
    BY <1>1, <1>2
  <2>2. part = [i \in 1..n |-> new[i]] /\ Len(part) = n
    <3>1. part = [i \in 1..n |-> new[0 + i]]
      BY DEF Std!Stored, Std!Slice
    <3>2. part = [i \in 1..n |-> new[i]]
      BY <2>1, <3>1
    <3> QED
      BY <2>1, <3>2
  <2>3. f = [medium.file EXCEPT !.data = data, !.pos = pos + n]
    BY <1>1, <1>2, <2>2 DEF Written, Grown, Std!Overwritten, pos, Archive
  <2>4. f.data = data /\ f.pos = pos + n /\ f.owns = medium.file.owns /\ IsFile(f)
    <3>1. f = [data |-> data, pos |-> pos + n, owns |-> medium.file.owns]
      BY <1>1, <2>3
    <3>2. Len(data) = m
      BY <2>1
    <3> QED
      BY <2>1, <3>1, <3>2 DEF IsFile
  <2>5. Len(f.data) = m
    BY <2>1, <2>4
  <2>6. f.pos = pos + Len(new) =>
          /\ \A i \in 1..pos : f.data[i] = Archive[i]
          /\ \A i \in 1..Len(new) : f.data[pos + i] = new[i]
    <3> SUFFICES ASSUME n = Len(new)
                 PROVE  /\ \A i \in 1..pos : data[i] = Archive[i]
                        /\ \A i \in 1..n : data[pos + i] = new[i]
      BY <1>1, <2>1, <2>4
    <3>1. \A i \in 1..pos : data[i] = Archive[i]
      BY <1>1, <2>1
    <3>2. \A i \in 1..n : data[pos + i] = part[i]
      BY <1>1, <2>1
    <3> QED
      BY <2>2, <3>1, <3>2
  <2> QED
    BY <1>1, <1>2, <2>1, <2>4, <2>5, <2>6
<1>3. CASE medium.kind # "stdio" /\ ~Mem!Resizable(medium.file, pos + Len(new))
  <2>1. f = medium.file
    BY <1>3 DEF Written, Mem!WriteData, pos
  <2>2. f.pos = pos + Len(new) => Len(new) = 0
    BY <1>1, <2>1
  <2> QED
    BY <1>1, <1>3, <2>1, <2>2 DEF IsFile, Archive
<1>4. CASE medium.kind # "stdio" /\ Mem!Resizable(medium.file, pos + Len(new))
  <2> DEFINE end == pos + Len(new)
             g == Mem!Resized(medium.file, end)
             data == [i \in 1..Len(g.data) |-> IF i \in pos + 1 .. end THEN new[i - pos] ELSE g.data[i]]
  <2>1. /\ g = [data |-> g.data, pos |-> pos, owns |-> medium.file.owns]
        /\ Len(g.data) \in Nat /\ end <= Len(g.data) /\ end \in Nat
        /\ \A i \in 1..pos : g.data[i] = Archive[i]
    <3>1. CASE medium.file.owns
      <4> DEFINE d == [i \in 1..end |-> IF i <= Len(Archive) THEN Archive[i] ELSE Junk]
      <4>1. g = [data |-> d, pos |-> pos, owns |-> medium.file.owns]
        <5>1. g = [medium.file EXCEPT !.data = d]
          BY <3>1 DEF Mem!Resized, Archive
        <5> HIDE DEF d, g
        <5> QED
          BY <1>1, <5>1
      <4>2. Len(d) = end /\ end \in Nat
        BY <1>1
      <4>3. \A i \in 1..pos : d[i] = Archive[i]
        BY <1>1
      <4> QED
        BY <1>1, <4>1, <4>2, <4>3
    <3>2. CASE ~medium.file.owns
      <4>1. g = medium.file /\ end <= Len(Archive)
        BY <1>1, <1>4, <3>2 DEF Mem!Resized, Mem!Resizable, Archive
      <4> QED
        BY <1>1, <4>1
    <3> QED
      BY <3>1, <3>2
  <2>2. f = [g EXCEPT !.data = data, !.pos = end]
    BY <1>4 DEF Written, Mem!WriteData, pos
  <2>3. f = [data |-> data, pos |-> end, owns |-> medium.file.owns]
    <3>1. PICK old : g = [data |-> old, pos |-> pos, owns |-> medium.file.owns]
      BY <2>1
    <3> HIDE DEF data, g, end, f
    <3> QED
      BY <2>2, <3>1, Replaced
  <2>4. Len(data) = Len(g.data)
    BY <2>1
  <2>5. \A i \in 1..pos : data[i] = Archive[i]
    BY <1>1, <2>1
  <2>6. \A i \in 1..Len(new) : data[pos + i] = new[i]
    BY <1>1, <2>1
  <2> QED
    BY <1>1, <1>4, <2>1, <2>3, <2>4, <2>5, <2>6 DEF IsFile
<1> QED
  BY <1>2, <1>3, <1>4

(***************************************************************************)
(* The steps.                                                              *)
(***************************************************************************)
(* Media are what a File may be, and hold no archive.                      *)
LEMMA MediaAre ==
  ASSUME NEW m \in Media
  PROVE  /\ IsMedium(m)
         /\ m.kind = "stdio" => m.file.data = <<>>
         /\ m.kind = "memory" => \A i \in 1 .. Len(m.file.data) :
                                  m.file.data[i] = Foreign \/ (m.file.owns /\ m.file.data[i] = Junk)
<1>1. CASE m.room \in Nat /\ m = OnDisk(m.room)
  <2>1. PICK r \in Nat : m = [kind |-> "stdio", file |-> [data |-> <<>>, pos |-> 0, owns |-> FALSE], room |-> r]
    BY <1>1 DEF OnDisk
  <2> QED
    BY <2>1 DEF IsMedium, IsFile
<1>2. CASE ~(m.room \in Nat /\ m = OnDisk(m.room))
  <2>1. PICK f : /\ f = m.file /\ m = InBuffer(f)
                 /\ f = [data |-> f.data, pos |-> f.pos, owns |-> f.owns]
                 /\ Len(f.data) \in Nat
                 /\ \A i \in 1 .. Len(f.data) : f.data[i] = Foreign \/ (f.owns /\ f.data[i] = Junk)
    BY <1>2, MediaAssumption
  <2>2. IsFile(f)
    BY <2>1 DEF IsFile
  <2>3. m.kind = "memory" /\ m.room = 0 /\ m = [kind |-> m.kind, file |-> m.file, room |-> m.room]
    BY <2>1 DEF InBuffer
  <2> QED
    BY <2>1, <2>2, <2>3 DEF IsMedium
<1> QED
  BY <1>1, <1>2

LEMMA InitIInv == ASSUME Init PROVE IInv
<1>1. PICK m \in Media : medium = [m EXCEPT !.file = Mem!SetPosition(m.file, 0)]
  BY DEF Init, WriterInit
<1>2. IsMedium(m)
  BY MediaAre
<1>3. medium = [kind |-> m.kind, file |-> [data |-> m.file.data, pos |-> 0, owns |-> m.file.owns],
                room |-> m.room]
  <2> DEFINE f == Mem!SetPosition(m.file, 0)
  <2>1. f = [m.file EXCEPT !.pos = 0]
    BY DEF Mem!SetPosition
  <2>2. PICK a, b, c : m.file = [data |-> a, pos |-> b, owns |-> c]
    BY <1>2 DEF IsMedium, IsFile
  <2> HIDE DEF f
  <2>3. f = [data |-> m.file.data, pos |-> 0, owns |-> m.file.owns]
    BY <2>1, <2>2
  <2>4. medium = [m EXCEPT !.file = f]
    BY <1>1 DEF f
  <2>5. PICK d, e : m = [kind |-> d, file |-> m.file, room |-> e]
    BY <1>2 DEF IsMedium
  <2>6. medium = [kind |-> m.kind, file |-> f, room |-> m.room]
    BY <2>4, <2>5
  <2> QED
    BY <2>3, <2>6
<1>4. IsMedium(medium) /\ pos = 0 /\ Len(Archive) \in Nat /\ medium.room \in Nat
  <2>1. /\ m.kind \in {"stdio", "memory"} /\ m.room \in Nat /\ Len(m.file.data) \in Nat
    BY <1>2 DEF IsMedium, IsFile
  <2>2. /\ medium.kind = m.kind /\ medium.room = m.room /\ Archive = m.file.data /\ pos = 0
        /\ medium.file.owns = m.file.owns
    BY <1>3 DEF Archive, pos
  <2>3. IsFile(medium.file)
    BY <1>3, <2>1, <2>2 DEF IsFile, Archive, pos
  <2> QED
    BY <1>3, <2>1, <2>2, <2>3 DEF IsMedium
<1>5. /\ headers = <<>> /\ added = <<>> /\ todo = <<>> /\ currOffset = 0 /\ phase = "ready"
  BY DEF Init, WriterInit
<1>6. Types
  BY <1>4, <1>5 DEF Types, IsSeq
<1>7. Layout
  BY <1>4, <1>5 DEF Layout
<1> QED
  BY <1>6, <1>7 DEF IInv

(* A step that only reads.                                                 *)
LEMMA Unmoved ==
  ASSUME IInv, UNCHANGED <<medium, refused, headers, currOffset, sizeOfCD, todo, phase, added>>
  PROVE  IInv'
<1>1. Types'
  <2>1. \A k \in 1..Len(headers') : Noted(k)'
    BY DEF IInv, Types, Noted
  <2> QED
    BY <2>1 DEF IInv, Types, Archive, pos
<1>2. Layout'
  BY DEF IInv, Layout, Finished, Placed, Stage, Rest, Has, EndOf, NameAt1, DataAt,
         LocalOf, NameOf, DataOf, pos, Archive
<1> QED
  BY <1>1, <1>2 DEF IInv

(* What AddFile gets of a source: as many bytes as it has, of a content.   *)
LEMMA GetsSeq ==
  ASSUME NEW s \in Sources
  PROVE  /\ IsSeq(Gets(s)) /\ Len(Gets(s)) = Len(Content[s])
         /\ cursor[s] \in Nat =>
              \A i \in 1 .. Len(Gets(s)) : Gets(s)[i] \in PlainBytes \cup RecordBytes
<1> DEFINE c == Content[s]
           S == PlainBytes \cup RecordBytes
<1>1. c \in Seq(S) /\ Stale \in S
  BY WriterAssumption
<1> HIDE DEF S
<1>2. Len(c) \in Nat /\ DOMAIN c = 1 .. Len(c) /\ c = [i \in 1 .. Len(c) |-> c[i]]
      /\ \A i \in 1 .. Len(c) : c[i] \in S
  BY <1>1
<1>3. CASE s \in InMemory
  <2>1. Gets(s) = c
    BY <1>3 DEF Gets
  <2> QED
    BY <1>2, <2>1 DEF IsSeq, S
<1>4. CASE s \notin InMemory
  <2>1. Gets(s) = [i \in 1 .. Len(c) |-> IF cursor[s] + i <= Len(c) THEN c[cursor[s] + i] ELSE Stale]
    BY <1>2, <1>4 DEF Gets
  <2> HIDE DEF c
  <2>2. Len(Gets(s)) = Len(c) /\ IsSeq(Gets(s))
    BY <1>2, <2>1, LenOf DEF IsSeq
  <2>3. ASSUME cursor[s] \in Nat, NEW i \in 1 .. Len(c)
        PROVE  Gets(s)[i] \in S
    <3>1. CASE cursor[s] + i <= Len(c)
      BY <1>2, <2>1, <2>3, <3>1
    <3>2. CASE ~(cursor[s] + i <= Len(c))
      BY <1>1, <2>1, <2>3, <3>2
    <3> QED
      BY <3>1, <3>2
  <2> QED
    BY <2>2, <2>3 DEF c, S
<1> QED
  BY <1>3, <1>4

(* A call that notes an entry.                                             *)
LEMMA NoteIInv ==
  ASSUME IInv, Idle, NEW h, NEW writes, NEW a, Note(h, writes), added' = Append(added, a),
         Len(h.name) \in Nat, h.offset = currOffset, h.compressed \in Nat,
         h.compressed = CompressedSize(a.stored, h.method), IsSeq(a.stored),
         \/ writes = <<Bytes(Local(h)), Bytes(Name(h)), Encoded(a.stored, h.method)>>
         \/ writes = <<Bytes(Local(h)), Bytes(Name(h))>> /\ h.compressed = 0
  PROVE  IInv'
<1>0. PICK n : n = Len(headers) + 1
  OBVIOUS
<1>1. /\ headers' = Append(headers, h) /\ todo' = writes
      /\ currOffset' = Wrap(currOffset + LocalSize + Len(h.name) + h.compressed)
      /\ UNCHANGED <<medium, refused, phase>>
      /\ todo = <<>> /\ phase = "ready"
  BY DEF Note, Idle
<1>2. /\ Len(headers) \in Nat /\ Len(added) = Len(headers)
      /\ IsSeq(headers) /\ IsSeq(added) /\ currOffset \in Int /\ pos \in Nat
      /\ n \in Nat \ {0}
  BY <1>0 DEF IInv, Types, IsSeq
<1>3. /\ Len(headers') = n /\ Len(added') = n /\ IsSeq(headers') /\ IsSeq(added')
      /\ headers'[n] = h /\ added'[n] = a
      /\ \A k \in 1..Len(headers) : headers'[k] = headers[k] /\ added'[k] = added[k]
  BY <1>0, <1>1, <1>2, Appended
<1>4. Types'
  <2>1. \A k \in 1..Len(headers') : Noted(k)'
    <3> SUFFICES ASSUME NEW k \in 1..n PROVE Noted(k)'
      BY <1>3
    <3>1. CASE k = n
      BY <1>2, <1>3, <3>1 DEF Noted
    <3>2. CASE k # n
      <4>1. k \in 1..Len(headers)
        BY <1>0, <1>2, <3>2
      <4>2. Noted(k)
        BY <4>1 DEF IInv, Types
      <4> QED
        BY <1>3, <4>1, <4>2 DEF Noted
    <3> QED
      BY <3>1, <3>2
  <2>2. IsSeq(todo') /\ \A k \in 1..Len(todo') : Len(todo'[k]) \in Nat
    <3>1. Len(Bytes(Local(h))) \in Nat /\ Len(Bytes(Name(h))) \in Nat
      BY SizesAssumption DEF Bytes, Local, Name
    <3>2. Len(Encoded(a.stored, h.method)) \in Nat
      BY EncodedAs
    <3> QED
      BY <1>1, <3>1, <3>2 DEF IsSeq
  <2>3. currOffset' \in Int
    <3>1. currOffset + LocalSize + Len(h.name) + h.compressed \in Int
      BY <1>2, Offset
    <3> QED
      BY <1>1, <3>1, WrapInt
  <2> QED
    BY <1>1, <1>3, <2>1, <2>2, <2>3 DEF IInv, Types, IsMedium, IsFile, Archive, pos
<1>5. Layout'
  <2> SUFFICES ASSUME ~refused
               PROVE  Layout'
    BY <1>1 DEF Layout
  <2>1. /\ pos' = pos /\ Archive' = Archive
        /\ \A k \in 1..Len(headers) : /\ LocalOf(k)' = LocalOf(k) /\ NameOf(k)' = NameOf(k)
                                        /\ DataOf(k)' = DataOf(k) /\ NameAt1(k)' = NameAt1(k)
                                        /\ DataAt(k)' = DataAt(k)
    BY <1>1, <1>3 DEF pos, Archive, LocalOf, NameOf, DataOf, NameAt1, DataAt
  <2>2. todo' # <<>> /\ phase' = "ready" /\ headers' # <<>>
    <3>1. writes # <<>>
      BY NonEmpty
    <3>2. headers' # <<>>
      BY <1>2, <1>3
    <3> QED
      BY <1>1, <3>1, <3>2
  <2>3. pos <= Limit => \A k \in 1..Len(headers') : Finished(k)' => Placed(k)'
    <3> SUFFICES ASSUME pos <= Limit, NEW k \in 1..n, Finished(k)' PROVE Placed(k)'
      BY <1>3
    <3>1. k \in 1..Len(headers)
      BY <1>0, <1>2, <1>3, <2>2 DEF Finished
    <3>2. Placed(k)
      BY <1>1, <3>1 DEF IInv, Layout, Finished
    <3>3. headers'[k] = headers[k]
      BY <1>3, <3>1
    <3> QED
      BY <2>1, <3>1, <3>2, <3>3 DEF Placed, Has
  <2>4. Stage(n)'
    <3>1. /\ LocalOf(n)' = Bytes(Local(h)) /\ NameOf(n)' = Bytes(Name(h))
          /\ DataOf(n)' = Encoded(a.stored, h.method)
      BY <1>3 DEF LocalOf, NameOf, DataOf
    <3>2. Rest(n, <<LocalOf(n), NameOf(n), DataOf(n)>>, <<LocalOf(n), NameOf(n)>>)'
      BY <1>1, <1>3, <3>1 DEF Rest
    <3>3. pos < Limit => headers'[n].offset = pos
      BY <1>1, <1>3 DEF IInv, Layout
    <3> QED
      BY <2>1, <3>2, <3>3 DEF Stage
  <2>5. currOffset' = Wrap(EndOf(n)')
    BY <1>1, <1>3 DEF EndOf, DataAt, NameAt1
  <2> QED
    BY <1>3, <2>1, <2>2, <2>3, <2>4, <2>5 DEF Layout
<1> QED
  BY <1>4, <1>5 DEF IInv

LEMMA AddFileIInv ==
  ASSUME IInv, NEW path \in FilePaths, NEW s \in Sources, NEW method \in Methods,
         AddFile(path, s, method)
  PROVE  IInv'
<1> DEFINE h == Header(path, method, Gets(s), currOffset)
           a == [path |-> path, method |-> method, content |-> Content[s],
                 stored |-> Gets(s), whole |-> s \in InMemory \/ cursor[s] = 0]
           writes == <<Bytes(Local(h)), Bytes(Name(h)), Encoded(Gets(s), method)>>
<1>1. Idle /\ Note(h, writes) /\ added' = Append(added, a)
  BY DEF AddFile
<1>2. Len(Gets(s)) \in Nat /\ IsSeq(Gets(s))
  BY GetsSeq DEF IsSeq
<1>3. Len(path) \in Nat
  BY WriterAssumption
<1>4. /\ h.name = path /\ h.offset = currOffset /\ h.method = method
      /\ h.compressed = CompressedSize(Gets(s), method) /\ a.stored = Gets(s)
  BY DEF Header
<1>5. CompressedSize(Gets(s), method) \in Nat
  BY <1>2, SizesAssumption DEF CompressedSize
<1> HIDE DEF h, a
<1> QED
  BY <1>1, <1>2, <1>3, <1>4, <1>5, NoteIInv

LEMMA CreateDirectoryIInv ==
  ASSUME IInv, NEW path \in DirPaths, CreateDirectory(path)
  PROVE  IInv'
<1> DEFINE h == Header(DirName(path), "NONE", <<>>, currOffset)
           a == [path |-> DirName(path), method |-> "NONE", content |-> <<>>,
                 stored |-> <<>>, whole |-> TRUE]
           writes == <<Bytes(Local(h)), Bytes(Name(h))>>
<1>1. Idle /\ Note(h, writes) /\ added' = Append(added, a)
  BY DEF CreateDirectory
<1>2. Len(DirName(path)) \in Nat
  BY NamesAssumption DEF Names
<1>3. /\ h.name = DirName(path) /\ h.offset = currOffset /\ h.method = "NONE"
      /\ h.compressed = CompressedSize(<<>>, "NONE") /\ a.stored = <<>>
  BY DEF Header
<1>4. CompressedSize(<<>>, "NONE") = 0
  BY DEF CompressedSize
<1>5. IsSeq(<<>>)
  BY DEF IsSeq
<1> HIDE DEF h, a
<1> QED
  BY <1>1, <1>2, <1>3, <1>4, <1>5, NoteIInv

(* A write as a whole: what it does to the file, whether it is refused.    *)
LEMMA WriteFacts ==
  ASSUME Types, Write
  PROVE  /\ Len(todo) \in Nat /\ todo # <<>> /\ Len(Head(todo)) \in Nat
         /\ todo' = Tail(todo) /\ IsSeq(todo')
         /\ \A k \in 1..Len(todo') : Len(todo'[k]) \in Nat
         /\ IsMedium(medium') /\ pos' \in Nat /\ pos' <= Len(Archive')
         /\ medium'.kind = "stdio" => pos' <= medium'.room
         /\ ~refused' => /\ ~refused
                         /\ pos' = pos + Len(Head(todo))
                         /\ \A i \in 1..pos : Archive'[i] = Archive[i]
                         /\ \A i \in 1..Len(Head(todo)) : Archive'[pos + i] = Head(todo)[i]
<1> DEFINE new == Head(todo)
           f == Written(new)
<1>1. /\ phase # "stopped" /\ todo # <<>> /\ todo' = Tail(todo)
      /\ medium' = [medium EXCEPT !.file = f]
      /\ refused' = (refused \/ pos' # pos + Len(new))
  BY DEF Write, pos
<1>2. IsSeq(todo) /\ \A k \in 1..Len(todo) : Len(todo[k]) \in Nat
  BY DEF Types
<1>3. Len(todo) \in Nat /\ Len(new) \in Nat
  BY <1>1, <1>2 DEF IsSeq
<1>4. IsSeq(todo') /\ \A k \in 1..Len(todo') : Len(todo'[k]) \in Nat
  <2>1. /\ Len(todo') = Len(todo) - 1 /\ IsSeq(todo')
        /\ \A k \in 1..Len(todo) - 1 : todo'[k] = todo[k + 1] /\ k + 1 \in 1..Len(todo)
    BY <1>1, <1>2, Tailed
  <2> QED
    BY <1>2, <2>1
<1>5. /\ IsFile(f) /\ f.pos \in Nat /\ f.pos <= Len(f.data)
      /\ medium.kind = "stdio" => f.pos <= medium.room
      /\ f.pos = pos + Len(new) =>
           /\ \A i \in 1..pos : f.data[i] = Archive[i]
           /\ \A i \in 1..Len(new) : f.data[pos + i] = new[i]
  <2> HIDE DEF new
  <2> QED
    BY <1>1, <1>3, WrittenFile
<1>6. medium' = [kind |-> medium.kind, file |-> f, room |-> medium.room]
  <2>1. PICK a, b, c : medium = [kind |-> a, file |-> b, room |-> c]
    BY DEF Types, IsMedium
  <2> HIDE DEF f
  <2> QED
    BY <1>1, <2>1
<1>7. pos' = f.pos /\ Archive' = f.data
  BY <1>6 DEF pos, Archive
<1>8. IsMedium(medium')
  <2>1. medium.kind \in {"stdio", "memory"} /\ medium.room \in Nat
    BY DEF Types, IsMedium
  <2> HIDE DEF f
  <2> QED
    BY <1>5, <1>6, <2>1 DEF IsMedium
<1>9. medium'.kind = medium.kind /\ medium'.room = medium.room
  BY <1>6
<1> HIDE DEF f
<1> QED
  BY <1>1, <1>3, <1>4, <1>5, <1>7, <1>8, <1>9

(* Bytes that are there stay, and the new ones are there.                  *)
LEMMA HasKept ==
  ASSUME Types, Write, ~refused', NEW p, NEW bytes, Has(p, bytes), Len(bytes) \in Nat
  PROVE  /\ p \in Nat /\ p + Len(bytes) <= pos'
         /\ \A i \in 1..Len(bytes) : Archive'[p + i] = bytes[i]
<1>1. pos \in Nat /\ Len(Head(todo)) \in Nat
  BY WriteFacts DEF Types
<1>2. pos' = pos + Len(Head(todo)) /\ \A i \in 1..pos : Archive'[i] = Archive[i]
  BY WriteFacts
<1>3. /\ p \in Nat /\ p + Len(bytes) <= pos
      /\ \A i \in 1..Len(bytes) : Archive[p + i] = bytes[i]
  BY DEF Has
<1>4. \A i \in 1..Len(bytes) : p + i \in 1..pos
  BY <1>1, <1>3
<1>5. p + Len(bytes) <= pos'
  BY <1>1, <1>2, <1>3
<1>6. ASSUME NEW i \in 1..Len(bytes)
      PROVE  Archive'[p + i] = bytes[i]
  <2>1. Archive'[p + i] = Archive[p + i]
    BY <1>2, <1>4
  <2> QED
    BY <1>3, <2>1
<1> QED
  BY <1>3, <1>5, <1>6

LEMMA HasNew ==
  ASSUME Types, Write, ~refused', NEW bytes, bytes = Head(todo)
  PROVE  /\ pos \in Nat /\ pos + Len(bytes) <= pos'
         /\ \A i \in 1..Len(bytes) : Archive'[pos + i] = bytes[i]
<1>1. pos \in Nat
  BY DEF Types
<1> QED
  BY <1>1, WriteFacts

LEMMA PlacedKept ==
  ASSUME Types, Write, ~refused', NEW k \in 1..Len(headers), Placed(k)
  PROVE  Placed(k)'
<1>1. Noted(k)
  BY DEF Types
<1>2. /\ Len(LocalOf(k)) \in Nat /\ Len(NameOf(k)) \in Nat /\ Len(DataOf(k)) \in Nat
  BY <1>1, Sizes, SizesAssumption DEF Noted
<1>3. UNCHANGED <<headers, added>>
  BY DEF Write
<1>4. Has(headers[k].offset, LocalOf(k))'
  <2>1. Has(headers[k].offset, LocalOf(k))
    BY DEF Placed
  <2>2. /\ headers[k].offset \in Nat /\ headers[k].offset + Len(LocalOf(k)) <= pos'
        /\ \A i \in 1..Len(LocalOf(k)) : Archive'[headers[k].offset + i] = LocalOf(k)[i]
    BY <1>2, <2>1, HasKept
  <2>3. headers[k].offset' = headers[k].offset /\ LocalOf(k)' = LocalOf(k)
    BY <1>3 DEF LocalOf
  <2> QED
    BY <2>2, <2>3 DEF Has
<1>5. Has(NameAt1(k), NameOf(k))'
  <2>1. Has(NameAt1(k), NameOf(k))
    BY DEF Placed
  <2>2. /\ NameAt1(k) \in Nat /\ NameAt1(k) + Len(NameOf(k)) <= pos'
        /\ \A i \in 1..Len(NameOf(k)) : Archive'[NameAt1(k) + i] = NameOf(k)[i]
    BY <1>2, <2>1, HasKept
  <2>3. NameAt1(k)' = NameAt1(k) /\ NameOf(k)' = NameOf(k)
    BY <1>3 DEF NameOf, NameAt1
  <2> QED
    BY <2>2, <2>3 DEF Has
<1>6. Has(DataAt(k), DataOf(k))'
  <2>1. Has(DataAt(k), DataOf(k))
    BY DEF Placed
  <2>2. /\ DataAt(k) \in Nat /\ DataAt(k) + Len(DataOf(k)) <= pos'
        /\ \A i \in 1..Len(DataOf(k)) : Archive'[DataAt(k) + i] = DataOf(k)[i]
    BY <1>2, <2>1, HasKept
  <2>3. DataAt(k)' = DataAt(k) /\ DataOf(k)' = DataOf(k)
    BY <1>3 DEF DataOf, DataAt, NameAt1
  <2> QED
    BY <2>2, <2>3 DEF Has
<1> QED
  BY <1>4, <1>5, <1>6 DEF Placed

(* What a call writes is split off from the front.                         *)
LEMMA Split ==
  ASSUME NEW x, NEW y, NEW z
  PROVE  /\ Head(<<x, y, z>>) = x /\ Tail(<<x, y, z>>) = <<y, z>>
         /\ Head(<<x, y>>) = x /\ Tail(<<x, y>>) = <<y>>
         /\ Head(<<x>>) = x /\ Tail(<<x>>) = <<>>
         /\ <<x>> # <<>>
OBVIOUS

LEMMA WriteIInv == ASSUME IInv, Write PROVE IInv'
<1>1. /\ Types /\ Layout
      /\ UNCHANGED <<headers, currOffset, sizeOfCD, phase, cursor, added>>
      /\ phase \in {"ready", "closing"} /\ todo # <<>> /\ todo' = Tail(todo)
  BY DEF IInv, Write
<1>2. Types'
  <2>1. \A k \in 1..Len(headers) : Noted(k)'
    <3> SUFFICES ASSUME NEW k \in 1..Len(headers) PROVE Noted(k)'
      OBVIOUS
    <3> QED
      BY <1>1 DEF Types, Noted
  <2> QED
    BY <1>1, <2>1, WriteFacts DEF Types
<1>3. Layout'
  <2> SUFFICES ASSUME ~refused' PROVE Layout'
    BY DEF Layout
  <2>1. /\ ~refused /\ pos \in Nat /\ pos' \in Nat /\ pos <= pos'
        /\ Len(Head(todo)) \in Nat /\ pos' = pos + Len(Head(todo))
    BY <1>1, WriteFacts DEF Types
  <2>2. ASSUME pos' <= Limit, NEW k \in 1..Len(headers), Finished(k) PROVE Placed(k)'
    <3>1. pos <= Limit
      BY <2>1, <2>2, WriterAssumption
    <3>2. Placed(k)
      BY <1>1, <2>1, <2>2, <3>1 DEF Layout
    <3> QED
      BY <1>1, <3>2, PlacedKept
  <2>3. CASE phase = "closing"
    BY <1>1, <2>2, <2>3 DEF Layout, Finished
  <2>4. CASE phase = "ready"
    <3>1. PICK n : n = Len(headers)
      OBVIOUS
    <3>2. /\ n \in 1..Len(headers) /\ Noted(n) /\ headers # <<>> /\ Stage(n)
          /\ currOffset = Wrap(EndOf(n))
      BY <1>1, <2>1, <2>4, <3>1 DEF Types, Layout, IsSeq
    <3>3. /\ LocalOf(n)' = LocalOf(n) /\ NameOf(n)' = NameOf(n) /\ DataOf(n)' = DataOf(n)
          /\ NameAt1(n)' = NameAt1(n) /\ DataAt(n)' = DataAt(n) /\ EndOf(n)' = EndOf(n)
          /\ headers'[n].offset = headers[n].offset
      BY <1>1 DEF LocalOf, NameOf, DataOf, NameAt1, DataAt, EndOf
    <3>4. /\ Len(LocalOf(n)) = LocalSize /\ Len(NameOf(n)) = Len(headers[n].name)
          /\ Len(DataOf(n)) = headers[n].compressed
          /\ Len(headers[n].name) \in Nat /\ headers[n].compressed \in Nat
          /\ LocalSize \in Nat /\ LocalSize > 0 /\ headers[n].offset \in Int /\ Limit \in Nat
      BY <3>2, Sizes, SizesAssumption, WriterAssumption DEF Noted
    <3>5. /\ NameAt1(n) = headers[n].offset + LocalSize
          /\ DataAt(n) = NameAt1(n) + Len(headers[n].name)
          /\ EndOf(n) = DataAt(n) + headers[n].compressed
      BY DEF NameAt1, DataAt, EndOf
    <3>6. ASSUME pos' <= Limit, NEW k \in 1..Len(headers), Finished(k)', k # n PROVE Placed(k)'
      <4>1. Finished(k)
        BY <1>1, <3>1, <3>2, <3>6 DEF Types, IsSeq, Finished
      <4> QED
        BY <2>2, <3>6, <4>1
    \* The call goes on.
    <3>7. ASSUME todo' # <<>>, Stage(n)' PROVE Layout'
      <4>1. pos' <= Limit => \A k \in 1..Len(headers) : Finished(k)' => Placed(k)'
        <5> SUFFICES ASSUME pos' <= Limit, NEW k \in 1..Len(headers), Finished(k)'
                     PROVE  Placed(k)'
          OBVIOUS
        <5>1. k # n
          BY <1>1, <2>4, <3>1, <3>2, <3>7 DEF Finished, Types, IsSeq
        <5> QED
          BY <3>6, <5>1
      <4>2. currOffset' = Wrap(EndOf(n)')
        BY <1>1, <3>2, <3>3
      <4> QED
        BY <1>1, <2>4, <3>1, <3>2, <3>7, <4>1, <4>2 DEF Layout
    \* The call has written all it had to write.
    <3>8. ASSUME todo' = <<>>, pos' <= Limit => Placed(n)' /\ EndOf(n) = pos' PROVE Layout'
      <4>1. pos' <= Limit => \A k \in 1..Len(headers) : Finished(k)' => Placed(k)'
        BY <3>6, <3>8
      <4>2. pos' < Limit => currOffset' = pos'
        BY <1>1, <2>1, <3>2, <3>4, <3>8, WrapSmall
      <4> QED
        BY <1>1, <2>4, <3>8, <4>1, <4>2 DEF Layout
    <3>9. CASE /\ Rest(n, <<LocalOf(n), NameOf(n), DataOf(n)>>, <<LocalOf(n), NameOf(n)>>)
               /\ pos < Limit => headers[n].offset = pos
      <4>1. /\ Head(todo) = LocalOf(n)
            /\ \/ todo' = <<NameOf(n), DataOf(n)>>
               \/ todo' = <<NameOf(n)>> /\ headers[n].compressed = 0
        <5>1. CASE todo = <<LocalOf(n), NameOf(n), DataOf(n)>>
          BY <1>1, <5>1, Split
        <5>2. CASE todo = <<LocalOf(n), NameOf(n)>> /\ headers[n].compressed = 0
          BY <1>1, <5>2, Split
        <5> QED
          BY <3>9, <5>1, <5>2 DEF Rest
      <4>2. todo' # <<>>
        BY <4>1, NonEmpty, Split
      <4>3. Rest(n, <<NameOf(n), DataOf(n)>>, <<NameOf(n)>>)'
        BY <1>1, <3>3, <4>1 DEF Rest
      <4>4. ASSUME pos' <= Limit
            PROVE  Has(headers[n].offset, LocalOf(n))' /\ NameAt1(n)' = pos'
        <5>1. headers[n].offset = pos
          BY <2>1, <3>4, <3>9, <4>1, <4>4
        <5>2. /\ pos + Len(LocalOf(n)) <= pos'
              /\ \A i \in 1..Len(LocalOf(n)) : Archive'[pos + i] = LocalOf(n)[i]
          BY <1>1, <4>1, HasNew
        <5>3. Has(headers[n].offset, LocalOf(n))'
          BY <2>1, <3>3, <5>1, <5>2 DEF Has
        <5> QED
          BY <2>1, <3>3, <3>4, <3>5, <4>1, <5>1, <5>3
      <4> QED
        BY <3>7, <4>2, <4>3, <4>4 DEF Stage
    <3>10. CASE /\ Rest(n, <<NameOf(n), DataOf(n)>>, <<NameOf(n)>>)
                /\ pos <= Limit => Has(headers[n].offset, LocalOf(n)) /\ NameAt1(n) = pos
      <4>1. Head(todo) = NameOf(n)
        BY <3>10, Split DEF Rest
      <4>2. ASSUME pos' <= Limit
            PROVE  /\ Has(headers[n].offset, LocalOf(n))' /\ Has(NameAt1(n), NameOf(n))'
                   /\ DataAt(n) = pos'
        <5>1. Has(headers[n].offset, LocalOf(n)) /\ NameAt1(n) = pos
          BY <2>1, <3>4, <3>10, <4>2
        <5>2. Has(headers[n].offset, LocalOf(n))'
          <6>1. /\ headers[n].offset \in Nat /\ headers[n].offset + Len(LocalOf(n)) <= pos'
                /\ \A i \in 1..Len(LocalOf(n)) : Archive'[headers[n].offset + i] = LocalOf(n)[i]
            BY <1>1, <3>4, <5>1, HasKept
          <6> QED
            BY <3>3, <6>1 DEF Has
        <5>3. Has(NameAt1(n), NameOf(n))'
          <6>1. /\ pos + Len(NameOf(n)) <= pos'
                /\ \A i \in 1..Len(NameOf(n)) : Archive'[pos + i] = NameOf(n)[i]
            BY <1>1, <4>1, HasNew
          <6> QED
            BY <2>1, <3>3, <5>1, <6>1 DEF Has
        <5> QED
          BY <2>1, <3>4, <3>5, <4>1, <5>1, <5>2, <5>3
      <4>3. CASE todo = <<NameOf(n), DataOf(n)>>
        <5>1. todo' = <<DataOf(n)>> /\ todo' # <<>>
          BY <1>1, <4>3, Split
        <5> QED
          BY <3>3, <3>7, <4>2, <5>1 DEF Stage
      <4>4. CASE todo = <<NameOf(n)>> /\ headers[n].compressed = 0
        <5>1. todo' = <<>>
          BY <1>1, <4>4, Split
        <5>2. ASSUME pos' <= Limit PROVE Placed(n)' /\ EndOf(n) = pos'
          <6>1. Has(DataAt(n), DataOf(n))'
            BY <2>1, <3>3, <3>4, <4>2, <4>4, <5>2 DEF Has
          <6> QED
            BY <2>1, <3>4, <3>5, <4>2, <4>4, <5>2, <6>1 DEF Placed
        <5> QED
          BY <3>8, <5>1, <5>2
      <4> QED
        BY <3>10, <4>3, <4>4 DEF Rest
    <3>11. CASE /\ todo = <<DataOf(n)>>
                /\ pos <= Limit => /\ Has(headers[n].offset, LocalOf(n))
                                   /\ Has(NameAt1(n), NameOf(n))
                                   /\ DataAt(n) = pos
      <4>1. Head(todo) = DataOf(n) /\ todo' = <<>>
        BY <1>1, <3>11, Split
      <4>2. ASSUME pos' <= Limit PROVE Placed(n)' /\ EndOf(n) = pos'
        <5>1. /\ Has(headers[n].offset, LocalOf(n)) /\ Has(NameAt1(n), NameOf(n))
              /\ DataAt(n) = pos
          BY <2>1, <3>4, <3>11, <4>2
        <5>2. Has(headers[n].offset, LocalOf(n))'
          <6>1. /\ headers[n].offset \in Nat /\ headers[n].offset + Len(LocalOf(n)) <= pos'
                /\ \A i \in 1..Len(LocalOf(n)) : Archive'[headers[n].offset + i] = LocalOf(n)[i]
            BY <1>1, <3>4, <5>1, HasKept
          <6> QED
            BY <3>3, <6>1 DEF Has
        <5>3. Has(NameAt1(n), NameOf(n))'
          <6>1. /\ NameAt1(n) \in Nat /\ NameAt1(n) + Len(NameOf(n)) <= pos'
                /\ \A i \in 1..Len(NameOf(n)) : Archive'[NameAt1(n) + i] = NameOf(n)[i]
            BY <1>1, <3>4, <5>1, HasKept
          <6> QED
            BY <3>3, <6>1 DEF Has
        <5>4. Has(DataAt(n), DataOf(n))'
          <6>1. /\ pos + Len(DataOf(n)) <= pos'
                /\ \A i \in 1..Len(DataOf(n)) : Archive'[pos + i] = DataOf(n)[i]
            BY <1>1, <4>1, HasNew
          <6> QED
            BY <2>1, <3>3, <5>1, <6>1 DEF Has
        <5> QED
          BY <2>1, <3>4, <3>5, <4>1, <5>1, <5>2, <5>3, <5>4 DEF Placed
      <4> QED
        BY <3>8, <4>1, <4>2
    <3> QED
      BY <3>2, <3>9, <3>10, <3>11 DEF Stage
  <2> QED
    BY <1>1, <2>3, <2>4
<1> QED
  BY <1>2, <1>3 DEF IInv

LEMMA DestroyIInv == ASSUME IInv, Destroy PROVE IInv'
<1>1. /\ phase = "ready" /\ todo = <<>> /\ phase' = "closing" /\ todo' = Directory
      /\ UNCHANGED <<medium, refused, headers, currOffset, sizeOfCD, cursor, added>>
  BY DEF Destroy, Idle
<1>2. IsSeq(todo') /\ \A k \in 1..Len(todo') : Len(todo'[k]) \in Nat
  <2> DEFINE n == Len(headers)
             last == 2 * n + 2
             whole == Bytes(End(sizeOfCD, currOffset))
  <2>1. n \in Nat /\ last \in Nat
    BY DEF IInv, Types, IsSeq
  <2>2. Len(todo') = last /\ IsSeq(todo')
    <3>1. todo' = [k \in 1..last |-> todo'[k]]
      BY <1>1 DEF Directory
    <3> HIDE DEF last
    <3>2. Len(todo') = last
      BY <2>1, <3>1, LenOf
    <3> QED
      BY <2>1, <3>1, <3>2 DEF IsSeq
  <2>3. ASSUME NEW k \in 1..last PROVE Len(todo'[k]) \in Nat
    <3>1. whole = [i \in 1..EndSize |-> whole[i]] /\ EndSize \in Nat /\ SignatureSize \in 1..EndSize
      BY SizesAssumption DEF Bytes, End
    <3>2. CASE k = last - 1
      <4>1. todo'[k] = SubSeq(whole, 1, SignatureSize)
        BY <1>1, <2>1, <2>3, <3>2 DEF Directory
      <4> HIDE DEF whole
      <4> QED
        BY <3>1, <4>1
    <3>3. CASE k = last
      <4>1. todo'[k] = SubSeq(whole, SignatureSize + 1, EndSize)
        <5>1. k # last - 1
          BY <2>1, <3>3
        <5> QED
          BY <1>1, <2>1, <2>3, <3>3, <5>1 DEF Directory
      <4> HIDE DEF whole
      <4> QED
        BY <3>1, <4>1
    <3>4. CASE k # last - 1 /\ k # last
      <4>1. PICK j : j = (k + 1) \div 2
        OBVIOUS
      <4>2. j \in 1..n
        BY <2>1, <2>3, <3>4, <4>1
      <4>3. Noted(j)
        BY <4>2 DEF IInv, Types
      <4>4. todo'[k] = Bytes(IF k % 2 = 1 THEN Central(headers[j]) ELSE Name(headers[j]))
        BY <1>1, <2>1, <2>3, <3>4, <4>1 DEF Directory
      <4>5. Len(Bytes(Central(headers[j]))) \in Nat /\ Len(Bytes(Name(headers[j]))) \in Nat
        BY <4>3, SizesAssumption DEF Bytes, Central, Name, Noted
      <4> QED
        BY <4>4, <4>5
    <3> QED
      BY <3>2, <3>3, <3>4
  <2> QED
    BY <2>2, <2>3
<1>3. Types'
  <2>1. \A k \in 1..Len(headers') : Noted(k)'
    BY <1>1 DEF IInv, Types, Noted
  <2> QED
    BY <1>1, <1>2, <2>1 DEF IInv, Types, Archive, pos
<1>4. Layout'
  <2>1. \A k \in 1..Len(headers) : Placed(k) => Placed(k)'
    BY <1>1 DEF Placed, Has, NameAt1, DataAt, LocalOf, NameOf, DataOf, pos, Archive
  <2>2. \A k \in 1..Len(headers) : Finished(k)
    BY <1>1 DEF Finished
  <2> QED
    BY <1>1, <2>1, <2>2 DEF IInv, Layout, pos
<1> QED
  BY <1>3, <1>4 DEF IInv

LEMMA CloseIInv == ASSUME IInv, Close \/ Release PROVE IInv'
<1>1. /\ phase \in {"closing", "written"} /\ phase' \in {"written", "closed"}
      /\ UNCHANGED <<medium, refused, headers, currOffset, sizeOfCD, todo, cursor, added>>
  BY DEF Close, Release
<1>2. Types'
  <2>1. \A k \in 1..Len(headers') : Noted(k)'
    BY <1>1 DEF IInv, Types, Noted
  <2> QED
    BY <1>1, <2>1 DEF IInv, Types, Archive, pos
<1>3. Layout'
  <2>1. \A k \in 1..Len(headers) : Placed(k) => Placed(k)'
    BY <1>1 DEF Placed, Has, NameAt1, DataAt, LocalOf, NameOf, DataOf, pos, Archive
  <2>2. \A k \in 1..Len(headers) : Finished(k)
    BY <1>1 DEF Finished
  <2> QED
    BY <1>1, <2>1, <2>2 DEF IInv, Layout, pos
<1> QED
  BY <1>2, <1>3 DEF IInv

LEMMA AddFileFailsIInv ==
  ASSUME IInv, NEW s \in Sources, AddFileFails(s)
  PROVE  IInv'
<1>1. UNCHANGED <<medium, refused, headers, currOffset, sizeOfCD, todo, phase, added>>
  BY DEF AddFileFails
<1> QED
  BY <1>1, Unmoved

LEMMA StopIInv == ASSUME IInv, Stop PROVE IInv'
<1>1. PICK k \in 0..Len(Archive) : medium' = [medium EXCEPT !.file.data = Std!Slice(Archive, 0, k)]
  BY DEF Stop
<1>2. /\ phase' = "stopped"
      /\ UNCHANGED <<refused, headers, currOffset, sizeOfCD, todo, cursor, added>>
  BY DEF Stop
<1>3. IsMedium(medium') /\ pos' = pos
  <2> DEFINE part == Std!Slice(Archive, 0, k)
             f == [medium.file EXCEPT !.data = part]
  <2>1. Len(Archive) \in Nat /\ k \in Nat
    BY DEF IInv, Types, IsMedium, IsFile, Archive
  <2>2. Len(part) = k
    BY <2>1 DEF Std!Slice
  <2>3. f = [data |-> part, pos |-> pos, owns |-> medium.file.owns]
    <3>1. PICK a, b, c : medium.file = [data |-> a, pos |-> b, owns |-> c]
      BY DEF IInv, Types, IsMedium, IsFile
    <3> HIDE DEF part
    <3> QED
      BY <3>1 DEF pos
  <2>4. medium' = [kind |-> medium.kind, file |-> f, room |-> medium.room]
    <3>1. PICK d, e, g : medium = [kind |-> d, file |-> e, room |-> g]
      BY DEF IInv, Types, IsMedium
    <3>2. medium' = [medium EXCEPT !.file = f]
      BY <1>1
    <3> HIDE DEF f
    <3> QED
      BY <3>1, <3>2
  <2>5. medium.kind \in {"stdio", "memory"} /\ medium.room \in Nat
    BY DEF IInv, Types, IsMedium
  <2> HIDE DEF part, f
  <2>6. IsFile(f) /\ f.pos = pos
    BY <2>1, <2>2, <2>3 DEF IsFile
  <2> QED
    BY <2>4, <2>5, <2>6 DEF IsMedium, pos
<1>4. Types'
  <2>1. \A j \in 1..Len(headers') : Noted(j)'
    BY <1>2 DEF IInv, Types, Noted
  <2> QED
    BY <1>2, <1>3, <2>1 DEF IInv, Types
<1>5. Layout'
  BY <1>2 DEF Layout
<1> QED
  BY <1>4, <1>5 DEF IInv

(***************************************************************************)
(* The theorems.                                                           *)
(***************************************************************************)
(* The invariant, from the first state on.                                 *)
THEOREM Inductive == Spec => []IInv
<1>1. Init => IInv
  BY InitIInv
<1>2. IInv /\ [Next]_vars => IInv'
  <2> SUFFICES ASSUME IInv, [Next]_vars PROVE IInv'
    OBVIOUS
  <2>1. CASE \E path \in FilePaths, s \in Sources, method \in Methods : AddFile(path, s, method)
    BY <2>1, AddFileIInv
  <2>2. CASE \E path \in DirPaths : CreateDirectory(path)
    BY <2>2, CreateDirectoryIInv
  <2>3. CASE Write
    BY <2>3, WriteIInv
  <2>4. CASE Destroy
    BY <2>4, DestroyIInv
  <2>5. CASE Close \/ Release
    BY <2>5, CloseIInv
  <2>6. CASE Stop
    BY <2>6, StopIInv
  <2>7. CASE OpenArchive \/ ScanEntry \/ ScanGarbled \/ EndScan \/ UNCHANGED vars
    <3>1. UNCHANGED writerVars
      BY <2>7 DEF OpenArchive, ScanEntry, ScanGarbled, EndScan, vars
    <3> QED
      BY <3>1, Unmoved DEF writerVars
  <2>8. CASE \E s \in Sources : AddFileFails(s)
    BY <2>8, AddFileFailsIInv
  <2> QED
    BY <2>1, <2>2, <2>3, <2>4, <2>5, <2>6, <2>7, <2>8 DEF Next, WriterNext
<1> QED
  BY <1>1, <1>2, PTL DEF Spec

(* Each entry's header, name and data lie where the noted header says,     *)
(* whatever was added, in whatever order, to whatever kind of file, while  *)
(* every write was done and the archive ends within 2^31 (ZipWriter::      *)
(* AddFile and CreateDirectory count offsets, they do not ask the file).   *)
THEOREM EntriesInPlace == Spec => []InPlace
<1>1. IInv => InPlace
  <2> SUFFICES ASSUME IInv, ~refused, phase # "stopped", Len(Archive) <= Limit,
                      NEW k \in DOMAIN headers, Finished(k)
               PROVE  /\ BytesAt(headers[k].offset, LocalSize) = Bytes(Local(headers[k]))
                      /\ BytesAt(headers[k].offset + LocalSize, Len(headers[k].name))
                           = Bytes(Name(headers[k]))
                      /\ BytesAt(headers[k].offset + LocalSize + Len(headers[k].name),
                                 headers[k].compressed)
                           = Encoded(added[k].stored, headers[k].method)
    BY DEF InPlace
  <2>1. Types /\ pos <= Len(Archive) /\ pos <= Limit
    BY WriterAssumption DEF IInv, Types, IsMedium, IsFile, Archive
  <2>2. k \in 1..Len(headers) /\ Noted(k)
    BY <2>1 DEF Types, IsSeq
  <2>3. Placed(k)
    BY <2>1, <2>2 DEF IInv, Layout
  <2>4. /\ Len(LocalOf(k)) = LocalSize /\ Len(NameOf(k)) = Len(headers[k].name)
        /\ Len(DataOf(k)) = headers[k].compressed
    BY <2>2, Sizes
  <2>5. IsSeq(LocalOf(k)) /\ IsSeq(NameOf(k)) /\ IsSeq(DataOf(k))
    <3>1. Local(headers[k]).bytes \in Nat /\ Name(headers[k]).bytes \in Nat
      BY <2>2, SizesAssumption DEF Local, Name, Noted
    <3>2. IsSeq(DataOf(k))
      BY <2>2, EncodedAs DEF DataOf, Noted
    <3> QED
      BY <3>1, <3>2, BytesOf DEF LocalOf, NameOf
  <2>6. BytesAt(headers[k].offset, Len(LocalOf(k))) = LocalOf(k)
    BY <2>1, <2>3, <2>5, Reads DEF Placed
  <2>7. BytesAt(NameAt1(k), Len(NameOf(k))) = NameOf(k)
    BY <2>1, <2>3, <2>5, Reads DEF Placed
  <2>8. BytesAt(DataAt(k), Len(DataOf(k))) = DataOf(k)
    BY <2>1, <2>3, <2>5, Reads DEF Placed
  <2> QED
    BY <2>4, <2>6, <2>7, <2>8 DEF LocalOf, NameOf, DataOf, NameAt1, DataAt
<1> QED
  BY <1>1, Inductive, PTL
=============================================================================

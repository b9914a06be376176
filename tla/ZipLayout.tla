----------------------------- MODULE ZipLayout -----------------------------
(***************************************************************************)
(* What a ZIP file is made of: headers, names, the data of members, and a  *)
(* record at its end.  Operators only.                                     *)
(*                                                                         *)
(* A byte is <<piece, k>>, the k-th byte of a piece: bytes mean something  *)
(* only where all bytes of a piece lie together in order, and then they    *)
(* mean that piece.  What fields the code writes and never reads back      *)
(* (versions, dates, checksum, number of entries) is left out.  The bytes  *)
(* of a stored member are those of its content, which may be an archive    *)
(* with an end record of its own; that a name, a field or a compressed     *)
(* form happens to look like one is left out.                              *)
(***************************************************************************)
EXTENDS Integers, Sequences

CONSTANTS
  LocalSize,    \* sizeof(LocalFileHeader), 30
  CentralSize,  \* sizeof(CentralDirectoryHeader), 46
  EndSize,      \* SizeOf<EndOfCentralDirectoryRecord>(), 22
  SignatureSize,\* the four bytes each of them begins with
  Expansion     \* how many bytes a compressed form has more than its content

ASSUME SizesAssumption ==
  /\ LocalSize \in Nat \ {0}
  /\ CentralSize \in Nat \ {0}
  /\ EndSize \in Nat
  /\ SignatureSize \in 1 .. EndSize - 1
  /\ Expansion \in Nat \ {0}

Methods == {"NONE", "DEFLATE", "LZ4"}

(* LZ4 is not called for a file without content, deflate is and writes a   *)
(* stream that says so.                                                    *)
CompressedSize(content, method) ==
  IF method = "NONE" \/ (method = "LZ4" /\ content = <<>>)
  THEN Len(content) ELSE Len(content) + Expansion

(* The header of an entry: what both of its headers say, and where the     *)
(* local one lies.                                                         *)
Header(name, method, content, offset) ==
  [name |-> name, method |-> method, size |-> Len(content),
   compressed |-> CompressedSize(content, method), offset |-> offset]

(* Pieces, each with the number of its bytes.                              *)
Local(h) == [kind |-> "local", nameLength |-> Len(h.name), bytes |-> LocalSize]

Name(h) == [kind |-> "name", name |-> h.name, bytes |-> Len(h.name)]

Data(content, method) ==
  [kind |-> "data", content |-> content, method |-> method,
   bytes |-> CompressedSize(content, method)]

Central(h) ==
  [kind |-> "central", method |-> h.method, size |-> h.size, compressed |-> h.compressed,
   nameLength |-> Len(h.name), offset |-> h.offset, bytes |-> CentralSize]

End(size, offset) ==
  [kind |-> "end", size |-> size, offset |-> offset, bytes |-> EndSize]

(* A byte nobody has set.                                                  *)
Junk == <<[kind |-> "junk", bytes |-> 0], 0>>

(* A byte of a content, of no piece.                                       *)
Plain(v) == <<[kind |-> "plain", value |-> v, bytes |-> 0], 0>>

(* A byte of somebody else's, of no piece either.                          *)
Foreign == <<[kind |-> "foreign", bytes |-> 0], 0>>

Bytes(piece) == [k \in 1..piece.bytes |-> <<piece, k>>]

(* The data of a member.                                                   *)
Encoded(content, method) ==
  IF method = "NONE" THEN content ELSE Bytes(Data(content, method))

(* Some whole piece of that kind.                                          *)
IsPiece(bytes, kind) ==
  bytes # <<>> /\ bytes = Bytes(bytes[1][1]) /\ bytes[1][1].kind = kind

Piece(bytes) == bytes[1][1]

(* The signature of a record, which is the same for all of them.           *)
IsSigned(bytes) ==
  SignatureSize <= Len(bytes) /\ \A k \in 1..SignatureSize : bytes[k][1].kind = "end" /\ bytes[k][2] = k

(* Nothing follows from bytes that nobody has set.                         *)
Unset(bytes) == \E k \in 1..Len(bytes) : bytes[k] = Junk
=============================================================================

--------------------------- MODULE MCZipRoundTrip ---------------------------
(***************************************************************************)
(* An instance of ZipRoundTrip for TLC.                                    *)
(***************************************************************************)
EXTENDS ZipRoundTrip

Others(n) == [i \in 1..n |-> Foreign]

(* A disk with room for everything, one that gets full; a MemRefFile just  *)
(* made, one that was used before, views that fit some archives exactly.   *)
MCMedia ==
  {OnDisk(99), OnDisk(13), InBuffer(Mem!New),
   InBuffer(Mem!SetPosition(Mem!Owned(Others(40)), 3))}
  \cup {InBuffer(Mem!View(Others(n))) : n \in {11, 13, 22}}

(* The source in memory is an empty archive.                               *)
MCContent == [s \in {"s", "m", "e"} |->
                CASE s = "s" -> <<Plain(1), Plain(2)>>
                  [] s = "m" -> Bytes(End(0, 0))
                  [] s = "e" -> <<>>]

MCStale == Plain(0)

(* A disk; and an archive with an entry, in memory.  Of its bytes those of *)
(* the record are told apart: what lies where the record says, counted     *)
(* from the beginning of the outer archive, is not its directory.          *)
NestedMedia == {OnDisk(99)}

NestedContent ==
  LET before == LocalSize + 1 + CentralSize + 1
  IN  [s \in {"m"} |-> [i \in 1 .. before |-> Plain(i)] \o Bytes(End(CentralSize + 1, LocalSize + 1))]

MCFilePaths == {<<"f">>, <<"d", "\\", "f">>}
MCDirPaths  == {<<"d">>, <<"f", "\\">>}
MCSlashes   == {"/", "\\"}
=============================================================================

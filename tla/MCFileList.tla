----------------------------- MODULE MCFileList -----------------------------
(***************************************************************************)
(* Instances of FileList for TLC.  Characters: 1 is a space, 2 the slash,  *)
(* 3 and 4 are letters ("a" and "b").                                      *)
(***************************************************************************)
EXTENDS FileList

(* a  b  ab  a/  ab/  a/a  a/b  a/ba  ab/a  a/a/a  a/b/                     *)
MCPaths == {<<3>>, <<4>>, <<3, 4>>, <<3, 2>>, <<3, 4, 2>>, <<3, 2, 3>>, <<3, 2, 4>>,
            <<3, 2, 4, 3>>, <<3, 4, 2, 3>>, <<3, 2, 3, 2, 3>>, <<3, 2, 4, 2>>}

(* ... and some that no archive has.                                       *)
MCKeys == MCPaths \cup {<<4, 4>>, <<3, 2, 3, 3>>, <<4, 2, 3>>, <<3, 2, 3, 2, 4>>,
                        <<3, 2, 3, 2, 3, 2, 3>>}

(* The root, and directories with the slash at the end.                    *)
MCSlashed == {<<>>, <<3, 2>>, <<3, 4, 2>>, <<4, 2>>, <<3, 2, 3, 2>>}

MCNone == {}

(* Archives of up to n entries.                                            *)
UpTo(n, paths) == UNION {[1 .. k -> paths] : k \in 1 .. n}

(* Those where every depth has an entry.                                   *)
MCArchives == {s \in UpTo(4, MCPaths) : GapFree(s)}

(* "a/a" alone, and with "b" and "a/a/a": a depth without entries.         *)
MCGappy == {<<<<3, 2, 3>>>>, <<<<4>>, <<3, 2, 3, 2, 3>>>>}

(* Names in one directory, many of them with a common beginning ...        *)
MCNames == {<<3>>, <<3, 3>>, <<3, 3, 3>>, <<3, 4>>, <<3, 4, 4>>, <<4>>, <<4, 4>>}

MCNameKeys == MCNames \cup {<<3, 3, 4>>, <<3, 4, 3>>, <<4, 3>>, <<>>, <<4, 4, 4>>}

(* ... in archives that list them in descending order, so that each set of *)
(* names is sorted once.                                                   *)
MCNameArchives ==
  {s \in UpTo(5, MCNames) : \A k \in 1 .. Len(s) - 1 : LessString(s[k + 1], s[k])}

(* Both kinds of archives.                                                 *)
MCAllPaths    == MCPaths \cup MCNames
MCAllKeys     == MCKeys \cup MCNameKeys
MCAllArchives == MCArchives \cup MCNameArchives
=============================================================================

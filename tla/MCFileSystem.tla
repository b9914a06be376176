---------------------------- MODULE MCFileSystem ----------------------------
(***************************************************************************)
(* A small FileSystem.  Three directories: the current one (c), one that   *)
(* is or is not a search path (r), and a system place (s).  One archive.   *)
(***************************************************************************)
EXTENDS FileSystem

CONSTANTS t1, t2, zip, none, nobody

MCThreads == {t1, t2}
MCRoots == {"c", "r", "s"}
MCTree == {<<"c">>, <<"c", "f">>, <<"c", "d">>, <<"c", "d", "f">>,
           <<"r">>, <<"r", "f">>, <<"r", "d">>, <<"r", "d", "f">>,
           <<"s">>, <<"s", "f">>}

MCContents == [a \in {zip} |-> {<<<<"f">>, "file">>, <<<<"d">>, "directory">>,
                                <<<<"d", "f">>, "file">>}]

(* One thread makes the calls, the other changes the tables.               *)
MCOps == [t \in MCThreads |->
            IF t = t1
            THEN {"exists", "open", "write", "rename", "remove", "createDirectory"}
            ELSE {"push", "pop", "clear", "mount"}]

MCDisk(files, directories, links) ==
  [p \in MCTree |->
     IF p \in files THEN "file" ELSE IF p \in directories THEN "directory"
     ELSE IF p \in links THEN "fileLink" ELSE "none"]

MCDisks ==
  {MCDisk({<<"r", "d", "f">>}, {<<"c">>, <<"r">>, <<"s">>, <<"r", "d">>}, {<<"s", "f">>})}

File(path, to) == Location(path, to, {"file"}, AnyLink)
Folder(path, to) == Location(path, to, {"directory"}, AnyLink)

MCPushPlaces == {Folder(<<"r">>, "absolute"), Folder(<<"d">>, "absolute")}

MCRequests ==
  LET Same(op, l) == Call(op, l, l)
      all == "searchPathsAndArchives"
  IN  { Same("exists", Location(<<"f">>, "system", {"file"}, {"symlink"})),
        Same("exists", File(<<"d", "f">>, all)),
        Same("open", File(<<"f">>, "archives")),
        Same("open", Folder(<<"d">>, all)),
        Same("write", File(<<"f">>, "current")),
        Same("write", File(<<"d", "f">>, all)),
        Same("remove", File(<<"d", "f">>, all)),
        Same("remove", Location(<<"d">>, "searchPaths", Anything, AnyLink)),
        Same("createDirectory", Folder(<<"d">>, "searchPaths")),
        Same("createDirectory", Folder(<<"d", "f">>, "archives")),
        Call("rename", File(<<"f">>, "current"), File(<<"d", "f">>, "searchPaths")),
        Call("rename", File(<<"f">>, "archives"), File(<<"d", "f">>, "current")),
        Call("rename", Folder(<<"d">>, "current"), Folder(<<"d", "d">>, "archives")),
        Call("rename", File(<<"f">>, "current"), File(<<"f">>, "absolute")) }

(* Only calls that are meant for the search paths.                         *)
MCSearchPathCalls ==
  {r \in MCRequests : r.loc.to = "searchPaths" /\ r.dst.to = "searchPaths"}
=============================================================================

------------------------------- MODULE Places -------------------------------
(***************************************************************************)
(* Where a Location may be: paths, what the disk and the archives have     *)
(* there, and what the calls of the operating system do.  Operators only.  *)
(*                                                                         *)
(* A path is a sequence of names; an absolute one begins with a root.      *)
(* There are no dot names in it, so NormalizePath leaves it as it is.      *)
(***************************************************************************)
EXTENDS Integers, Sequences, FiniteSets

CONSTANTS
  Roots,        \* the directories that are always there
  Cwd,          \* the current one
  SystemRoot,   \* what GetSytemPath returns for a place like kTemp
  Tree,         \* bound: the absolute paths that may exist, roots included
  Archives,     \* archives that can be mounted
  Contents,     \* [Archives -> their entries: <<path, "file" or "directory">>]
  NoArchive

ASSUME PlacesAssumption ==
  /\ Cwd \in Roots /\ SystemRoot \in Roots
  /\ Roots \subseteq STRING /\ Tree \subseteq Seq(STRING)
  /\ \A r \in Roots : <<r>> \in Tree
  /\ \A p \in Tree : p # <<>> /\ p[1] \in Roots
  /\ NoArchive \notin Archives

(***************************************************************************)
(* boost or std::filesystem paths.                                         *)
(***************************************************************************)
IsAbsolute(p) == p # <<>> /\ p[1] \in Roots

Join(p, q) == IF IsAbsolute(q) THEN q ELSE p \o q

ParentPath(p) == IF p = <<>> THEN <<>> ELSE SubSeq(p, 1, Len(p) - 1)

FileName(p) == IF p = <<>> THEN <<>> ELSE <<p[Len(p)]>>

Below(p, q) == Len(p) < Len(q) /\ SubSeq(q, 1, Len(p)) = p

(***************************************************************************)
(* Locations.                                                              *)
(***************************************************************************)
Anything == {"file", "directory"}
AnyLink  == {"symlink", "notSymlink"}

(* Options: the places of the system are one here.                         *)
Options == {"absolute", "current", "searchPaths", "archives", "searchPathsAndArchives", "system"}

Location(path, to, type, link) == [path |-> path, to |-> to, type |-> type, link |-> link]

(* Roots are at the beginning of a path or nowhere.                        *)
IsLocation(l) ==
  /\ l = Location(l.path, l.to, l.type, l.link)
  /\ l.path \in Seq(STRING) /\ \A k \in 2 .. Len(l.path) : l.path[k] \notin Roots
  /\ l.to \in Options /\ l.type \subseteq Anything /\ l.link \subseteq AnyLink

\* Mutant: the folder is looked for where a Location is by default.
ParentLocationHere(l) == Location(ParentPath(l.path), "current", {"directory"}, AnyLink)

(* Location(parent_path(), m_relartiveTo, kDirectory).                     *)
ParentLocation(l) == Location(ParentPath(l.path), l.to, {"directory"}, AnyLink)

(* GetFullPath, and what the operating system makes of it.  For kAbsolute  *)
(* nothing is added, and for kSearchPaths and kArchives GetSytemPath       *)
(* returns "": a relative path is left, which the system looks up in the   *)
(* current directory.                                                      *)
FullPath(l) == Join(IF l.to = "system" THEN <<SystemRoot>> ELSE <<Cwd>>, l.path)

(* "The path is specified as absolute, but is not recognized as absolute". *)
Misplaced(l) == l.to = "absolute" /\ ~IsAbsolute(l.path)

InSearchPaths(l) == l.to \in {"current", "searchPaths", "searchPathsAndArchives"}
InArchives(l) == l.to \in {"archives", "searchPathsAndArchives"}

(***************************************************************************)
(* The disk: the kind of what is at each path.                             *)
(***************************************************************************)
Kinds == {"none", "file", "directory", "fileLink", "directoryLink"}

Kind(d, p) == IF p \in Tree THEN d[p] ELSE "none"
IsDirectory(k) == k \in {"directory", "directoryLink"}
IsFile(k) == k \in {"file", "fileLink"}
IsLink(k) == k \in {"fileLink", "directoryLink"}

(* fs::exists and CheckAttributes.                                         *)
Matches(d, p, l) ==
  LET k == Kind(d, p)
  IN  /\ k # "none"
      /\ \/ "file" \in l.type /\ IsFile(k)
         \/ "directory" \in l.type /\ IsDirectory(k)
      /\ \/ "symlink" \in l.link /\ IsLink(k)
         \/ "notSymlink" \in l.link /\ ~IsLink(k)

TypeAt(d, p) == IF IsDirectory(Kind(d, p)) THEN {"directory"} ELSE {"file"}

(* What a call of the operating system did.                                *)
Did(d, ok, threw) == [disk |-> d, ok |-> ok, threw |-> threw]

(* A disk is a tree: what is below something is in a directory.            *)
Rooted(d) ==
  \A p \in Tree : d[p] # "none" /\ Len(p) > 1 => IsDirectory(Kind(d, ParentPath(p)))

IsEmpty(d, p) == \A q \in Tree : Below(p, q) => d[q] = "none"

(* fs::create_directory throws, except where the directory is there.       *)
MakeDirectory(d, p) ==
  IF Kind(d, p) = "none" /\ p \in Tree /\ IsDirectory(Kind(d, ParentPath(p)))
  THEN Did([d EXCEPT ![p] = "directory"], TRUE, FALSE)
  ELSE Did(d, FALSE, ~IsDirectory(Kind(d, p)))

(* fs::remove throws when a directory is not empty.                        *)
RemoveOne(d, p) ==
  IF Kind(d, p) = "none" THEN Did(d, FALSE, FALSE)
  ELSE IF IsEmpty(d, p) THEN Did([d EXCEPT ![p] = "none"], TRUE, FALSE)
  ELSE Did(d, FALSE, TRUE)

RemoveAll(d, p) ==
  IF Kind(d, p) = "none" THEN Did(d, FALSE, FALSE)
  ELSE Did([q \in Tree |-> IF q = p \/ Below(p, q) THEN "none" ELSE d[q]], TRUE, FALSE)

(* fs::rename takes what is below along.  It replaces a file by a file, a  *)
(* link (and with it what was reached through it), and an empty directory  *)
(* by a directory.  (A move out of Tree is refused: a bound.)              *)
Renamed(d, p, q) ==
  LET below == {r \in Tree : Below(p, r) /\ d[r] # "none"}
      moved(r) == q \o SubSeq(r, Len(p) + 1, Len(r))
      into(r) == {s \in {p} \cup below : moved(s) = r}
      fits == /\ q \in Tree /\ p # q /\ ~Below(p, q)
              /\ IsDirectory(Kind(d, ParentPath(q)))
              /\ \A r \in below : moved(r) \in Tree
      replaces == \/ Kind(d, q) = "none"
                  \/ d[p] # "directory" /\ d[q] # "directory"
                  \/ d[p] = "directory" /\ d[q] = "directory" /\ IsEmpty(d, q)
  IN  IF p = q THEN Did(d, Kind(d, p) # "none", FALSE)
      ELSE IF Kind(d, p) # "none" /\ fits /\ replaces
      THEN Did([r \in Tree |->
                  IF into(r) # {} THEN d[CHOOSE s \in into(r) : TRUE]
                  ELSE IF r = p \/ Below(p, r) \/ Below(q, r) THEN "none"
                  ELSE d[r]], TRUE, FALSE)
      ELSE Did(d, FALSE, FALSE)

(* fopen: creates a file when the mode writes.                             *)
OpenedFile(d, p, creates) ==
  IF IsFile(Kind(d, p)) THEN Did(d, TRUE, FALSE)
  ELSE IF creates /\ p \in Tree /\ Kind(d, p) = "none" /\ IsDirectory(Kind(d, ParentPath(p)))
  THEN Did([d EXCEPT ![p] = "file"], TRUE, FALSE)
  ELSE Did(d, FALSE, FALSE)

(***************************************************************************)
(* Archives.                                                               *)
(***************************************************************************)
(* Exists of a reader: directories have entries of their own, which are    *)
(* found only when nothing but a directory is asked for.                   *)
HasEntry(a, p, type) ==
  <<p, IF type = {"directory"} THEN "directory" ELSE "file">> \in Contents[a]

(* What Find returns: the place, its type and the archive it is in.        *)
Found(path, type, archive) == [ok |-> TRUE, path |-> path, type |-> type, archive |-> archive]
Missing == [ok |-> FALSE, path |-> <<>>, type |-> {}, archive |-> NoArchive]

Unknown == [Missing EXCEPT !.type = {"unknown"}]

FoundOnDisk(d, p) == Found(p, TypeAt(d, p), NoArchive)

InArchive(mounted, l) ==
  LET hits == {k \in 1 .. Len(mounted) : HasEntry(mounted[k], l.path, l.type)}
  IN  IF ~InArchives(l) \/ hits = {} THEN Missing
      ELSE LET first == CHOOSE k \in hits : \A j \in hits : k <= j
           IN  Found(l.path, l.type, mounted[first])

(***************************************************************************)
(* Where a location is, at one instant: in the current directory (or the   *)
(* place it names), else in the search paths, the first pushed first, else *)
(* in the archives, the first mounted first.                               *)
(***************************************************************************)
Candidates(paths, l) ==
  (IF l.to = "archives" THEN <<>> ELSE <<FullPath(l)>>)
    \o (IF InSearchPaths(l) THEN [k \in 1 .. Len(paths) |-> Join(paths[k], l.path)] ELSE <<>>)

FirstMatch(d, paths, mounted, l) ==
  LET places == Candidates(paths, l)
      hits   == {k \in 1 .. Len(places) : Matches(d, places[k], l)}
  IN  IF Misplaced(l) THEN Missing
      ELSE IF hits # {} THEN FoundOnDisk(d, places[CHOOSE k \in hits : \A j \in hits : k <= j])
      ELSE InArchive(mounted, l)
=============================================================================

----------------------------- MODULE FileSystem -----------------------------
(***************************************************************************)
(* FileSystem: every instance shares one FsalImplementation (a singleton): *)
(* the search paths, the mounted archives and one mutex.  Find looks at    *)
(* the place itself with no lock, at the search paths under the mutex, and *)
(* at the archives under the mutex, taken again.  Open, Rename, Remove and *)
(* CreateDirectory call Find once or twice and then act on the disk with   *)
(* no lock.  MountArchive takes no lock.                                   *)
(***************************************************************************)
EXTENDS Places

CONSTANTS
  Threads, NoThread,
  Ops,           \* [Threads -> the calls each thread makes]
  Requests,      \* the calls: see Call
  PushPlaces,    \* what PushSearchPath is given
  Disks,         \* what may be on the disk at the start
  MaxPaths,      \* bound on the search paths
  MaxMounted     \* bound on the mounted archives

(* Only Rename has a destination of its own; that of the others is loc.    *)
Call(op, l, dst) == [op |-> op, loc |-> l, dst |-> dst]

ASSUME CallsAssumption ==
  /\ NoThread \notin Threads
  /\ MaxPaths \in Nat /\ MaxMounted \in Nat
  /\ Disks \subseteq [Tree -> Kinds] /\ \A d \in Disks : Rooted(d)
  /\ \A l \in PushPlaces : IsLocation(l) /\ l.to # "archives"
  /\ \A c \in Requests :
       /\ c = Call(c.op, c.loc, c.dst)
       /\ c.op \in {"exists", "open", "write", "rename", "remove", "createDirectory"}
       /\ IsLocation(c.loc) /\ IsLocation(c.dst)
       /\ c.op # "rename" => c.dst = c.loc
  \* Two threads that mount at once race inside push_back itself.
  /\ \A t, u \in Threads : "mount" \in Ops[t] \cap Ops[u] => t = u

VARIABLES
  disk,
  searchPaths, mounted,   \* FsalImplementation
  mutex,                  \* searchPathsMutex
  pc,                     \* where each thread is
  call,                   \* its call: operation, location, destination
  goal,                   \* what Find is looking for: "target" or "parent"
  place,                  \* the iterator of Find's loops
  found,                  \* what Find returned
  source,                 \* Rename: what its first Find returned
  result,                 \* what the last call returned
  steady,                 \* nobody changed the search paths since the call began
  seen                    \* what has been a search path since it began

sharedVars == <<searchPaths, mounted, mutex>>
findVars   == <<place, found>>
callVars   == <<call, goal, source>>
vars == <<disk, sharedVars, pc, callVars, findVars, result, steady, seen>>

NoLocation == Location(<<>>, "none", {}, {})
NoCall == Call("none", NoLocation, NoLocation)

Returned(ok, threw) == [ok |-> ok, threw |-> threw]

Init ==
  /\ disk \in Disks
  /\ searchPaths = <<>> /\ mounted = <<>>
  /\ mutex = NoThread
  /\ pc = [t \in Threads |-> "idle"]
  /\ call = [t \in Threads |-> NoCall]
  /\ goal = [t \in Threads |-> "target"]
  /\ place = [t \in Threads |-> 1]
  /\ found = [t \in Threads |-> Missing]
  /\ source = [t \in Threads |-> Missing]
  /\ result = [t \in Threads |-> Returned(FALSE, FALSE)]
  /\ steady = [t \in Threads |-> TRUE]
  /\ seen = [t \in Threads |-> {}]

(***************************************************************************)
(* Search paths and archives.                                              *)
(***************************************************************************)
Among(paths) == {paths[k] : k \in 1 .. Len(paths)}

\* Mutant: the mutex is not taken.
PathsBecomeUnlocked(paths) ==
  /\ searchPaths' = paths
  /\ steady' = [u \in Threads |-> pc[u] = "idle" \/ (paths = searchPaths /\ steady[u])]
  /\ seen' = [u \in Threads |-> IF pc[u] = "idle" THEN {} ELSE seen[u] \cup Among(paths)]
  /\ UNCHANGED <<disk, mounted, mutex, pc, callVars, findVars, result>>

PathsBecome(paths) ==
  /\ mutex = NoThread
  /\ searchPaths' = paths
  /\ steady' = [u \in Threads |-> pc[u] = "idle" \/ (paths = searchPaths /\ steady[u])]
  /\ seen' = [u \in Threads |-> IF pc[u] = "idle" THEN {} ELSE seen[u] \cup Among(paths)]
  /\ UNCHANGED <<disk, mounted, mutex, pc, callVars, findVars, result>>

PushSearchPath(t, l) ==
  /\ "push" \in Ops[t] /\ pc[t] = "idle"
  /\ Len(searchPaths) < MaxPaths
  /\ PathsBecome(Append(searchPaths, FullPath(l)))

PopSearchPath(t) ==
  /\ "pop" \in Ops[t] /\ pc[t] = "idle"
  /\ searchPaths # <<>>
  /\ PathsBecome(SubSeq(searchPaths, 1, Len(searchPaths) - 1))

ClearSearchPaths(t) ==
  /\ "clear" \in Ops[t] /\ pc[t] = "idle"
  /\ PathsBecome(<<>>)

(* What a scan of the archives may return when the vector grows under it:  *)
(* its iterators may be those of the old storage.                          *)
TornScan(l) ==
  {Missing} \cup {Found(l.path, l.type, a) : a \in {b \in Archives : HasEntry(b, l.path, l.type)}}

Goal(t) == IF goal[t] = "target" THEN call[t].loc ELSE ParentLocation(call[t].dst)

(* No lock: a thread that is scanning loses its iterators.                 *)
MountArchive(t, a) ==
  /\ "mount" \in Ops[t] /\ pc[t] = "idle"
  /\ Len(mounted) < MaxMounted
  /\ mounted' = Append(mounted, a)
  /\ pc' = [u \in Threads |-> IF pc[u] = "third" THEN "torn" ELSE pc[u]]
  /\ found' \in [Threads -> UNION {{found[u]} \cup TornScan(Goal(u)) : u \in Threads}]
  /\ \A u \in Threads : IF pc[u] \in {"third", "torn"}
                        THEN found'[u] \in TornScan(Goal(u))
                        ELSE found'[u] = found[u]
  /\ UNCHANGED <<disk, searchPaths, mutex, callVars, place, result, steady, seen>>

(***************************************************************************)
(* Find.                                                                   *)
(***************************************************************************)
At(t, label) == pc[t] = label
Go(t, label) == pc' = [pc EXCEPT ![t] = label]

FindReturns(t, f) ==
  /\ Go(t, "found")
  /\ found' = [found EXCEPT ![t] = f]

ToArchives(t) ==
  IF InArchives(Goal(t))
  THEN Go(t, "lockArchives") /\ UNCHANGED found
  ELSE FindReturns(t, Missing)

(* The place itself.  exists, CheckAttributes and is_directory in one      *)
(* step: only the threads of this model change the disk.                   *)
FirstCheck(t) ==
  LET l == Goal(t)
  IN  /\ At(t, "first")
      /\ IF Misplaced(l) THEN FindReturns(t, Missing)
         ELSE IF l.to # "archives" /\ Matches(disk, FullPath(l), l)
         THEN FindReturns(t, FoundOnDisk(disk, FullPath(l)))
         ELSE IF InSearchPaths(l) THEN Go(t, "lockPaths") /\ UNCHANGED found
         ELSE ToArchives(t)
      /\ UNCHANGED <<disk, sharedVars, callVars, place, result, steady, seen>>

Lock(t, from, to) ==
  /\ At(t, from)
  /\ mutex = NoThread
  /\ mutex' = t
  /\ place' = [place EXCEPT ![t] = 1]
  /\ Go(t, to)
  /\ UNCHANGED <<disk, searchPaths, mounted, callVars, found, result, steady, seen>>

Unlock(t) == mutex' = IF mutex = t THEN NoThread ELSE mutex

\* Mutant: the lock of the first loop is held when the second asks for it.
SecondCheckLocked(t) ==
  /\ At(t, "second")
  /\ IF place[t] > Len(searchPaths)
     THEN ToArchives(t) /\ UNCHANGED <<place, mutex>>
     ELSE LET p == Join(searchPaths[place[t]], Goal(t).path)
          IN  IF Matches(disk, p, Goal(t))
              THEN FindReturns(t, FoundOnDisk(disk, p)) /\ Unlock(t) /\ UNCHANGED place
              ELSE /\ place' = [place EXCEPT ![t] = @ + 1]
                   /\ UNCHANGED <<pc, found, mutex>>
  /\ UNCHANGED <<disk, searchPaths, mounted, callVars, result, steady, seen>>

(* One search path; after the last one, what follows the loop.             *)
SecondCheck(t) ==
  /\ At(t, "second")
  /\ IF place[t] > Len(searchPaths)
     THEN ToArchives(t) /\ Unlock(t) /\ UNCHANGED place
     ELSE LET p == Join(searchPaths[place[t]], Goal(t).path)
          IN  IF Matches(disk, p, Goal(t))
              THEN FindReturns(t, FoundOnDisk(disk, p)) /\ Unlock(t) /\ UNCHANGED place
              ELSE /\ place' = [place EXCEPT ![t] = @ + 1]
                   /\ UNCHANGED <<pc, found, mutex>>
  /\ UNCHANGED <<disk, searchPaths, mounted, callVars, result, steady, seen>>

(* One archive.                                                            *)
ThirdCheck(t) ==
  /\ At(t, "third")
  /\ IF place[t] > Len(mounted)
     THEN FindReturns(t, Missing) /\ Unlock(t) /\ UNCHANGED place
     ELSE IF HasEntry(mounted[place[t]], Goal(t).path, Goal(t).type)
     THEN /\ FindReturns(t, Found(Goal(t).path, Goal(t).type, mounted[place[t]]))
          /\ Unlock(t) /\ UNCHANGED place
     ELSE /\ place' = [place EXCEPT ![t] = @ + 1]
          /\ UNCHANGED <<pc, found, mutex>>
  /\ UNCHANGED <<disk, searchPaths, mounted, callVars, result, steady, seen>>

ThirdCheckTorn(t) ==
  /\ At(t, "torn")
  /\ Go(t, "found")
  /\ Unlock(t)
  /\ UNCHANGED <<disk, searchPaths, mounted, callVars, findVars, result, steady, seen>>

Find(t) ==
  \/ FirstCheck(t)
  \/ SecondCheck(t)
  \/ ThirdCheck(t)
  \/ ThirdCheckTorn(t)

(***************************************************************************)
(* Calls.                                                                  *)
(***************************************************************************)
Begin(t, c) ==
  /\ pc[t] = "idle"
  /\ c.op \in Ops[t]
  /\ IF c.op = "rename" /\ (Misplaced(c.loc) \/ Misplaced(c.dst))
     THEN /\ result' = [result EXCEPT ![t] = Returned(FALSE, FALSE)]
          /\ UNCHANGED <<pc, call, goal, seen>>
     ELSE /\ call' = [call EXCEPT ![t] = c]
          /\ goal' = [goal EXCEPT ![t] = "target"]
          /\ seen' = [seen EXCEPT ![t] = Among(searchPaths)]
          /\ Go(t, "first")
          /\ UNCHANGED result
  /\ UNCHANGED <<disk, sharedVars, findVars, source, steady>>

Doing(t, ops) == At(t, "found") /\ call[t].op \in ops

(* The call ends, with what the operating system did.                      *)
Return(t, did) ==
  /\ disk' = did.disk
  /\ result' = [result EXCEPT ![t] = Returned(did.ok, did.threw)]
  /\ call' = [call EXCEPT ![t] = NoCall]
  /\ goal' = [goal EXCEPT ![t] = "target"]
  /\ found' = [found EXCEPT ![t] = Missing]
  /\ source' = [source EXCEPT ![t] = Missing]
  /\ place' = [place EXCEPT ![t] = 1]
  /\ steady' = [steady EXCEPT ![t] = TRUE]
  /\ seen' = [seen EXCEPT ![t] = {}]
  /\ Go(t, "idle")
  /\ UNCHANGED sharedVars

Refuse(t) == Return(t, Did(disk, FALSE, FALSE))

(* A relative path, like one found in an archive, is the operating         *)
(* system's business: it means one below the current directory.            *)
Absolute(p) == Join(<<Cwd>>, p)

\* Mutant: nobody asks whether the place is in an archive.
OnDiskAlways(f) == TRUE

OnDisk(f) == f.archive = NoArchive

(* absolutePath / filename: the name to make in the folder that was found. *)
InFolder(t) == Join(found[t].path, FileName(call[t].dst.path))

(* A second Find, for the folder of what is to be made.                    *)
FindParent(t) ==
  /\ \/ Doing(t, {"write", "createDirectory"}) /\ ~found[t].ok
     \/ Doing(t, {"rename"}) /\ found[t].ok
  /\ goal[t] = "target"
  /\ goal' = [goal EXCEPT ![t] = "parent"]
  /\ source' = [source EXCEPT ![t] = found[t]]
  /\ found' = [found EXCEPT ![t] = Missing]
  /\ Go(t, "first")
  /\ UNCHANGED <<disk, sharedVars, call, place, result, steady, seen>>

Exists(t) ==
  /\ Doing(t, {"exists"})
  /\ Return(t, Did(disk, found[t].ok, FALSE))

(* Open in a mode that writes ("write": kWrite, kWriteUpdate) or not.      *)
Open(t) ==
  LET made == goal[t] = "parent"
      path == IF made THEN InFolder(t) ELSE found[t].path
      type == IF made THEN call[t].loc.type ELSE found[t].type
  IN  /\ Doing(t, {"open", "write"})
      /\ call[t].op = "write" /\ ~found[t].ok => made
      /\ IF ~found[t].ok \/ type = {"directory"} THEN Refuse(t)
         ELSE IF OnDisk(found[t])
         THEN Return(t, OpenedFile(disk, Absolute(path), call[t].op = "write"))
         ELSE Return(t, Did(disk, HasEntry(found[t].archive, path, {"file"}), FALSE))

Rename(t) ==
  /\ Doing(t, {"rename"})
  /\ found[t].ok => goal[t] = "parent"
  /\ IF ~found[t].ok \/ ~OnDisk(source[t]) \/ ~OnDisk(found[t]) THEN Refuse(t)
     ELSE Return(t, Renamed(disk, Absolute(source[t].path), Absolute(InFolder(t))))

Remove(t) ==
  /\ Doing(t, {"remove"})
  /\ IF ~found[t].ok \/ ~OnDisk(found[t]) THEN Refuse(t)
     ELSE IF found[t].type = {"directory"}
     THEN Return(t, RemoveAll(disk, Absolute(found[t].path)))
     ELSE Return(t, RemoveOne(disk, Absolute(found[t].path)))

CreateDirectory(t) ==
  /\ Doing(t, {"createDirectory"})
  /\ ~found[t].ok => goal[t] = "parent"
  /\ IF goal[t] = "target" \/ ~found[t].ok \/ ~OnDisk(found[t]) THEN Refuse(t)
     ELSE Return(t, MakeDirectory(disk, Absolute(InFolder(t))))

(***************************************************************************)
(* The specification.                                                      *)
(***************************************************************************)
Configure(t) ==
  \/ \E l \in PushPlaces : PushSearchPath(t, l)
  \/ PopSearchPath(t)
  \/ ClearSearchPaths(t)
  \/ \E a \in Archives : MountArchive(t, a)

LockAny(t) == Lock(t, "lockPaths", "second") \/ Lock(t, "lockArchives", "third")

Finish(t) == Exists(t) \/ Open(t) \/ Rename(t) \/ Remove(t) \/ CreateDirectory(t)

Continue(t) == Find(t) \/ FindParent(t) \/ Finish(t)

Next ==
  \E t \in Threads :
    \/ Configure(t)
    \/ \E c \in Requests : Begin(t, c)
    \/ LockAny(t)
    \/ Continue(t)

Spec == Init /\ [][Next]_vars

(* A thread in a call keeps running; one that asks for the mutex again and *)
(* again while it is released gets it.                                     *)
FairSpec ==
  /\ Spec
  /\ \A t \in Threads : WF_vars(Continue(t)) /\ SF_vars(LockAny(t))

(***************************************************************************)
(* Properties.                                                             *)
(***************************************************************************)
(* The types, and who holds the mutex: the thread in one of Find's loops,  *)
(* nobody else, and no iterator is past the end of its vector.             *)
TypeOK ==
  /\ disk \in [Tree -> Kinds]
  /\ searchPaths \in Seq({FullPath(l) : l \in PushPlaces}) /\ Len(searchPaths) <= MaxPaths
  /\ mounted \in Seq(Archives) /\ Len(mounted) <= MaxMounted
  /\ mutex \in Threads \cup {NoThread}
  /\ \A t \in Threads :
       /\ pc[t] \in {"idle", "first", "lockPaths", "second", "lockArchives", "third", "torn", "found"}
       /\ pc[t] \in {"second", "third", "torn"} <=> mutex = t
       /\ pc[t] = "second" => place[t] \in 1 .. Len(searchPaths) + 1
       /\ pc[t] = "third" => place[t] \in 1 .. Len(mounted) + 1
       /\ call[t] \in Requests \cup {NoCall}
       /\ goal[t] \in {"target", "parent"}
       /\ found[t].archive \in Archives \cup {NoArchive}
       /\ ~OnDisk(found[t]) => found[t].ok /\ found[t].path = Goal(t).path
       /\ result[t] \in [ok : BOOLEAN, threw : BOOLEAN]
       /\ seen[t] \subseteq {FullPath(l) : l \in PushPlaces}

(* A lookup answers where the location was at one instant of the call,     *)
(* whoever pushes and pops search paths meanwhile (FileSystem.cpp:89-161;  *)
(* README.md:9).  When the archives are scanned the answer is settled: the *)
(* disk and the search paths have been seen.                               *)
Asked == [t \in Threads |-> IF pc[t] = "idle" THEN NoLocation ELSE Goal(t)]

Lookup == INSTANCE PathLookup
            WITH Pushed <- {FullPath(l) : l \in PushPlaces},
                 Locations <- {c.loc : c \in Requests} \cup {ParentLocation(c.dst) : c \in Requests},
                 asked <- Asked,
                 answer <- [t \in Threads |->
                              IF pc[t] \in {"torn", "found"} THEN found[t]
                              ELSE IF pc[t] \in {"lockArchives", "third"}
                              THEN InArchive(mounted, Goal(t))
                              ELSE Unknown]

LookupSpec == Lookup!Spec

(* What Open, Rename or CreateDirectory puts at a location is what that    *)
(* location then finds: the folder is looked for in the same order as the  *)
(* thing itself (FileSystem.cpp:175-181, 255-257, 314-316).  Not promised  *)
(* when the search paths changed on the way.                               *)
MadeIsFound ==
  [][\A t \in Threads :
       pc[t] = "found" /\ goal[t] = "parent" /\ pc'[t] = "idle" /\ steady[t] =>
         LET made == Absolute(InFolder(t))
             dst  == call[t].dst
         IN  Kind(disk, made) = "none" /\ Matches(disk', made, dst) =>
               FirstMatch(disk', searchPaths, mounted, dst) = FoundOnDisk(disk', made)]_vars

(* A call changes the disk only at a place of its location or its          *)
(* destination, and below: at its own place, and, where search paths       *)
(* count, below one that was a search path at some time during that very   *)
(* call, whoever pushes and pops meanwhile (FileSystem.cpp:181, 198, 261,  *)
(* 283, 318).  A location in the archives never reaches the disk.  The     *)
(* code gives two places that its documentation does not: a kSearchPaths   *)
(* location has a place in the current directory, and a kCurrentDirectory  *)
(* one has places below the search paths; PlaceAsDocumented is about these. *)
MayStandFor(t, l) ==
  (IF l.to = "archives" THEN {} ELSE {Absolute(FullPath(l))})
    \cup (IF InSearchPaths(l) THEN {Absolute(Join(p, l.path)) : p \in seen[t]} ELSE {})

StaysInPlace ==
  [][disk' # disk =>
       \E t \in Threads :
         /\ pc[t] = "found" /\ pc'[t] = "idle"
         /\ \A q \in Tree : disk'[q] # disk[q] =>
              \E p \in MayStandFor(t, call[t].loc) \cup MayStandFor(t, call[t].dst) :
                q = p \/ Below(p, q)]_vars

(* Every call returns: Find releases the mutex on every path, also between *)
(* its two loops, which take it one after the other.                       *)
CallsReturn == \A t \in Threads : pc[t] # "idle" ~> pc[t] = "idle"

(* Location.h:15-16: a kCurrentDirectory path is "treated as a relative to *)
(* the current directory", a kSearchPaths path "as a relative to all       *)
(* current searchpaths": what is found is there, or below one of those.    *)
PlaceAsDocumented ==
  \A t \in Threads :
    LET below(places) == \E p \in places : found[t].path = Join(p, Goal(t).path)
    IN  pc[t] = "found" /\ found[t].ok =>
          /\ Goal(t).to = "current" => below({<<Cwd>>})
          /\ Goal(t).to = "searchPaths" => below(seen[t])
=============================================================================

-------------------------- MODULE FileSystemProofs --------------------------
(***************************************************************************)
(* For every number of threads, every disk, and whatever is pushed and     *)
(* mounted: FileSystem.tla.                                                *)
(***************************************************************************)
EXTENDS FileSystem, SequenceTheorems, TLAPS

(***************************************************************************)
(* The inductive invariant.                                                *)
(***************************************************************************)
Paths == Seq(STRING)

Pushed == {FullPath(l) : l \in PushPlaces}

Answers == [ok : BOOLEAN, path : Paths, type : SUBSET Anything, archive : Archives \cup {NoArchive}]

Labels == {"idle", "first", "lockPaths", "second", "lockArchives", "third", "torn", "found"}

Types ==
  /\ disk \in [Tree -> Kinds]
  /\ searchPaths \in Seq(Pushed) /\ Len(searchPaths) <= MaxPaths
  /\ mounted \in Seq(Archives) /\ Len(mounted) <= MaxMounted
  /\ mutex \in Threads \cup {NoThread}
  /\ pc \in [Threads -> Labels]
  /\ call \in [Threads -> Requests \cup {NoCall}]
  /\ goal \in [Threads -> {"target", "parent"}]
  /\ place \in [Threads -> Nat]
  /\ found \in [Threads -> Answers]
  /\ source \in [Threads -> Answers]
  /\ result \in [Threads -> [ok : BOOLEAN, threw : BOOLEAN]]
  /\ steady \in [Threads -> BOOLEAN]
  /\ seen \in [Threads -> SUBSET Pushed]

(* A thread outside has no call; one inside has one of its own.            *)
Engaged(t) ==
  /\ pc[t] = "idle" => call[t] = NoCall /\ goal[t] = "target"
  /\ pc[t] # "idle" => call[t] \in Requests /\ call[t].op \in Ops[t]
  /\ goal[t] = "parent" => call[t].op \in {"write", "createDirectory", "rename"}

(* The mutex is held in the loops, and their iterators are in bounds.      *)
Scanning(t) ==
  /\ pc[t] \in {"second", "third", "torn"} <=> mutex = t
  /\ pc[t] = "second" => place[t] \in 1 .. Len(searchPaths) + 1
  /\ pc[t] = "third" => place[t] \in 1 .. Len(mounted) + 1

(* How Find got where it is.                                               *)
Passed(t) ==
  /\ pc[t] \in {"lockPaths", "second", "lockArchives", "third", "torn"} => ~Misplaced(Goal(t))
  /\ pc[t] \in {"lockPaths", "second"} => InSearchPaths(Goal(t))
  /\ pc[t] \in {"lockArchives", "third", "torn"} => InArchives(Goal(t))

(* On the disk, a location is at its own place or below a search path that *)
(* was seen.                                                               *)
Placed(f, l, paths) ==
  f.ok /\ OnDisk(f) =>
    /\ l.to # "archives"
    /\ \/ f.path = FullPath(l)
       \/ InSearchPaths(l) /\ \E p \in paths : f.path = Join(p, l.path)

(* There is no answer before Find returns one, and it is a place of what   *)
(* was looked for.  Rename keeps that of what it moves.                    *)
Answered(t) ==
  /\ pc[t] # "idle" => Among(searchPaths) \subseteq seen[t]
  /\ Placed(found[t], Goal(t), seen[t])
  /\ goal[t] = "parent" /\ call[t].op = "rename" =>
       source[t].ok /\ Placed(source[t], call[t].loc, seen[t])
  /\ pc[t] \notin {"torn", "found"} => found[t] = Missing
  /\ ~found[t].ok => found[t] = Missing
  /\ ~OnDisk(found[t]) => found[t].ok /\ found[t].path = Goal(t).path

Local(t) == Engaged(t) /\ Scanning(t) /\ Passed(t) /\ Answered(t)

IInv == Types /\ \A t \in Threads : Local(t)

(***************************************************************************)
(* Paths and locations.                                                    *)
(***************************************************************************)
LEMMA JoinPath ==
  ASSUME NEW p \in Paths, NEW q \in Paths
  PROVE  Join(p, q) \in Paths
<1>1. p \o q \in Paths
  BY ConcatProperties DEF Paths
<1> QED
  BY <1>1 DEF Join

LEMMA RootPath ==
  ASSUME NEW r \in Roots
  PROVE  <<r>> \in Paths
BY PlacesAssumption DEF Paths

LEMMA ParentPathPath ==
  ASSUME NEW p \in Paths
  PROVE  /\ ParentPath(p) \in Paths
         /\ p = <<>> => ParentPath(p) = <<>>
         /\ p # <<>> => /\ Len(p) \in Nat \ {0}
                        /\ Len(ParentPath(p)) = Len(p) - 1
                        /\ \A k \in 1 .. Len(p) - 1 : ParentPath(p)[k] = p[k]
<1>1. CASE p = <<>>
  BY <1>1 DEF ParentPath
<1>2. CASE p # <<>>
  <2>1. Len(p) \in Nat \ {0} /\ \A k \in 1 .. Len(p) - 1 : p[k] \in STRING
    BY <1>2, EmptySeq, ElementOfSeq DEF Paths
  <2> DEFINE s == SubSeq(p, 1, Len(p) - 1)
  <2>2. /\ s \in Seq(STRING)
        /\ Len(s) = IF 1 <= Len(p) - 1 THEN Len(p) - 1 - 1 + 1 ELSE 0
        /\ \A k \in 1 .. Len(p) - 1 - 1 + 1 : s[k] = p[1 + k - 1]
    <3> HIDE DEF s
    <3> QED
      BY <2>1, SubSeqProperties DEF s
  <2>3. ParentPath(p) = s
    BY <1>2 DEF ParentPath
  <2> HIDE DEF s
  <2> QED
    BY <1>2, <2>1, <2>2, <2>3 DEF Paths
<1> QED
  BY <1>1, <1>2

LEMMA FileNamePath ==
  ASSUME NEW p \in Paths
  PROVE  FileName(p) \in Paths
<1>1. CASE p = <<>>
  BY <1>1 DEF FileName
<1>2. CASE p # <<>>
  <2>1. p[Len(p)] \in STRING
    BY <1>2, EmptySeq, ElementOfSeq DEF Paths
  <2> QED
    BY <1>2, <2>1 DEF FileName, Paths
<1> QED
  BY <1>1, <1>2

LEMMA FullPathPath ==
  ASSUME NEW l, IsLocation(l)
  PROVE  FullPath(l) \in Paths
<1>1. l.path \in Paths
  BY DEF IsLocation, Paths
<1>2. <<SystemRoot>> \in Paths /\ <<Cwd>> \in Paths
  BY RootPath, PlacesAssumption
<1> QED
  BY <1>1, <1>2, JoinPath DEF FullPath

LEMMA ParentIsLocation ==
  ASSUME NEW l, IsLocation(l)
  PROVE  IsLocation(ParentLocation(l))
<1> DEFINE p == ParentLocation(l)
<1>1. /\ p.path = ParentPath(l.path) /\ p.to = l.to /\ p.type = {"directory"} /\ p.link = AnyLink
      /\ p = Location(p.path, p.to, p.type, p.link)
  BY DEF ParentLocation, Location
<1>2. ParentPath(l.path) \in Seq(STRING)
  BY ParentPathPath DEF IsLocation, Paths
<1>3. \A k \in 2 .. Len(ParentPath(l.path)) : ParentPath(l.path)[k] \notin Roots
  <2> DEFINE q == ParentPath(l.path)
  <2>1. l.path \in Paths /\ \A k \in 2 .. Len(l.path) : l.path[k] \notin Roots
    BY DEF IsLocation, Paths
  <2>2. CASE l.path = <<>>
    <3>1. q = <<>>
      BY <2>1, <2>2, ParentPathPath
    <3> HIDE DEF q
    <3>2. Len(q) = 0
      BY <3>1
    <3> QED
      BY <3>2 DEF q
  <2>3. CASE l.path # <<>>
    <3>1. /\ Len(l.path) \in Nat \ {0} /\ Len(q) = Len(l.path) - 1
          /\ \A k \in 1 .. Len(l.path) - 1 : q[k] = l.path[k]
      BY <2>1, <2>3, ParentPathPath
    <3> HIDE DEF q
    <3>2. \A k \in 2 .. Len(q) : q[k] \notin Roots
      BY <2>1, <3>1
    <3> QED
      BY <3>2 DEF q
  <2> QED
    BY <2>2, <2>3
<1> QED
  BY <1>1, <1>2, <1>3 DEF IsLocation, Anything

(* What a call is about is a location, and not the one that stands for none.*)
LEMMA GoalIsLocation ==
  ASSUME IInv, NEW t \in Threads, pc[t] # "idle"
  PROVE  /\ IsLocation(Goal(t)) /\ Goal(t) # NoLocation
         /\ Goal(t) \in {c.loc : c \in Requests} \cup {ParentLocation(c.dst) : c \in Requests}
<1>1. call[t] \in Requests
  BY DEF IInv, Local, Engaged
<1>2. IsLocation(call[t].loc) /\ IsLocation(call[t].dst)
  BY <1>1, CallsAssumption
<1>3. IsLocation(Goal(t))
  BY <1>2, ParentIsLocation DEF Goal
<1>4. Goal(t).to # NoLocation.to
  BY <1>3 DEF IsLocation, Options, NoLocation, Location
<1>5. Goal(t) \in {c.loc : c \in Requests} \cup {ParentLocation(c.dst) : c \in Requests}
  BY <1>1 DEF Goal
<1> QED
  BY <1>3, <1>4, <1>5

LEMMA FoundType ==
  ASSUME NEW p \in Paths, NEW type \in SUBSET Anything, NEW a \in Archives \cup {NoArchive}
  PROVE  /\ Found(p, type, a) \in Answers
         /\ Found(p, type, a).ok /\ Found(p, type, a).path = p
         /\ Found(p, type, a).type = type /\ Found(p, type, a).archive = a
BY DEF Found, Answers

LEMMA MissingType ==
  Missing \in Answers /\ ~Missing.ok /\ OnDisk(Missing) /\ \A l, paths : Placed(Missing, l, paths)
BY DEF Missing, Answers, OnDisk, Paths, Placed

LEMMA PlacedMore ==
  ASSUME NEW paths, NEW more, paths \subseteq more
  PROVE  \A f, l : Placed(f, l, paths) => Placed(f, l, more)
BY DEF Placed

LEMMA FoundOnDiskType ==
  ASSUME NEW d, NEW p \in Paths
  PROVE  /\ FoundOnDisk(d, p) \in Answers
         /\ FoundOnDisk(d, p).ok /\ OnDisk(FoundOnDisk(d, p)) /\ FoundOnDisk(d, p).path = p
<1>1. TypeAt(d, p) \in SUBSET Anything
  BY DEF TypeAt, Anything
<1> QED
  BY <1>1, FoundType DEF FoundOnDisk, OnDisk

(***************************************************************************)
(* The invariant is inductive.                                             *)
(***************************************************************************)
LEMMA InitIInv == Init => IInv
<1> SUFFICES ASSUME Init PROVE IInv
  OBVIOUS
<1>1. Types
  <2>1. searchPaths \in Seq(Pushed) /\ Len(searchPaths) <= MaxPaths
    BY EmptySeq, CallsAssumption DEF Init
  <2>2. mounted \in Seq(Archives) /\ Len(mounted) <= MaxMounted
    BY EmptySeq, CallsAssumption DEF Init
  <2>3. found \in [Threads -> Answers] /\ source \in [Threads -> Answers]
    BY MissingType DEF Init
  <2>4. result \in [Threads -> [ok : BOOLEAN, threw : BOOLEAN]]
    BY DEF Init, Returned
  <2> QED
    BY <2>1, <2>2, <2>3, <2>4, CallsAssumption DEF Init, Types, Labels
<1>2. ASSUME NEW t \in Threads PROVE Local(t)
  <2>1. pc[t] = "idle" /\ call[t] = NoCall /\ goal[t] = "target" /\ found[t] = Missing
        /\ mutex # t
    BY CallsAssumption DEF Init
  <2> QED
    BY <2>1, MissingType DEF Local, Engaged, Scanning, Passed, Answered
<1> QED
  BY <1>1, <1>2 DEF IInv

(* A step leaves a thread's own variables as they are.                     *)
Untouched(u) ==
  /\ pc'[u] = pc[u] /\ call'[u] = call[u] /\ goal'[u] = goal[u]
  /\ place'[u] = place[u] /\ found'[u] = found[u] /\ source'[u] = source[u]

LEMMA GoalUntouched ==
  ASSUME NEW u, Untouched(u)
  PROVE  Goal(u)' = Goal(u)
BY DEF Untouched, Goal

LEMMA OthersLocal ==
  ASSUME NEW u, Local(u), Untouched(u), UNCHANGED <<searchPaths, mounted>>, mutex' = u <=> mutex = u,
         seen'[u] = seen[u]
  PROVE  Local(u)'
<1>1. Goal(u)' = Goal(u) /\ Among(searchPaths)' = Among(searchPaths)
  BY GoalUntouched DEF Among
<1> QED
  BY <1>1 DEF Untouched, Local, Engaged, Scanning, Passed, Answered, OnDisk

(* Only a thread outside the loops changes the search paths.               *)
LEMMA PathsBecomeIInv ==
  ASSUME IInv, NEW paths \in Seq(Pushed), Len(paths) <= MaxPaths, PathsBecome(paths)
  PROVE  IInv'
<1>1. UNCHANGED <<disk, mounted, mutex, pc, callVars, findVars, result>> /\ searchPaths' = paths
      /\ mutex = NoThread
  BY DEF PathsBecome
<1>2. /\ steady' \in [Threads -> BOOLEAN]
      /\ seen' = [u \in Threads |-> IF pc[u] = "idle" THEN {} ELSE seen[u] \cup Among(paths)]
  BY DEF PathsBecome, IInv, Types
<1>3. Among(paths) \subseteq Pushed
  BY ElementOfSeq DEF Among
<1>4. Types'
  BY <1>1, <1>2, <1>3 DEF IInv, Types, callVars, findVars
<1>5. ASSUME NEW u \in Threads PROVE Local(u)'
  <2>1. Local(u) /\ mutex # u
    BY <1>1, CallsAssumption DEF IInv
  <2>2. Goal(u)' = Goal(u)
    BY <1>1 DEF Goal, callVars
  <2>3. Engaged(u)' /\ Scanning(u)' /\ Passed(u)'
    BY <1>1, <2>1, <2>2 DEF Local, Engaged, Scanning, Passed, callVars, findVars
  <2>4. Answered(u)'
    <3>1. UNCHANGED <<pc, found, call, goal, source>> /\ Answered(u)
      BY <1>1, <2>1 DEF Local, callVars, findVars
    <3>2. CASE pc[u] = "idle"
      <4>1. found[u] = Missing /\ goal[u] = "target"
        BY <2>1, <3>1, <3>2 DEF Answered, Local, Engaged
      <4> QED
        BY <3>1, <3>2, <4>1, MissingType DEF Answered
    <3>3. CASE pc[u] # "idle"
      <4>1. seen[u] \subseteq seen'[u] /\ Among(searchPaths') \subseteq seen'[u]
        BY <1>1, <1>2, <3>3
      <4>2. \A f, l : Placed(f, l, seen[u]) => Placed(f, l, seen'[u])
        BY <4>1, PlacedMore
      <4> QED
        BY <2>2, <3>1, <3>3, <4>1, <4>2 DEF Answered, OnDisk
    <3> QED
      BY <3>2, <3>3
  <2> QED
    BY <2>3, <2>4 DEF Local
<1> QED
  BY <1>4, <1>5 DEF IInv

LEMMA ChangePathsIInv ==
  ASSUME IInv, NEW t \in Threads,
         (\E l \in PushPlaces : PushSearchPath(t, l)) \/ PopSearchPath(t) \/ ClearSearchPaths(t)
  PROVE  IInv'
<1>1. searchPaths \in Seq(Pushed) /\ Len(searchPaths) \in Nat /\ Len(searchPaths) <= MaxPaths
      /\ MaxPaths \in Nat
  BY LenProperties, CallsAssumption DEF IInv, Types
<1>2. ASSUME NEW l \in PushPlaces, PushSearchPath(t, l) PROVE IInv'
  <2>1. FullPath(l) \in Pushed
    BY DEF Pushed
  <2>2. /\ Append(searchPaths, FullPath(l)) \in Seq(Pushed)
        /\ Len(Append(searchPaths, FullPath(l))) = Len(searchPaths) + 1
    BY <1>1, <2>1
  <2>3. Len(searchPaths) < MaxPaths /\ PathsBecome(Append(searchPaths, FullPath(l)))
    BY <1>2 DEF PushSearchPath
  <2> DEFINE longer == Append(searchPaths, FullPath(l))
  <2>4. longer \in Seq(Pushed) /\ Len(longer) <= MaxPaths /\ PathsBecome(longer)
    BY <1>1, <2>2, <2>3
  <2> HIDE DEF longer
  <2> QED
    BY <2>4, PathsBecomeIInv
<1>3. CASE PopSearchPath(t)
  <2> DEFINE front == SubSeq(searchPaths, 1, Len(searchPaths) - 1)
  <2>1. front \in Seq(Pushed) /\ Len(front) <= Len(searchPaths)
    <3>1. \A k \in 1 .. Len(searchPaths) - 1 : searchPaths[k] \in Pushed
      BY <1>1, ElementOfSeq
    <3>2. /\ front \in Seq(Pushed)
          /\ Len(front) = IF 1 <= Len(searchPaths) - 1 THEN Len(searchPaths) - 1 - 1 + 1 ELSE 0
      <4> HIDE DEF front
      <4> QED
        BY <1>1, <3>1, SubSeqProperties DEF front
    <3> HIDE DEF front
    <3> QED
      BY <1>1, <3>2
  <2>2. PathsBecome(front)
    BY <1>3 DEF PopSearchPath
  <2> HIDE DEF front
  <2> QED
    BY <1>1, <2>1, <2>2, PathsBecomeIInv
<1>4. CASE ClearSearchPaths(t)
  <2>1. <<>> \in Seq(Pushed) /\ Len(<<>>) <= MaxPaths
    BY <1>1, EmptySeq
  <2> QED
    BY <1>4, <2>1, PathsBecomeIInv DEF ClearSearchPaths
<1> QED
  BY <1>2, <1>3, <1>4

(* What a scan that was overtaken returns is an answer all the same.       *)
LEMMA TornScanType ==
  ASSUME NEW l, IsLocation(l), NEW f \in TornScan(l)
  PROVE  /\ f \in Answers
         /\ ~f.ok => f = Missing
         /\ ~OnDisk(f) => f.ok /\ f.path = l.path
         /\ \A paths : Placed(f, l, paths)
<1>1. CASE f = Missing
  BY <1>1, MissingType
<1>2. ASSUME NEW a \in Archives, f = Found(l.path, l.type, a)
      PROVE  f \in Answers /\ f.ok /\ f.path = l.path /\ \A paths : Placed(f, l, paths)
  <2>1. f \in Answers /\ f.ok /\ f.path = l.path /\ f.archive = a
    BY <1>2, FoundType DEF IsLocation, Paths
  <2> QED
    BY <2>1, PlacesAssumption DEF Placed, OnDisk
<1> QED
  BY <1>1, <1>2, MissingType DEF TornScan

LEMMA MountIInv ==
  ASSUME IInv, NEW t \in Threads, NEW a \in Archives, MountArchive(t, a)
  PROVE  IInv'
<1>1. /\ Len(mounted) < MaxMounted /\ mounted' = Append(mounted, a)
      /\ pc' = [u \in Threads |-> IF pc[u] = "third" THEN "torn" ELSE pc[u]]
      /\ UNCHANGED <<disk, searchPaths, mutex, callVars, place, result, steady, seen>>
      /\ \A u \in Threads : IF pc[u] \in {"third", "torn"}
                            THEN found'[u] \in TornScan(Goal(u)) ELSE found'[u] = found[u]
  BY DEF MountArchive
<1>2. ASSUME NEW u \in Threads
      PROVE  found'[u] \in Answers /\ Local(u)'
  <2>1. Local(u) /\ found[u] \in Answers
    BY DEF IInv, Types
  <2>2. Goal(u)' = Goal(u) /\ Among(searchPaths)' = Among(searchPaths)
    BY <1>1 DEF Goal, callVars, Among
  <2>3. CASE pc[u] \in {"third", "torn"}
    <3>1. found'[u] \in TornScan(Goal(u)) /\ IsLocation(Goal(u))
      BY <1>1, <2>3, GoalIsLocation
    <3>2. /\ found'[u] \in Answers
          /\ ~found'[u].ok => found'[u] = Missing
          /\ ~OnDisk(found'[u]) => found'[u].ok /\ found'[u].path = Goal(u).path
          /\ \A paths : Placed(found'[u], Goal(u), paths)
      BY <3>1, TornScanType
    <3>3. pc'[u] = "torn"
      BY <1>1, <2>3
    <3> QED
      BY <1>1, <2>1, <2>2, <2>3, <3>2, <3>3
      DEF Local, Engaged, Scanning, Passed, Answered, OnDisk, callVars
  <2>4. CASE pc[u] \notin {"third", "torn"}
    <3>1. found'[u] = found[u] /\ pc'[u] = pc[u]
      BY <1>1, <2>4
    <3> QED
      BY <1>1, <2>1, <2>2, <2>4, <3>1
      DEF Local, Engaged, Scanning, Passed, Answered, OnDisk, callVars
  <2> QED
    BY <2>3, <2>4
<1>3. Types'
  <2>1. found' \in [Threads -> Answers]
    <3>1. DOMAIN found' = Threads /\ found' = [u \in Threads |-> found'[u]]
      BY DEF MountArchive
    <3> QED
      BY <1>2, <3>1
  <2>2. mounted' \in Seq(Archives) /\ Len(mounted') <= MaxMounted
    BY <1>1, CallsAssumption, LenProperties DEF IInv, Types
  <2> QED
    BY <1>1, <2>1, <2>2 DEF IInv, Types, Labels, callVars
<1> QED
  BY <1>2, <1>3 DEF IInv

(* A step of one thread that leaves the tables alone.                      *)
LEMMA OneThread ==
  ASSUME IInv, NEW t \in Threads, Types', Local(t)', UNCHANGED <<searchPaths, mounted>>,
         \A u \in Threads \ {t} : Untouched(u) /\ (mutex' = u <=> mutex = u) /\ seen'[u] = seen[u]
  PROVE  IInv'
<1>1. ASSUME NEW u \in Threads PROVE Local(u)'
  <2>1. CASE u = t
    BY <2>1
  <2>2. CASE u # t
    BY <2>2, OthersLocal DEF IInv
  <2> QED
    BY <2>1, <2>2
<1> QED
  BY <1>1 DEF IInv

(* A step of Find: the thread is at another label, has another answer,     *)
(* another place; the mutex stays or passes between it and nobody.         *)
LEMMA FindStep ==
  ASSUME IInv, NEW t \in Threads, NEW x \in Labels, NEW f \in Answers, NEW n \in Nat,
         pc' = [pc EXCEPT ![t] = x],
         found' = [found EXCEPT ![t] = f],
         place' = [place EXCEPT ![t] = n],
         mutex' = mutex \/ {mutex, mutex'} \subseteq {t, NoThread},
         UNCHANGED <<disk, searchPaths, mounted, callVars, result, steady, seen>>,
         Local(t)'
  PROVE  IInv'
<1>1. NoThread \notin Threads
  BY CallsAssumption
<1>2. Types'
  <2>1. pc' \in [Threads -> Labels] /\ found' \in [Threads -> Answers] /\ place' \in [Threads -> Nat]
    BY DEF IInv, Types
  <2>2. mutex' \in Threads \cup {NoThread}
    BY DEF IInv, Types
  <2> QED
    BY <2>1, <2>2 DEF IInv, Types, callVars
<1>3. ASSUME NEW u \in Threads \ {t}
      PROVE  Untouched(u) /\ (mutex' = u <=> mutex = u) /\ seen'[u] = seen[u]
  <2>1. Untouched(u)
    BY DEF Untouched, IInv, Types, callVars
  <2>2. mutex' = u <=> mutex = u
    BY <1>1
  <2> QED
    BY <2>1, <2>2
<1> QED
  BY <1>2, <1>3, OneThread

(* Find returns, or goes on to the archives or to the search paths.        *)
LEMMA FindReturnsLocal ==
  ASSUME IInv, NEW t \in Threads, NEW f \in Answers, Goal(t)' = Goal(t),
         pc[t] # "idle", pc'[t] = "found", found'[t] = f, mutex' # t,
         call'[t] = call[t], goal'[t] = goal[t],
         ~f.ok => f = Missing, ~OnDisk(f) => f.ok /\ f.path = Goal(t).path,
         Placed(f, Goal(t), seen[t]), source'[t] = source[t],
         UNCHANGED <<searchPaths, seen>>
  PROVE  Local(t)'
<1>1. Engaged(t)'
  BY DEF IInv, Local, Engaged
<1>2. Scanning(t)' /\ Passed(t)'
  BY DEF Scanning, Passed
<1>3. Answered(t)'
  BY DEF Answered, OnDisk, IInv, Local, Among
<1> QED
  BY <1>1, <1>2, <1>3 DEF Local

LEMMA FindGoesOnLocal ==
  ASSUME IInv, NEW t \in Threads, Goal(t)' = Goal(t),
         pc[t] # "idle", found[t] = Missing, found'[t] = Missing, mutex' # t,
         call'[t] = call[t], goal'[t] = goal[t], source'[t] = source[t], ~Misplaced(Goal(t)),
         UNCHANGED <<searchPaths, seen>>,
         \/ pc'[t] = "lockPaths" /\ InSearchPaths(Goal(t))
         \/ pc'[t] = "lockArchives" /\ InArchives(Goal(t))
  PROVE  Local(t)'
<1>1. Engaged(t)'
  BY DEF IInv, Local, Engaged
<1>2. Scanning(t)' /\ Passed(t)'
  BY DEF Scanning, Passed, Misplaced, InSearchPaths, InArchives
<1>3. Answered(t)'
  BY MissingType DEF Answered, OnDisk, IInv, Local, Among
<1> QED
  BY <1>1, <1>2, <1>3 DEF Local

LEMMA FirstCheckIInv ==
  ASSUME IInv, NEW t \in Threads, FirstCheck(t)
  PROVE  IInv'
<1>1. /\ pc[t] = "first" /\ UNCHANGED <<disk, sharedVars, callVars, place, result, steady, seen>>
      /\ pc \in [Threads -> Labels] /\ found \in [Threads -> Answers] /\ place \in [Threads -> Nat]
      /\ Local(t)
  BY DEF FirstCheck, At, IInv, Types
<1>2. /\ Goal(t)' = Goal(t) /\ call'[t] = call[t] /\ goal'[t] = goal[t] /\ source'[t] = source[t]
      /\ place' = [place EXCEPT ![t] = place[t]] /\ place[t] \in Nat
      /\ mutex # t /\ mutex' = mutex /\ found[t] = Missing /\ UNCHANGED <<searchPaths, seen>>
  BY <1>1 DEF Goal, callVars, sharedVars, Local, Scanning, Answered
<1>3. ASSUME NEW f \in Answers, FindReturns(t, f),
             ~f.ok => f = Missing, ~OnDisk(f) => f.ok /\ f.path = Goal(t).path, Placed(f, Goal(t), seen[t])
      PROVE  IInv'
  <2>1. pc' = [pc EXCEPT ![t] = "found"] /\ found' = [found EXCEPT ![t] = f]
    BY <1>3 DEF FindReturns, Go
  <2>2. Local(t)'
    BY <1>1, <1>2, <1>3, <2>1, FindReturnsLocal
  <2> QED
    BY <1>1, <1>2, <2>1, <2>2, FindStep DEF Labels, sharedVars
<1>4. ASSUME NEW x \in {"lockPaths", "lockArchives"}, Go(t, x), UNCHANGED found, ~Misplaced(Goal(t)),
             x = "lockPaths" => InSearchPaths(Goal(t)), x = "lockArchives" => InArchives(Goal(t))
      PROVE  IInv'
  <2>1. pc' = [pc EXCEPT ![t] = x] /\ found' = [found EXCEPT ![t] = found[t]] /\ found[t] \in Answers
    BY <1>1, <1>4 DEF Go
  <2>2. Local(t)'
    BY <1>1, <1>2, <1>4, <2>1, FindGoesOnLocal
  <2> QED
    BY <1>1, <1>2, <2>1, <2>2, FindStep DEF Labels, sharedVars
<1>5. CASE FindReturns(t, Missing)
  BY <1>3, <1>5, MissingType
<1>6. CASE Goal(t).to # "archives" /\ FindReturns(t, FoundOnDisk(disk, FullPath(Goal(t))))
  <2> DEFINE f == FoundOnDisk(disk, FullPath(Goal(t)))
  <2>1. FullPath(Goal(t)) \in Paths
    BY <1>1, GoalIsLocation, FullPathPath
  <2>2. f \in Answers /\ f.ok /\ OnDisk(f) /\ f.path = FullPath(Goal(t))
    BY <2>1, FoundOnDiskType
  <2>3. Placed(f, Goal(t), seen[t])
    BY <1>6, <2>2 DEF Placed
  <2> HIDE DEF f
  <2> QED
    BY <1>3, <1>6, <2>2, <2>3 DEF f
<1>7. CASE ~Misplaced(Goal(t)) /\ InSearchPaths(Goal(t)) /\ Go(t, "lockPaths") /\ UNCHANGED found
  BY <1>4, <1>7
<1>8. CASE ~Misplaced(Goal(t)) /\ ToArchives(t)
  BY <1>4, <1>5, <1>8 DEF ToArchives
<1> QED
  BY <1>5, <1>6, <1>7, <1>8 DEF FirstCheck

LEMMA LockIInv ==
  ASSUME IInv, NEW t \in Threads, LockAny(t)
  PROVE  IInv'
<1>1. PICK to \in {"second", "third"} :
        /\ pc[t] = IF to = "second" THEN "lockPaths" ELSE "lockArchives"
        /\ mutex = NoThread /\ mutex' = t
        /\ place' = [place EXCEPT ![t] = 1] /\ pc' = [pc EXCEPT ![t] = to]
        /\ UNCHANGED <<disk, searchPaths, mounted, callVars, found, result, steady, seen>>
  BY DEF LockAny, Lock, At, Go
<1>2. /\ pc \in [Threads -> Labels] /\ found \in [Threads -> Answers] /\ place \in [Threads -> Nat]
      /\ Len(searchPaths) \in Nat /\ Len(mounted) \in Nat /\ Local(t)
  BY LenProperties DEF IInv, Types
<1>3. /\ Goal(t)' = Goal(t) /\ call'[t] = call[t] /\ goal'[t] = goal[t] /\ source'[t] = source[t] /\ found'[t] = found[t]
      /\ pc'[t] = to /\ place'[t] = 1
  BY <1>1, <1>2 DEF Goal, callVars
<1>4. Local(t)'
  <2>1. Engaged(t)' /\ Answered(t)'
    BY <1>1, <1>2, <1>3 DEF Local, Engaged, Answered, OnDisk
  <2>2. Scanning(t)'
    BY <1>1, <1>2, <1>3 DEF Scanning
  <2>3. Passed(t)'
    BY <1>1, <1>2, <1>3 DEF Local, Passed, Misplaced, InSearchPaths, InArchives
  <2> QED
    BY <2>1, <2>2, <2>3 DEF Local
<1>5. found' = [found EXCEPT ![t] = found[t]] /\ found[t] \in Answers /\ to \in Labels
  BY <1>1, <1>2 DEF Labels
<1> QED
  BY <1>1, <1>4, <1>5, FindStep

LEMMA SecondCheckIInv ==
  ASSUME IInv, NEW t \in Threads, SecondCheck(t)
  PROVE  IInv'
<1>1. /\ pc[t] = "second" /\ UNCHANGED <<disk, searchPaths, mounted, callVars, result, steady, seen>>
      /\ pc \in [Threads -> Labels] /\ found \in [Threads -> Answers] /\ place \in [Threads -> Nat]
      /\ searchPaths \in Seq(Pushed) /\ Len(searchPaths) \in Nat
      /\ Local(t) /\ NoThread \notin Threads
  BY LenProperties, CallsAssumption DEF SecondCheck, At, IInv, Types
<1>2. /\ Goal(t)' = Goal(t) /\ call'[t] = call[t] /\ goal'[t] = goal[t] /\ source'[t] = source[t]
      /\ place[t] \in 1 .. Len(searchPaths) + 1
      /\ mutex = t /\ found[t] = Missing /\ found[t] \in Answers
      /\ ~Misplaced(Goal(t)) /\ InSearchPaths(Goal(t)) /\ IsLocation(Goal(t))
  BY <1>1, GoalIsLocation DEF Goal, callVars, Local, Scanning, Passed, Answered
<1> DEFINE p == Join(searchPaths[place[t]], Goal(t).path)
<1>3. CASE ToArchives(t) /\ Unlock(t) /\ UNCHANGED place
  <2>1. mutex' = NoThread /\ place' = [place EXCEPT ![t] = place[t]] /\ place[t] \in Nat
    BY <1>1, <1>2, <1>3 DEF Unlock
  <2>2. CASE InArchives(Goal(t))
    <3>1. /\ pc' = [pc EXCEPT ![t] = "lockArchives"]
          /\ found' = [found EXCEPT ![t] = found[t]] /\ found'[t] = Missing
      BY <1>1, <1>2, <1>3, <2>2 DEF ToArchives, Go
    <3>2. Local(t)'
      BY <1>1, <1>2, <2>1, <2>2, <3>1, FindGoesOnLocal
    <3> QED
      BY <1>1, <1>2, <2>1, <3>1, <3>2, FindStep DEF Labels
  <2>3. CASE ~InArchives(Goal(t))
    <3>1. pc' = [pc EXCEPT ![t] = "found"] /\ found' = [found EXCEPT ![t] = Missing]
      BY <1>3, <2>3 DEF ToArchives, FindReturns, Go
    <3>2. Local(t)'
      BY <1>1, <1>2, <2>1, <3>1, FindReturnsLocal, MissingType
    <3> QED
      BY <1>1, <1>2, <2>1, <3>1, <3>2, FindStep, MissingType DEF Labels
  <2> QED
    BY <2>2, <2>3
<1>4. CASE /\ place[t] <= Len(searchPaths)
           /\ FindReturns(t, FoundOnDisk(disk, p)) /\ Unlock(t) /\ UNCHANGED place
  <2>0. searchPaths[place[t]] \in Pushed
    BY <1>1, <1>2, <1>4, ElementOfSeq
  <2>1. p \in Paths
    <3>1. searchPaths[place[t]] \in Paths
      BY <2>0, FullPathPath, CallsAssumption DEF Pushed
    <3> QED
      BY <1>2, <3>1, JoinPath DEF IsLocation, Paths
  <2>2. mutex' = NoThread /\ place' = [place EXCEPT ![t] = place[t]] /\ place[t] \in Nat
    BY <1>1, <1>2, <1>4 DEF Unlock
  <2> DEFINE f == FoundOnDisk(disk, p)
  <2>3. f \in Answers /\ f.ok /\ OnDisk(f) /\ Placed(f, Goal(t), seen[t])
    <3>1. f \in Answers /\ f.ok /\ OnDisk(f) /\ f.path = p
      BY <2>1, FoundOnDiskType
    <3>2. searchPaths[place[t]] \in seen[t]
      BY <1>1, <1>2, <1>4 DEF Local, Answered, Among
    <3> HIDE DEF f
    <3> QED
      BY <1>2, <2>0, <3>1, <3>2 DEF Placed, InSearchPaths
  <2>4. pc' = [pc EXCEPT ![t] = "found"] /\ found' = [found EXCEPT ![t] = f]
    BY <1>4 DEF FindReturns, Go
  <2> HIDE DEF f
  <2>5. Local(t)'
    BY <1>1, <1>2, <2>2, <2>3, <2>4, FindReturnsLocal
  <2> QED
    BY <1>1, <1>2, <2>2, <2>3, <2>4, <2>5, FindStep DEF Labels
<1>5. CASE /\ place[t] <= Len(searchPaths)
           /\ place' = [place EXCEPT ![t] = @ + 1] /\ UNCHANGED <<pc, found, mutex>>
  <2>1. /\ place' = [place EXCEPT ![t] = place[t] + 1] /\ place[t] + 1 \in Nat
        /\ place'[t] \in 1 .. Len(searchPaths) + 1
        /\ pc' = [pc EXCEPT ![t] = "second"]
        /\ found' = [found EXCEPT ![t] = found[t]]
    BY <1>1, <1>2, <1>5
  <2>2. Local(t)'
    BY <1>1, <1>2, <1>5, <2>1 DEF Local, Engaged, Scanning, Passed, Answered, OnDisk
  <2> QED
    BY <1>1, <1>2, <1>5, <2>1, <2>2, FindStep DEF Labels
<1>6. place[t] > Len(searchPaths) \/ place[t] <= Len(searchPaths)
  BY <1>1, <1>2
<1> HIDE DEF p
<1> QED
  BY <1>3, <1>4, <1>5, <1>6 DEF SecondCheck, p

LEMMA ThirdCheckIInv ==
  ASSUME IInv, NEW t \in Threads, ThirdCheck(t)
  PROVE  IInv'
<1>1. /\ pc[t] = "third" /\ UNCHANGED <<disk, searchPaths, mounted, callVars, result, steady, seen>>
      /\ pc \in [Threads -> Labels] /\ found \in [Threads -> Answers] /\ place \in [Threads -> Nat]
      /\ mounted \in Seq(Archives) /\ Len(mounted) \in Nat
      /\ Local(t) /\ NoThread \notin Threads
  BY LenProperties, CallsAssumption DEF ThirdCheck, At, IInv, Types
<1>2. /\ Goal(t)' = Goal(t) /\ call'[t] = call[t] /\ goal'[t] = goal[t] /\ source'[t] = source[t]
      /\ place[t] \in 1 .. Len(mounted) + 1
      /\ mutex = t /\ found[t] = Missing /\ found[t] \in Answers
      /\ ~Misplaced(Goal(t)) /\ InArchives(Goal(t)) /\ IsLocation(Goal(t))
  BY <1>1, GoalIsLocation DEF Goal, callVars, Local, Scanning, Passed, Answered
<1>3. ASSUME NEW f \in Answers, FindReturns(t, f), Unlock(t), UNCHANGED place,
             ~f.ok => f = Missing, ~OnDisk(f) => f.ok /\ f.path = Goal(t).path, Placed(f, Goal(t), seen[t])
      PROVE  IInv'
  <2>1. mutex' = NoThread /\ place' = [place EXCEPT ![t] = place[t]] /\ place[t] \in Nat
    BY <1>1, <1>2, <1>3 DEF Unlock
  <2>2. pc' = [pc EXCEPT ![t] = "found"] /\ found' = [found EXCEPT ![t] = f]
    BY <1>3 DEF FindReturns, Go
  <2>3. Local(t)'
    BY <1>1, <1>2, <1>3, <2>1, <2>2, FindReturnsLocal
  <2> QED
    BY <1>1, <1>2, <2>1, <2>2, <2>3, FindStep DEF Labels
<1>4. CASE FindReturns(t, Missing) /\ Unlock(t) /\ UNCHANGED place
  BY <1>3, <1>4, MissingType
<1>5. CASE /\ place[t] <= Len(mounted)
           /\ FindReturns(t, Found(Goal(t).path, Goal(t).type, mounted[place[t]]))
           /\ Unlock(t) /\ UNCHANGED place
  <2> DEFINE f == Found(Goal(t).path, Goal(t).type, mounted[place[t]])
  <2>1. mounted[place[t]] \in Archives
    BY <1>1, <1>2, <1>5, ElementOfSeq
  <2>2. Goal(t).path \in Paths /\ Goal(t).type \in SUBSET Anything
    BY <1>2 DEF IsLocation, Paths
  <2>3. f \in Answers /\ f.ok /\ f.path = Goal(t).path /\ f.archive \in Archives
    BY <2>1, <2>2, FoundType
  <2>4. Placed(f, Goal(t), seen[t])
    BY <2>3, PlacesAssumption DEF Placed, OnDisk
  <2> HIDE DEF f
  <2> QED
    BY <1>3, <1>5, <2>3, <2>4 DEF f
<1>6. CASE /\ place[t] <= Len(mounted)
           /\ place' = [place EXCEPT ![t] = @ + 1] /\ UNCHANGED <<pc, found, mutex>>
  <2>1. /\ place' = [place EXCEPT ![t] = place[t] + 1] /\ place[t] + 1 \in Nat
        /\ place'[t] \in 1 .. Len(mounted) + 1
        /\ pc' = [pc EXCEPT ![t] = "third"]
        /\ found' = [found EXCEPT ![t] = found[t]]
    BY <1>1, <1>2, <1>6
  <2>2. Local(t)'
    BY <1>1, <1>2, <1>6, <2>1 DEF Local, Engaged, Scanning, Passed, Answered, OnDisk
  <2> QED
    BY <1>1, <1>2, <1>6, <2>1, <2>2, FindStep DEF Labels
<1>7. place[t] > Len(mounted) \/ place[t] <= Len(mounted)
  BY <1>1, <1>2
<1> QED
  BY <1>4, <1>5, <1>6, <1>7 DEF ThirdCheck

LEMMA ThirdCheckTornIInv ==
  ASSUME IInv, NEW t \in Threads, ThirdCheckTorn(t)
  PROVE  IInv'
<1>1. /\ pc[t] = "torn" /\ pc' = [pc EXCEPT ![t] = "found"] /\ Unlock(t)
      /\ UNCHANGED <<disk, searchPaths, mounted, callVars, place, found, result, steady, seen>>
      /\ pc \in [Threads -> Labels] /\ found \in [Threads -> Answers] /\ place \in [Threads -> Nat]
      /\ Local(t) /\ NoThread \notin Threads
  BY CallsAssumption DEF ThirdCheckTorn, At, Go, IInv, Types, sharedVars, findVars
<1>2. /\ Goal(t)' = Goal(t) /\ call'[t] = call[t] /\ goal'[t] = goal[t] /\ source'[t] = source[t]
      /\ mutex' = NoThread /\ mutex = t
      /\ place' = [place EXCEPT ![t] = place[t]] /\ found' = [found EXCEPT ![t] = found[t]]
      /\ found[t] \in Answers /\ place[t] \in Nat
  BY <1>1 DEF Goal, callVars, Local, Scanning, Unlock
<1>3. Local(t)'
  BY <1>1, <1>2, FindReturnsLocal DEF Local, Answered
<1> QED
  BY <1>1, <1>2, <1>3, FindStep DEF Labels

LEMMA BeginIInv ==
  ASSUME IInv, NEW t \in Threads, NEW c \in Requests, Begin(t, c)
  PROVE  IInv'
<1>1. /\ pc[t] = "idle" /\ c.op \in Ops[t]
      /\ UNCHANGED <<disk, searchPaths, mounted, mutex, place, found, source, steady>>
      /\ Local(t) /\ found[t] = Missing /\ mutex # t
      /\ searchPaths \in Seq(Pushed)
  BY DEF Begin, sharedVars, findVars, IInv, Types, Local, Scanning, Answered
<1>2. CASE /\ result' = [result EXCEPT ![t] = Returned(FALSE, FALSE)]
           /\ UNCHANGED <<pc, call, goal, seen>>
  <2>1. Types'
    BY <1>1, <1>2 DEF IInv, Types, Returned
  <2>2. ASSUME NEW u \in Threads PROVE Untouched(u) /\ seen'[u] = seen[u]
    BY <1>1, <1>2 DEF Untouched
  <2>3. Local(t)'
    BY <1>1, <2>2, OthersLocal
  <2> QED
    BY <1>1, <2>1, <2>2, <2>3, OneThread
<1>3. CASE /\ call' = [call EXCEPT ![t] = c] /\ goal' = [goal EXCEPT ![t] = "target"]
           /\ seen' = [seen EXCEPT ![t] = Among(searchPaths)]
           /\ Go(t, "first") /\ UNCHANGED result
  <2>1. Types'
    <3>1. Among(searchPaths) \subseteq Pushed
      BY <1>1, ElementOfSeq DEF Among
    <3> QED
      BY <1>1, <1>3, <3>1 DEF IInv, Types, Labels, Go
  <2>2. ASSUME NEW u \in Threads \ {t} PROVE Untouched(u) /\ seen'[u] = seen[u]
    BY <1>1, <1>3 DEF Untouched, Go, IInv, Types
  <2>3. /\ call'[t] = c /\ goal'[t] = "target" /\ pc'[t] = "first" /\ found'[t] = Missing
        /\ seen'[t] = Among(searchPaths)'
    BY <1>1, <1>3 DEF Go, IInv, Types, Among
  <2>4. Local(t)'
    BY <1>1, <2>3, MissingType DEF Local, Engaged, Scanning, Passed, Answered, OnDisk
  <2> QED
    BY <1>1, <2>1, <2>2, <2>4, OneThread
<1> QED
  BY <1>2, <1>3 DEF Begin

LEMMA FindParentIInv ==
  ASSUME IInv, NEW t \in Threads, FindParent(t)
  PROVE  IInv'
<1>1. /\ pc[t] = "found" /\ goal[t] = "target"
      /\ call[t].op \in {"write", "createDirectory", "rename"}
      /\ call[t].op = "rename" => found[t].ok
      /\ goal' = [goal EXCEPT ![t] = "parent"]
      /\ source' = [source EXCEPT ![t] = found[t]]
      /\ found' = [found EXCEPT ![t] = Missing]
      /\ pc' = [pc EXCEPT ![t] = "first"]
      /\ UNCHANGED <<disk, searchPaths, mounted, mutex, call, place, result, steady, seen>>
      /\ Local(t) /\ mutex # t
  BY DEF FindParent, Doing, At, Go, sharedVars, IInv, Local, Scanning
<1>2. Types'
  BY <1>1, MissingType DEF IInv, Types, Labels
<1>3. ASSUME NEW u \in Threads \ {t} PROVE Untouched(u)
  BY <1>1 DEF Untouched, IInv, Types
<1>4. /\ goal'[t] = "parent" /\ source'[t] = found[t] /\ found'[t] = Missing /\ pc'[t] = "first"
      /\ call'[t] = call[t]
  BY <1>1 DEF IInv, Types
<1>5. Placed(found[t], call[t].loc, seen[t])
  BY <1>1 DEF Local, Answered, Goal
<1>6. Local(t)'
  <2>1. Engaged(t)' /\ Scanning(t)' /\ Passed(t)'
    BY <1>1, <1>4 DEF Local, Engaged, Scanning, Passed
  <2>2. Answered(t)'
    BY <1>1, <1>4, <1>5, MissingType DEF Local, Answered, Among
  <2> QED
    BY <2>1, <2>2 DEF Local
<1> QED
  BY <1>1, <1>2, <1>3, <1>6, OneThread

(***************************************************************************)
(* What the calls of the operating system leave: a disk, and nothing new   *)
(* except at their arguments and below.                                    *)
(***************************************************************************)
Within(q, places) == \E p \in places : q = p \/ Below(p, q)

Sound(d, did, places) ==
  /\ did.disk \in [Tree -> Kinds] /\ did.ok \in BOOLEAN /\ did.threw \in BOOLEAN
  /\ \A q \in Tree : did.disk[q] # d[q] => Within(q, places)

LEMMA DidNothing ==
  ASSUME NEW d \in [Tree -> Kinds], NEW ok \in BOOLEAN, NEW threw \in BOOLEAN, NEW places
  PROVE  Sound(d, Did(d, ok, threw), places) /\ Did(d, ok, threw).disk = d
BY DEF Sound, Did

LEMMA MakeDirectorySound ==
  ASSUME NEW d \in [Tree -> Kinds], NEW p
  PROVE  Sound(d, MakeDirectory(d, p), {p})
<1>1. CASE p \in Tree /\ MakeDirectory(d, p) = Did([d EXCEPT ![p] = "directory"], TRUE, FALSE)
  BY <1>1 DEF Sound, Did, Within, Kinds
<1>2. CASE MakeDirectory(d, p) = Did(d, FALSE, ~IsDirectory(Kind(d, p)))
  BY <1>2, DidNothing DEF IsDirectory
<1> QED
  BY <1>1, <1>2 DEF MakeDirectory

LEMMA RemoveOneSound ==
  ASSUME NEW d \in [Tree -> Kinds], NEW p
  PROVE  Sound(d, RemoveOne(d, p), {p})
<1>1. CASE p \in Tree /\ RemoveOne(d, p) = Did([d EXCEPT ![p] = "none"], TRUE, FALSE)
  BY <1>1 DEF Sound, Did, Within, Kinds
<1>2. CASE \E threw \in BOOLEAN : RemoveOne(d, p) = Did(d, FALSE, threw)
  BY <1>2, DidNothing
<1> QED
  BY <1>1, <1>2 DEF RemoveOne, Kind

LEMMA RemoveAllSound ==
  ASSUME NEW d \in [Tree -> Kinds], NEW p
  PROVE  Sound(d, RemoveAll(d, p), {p})
<1> DEFINE e == [q \in Tree |-> IF q = p \/ Below(p, q) THEN "none" ELSE d[q]]
<1>1. CASE RemoveAll(d, p) = Did(e, TRUE, FALSE)
  <2>1. e \in [Tree -> Kinds] /\ \A q \in Tree : e[q] # d[q] => q = p \/ Below(p, q)
    BY DEF Kinds
  <2> HIDE DEF e
  <2> QED
    BY <1>1, <2>1 DEF Sound, Did, Within
<1>2. CASE RemoveAll(d, p) = Did(d, FALSE, FALSE)
  BY <1>2, DidNothing
<1> QED
  BY <1>1, <1>2 DEF RemoveAll

LEMMA OpenedFileSound ==
  ASSUME NEW d \in [Tree -> Kinds], NEW p, NEW creates \in BOOLEAN
  PROVE  Sound(d, OpenedFile(d, p, creates), {p}) /\ (~creates => OpenedFile(d, p, creates).disk = d)
<1> DEFINE e == [d EXCEPT ![p] = "file"]
<1>1. CASE creates /\ p \in Tree /\ OpenedFile(d, p, creates) = Did(e, TRUE, FALSE)
  <2>1. e \in [Tree -> Kinds] /\ \A q \in Tree : e[q] # d[q] => q = p
    BY <1>1 DEF Kinds
  <2> HIDE DEF e
  <2>2. Sound(d, Did(e, TRUE, FALSE), {p})
    BY <2>1 DEF Sound, Did, Within
  <2> QED
    BY <1>1, <2>2
<1>2. CASE \E ok \in BOOLEAN : OpenedFile(d, p, creates) = Did(d, ok, FALSE)
  BY <1>2, DidNothing
<1> QED
  BY <1>1, <1>2 DEF OpenedFile

LEMMA Shifted ==
  ASSUME NEW p \in Paths, NEW q \in Paths, NEW s \in Paths, s = p \/ Below(p, s)
  PROVE  LET r == q \o SubSeq(s, Len(p) + 1, Len(s))
         IN  r = q \/ Below(q, r)
<1> DEFINE tail == SubSeq(s, Len(p) + 1, Len(s))
           r    == q \o tail
<1>1. Len(p) \in Nat /\ Len(q) \in Nat /\ Len(s) \in Nat /\ Len(p) <= Len(s)
  BY LenProperties DEF Paths, Below
<1>2. tail \in Paths /\ Len(tail) = Len(s) - Len(p)
  <2>1. \A k \in Len(p) + 1 .. Len(s) : s[k] \in STRING
    BY <1>1, ElementOfSeq DEF Paths
  <2>2. /\ tail \in Seq(STRING)
        /\ Len(tail) = IF Len(p) + 1 <= Len(s) THEN Len(s) - (Len(p) + 1) + 1 ELSE 0
    <3> HIDE DEF tail
    <3> QED
      BY <1>1, <2>1, SubSeqProperties DEF tail, Paths
  <2> HIDE DEF tail
  <2> QED
    BY <1>1, <2>2 DEF Paths
<1> HIDE DEF tail
<1>3. /\ r \in Paths /\ Len(r) = Len(q) + Len(tail)
      /\ \A k \in 1 .. Len(q) : r[k] = q[k]
  <2>1. /\ r \in Seq(STRING) /\ Len(r) = Len(q) + Len(tail)
        /\ \A k \in 1 .. Len(q) + Len(tail) : r[k] = IF k <= Len(q) THEN q[k] ELSE tail[k - Len(q)]
    BY <1>2, ConcatProperties DEF Paths
  <2> HIDE DEF r
  <2>2. Len(tail) \in Nat
    BY <1>2, LenProperties DEF Paths
  <2>3. ASSUME NEW k \in 1 .. Len(q) PROVE r[k] = q[k]
    BY <1>1, <2>1, <2>2
  <2> QED
    BY <2>1, <2>3 DEF Paths
<1>4. CASE Len(s) = Len(p)
  <2>1. tail = <<>>
    BY <1>1, <1>2, <1>4, EmptySeq DEF Paths
  <2> QED
    BY <2>1, ConcatEmptySeq DEF Paths, tail
<1>5. CASE Len(p) < Len(s)
  <2>1. Len(q) < Len(r)
    BY <1>1, <1>2, <1>3, <1>5
  <2>2. SubSeq(r, 1, Len(q)) = q
    <3> DEFINE front == SubSeq(r, 1, Len(q))
    <3>1. \A k \in 1 .. Len(q) : r[k] \in STRING
      BY <1>3, <2>1, ElementOfSeq DEF Paths
    <3> HIDE DEF r
    <3>2. /\ front \in Seq(STRING)
          /\ Len(front) = IF 1 <= Len(q) THEN Len(q) - 1 + 1 ELSE 0
          /\ \A k \in 1 .. Len(q) - 1 + 1 : front[k] = r[1 + k - 1]
      <4> HIDE DEF front
      <4> QED
        BY <1>1, <1>3, <3>1, SubSeqProperties DEF front, Paths
    <3> HIDE DEF front
    <3>3. Len(front) = Len(q) /\ \A k \in 1 .. Len(q) : front[k] = q[k]
      BY <1>1, <1>3, <3>2
    <3> QED
      BY <3>2, <3>3, SeqEqual DEF front, Paths
  <2> QED
    BY <2>1, <2>2 DEF Below, tail
<1> QED
  BY <1>1, <1>4, <1>5 DEF tail

LEMMA RenamedSound ==
  ASSUME NEW d \in [Tree -> Kinds], NEW p, NEW q
  PROVE  Sound(d, Renamed(d, p, q), {p, q})
<1> DEFINE below == {r \in Tree : Below(p, r) /\ d[r] # "none"}
           moved(r) == q \o SubSeq(r, Len(p) + 1, Len(r))
           into(r) == {s \in {p} \cup below : moved(s) = r}
           kind(r) == IF into(r) # {} THEN d[CHOOSE s \in into(r) : TRUE]
                      ELSE IF r = p \/ Below(p, r) \/ Below(q, r) THEN "none" ELSE d[r]
           e == [r \in Tree |-> kind(r)]
<1>1. CASE p \in Tree /\ q \in Tree /\ Renamed(d, p, q) = Did(e, TRUE, FALSE)
  <2>1. ASSUME NEW r \in Tree
        PROVE  kind(r) \in Kinds /\ (kind(r) # d[r] => Within(r, {p, q}))
    <3>1. CASE into(r) # {}
      <4>1. (CHOOSE s \in into(r) : TRUE) \in into(r)
        BY <3>1
      <4>2. PICK s \in {p} \cup below : moved(s) = r /\ kind(r) = d[s]
        BY <3>1, <4>1
      <4>3. p \in Paths /\ q \in Paths /\ s \in Paths /\ s \in Tree /\ (s = p \/ Below(p, s))
        BY <1>1, <4>2, PlacesAssumption DEF Paths
      <4>4. r = q \/ Below(q, r)
        BY <4>2, <4>3, Shifted
      <4>5. kind(r) \in Kinds
        BY <4>2, <4>3
      <4> HIDE DEF kind
      <4> QED
        BY <4>4, <4>5 DEF Within
    <3>2. CASE into(r) = {}
      <4>1. kind(r) = IF r = p \/ Below(p, r) \/ Below(q, r) THEN "none" ELSE d[r]
        BY <3>2
      <4> HIDE DEF kind
      <4> QED
        BY <4>1 DEF Within, Kinds
    <3> QED
      BY <3>1, <3>2
  <2> HIDE DEF kind
  <2>2. e \in [Tree -> Kinds] /\ \A r \in Tree : e[r] = kind(r)
    BY <2>1
  <2> HIDE DEF e
  <2> QED
    BY <1>1, <2>1, <2>2 DEF Sound, Did
<1>2. CASE \E ok \in BOOLEAN : Renamed(d, p, q) = Did(d, ok, FALSE)
  BY <1>2, DidNothing
<1>3. \/ p \in Tree /\ q \in Tree /\ Renamed(d, p, q) = Did(e, TRUE, FALSE)
      \/ \E ok \in BOOLEAN : Renamed(d, p, q) = Did(d, ok, FALSE)
  BY DEF Renamed, Kind
<1> HIDE DEF e
<1> QED
  BY <1>1, <1>2, <1>3

(***************************************************************************)
(* How a call ends.                                                        *)
(***************************************************************************)
(* The places on the disk that a call of a thread acts on.                 *)
ActsOn(t) ==
  {p \in {Absolute(found[t].path), Absolute(InFolder(t)), Absolute(source[t].path)} :
     /\ found[t].ok /\ OnDisk(found[t])
     /\ \/ p = Absolute(found[t].path) /\ goal[t] = "target"
        \/ p = Absolute(InFolder(t)) /\ goal[t] = "parent"
        \/ /\ p = Absolute(source[t].path) /\ OnDisk(source[t])
           /\ goal[t] = "parent" /\ call[t].op = "rename"}

LookingOnly == {"exists", "open"}

LEMMA FinishReturns ==
  ASSUME IInv, NEW t \in Threads, Finish(t)
  PROVE  /\ pc[t] = "found"
         /\ \E did : /\ Return(t, did)
                     /\ Sound(disk, did, ActsOn(t))
                     /\ call[t].op \in LookingOnly => did.disk = disk
<1>0. disk \in [Tree -> Kinds] /\ found[t].ok \in BOOLEAN /\ Local(t)
  BY DEF IInv, Types, Answers
<1>1. ASSUME NEW ok \in BOOLEAN, Return(t, Did(disk, ok, FALSE))
      PROVE  \E did : /\ Return(t, did)
                      /\ Sound(disk, did, ActsOn(t))
                      /\ call[t].op \in LookingOnly => did.disk = disk
  BY <1>0, <1>1, DidNothing
<1>2. ASSUME Refuse(t)
      PROVE  \E did : /\ Return(t, did)
                      /\ Sound(disk, did, ActsOn(t))
                      /\ call[t].op \in LookingOnly => did.disk = disk
  BY <1>1, <1>2 DEF Refuse
<1>3. ASSUME NEW p \in ActsOn(t), NEW did, Return(t, did), Sound(disk, did, {p}),
             call[t].op \in LookingOnly => did.disk = disk
      PROVE  \E e : /\ Return(t, e)
                    /\ Sound(disk, e, ActsOn(t))
                    /\ call[t].op \in LookingOnly => e.disk = disk
  <2>1. Sound(disk, did, ActsOn(t))
    BY <1>3 DEF Sound, Within
  <2> QED
    BY <1>3, <2>1
<1>4. CASE Exists(t)
  BY <1>0, <1>1, <1>4 DEF Exists, Doing, At
<1>5. CASE Open(t)
  <2>1. PICK path : /\ pc[t] = "found" /\ call[t].op \in {"open", "write"}
                    /\ path = IF goal[t] = "parent" THEN InFolder(t) ELSE found[t].path
                    /\ \/ Refuse(t)
                       \/ /\ found[t].ok /\ OnDisk(found[t])
                          /\ Return(t, OpenedFile(disk, Absolute(path), call[t].op = "write"))
                       \/ Return(t, Did(disk, HasEntry(found[t].archive, path, {"file"}), FALSE))
    BY <1>5 DEF Open, Doing, At
  <2>2. CASE found[t].ok /\ OnDisk(found[t])
             /\ Return(t, OpenedFile(disk, Absolute(path), call[t].op = "write"))
    <3>1. Absolute(path) \in ActsOn(t)
      BY <2>1, <2>2 DEF ActsOn, IInv, Types
    <3>2. /\ Sound(disk, OpenedFile(disk, Absolute(path), call[t].op = "write"), {Absolute(path)})
          /\ call[t].op \in LookingOnly =>
               OpenedFile(disk, Absolute(path), call[t].op = "write").disk = disk
      BY <1>0, OpenedFileSound DEF LookingOnly
    <3> QED
      BY <1>3, <2>1, <2>2, <3>1, <3>2
  <2>3. HasEntry(found[t].archive, path, {"file"}) \in BOOLEAN
    BY DEF HasEntry
  <2> QED
    BY <1>1, <1>2, <2>1, <2>2, <2>3
<1>6. CASE Rename(t)
  <2>1. /\ pc[t] = "found" /\ call[t].op = "rename" /\ (found[t].ok => goal[t] = "parent")
        /\ \/ Refuse(t)
           \/ /\ found[t].ok /\ OnDisk(source[t]) /\ OnDisk(found[t])
              /\ Return(t, Renamed(disk, Absolute(source[t].path), Absolute(InFolder(t))))
    BY <1>6 DEF Rename, Doing, At
  <2>2. CASE /\ found[t].ok /\ OnDisk(source[t]) /\ OnDisk(found[t])
             /\ Return(t, Renamed(disk, Absolute(source[t].path), Absolute(InFolder(t))))
    <3> DEFINE did == Renamed(disk, Absolute(source[t].path), Absolute(InFolder(t)))
    <3>1. Absolute(source[t].path) \in ActsOn(t) /\ Absolute(InFolder(t)) \in ActsOn(t)
      BY <2>1, <2>2 DEF ActsOn
    <3>2. Sound(disk, did, {Absolute(source[t].path), Absolute(InFolder(t))})
      BY <1>0, RenamedSound
    <3> HIDE DEF did
    <3>3. Sound(disk, did, ActsOn(t))
      BY <3>1, <3>2 DEF Sound, Within
    <3> QED
      BY <2>1, <2>2, <3>3 DEF did, LookingOnly
  <2> QED
    BY <1>2, <2>1, <2>2
<1>7. CASE Remove(t)
  <2>1. /\ pc[t] = "found" /\ call[t].op = "remove"
        /\ \/ Refuse(t)
           \/ /\ found[t].ok /\ OnDisk(found[t])
              /\ \/ Return(t, RemoveAll(disk, Absolute(found[t].path)))
                 \/ Return(t, RemoveOne(disk, Absolute(found[t].path)))
    BY <1>7 DEF Remove, Doing, At
  <2>2. CASE found[t].ok /\ OnDisk(found[t]) /\ ~Refuse(t)
    <3>1. goal[t] = "target"
      BY <1>0, <2>1 DEF Local, Engaged, IInv, Types
    <3>2. Absolute(found[t].path) \in ActsOn(t)
      BY <2>2, <3>1 DEF ActsOn
    <3> QED
      BY <1>0, <1>3, <2>1, <2>2, <3>2, RemoveAllSound, RemoveOneSound DEF LookingOnly
  <2> QED
    BY <1>2, <2>1, <2>2
<1>8. CASE CreateDirectory(t)
  <2>1. /\ pc[t] = "found" /\ call[t].op = "createDirectory"
        /\ \/ Refuse(t)
           \/ /\ goal[t] # "target" /\ found[t].ok /\ OnDisk(found[t])
              /\ Return(t, MakeDirectory(disk, Absolute(InFolder(t))))
    BY <1>8 DEF CreateDirectory, Doing, At
  <2>2. CASE goal[t] # "target" /\ found[t].ok /\ OnDisk(found[t]) /\ ~Refuse(t)
    <3>1. Absolute(InFolder(t)) \in ActsOn(t)
      BY <2>2 DEF ActsOn, IInv, Types
    <3> QED
      BY <1>0, <1>3, <2>1, <2>2, <3>1, MakeDirectorySound DEF LookingOnly
  <2> QED
    BY <1>2, <2>1, <2>2
<1>9. pc[t] = "found"
  BY DEF Finish, Exists, Open, Rename, Remove, CreateDirectory, Doing, At
<1> QED
  BY <1>4, <1>5, <1>6, <1>7, <1>8, <1>9 DEF Finish

LEMMA ReturnIInv ==
  ASSUME IInv, NEW t \in Threads, NEW did, pc[t] = "found",
         Return(t, did), Sound(disk, did, ActsOn(t))
  PROVE  IInv'
<1>1. /\ disk' \in [Tree -> Kinds]
      /\ result' = [result EXCEPT ![t] = Returned(did.ok, did.threw)]
      /\ did.ok \in BOOLEAN /\ did.threw \in BOOLEAN
      /\ call' = [call EXCEPT ![t] = NoCall]
      /\ goal' = [goal EXCEPT ![t] = "target"]
      /\ found' = [found EXCEPT ![t] = Missing]
      /\ source' = [source EXCEPT ![t] = Missing]
      /\ place' = [place EXCEPT ![t] = 1]
      /\ steady' = [steady EXCEPT ![t] = TRUE]
      /\ seen' = [seen EXCEPT ![t] = {}]
      /\ pc' = [pc EXCEPT ![t] = "idle"]
      /\ UNCHANGED <<searchPaths, mounted, mutex>>
  BY DEF Return, Sound, Go, sharedVars
<1>2. Types'
  <2>1. Returned(did.ok, did.threw) \in [ok : BOOLEAN, threw : BOOLEAN]
    BY <1>1 DEF Returned
  <2> QED
    BY <1>1, <2>1, MissingType DEF IInv, Types, Labels
<1>3. ASSUME NEW u \in Threads \ {t} PROVE Untouched(u)
  BY <1>1 DEF Untouched, IInv, Types
<1>4. Local(t)'
  <2>1. /\ pc'[t] = "idle" /\ call'[t] = NoCall /\ goal'[t] = "target" /\ found'[t] = Missing
        /\ mutex' = mutex /\ mutex # t
    BY <1>1 DEF IInv, Types, Local, Scanning
  <2> QED
    BY <2>1, MissingType DEF Local, Engaged, Scanning, Passed, Answered
<1> QED
  BY <1>1, <1>2, <1>3, <1>4, OneThread

LEMMA StepIInv == IInv /\ [Next]_vars => IInv'
<1> SUFFICES ASSUME IInv, [Next]_vars PROVE IInv'
  OBVIOUS
<1>1. ASSUME NEW t \in Threads, Configure(t) PROVE IInv'
  BY <1>1, ChangePathsIInv, MountIInv DEF Configure
<1>2. ASSUME NEW t \in Threads, NEW c \in Requests, Begin(t, c) PROVE IInv'
  BY <1>2, BeginIInv
<1>3. ASSUME NEW t \in Threads, LockAny(t) PROVE IInv'
  BY <1>3, LockIInv
<1>4. ASSUME NEW t \in Threads, Find(t) PROVE IInv'
  BY <1>4, FirstCheckIInv, SecondCheckIInv, ThirdCheckIInv, ThirdCheckTornIInv DEF Find
<1>5. ASSUME NEW t \in Threads, FindParent(t) PROVE IInv'
  BY <1>5, FindParentIInv
<1>6. ASSUME NEW t \in Threads, Finish(t) PROVE IInv'
  BY <1>6, FinishReturns, ReturnIInv
<1>7. CASE UNCHANGED vars
  <2>1. UNCHANGED <<disk, searchPaths, mounted, mutex, pc, call, goal, place, found, source, result, steady, seen>>
    BY <1>7 DEF vars, sharedVars, callVars, findVars
  <2>2. Types'
    BY <2>1 DEF IInv, Types
  <2>3. ASSUME NEW u \in Threads PROVE Local(u)'
    BY <2>1, OthersLocal DEF IInv, Untouched
  <2> QED
    BY <2>2, <2>3 DEF IInv
<1> QED
  BY <1>1, <1>2, <1>3, <1>4, <1>5, <1>6, <1>7 DEF Next, Continue

LEMMA IInvTypeOK == IInv => TypeOK
<1> SUFFICES ASSUME IInv PROVE TypeOK
  OBVIOUS
<1>1. ASSUME NEW t \in Threads
      PROVE  /\ pc[t] \in Labels
             /\ pc[t] \in {"second", "third", "torn"} <=> mutex = t
             /\ pc[t] = "second" => place[t] \in 1 .. Len(searchPaths) + 1
             /\ pc[t] = "third" => place[t] \in 1 .. Len(mounted) + 1
             /\ call[t] \in Requests \cup {NoCall}
             /\ goal[t] \in {"target", "parent"}
             /\ found[t].archive \in Archives \cup {NoArchive}
             /\ ~OnDisk(found[t]) => found[t].ok /\ found[t].path = Goal(t).path
             /\ result[t] \in [ok : BOOLEAN, threw : BOOLEAN]
             /\ seen[t] \subseteq {FullPath(l) : l \in PushPlaces}
  BY DEF IInv, Types, Local, Scanning, Answered, Answers, Pushed
<1>2. /\ disk \in [Tree -> Kinds]
      /\ searchPaths \in Seq({FullPath(l) : l \in PushPlaces}) /\ Len(searchPaths) <= MaxPaths
      /\ mounted \in Seq(Archives) /\ Len(mounted) <= MaxMounted
      /\ mutex \in Threads \cup {NoThread}
  BY DEF IInv, Types, Pushed
<1> QED
  BY <1>1, <1>2 DEF TypeOK, Labels

LEMMA Invariant == Spec => []IInv
BY InitIInv, StepIInv, PTL DEF Spec

(***************************************************************************)
(* The types, and the mutex: the thread in a loop of Find holds it, nobody *)
(* else does, and no iterator is past the end of its vector, whoever       *)
(* pushes, pops and mounts (FileSystem.cpp:121-160, 206-244, 338-341).     *)
(***************************************************************************)
THEOREM Typing == Spec => []TypeOK
BY Invariant, IInvTypeOK, PTL

(***************************************************************************)
(* What is changed.                                                        *)
(***************************************************************************)
LEMMA JoinFileName ==
  ASSUME NEW l, IsLocation(l), NEW x \in Paths
  PROVE  Join(Join(x, ParentPath(l.path)), FileName(l.path)) = Join(x, l.path)
<1> DEFINE q == l.path
           f == ParentPath(q)
<1>1. q \in Paths /\ \A k \in 2 .. Len(q) : q[k] \notin Roots
  BY DEF IsLocation, Paths
<1>2. CASE q = <<>>
  <2>1. f = <<>> /\ FileName(q) = <<>> /\ ~IsAbsolute(<<>>) /\ x \o <<>> = x
    BY <1>2, ConcatEmptySeq DEF ParentPath, FileName, IsAbsolute, Paths
  <2> QED
    BY <1>2, <2>1 DEF Join
<1>3. CASE q # <<>>
  <2> DEFINE n == Len(q)
             b == q[n]
  <2>1. /\ n \in Nat \ {0} /\ f \in Paths /\ Len(f) = n - 1
        /\ \A k \in 1 .. n - 1 : f[k] = q[k]
    BY <1>1, <1>3, ParentPathPath
  <2>2. b \in STRING /\ FileName(q) = <<b>>
    BY <1>1, <1>3, <2>1, ElementOfSeq DEF FileName, Paths
  <2>3. /\ f \o <<b>> \in Paths /\ Len(f \o <<b>>) = n
        /\ \A k \in 1 .. n : (f \o <<b>>)[k] = IF k <= n - 1 THEN f[k] ELSE <<b>>[k - (n - 1)]
    <3>1. <<b>> \in Seq(STRING) /\ Len(<<b>>) = 1
      BY <2>2
    <3> HIDE DEF b, f, n
    <3> QED
      BY <2>1, <3>1, ConcatProperties DEF Paths
  <2>4. f \o <<b>> = q
    <3>1. ASSUME NEW k \in 1 .. n PROVE (f \o <<b>>)[k] = q[k]
      <4>1. CASE k <= n - 1
        BY <2>1, <2>3, <4>1
      <4>2. CASE k = n
        <5>1. <<b>>[1] = b
          OBVIOUS
        <5> HIDE DEF b, f
        <5>2. (f \o <<b>>)[k] = <<b>>[k - (n - 1)] /\ k - (n - 1) = 1
          BY <2>1, <2>3, <4>2
        <5> QED
          BY <4>2, <5>1, <5>2 DEF b
      <4> QED
        BY <2>1, <4>1, <4>2
    <3> HIDE DEF f, b
    <3> QED
      BY <1>1, <2>3, <3>1, SeqEqual DEF Paths
  <2>5. CASE n = 1
    <3>1. f = <<>>
      BY <2>1, <2>5, EmptySeq DEF Paths
    <3>2. FileName(q) = q
      BY <2>2, <2>4, <3>1, ConcatEmptySeq DEF Paths
    <3>3. Join(x, f) = x
      BY <3>1, ConcatEmptySeq DEF Join, IsAbsolute, Paths
    <3> QED
      BY <3>2, <3>3
  <2>6. CASE n > 1
    <3>1. b \notin Roots
      BY <1>1, <2>1, <2>6
    <3>2. \A y : Join(y, <<b>>) = y \o <<b>>
      BY <3>1 DEF Join, IsAbsolute
    <3>3. IsAbsolute(f) <=> IsAbsolute(q)
      <4>1. f # <<>> /\ f[1] = q[1]
        BY <2>1, <2>6
      <4> HIDE DEF f, q
      <4> QED
        BY <1>3, <4>1 DEF IsAbsolute
    <3>4. CASE IsAbsolute(q)
      <4>1. Join(x, f) = f /\ Join(x, q) = q
        BY <3>3, <3>4 DEF Join
      <4> QED
        BY <2>2, <2>4, <3>2, <4>1
    <3>5. CASE ~IsAbsolute(q)
      <4>1. Join(x, f) = x \o f /\ Join(x, q) = x \o q
        BY <3>3, <3>5 DEF Join
      <4>2. (x \o f) \o <<b>> = x \o (f \o <<b>>)
        BY <2>1, <2>2, ConcatAssociative DEF Paths
      <4> QED
        BY <2>2, <2>4, <3>2, <4>1, <4>2
    <3> QED
      BY <3>4, <3>5
  <2>7. n = 1 \/ n > 1
    <3> HIDE DEF n
    <3> QED
      BY <2>1
  <2> QED
    BY <2>5, <2>6, <2>7
<1> QED
  BY <1>2, <1>3

LEMMA FullPathFileName ==
  ASSUME NEW l, IsLocation(l)
  PROVE  Join(FullPath(ParentLocation(l)), FileName(l.path)) = FullPath(l)
<1>1. /\ ParentLocation(l).path = ParentPath(l.path) /\ ParentLocation(l).to = l.to
      /\ l.path \in Paths
  BY DEF ParentLocation, Location, IsLocation, Paths
<1>2. PICK x \in Paths : /\ FullPath(l) = Join(x, l.path)
                         /\ FullPath(ParentLocation(l)) = Join(x, ParentPath(l.path))
  BY <1>1, RootPath, PlacesAssumption DEF FullPath
<1> QED
  BY <1>2, JoinFileName

LEMMA ActsOnItsPlaces ==
  ASSUME IInv, NEW t \in Threads, pc[t] = "found", NEW p \in ActsOn(t)
  PROVE  p \in MayStandFor(t, call[t].loc) \cup MayStandFor(t, call[t].dst)
<1>1. /\ call[t] \in Requests /\ goal[t] \in {"target", "parent"} /\ Local(t)
      /\ Placed(found[t], Goal(t), seen[t]) /\ seen[t] \subseteq Pushed /\ found[t].ok /\ OnDisk(found[t])
  BY DEF IInv, Types, Local, Engaged, Answered, ActsOn
<1>2. IsLocation(call[t].loc) /\ IsLocation(call[t].dst)
  BY <1>1, CallsAssumption
<1>3. ASSUME NEW l, NEW f, Placed(f, l, seen[t]), f.ok, OnDisk(f)
      PROVE  Absolute(f.path) \in MayStandFor(t, l)
  BY <1>3 DEF Placed, MayStandFor
<1>4. CASE p = Absolute(found[t].path) /\ goal[t] = "target"
  <2>1. Goal(t) = call[t].loc
    BY <1>4 DEF Goal
  <2> QED
    BY <1>1, <1>3, <1>4, <2>1
<1>5. CASE p = Absolute(InFolder(t)) /\ goal[t] = "parent"
  <2> DEFINE l == call[t].dst
             g == ParentLocation(l)
  <2>1. /\ Goal(t) = g /\ g.to = l.to /\ g.path = ParentPath(l.path)
        /\ InSearchPaths(g) <=> InSearchPaths(l)
    BY <1>5 DEF Goal, ParentLocation, Location, InSearchPaths
  <2>2. InFolder(t) = Join(found[t].path, FileName(l.path))
    BY DEF InFolder
  <2>3. CASE found[t].path = FullPath(g)
    <3>1. InFolder(t) = FullPath(l)
      BY <1>2, <2>2, <2>3, FullPathFileName
    <3> QED
      BY <1>1, <1>5, <2>1, <3>1 DEF Placed, MayStandFor
  <2>4. CASE InSearchPaths(g) /\ \E x \in seen[t] : found[t].path = Join(x, g.path)
    <3>1. PICK x \in seen[t] : found[t].path = Join(x, ParentPath(l.path))
      BY <2>1, <2>4
    <3>2. x \in Paths
      BY <1>1, FullPathPath, CallsAssumption DEF Pushed
    <3>3. InFolder(t) = Join(x, l.path)
      BY <1>2, <2>2, <3>1, <3>2, JoinFileName
    <3> HIDE DEF g, l
    <3> QED
      BY <1>5, <2>1, <2>4, <3>3 DEF MayStandFor, l
  <2> QED
    BY <1>1, <2>1, <2>3, <2>4 DEF Placed
<1>6. CASE /\ p = Absolute(source[t].path) /\ OnDisk(source[t])
           /\ goal[t] = "parent" /\ call[t].op = "rename"
  BY <1>1, <1>3, <1>6 DEF Local, Answered
<1> QED
  BY <1>4, <1>5, <1>6 DEF ActsOn

(* Only a call that ends changes the disk.                                 *)
LEMMA OnlyFinishChanges ==
  ASSUME [Next]_vars, disk' # disk
  PROVE  \E t \in Threads : Finish(t)
<1>1. ASSUME NEW t \in Threads, Configure(t) PROVE disk' = disk
  BY <1>1 DEF Configure, PushSearchPath, PopSearchPath, ClearSearchPaths, PathsBecome, MountArchive
<1>2. ASSUME NEW t \in Threads, NEW c \in Requests, Begin(t, c) PROVE disk' = disk
  BY <1>2 DEF Begin
<1>3. ASSUME NEW t \in Threads, LockAny(t) \/ Find(t) \/ FindParent(t) PROVE disk' = disk
  BY <1>3 DEF LockAny, Lock, Find, FirstCheck, SecondCheck, ThirdCheck, ThirdCheckTorn, FindParent
<1> QED
  BY <1>1, <1>2, <1>3 DEF Next, Continue, vars

(***************************************************************************)
(* Whoever runs meanwhile, a call changes the disk only at the places of   *)
(* its location and its destination, and below: at their own, and below    *)
(* what was a search path during the call.  A location in the archives     *)
(* never reaches the disk (FileSystem.cpp:181, 198, 261, 283, 318).        *)
(***************************************************************************)
THEOREM ChangesStayInPlace == Spec => StaysInPlace
<1> DEFINE InPlace ==
      disk' # disk =>
        \E t \in Threads :
          /\ pc[t] = "found" /\ pc'[t] = "idle"
          /\ \A q \in Tree : disk'[q] # disk[q] =>
               \E p \in MayStandFor(t, call[t].loc) \cup MayStandFor(t, call[t].dst) :
                 q = p \/ Below(p, q)
<1>1. IInv /\ [Next]_vars => InPlace
  <2> SUFFICES ASSUME IInv, [Next]_vars, disk' # disk PROVE InPlace
    OBVIOUS
  <2>1. PICK t \in Threads : Finish(t)
    BY OnlyFinishChanges
  <2>2. pc[t] = "found" /\ \E did : Return(t, did) /\ Sound(disk, did, ActsOn(t))
    BY <2>1, FinishReturns
  <2>3. pc'[t] = "idle" /\ \A q \in Tree : disk'[q] # disk[q] => Within(q, ActsOn(t))
    BY <2>2 DEF Return, Sound, Go, IInv, Types
  <2>4. \A q \in Tree : disk'[q] # disk[q] =>
          \E p \in MayStandFor(t, call[t].loc) \cup MayStandFor(t, call[t].dst) : q = p \/ Below(p, q)
    BY <2>2, <2>3, ActsOnItsPlaces DEF Within
  <2> QED
    BY <2>2, <2>3, <2>4
<1>2. IInv /\ [Next]_vars => [InPlace]_vars
  BY <1>1
<1> HIDE DEF InPlace
<1>3. Spec => [][InPlace]_vars
  BY <1>2, Invariant, PTL DEF Spec
<1> QED
  BY <1>3 DEF StaysInPlace, InPlace
=============================================================================

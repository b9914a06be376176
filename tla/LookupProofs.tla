---------------------------- MODULE LookupProofs ----------------------------
(***************************************************************************)
(* Find implements PathLookup, for every number of threads.                *)
(***************************************************************************)
EXTENDS FileSystemProofs, WellFoundedInduction

(***************************************************************************)
(* Where a location is.                                                    *)
(***************************************************************************)
LEMMA LeastExists ==
  ASSUME NEW S \in SUBSET Nat, S # {}
  PROVE  \E k \in S : \A j \in S : k <= j
<1> DEFINE less == OpToRel(<, Nat)
<1>1. \A j, k \in Nat : <<j, k>> \in less <=> j < k
  BY DEF OpToRel
<1>2. IsWellFoundedOn(less, Nat)
  BY NatLessThanWellFounded
<1> HIDE DEF less
<1>3. \E k \in S : \A j \in S : ~(<<j, k>> \in less)
  BY <1>2, WFMin
<1>4. PICK k \in S : \A j \in S : ~(<<j, k>> \in less)
  BY <1>3
<1>5. ASSUME NEW j \in S PROVE k <= j
  <2>1. j \in Nat /\ k \in Nat /\ ~(j < k)
    BY <1>1, <1>4
  <2> QED
    BY <2>1
<1> QED
  BY <1>5

LEMMA LeastIs ==
  ASSUME NEW S \in SUBSET Nat, NEW k \in S, \A j \in S : k <= j
  PROVE  (CHOOSE i \in S : \A j \in S : i <= j) = k
<1>1. \A i \in S : (\A j \in S : i <= j) => i = k
  OBVIOUS
<1> QED
  BY <1>1

LEMMA CandidatesAre ==
  ASSUME NEW l, IsLocation(l), l.to # "archives", NEW paths \in Seq(Paths)
  PROVE  LET c == Candidates(paths, l)
         IN  /\ Len(c) = IF InSearchPaths(l) THEN Len(paths) + 1 ELSE 1
             /\ c[1] = FullPath(l)
             /\ InSearchPaths(l) => \A k \in 1 .. Len(paths) : c[k + 1] = Join(paths[k], l.path)
<1> DEFINE here  == <<FullPath(l)>>
           there == IF InSearchPaths(l) THEN [k \in 1 .. Len(paths) |-> Join(paths[k], l.path)] ELSE <<>>
<1>1. here \in Seq(Paths) /\ Len(here) = 1 /\ here[1] = FullPath(l)
  BY FullPathPath
<1>2. Len(paths) \in Nat /\ l.path \in Paths
  BY LenProperties DEF IsLocation, Paths
<1>3. /\ there \in Seq(Paths)
      /\ Len(there) = IF InSearchPaths(l) THEN Len(paths) ELSE 0
      /\ InSearchPaths(l) => \A k \in 1 .. Len(paths) : there[k] = Join(paths[k], l.path)
  <2>1. CASE InSearchPaths(l)
    <3>1. \A k \in 1 .. Len(paths) : Join(paths[k], l.path) \in Paths
      BY <1>2, ElementOfSeq, JoinPath
    <3> QED
      BY <1>2, <2>1, <3>1
  <2>2. CASE ~InSearchPaths(l)
    BY <2>2
  <2> QED
    BY <2>1, <2>2
<1>4. Candidates(paths, l) = here \o there
  BY DEF Candidates
<1> HIDE DEF here, there
<1>5. /\ Len(here \o there) = Len(here) + Len(there)
      /\ \A k \in 1 .. Len(here) + Len(there) :
           (here \o there)[k] = IF k <= Len(here) THEN here[k] ELSE there[k - Len(here)]
  BY <1>1, <1>3, ConcatProperties
<1>6. (here \o there)[1] = FullPath(l)
  BY <1>1, <1>2, <1>3, <1>5
<1>7. ASSUME InSearchPaths(l), NEW k \in 1 .. Len(paths)
      PROVE  (here \o there)[k + 1] = Join(paths[k], l.path)
  BY <1>1, <1>2, <1>3, <1>5, <1>7
<1> QED
  BY <1>1, <1>2, <1>3, <1>4, <1>5, <1>6, <1>7

Hits(d, paths, l) ==
  {k \in 1 .. Len(Candidates(paths, l)) : Matches(d, Candidates(paths, l)[k], l)}

LEMMA FirstMatchIs ==
  ASSUME NEW d, NEW paths, NEW m, NEW l, ~Misplaced(l)
  PROVE  /\ \A k \in Hits(d, paths, l) :
              Hits(d, paths, l) \subseteq Nat /\ (\A j \in Hits(d, paths, l) : k <= j) =>
                FirstMatch(d, paths, m, l) = FoundOnDisk(d, Candidates(paths, l)[k])
         /\ Hits(d, paths, l) = {} => FirstMatch(d, paths, m, l) = InArchive(m, l)
<1>1. FirstMatch(d, paths, m, l) =
        IF Hits(d, paths, l) # {}
        THEN FoundOnDisk(d, Candidates(paths, l)[CHOOSE k \in Hits(d, paths, l) :
                                                   \A j \in Hits(d, paths, l) : k <= j])
        ELSE InArchive(m, l)
  BY DEF FirstMatch, Hits
<1>2. ASSUME NEW k \in Hits(d, paths, l), Hits(d, paths, l) \subseteq Nat,
             \A j \in Hits(d, paths, l) : k <= j
      PROVE  FirstMatch(d, paths, m, l) = FoundOnDisk(d, Candidates(paths, l)[k])
  <2>1. (CHOOSE i \in Hits(d, paths, l) : \A j \in Hits(d, paths, l) : i <= j) = k
    BY <1>2, LeastIs
  <2> QED
    BY <1>1, <1>2, <2>1
<1> QED
  BY <1>1, <1>2

(* At the place itself.                                                    *)
LEMMA MatchHere ==
  ASSUME NEW d, NEW paths \in Seq(Paths), NEW m, NEW l, IsLocation(l),
         ~Misplaced(l), l.to # "archives", Matches(d, FullPath(l), l)
  PROVE  FirstMatch(d, paths, m, l) = FoundOnDisk(d, FullPath(l))
<1> DEFINE c == Candidates(paths, l)
           hits == Hits(d, paths, l)
<1>1. Len(paths) \in Nat
  BY LenProperties
<1>2. Len(c) \in Nat \ {0} /\ c[1] = FullPath(l)
  BY <1>1, CandidatesAre
<1>3. hits \subseteq Nat /\ 1 \in hits /\ \A j \in hits : 1 <= j
  BY <1>2 DEF Hits
<1> HIDE DEF hits
<1> QED
  BY <1>2, <1>3, FirstMatchIs DEF hits

(* In the first search path that has it.                                   *)
LEMMA MatchInPath ==
  ASSUME NEW d, NEW paths \in Seq(Paths), NEW m, NEW l, IsLocation(l),
         ~Misplaced(l), InSearchPaths(l), ~Matches(d, FullPath(l), l),
         NEW k \in 1 .. Len(paths), Matches(d, Join(paths[k], l.path), l),
         \A j \in 1 .. k - 1 : ~Matches(d, Join(paths[j], l.path), l)
  PROVE  FirstMatch(d, paths, m, l) = FoundOnDisk(d, Join(paths[k], l.path))
<1> DEFINE c == Candidates(paths, l)
           hits == Hits(d, paths, l)
<1>1. Len(paths) \in Nat /\ l.to # "archives"
  BY LenProperties DEF InSearchPaths
<1>2. /\ Len(c) = Len(paths) + 1 /\ c[1] = FullPath(l)
      /\ \A j \in 1 .. Len(paths) : c[j + 1] = Join(paths[j], l.path)
  BY <1>1, CandidatesAre
<1>3. hits \subseteq Nat /\ k + 1 \in hits
  BY <1>1, <1>2 DEF Hits
<1>4. ASSUME NEW j \in hits PROVE k + 1 <= j
  <2>1. j \in 1 .. Len(paths) + 1 /\ Matches(d, c[j], l)
    BY <1>2 DEF Hits
  <2>2. j # 1
    BY <1>2, <2>1
  <2>3. j - 1 \in 1 .. Len(paths) /\ c[(j - 1) + 1] = Join(paths[j - 1], l.path) /\ (j - 1) + 1 = j
    BY <1>1, <1>2, <2>1, <2>2
  <2>4. j - 1 \notin 1 .. k - 1
    BY <2>1, <2>3
  <2> QED
    BY <1>1, <2>1, <2>3, <2>4
<1>5. c[k + 1] = Join(paths[k], l.path)
  BY <1>2
<1> HIDE DEF hits
<1> QED
  BY <1>3, <1>4, <1>5, FirstMatchIs DEF hits

(* Nowhere on the disk.                                                    *)
LEMMA NoMatch ==
  ASSUME NEW d, NEW paths \in Seq(Paths), NEW m, NEW l, IsLocation(l), ~Misplaced(l),
         l.to # "archives" => ~Matches(d, FullPath(l), l),
         InSearchPaths(l) => \A j \in 1 .. Len(paths) : ~Matches(d, Join(paths[j], l.path), l)
  PROVE  FirstMatch(d, paths, m, l) = InArchive(m, l)
<1> DEFINE c == Candidates(paths, l)
<1>1. Len(paths) \in Nat
  BY LenProperties
<1>2. ASSUME NEW j \in Hits(d, paths, l) PROVE FALSE
  <2>1. j \in 1 .. Len(c) /\ Matches(d, c[j], l)
    BY DEF Hits
  <2>2. CASE l.to = "archives"
    <3>1. c = <<>> \o <<>>
      BY <2>2 DEF Candidates, InSearchPaths
    <3>2. <<>> \o <<>> = <<>>
      BY EmptySeq, ConcatEmptySeq
    <3>3. Len(c) = 0
      BY <3>1, <3>2
    <3> QED
      BY <2>1, <3>3
  <2>3. CASE l.to # "archives"
    <3>1. /\ Len(c) = IF InSearchPaths(l) THEN Len(paths) + 1 ELSE 1
          /\ c[1] = FullPath(l)
          /\ InSearchPaths(l) => \A k \in 1 .. Len(paths) : c[k + 1] = Join(paths[k], l.path)
      BY <2>3, CandidatesAre
    <3>2. j # 1
      BY <2>1, <2>3, <3>1
    <3>3. InSearchPaths(l) /\ j - 1 \in 1 .. Len(paths) /\ (j - 1) + 1 = j
      BY <1>1, <2>1, <3>1, <3>2
    <3>4. c[(j - 1) + 1] = Join(paths[j - 1], l.path)
      BY <3>1, <3>3
    <3> QED
      BY <2>1, <3>3, <3>4
  <2> QED
    BY <2>2, <2>3
<1>3. Hits(d, paths, l) = {}
  BY <1>2
<1> QED
  BY <1>3, FirstMatchIs

LEMMA NoEntry ==
  ASSUME NEW m, NEW l, \A k \in 1 .. Len(m) : ~HasEntry(m[k], l.path, l.type)
  PROVE  InArchive(m, l) = Missing
BY DEF InArchive

LEMMA FirstEntry ==
  ASSUME NEW m \in Seq(Archives), NEW l, InArchives(l),
         NEW k \in 1 .. Len(m), HasEntry(m[k], l.path, l.type),
         \A j \in 1 .. k - 1 : ~HasEntry(m[j], l.path, l.type)
  PROVE  InArchive(m, l) = Found(l.path, l.type, m[k])
<1> DEFINE hits == {j \in 1 .. Len(m) : HasEntry(m[j], l.path, l.type)}
<1>1. Len(m) \in Nat
  BY LenProperties
<1>2. hits \in SUBSET Nat /\ k \in hits
  BY <1>1
<1>3. ASSUME NEW j \in hits PROVE k <= j
  <2>1. j \in 1 .. Len(m) /\ HasEntry(m[j], l.path, l.type)
    OBVIOUS
  <2> QED
    BY <1>1, <2>1
<1>4. InArchive(m, l) = Found(l.path, l.type, m[CHOOSE i \in hits : \A j \in hits : i <= j])
  BY <1>2 DEF InArchive
<1> HIDE DEF hits
<1>5. (CHOOSE i \in hits : \A j \in hits : i <= j) = k
  BY <1>2, <1>3, LeastIs
<1> QED
  BY <1>4, <1>5

LEMMA InArchiveType ==
  ASSUME NEW m \in Seq(Archives), NEW l, IsLocation(l)
  PROVE  InArchive(m, l) \in Answers
<1> DEFINE hits == {j \in 1 .. Len(m) : HasEntry(m[j], l.path, l.type)}
           first == CHOOSE i \in hits : \A j \in hits : i <= j
<1>1. InArchive(m, l) = Missing \/ (InArchive(m, l) = Found(l.path, l.type, m[first]) /\ hits # {})
  BY DEF InArchive
<1>2. ASSUME hits # {} PROVE m[first] \in Archives
  <2>1. Len(m) \in Nat
    BY LenProperties
  <2>2. hits \in SUBSET Nat
    BY <2>1
  <2>3. PICK k \in hits : \A j \in hits : k <= j
    <3> HIDE DEF hits
    <3> QED
      BY <1>2, <2>2, LeastExists
  <2>4. first = k
    <3> HIDE DEF hits
    <3> QED
      BY <2>2, <2>3, LeastIs
  <2> QED
    BY <2>1, <2>4, ElementOfSeq
<1>3. l.path \in Paths /\ l.type \in SUBSET Anything
  BY DEF IsLocation, Paths
<1> QED
  BY <1>1, <1>2, <1>3, MissingType, FoundType

LEMMA AnswersAreKnown ==
  ASSUME NEW f \in Answers
  PROVE  f # Unknown
BY DEF Answers, Unknown, Missing, Anything

(***************************************************************************)
(* The abstract specification, of what Find's state stands for.            *)
(***************************************************************************)
Known ==
  [t \in Threads |-> IF pc[t] \in {"torn", "found"} THEN found[t]
                     ELSE IF pc[t] \in {"lockArchives", "third"} THEN InArchive(mounted, Goal(t))
                     ELSE Unknown]

Locations == {c.loc : c \in Requests} \cup {ParentLocation(c.dst) : c \in Requests}

LEMMA SameOperators ==
  /\ \A d, s, m, l : Lookup!FirstMatch(d, s, m, l) = FirstMatch(d, s, m, l)
  /\ \A l : Lookup!InArchives(l) = InArchives(l)
  /\ Lookup!Unknown = Unknown
  /\ Lookup!Kinds = Kinds
<1>1. \A d, p : Lookup!Kind(d, p) = Kind(d, p)
  BY DEF Lookup!Kind, Kind
<1>2. \A k : /\ Lookup!IsDirectory(k) = IsDirectory(k) /\ Lookup!IsFile(k) = IsFile(k)
             /\ Lookup!IsLink(k) = IsLink(k)
  BY DEF Lookup!IsDirectory, IsDirectory, Lookup!IsFile, IsFile, Lookup!IsLink, IsLink
<1>3. \A d, p, l : Lookup!Matches(d, p, l) = Matches(d, p, l)
  BY <1>1, <1>2 DEF Lookup!Matches, Matches
<1>4. \A p, q : Lookup!Join(p, q) = Join(p, q)
  BY DEF Lookup!Join, Join, Lookup!IsAbsolute, IsAbsolute
<1>5. \A l : /\ Lookup!FullPath(l) = FullPath(l)
             /\ Lookup!Misplaced(l) = Misplaced(l)
             /\ Lookup!InSearchPaths(l) = InSearchPaths(l)
             /\ Lookup!InArchives(l) = InArchives(l)
  BY <1>4 DEF Lookup!FullPath, FullPath, Lookup!Misplaced, Misplaced, Lookup!InSearchPaths, InSearchPaths,
              Lookup!InArchives, InArchives, Lookup!IsAbsolute, IsAbsolute
<1>6. \A s, l : Lookup!Candidates(s, l) = Candidates(s, l)
  BY <1>4, <1>5 DEF Lookup!Candidates, Candidates
<1>7. Lookup!Missing = Missing /\ \A p, type, a : Lookup!Found(p, type, a) = Found(p, type, a)
  BY DEF Lookup!Missing, Missing, Lookup!Found, Found
<1>8. \A d, p : Lookup!FoundOnDisk(d, p) = FoundOnDisk(d, p)
  BY <1>1, <1>2, <1>7 DEF Lookup!FoundOnDisk, FoundOnDisk, Lookup!TypeAt, TypeAt
<1>9. \A a, p, type : Lookup!HasEntry(a, p, type) = HasEntry(a, p, type)
  BY DEF Lookup!HasEntry, HasEntry
<1> DEFINE least(h) == CHOOSE k \in h : \A j \in h : k <= j
<1>10. ASSUME NEW m, NEW l PROVE Lookup!InArchive(m, l) = InArchive(m, l)
  <2> DEFINE hits == {k \in 1 .. Len(m) : HasEntry(m[k], l.path, l.type)}
             hits2 == {k \in 1 .. Len(m) : Lookup!HasEntry(m[k], l.path, l.type)}
  <2>1. hits2 = hits
    BY <1>9
  <2>2. InArchive(m, l) = IF ~InArchives(l) \/ hits = {} THEN Missing
                          ELSE Found(l.path, l.type, m[least(hits)])
    BY DEF InArchive
  <2>3. Lookup!InArchive(m, l) = IF ~Lookup!InArchives(l) \/ hits2 = {} THEN Lookup!Missing
                                 ELSE Lookup!Found(l.path, l.type, m[least(hits2)])
    BY DEF Lookup!InArchive
  <2> HIDE DEF hits, hits2, least
  <2> QED
    BY <1>5, <1>7, <2>1, <2>2, <2>3
<1>11. ASSUME NEW d, NEW s, NEW m, NEW l PROVE Lookup!FirstMatch(d, s, m, l) = FirstMatch(d, s, m, l)
  <2> DEFINE places == Candidates(s, l)
             hits == {k \in 1 .. Len(places) : Matches(d, places[k], l)}
             places2 == Lookup!Candidates(s, l)
             hits2 == {k \in 1 .. Len(places2) : Lookup!Matches(d, places2[k], l)}
  <2>0. places2 = places
    BY <1>6
  <2>1. hits2 = hits
    BY <1>3, <2>0
  <2>2. FirstMatch(d, s, m, l) = IF Misplaced(l) THEN Missing
                                 ELSE IF hits # {} THEN FoundOnDisk(d, places[least(hits)])
                                 ELSE InArchive(m, l)
    BY DEF FirstMatch
  <2>3. Lookup!FirstMatch(d, s, m, l) = IF Lookup!Misplaced(l) THEN Lookup!Missing
                                        ELSE IF hits2 # {} THEN Lookup!FoundOnDisk(d, places2[least(hits2)])
                                        ELSE Lookup!InArchive(m, l)
    BY DEF Lookup!FirstMatch
  <2> HIDE DEF hits, hits2, least, places, places2
  <2> QED
    BY <1>5, <1>7, <1>8, <1>10, <2>0, <2>1, <2>2, <2>3
<1>12. Lookup!Unknown = Unknown /\ Lookup!Kinds = Kinds
  BY <1>7 DEF Lookup!Unknown, Unknown, Lookup!Kinds, Kinds
<1> QED
  BY <1>5, <1>11, <1>12

LEMMA InitLookup == Init => Lookup!Init
<1> SUFFICES ASSUME Init PROVE Lookup!Init
  OBVIOUS
<1>1. disk \in [Tree -> Lookup!Kinds]
  BY SameOperators, CallsAssumption DEF Init
<1>2. Asked = [t \in Threads |-> NoLocation]
  BY DEF Init, Asked
<1>3. Known = [t \in Threads |-> Lookup!Unknown]
  BY SameOperators DEF Init, Known
<1> QED
  BY <1>1, <1>2, <1>3 DEF Init, Known, Lookup!Init

LEMMA AskStep ==
  ASSUME NEW t \in Threads, NEW l \in Locations,
         Asked[t] = NoLocation \/ Known[t] # Unknown,
         Asked' = [Asked EXCEPT ![t] = l], Known' = [Known EXCEPT ![t] = Unknown],
         UNCHANGED <<disk, searchPaths, mounted>>
  PROVE  Lookup!Next
<1>1. t \notin Lookup!Waiting
  BY SameOperators DEF Lookup!Waiting, Known
<1>2. Lookup!Ask(t, l)
  BY <1>1, SameOperators DEF Lookup!Ask, Known
<1> QED
  BY <1>2 DEF Lookup!Next, Locations

LEMMA AnswerStep ==
  ASSUME NEW t \in Threads, Asked[t] # NoLocation, Known[t] = Unknown,
         UNCHANGED <<disk, searchPaths, mounted, Asked>>,
         Known' = [Known EXCEPT ![t] = FirstMatch(disk, searchPaths, mounted, Asked[t])]
  PROVE  Lookup!Next
<1>1. t \in Lookup!Waiting
  BY SameOperators DEF Lookup!Waiting, Known
<1>2. Lookup!Answer(t)
  BY <1>1, SameOperators DEF Lookup!Answer, Known
<1> QED
  BY <1>2 DEF Lookup!Next

LEMMA FinishStep ==
  ASSUME NEW t \in Threads, Asked[t] # NoLocation, Known[t] # Unknown,
         UNCHANGED <<searchPaths, mounted>>, disk' \in [Tree -> Kinds],
         Asked' = [Asked EXCEPT ![t] = NoLocation], Known' = [Known EXCEPT ![t] = Unknown],
         \A u \in Threads \ {t} : Asked[u] # NoLocation => disk' = disk
  PROVE  Lookup!Next
<1>1. t \notin Lookup!Waiting
  BY SameOperators DEF Lookup!Waiting, Known
<1>2. Lookup!Waiting # {} => disk' = disk
  BY <1>1 DEF Lookup!Waiting
<1>3. Lookup!Finish(t)
  BY <1>1, <1>2, SameOperators DEF Lookup!Finish, Known
<1> QED
  BY <1>3 DEF Lookup!Next

LEMMA MountStep ==
  ASSUME NEW a \in Archives, mounted' = Append(mounted, a),
         \A t \in Threads : InArchives(Asked[t]) \/ Known'[t] = Known[t],
         UNCHANGED <<disk, searchPaths, Asked>>
  PROVE  Lookup!Next
<1>1. DOMAIN Known' = Threads
  BY DEF Known
<1>2. Lookup!Mount
  BY <1>1, SameOperators DEF Lookup!Mount, Known
<1> QED
  BY <1>2 DEF Lookup!Next

LEMMA PathsStep ==
  ASSUME \/ \E p \in Pushed : searchPaths' = Append(searchPaths, p)
         \/ searchPaths # <<>> /\ searchPaths' = SubSeq(searchPaths, 1, Len(searchPaths) - 1)
         \/ searchPaths' = <<>>,
         UNCHANGED <<disk, mounted, Asked, Known>>
  PROVE  Lookup!Next
<1>1. Lookup!ChangePaths
  BY DEF Lookup!ChangePaths, Known, Pushed
<1> QED
  BY <1>1 DEF Lookup!Next

LEMMA StutterStep ==
  ASSUME UNCHANGED <<disk, searchPaths, mounted, Asked, Known>>
  PROVE  UNCHANGED Lookup!vars
BY DEF Lookup!vars, Known

(***************************************************************************)
(* What Find has seen by the time it is where it is.                       *)
(***************************************************************************)
Seen(t) ==
  /\ pc[t] \in {"lockPaths", "second"} => ~Matches(disk, FullPath(Goal(t)), Goal(t))
  /\ pc[t] = "second" =>
       \A k \in 1 .. place[t] - 1 : ~Matches(disk, Join(searchPaths[k], Goal(t).path), Goal(t))
  /\ pc[t] = "third" =>
       \A k \in 1 .. place[t] - 1 : ~HasEntry(mounted[k], Goal(t).path, Goal(t).type)

SInv == IInv /\ \A t \in Threads : Seen(t)

Abstract == Lookup!Next \/ UNCHANGED Lookup!vars

LEMMA SeenUntouched ==
  ASSUME NEW u, Seen(u), Untouched(u), UNCHANGED <<searchPaths, mounted>>, pc[u] # "idle" => disk' = disk
  PROVE  Seen(u)'
BY GoalUntouched DEF Seen, Untouched

(* What the state of one thread stands for.                                *)
LEMMA StandsFor ==
  ASSUME IInv, NEW t \in Threads
  PROVE  /\ Asked[t] # NoLocation <=> pc[t] # "idle"
         /\ pc[t] # "idle" => Asked[t] = Goal(t) /\ Asked[t] \in Locations
         /\ Known[t] = Unknown <=> pc[t] \in {"idle", "first", "lockPaths", "second"}
<1>1. pc[t] \in Labels /\ found[t] \in Answers /\ mounted \in Seq(Archives)
  BY DEF IInv, Types
<1>2. Asked[t] = IF pc[t] = "idle" THEN NoLocation ELSE Goal(t)
  BY DEF Asked
<1>3. pc[t] # "idle" => Goal(t) # NoLocation /\ Goal(t) \in Locations /\ IsLocation(Goal(t))
  BY GoalIsLocation DEF Locations
<1>4. found[t] # Unknown /\ (pc[t] # "idle" => InArchive(mounted, Goal(t)) # Unknown)
  BY <1>1, <1>3, InArchiveType, AnswersAreKnown
<1>5. Known[t] = IF pc[t] \in {"torn", "found"} THEN found[t]
                 ELSE IF pc[t] \in {"lockArchives", "third"} THEN InArchive(mounted, Goal(t))
                 ELSE Unknown
  BY DEF Known
<1>6. Known[t] = Unknown <=> pc[t] \in {"idle", "first", "lockPaths", "second"}
  BY <1>1, <1>4, <1>5 DEF Labels
<1> QED
  BY <1>2, <1>3, <1>6

LEMMA OneAsks ==
  ASSUME NEW t \in Threads, UNCHANGED mounted, \A u \in Threads \ {t} : Untouched(u)
  PROVE  /\ Asked' = [Asked EXCEPT ![t] = Asked'[t]]
         /\ Known' = [Known EXCEPT ![t] = Known'[t]]
<1>1. ASSUME NEW u \in Threads \ {t} PROVE Asked'[u] = Asked[u] /\ Known'[u] = Known[u]
  <2>1. Goal(u)' = Goal(u) /\ Untouched(u)
    BY GoalUntouched
  <2>2. Asked'[u] = Asked[u]
    BY <2>1 DEF Asked, Untouched
  <2>3. Known'[u] = Known[u]
    BY <2>1 DEF Known, Untouched
  <2> QED
    BY <2>2, <2>3
<1>2. /\ Asked = [u \in Threads |-> Asked[u]] /\ Asked' = [u \in Threads |-> Asked'[u]]
      /\ Known = [u \in Threads |-> Known[u]] /\ Known' = [u \in Threads |-> Known'[u]]
  BY DEF Asked, Known
<1> QED
  BY <1>1, <1>2

(* A step of Find in one thread.                                           *)
FindStepOf(t) ==
  /\ UNCHANGED <<disk, searchPaths, mounted>>
  /\ \A u \in Threads \ {t} : Untouched(u)
  /\ call'[t] = call[t] /\ goal'[t] = goal[t]
  /\ pc[t] # "idle" /\ pc'[t] # "idle"

LEMMA FindFrame ==
  ASSUME IInv, NEW t \in Threads, pc[t] # "idle",
         UNCHANGED <<disk, searchPaths, mounted, callVars>>,
         \/ /\ \/ ToArchives(t)
               \/ Go(t, "lockPaths") /\ UNCHANGED found
               \/ \E f : FindReturns(t, f)
            /\ UNCHANGED place
         \/ UNCHANGED <<pc, found>> /\ \E n : place' = [place EXCEPT ![t] = n]
  PROVE  FindStepOf(t)
<1>0. pc \in [Threads -> Labels] /\ found \in [Threads -> Answers] /\ place \in [Threads -> Nat]
  BY DEF IInv, Types
<1>1. ASSUME NEW x \in Labels \ {"idle"}, NEW f, pc' = [pc EXCEPT ![t] = x], UNCHANGED place,
             found' = found \/ found' = [found EXCEPT ![t] = f]
      PROVE  FindStepOf(t)
  <2>1. pc'[t] # "idle"
    BY <1>0, <1>1
  <2>2. ASSUME NEW u \in Threads \ {t} PROVE Untouched(u)
    <3>1. pc'[u] = pc[u] /\ found'[u] = found[u]
      BY <1>0, <1>1
    <3> QED
      BY <1>1, <3>1 DEF Untouched, callVars
  <2> QED
    BY <2>1, <2>2 DEF FindStepOf, callVars
<1>2. ASSUME NEW f, FindReturns(t, f), UNCHANGED place PROVE FindStepOf(t)
  BY <1>1, <1>2 DEF FindReturns, Go, Labels
<1>3. ASSUME NEW x \in {"lockPaths", "lockArchives"}, Go(t, x), UNCHANGED <<found, place>> PROVE FindStepOf(t)
  BY <1>1, <1>3 DEF Go, Labels
<1>4. CASE ToArchives(t) /\ UNCHANGED place
  BY <1>2, <1>3, <1>4 DEF ToArchives
<1>5. CASE UNCHANGED <<pc, found>> /\ \E n : place' = [place EXCEPT ![t] = n]
  <2>1. \A u \in Threads \ {t} : Untouched(u)
    BY <1>0, <1>5 DEF Untouched, callVars
  <2> QED
    BY <1>5, <2>1 DEF FindStepOf, callVars
<1> QED
  BY <1>2, <1>3, <1>4, <1>5

LEMMA FindAsks ==
  ASSUME IInv, NEW t \in Threads, FindStepOf(t)
  PROVE  /\ Goal(t)' = Goal(t) /\ UNCHANGED Asked
         /\ Known' = [Known EXCEPT ![t] = Known'[t]]
<1>1. Goal(t)' = Goal(t)
  BY DEF FindStepOf, Goal
<1>2. Asked'[t] = Asked[t]
  BY <1>1 DEF FindStepOf, Asked
<1>3. Asked' = [Asked EXCEPT ![t] = Asked'[t]] /\ Known' = [Known EXCEPT ![t] = Known'[t]]
  BY OneAsks DEF FindStepOf
<1>4. Asked = [u \in Threads |-> Asked[u]]
  BY DEF Asked
<1> QED
  BY <1>1, <1>2, <1>3, <1>4

(* It settles the answer, or the abstract lookup does not notice.          *)
LEMMA FindRefines ==
  ASSUME IInv, NEW t \in Threads, FindStepOf(t),
         \/ Known'[t] = Known[t]
         \/ /\ pc[t] \in {"first", "second"}
            /\ Known'[t] = FirstMatch(disk, searchPaths, mounted, Goal(t))
  PROVE  Abstract
<1>1. UNCHANGED <<disk, searchPaths, mounted, Asked>> /\ Known' = [Known EXCEPT ![t] = Known'[t]]
  BY FindAsks DEF FindStepOf
<1>2. CASE Known'[t] = Known[t]
  <2>1. Known = [u \in Threads |-> Known[u]]
    BY DEF Known
  <2>2. UNCHANGED Known
    BY <1>1, <1>2, <2>1
  <2> QED
    BY <1>1, <2>2, StutterStep DEF Abstract
<1>3. CASE /\ pc[t] \in {"first", "second"}
           /\ Known'[t] = FirstMatch(disk, searchPaths, mounted, Goal(t))
  <2>1. Asked[t] = Goal(t) /\ Asked[t] # NoLocation /\ Known[t] = Unknown
    BY <1>3, StandsFor
  <2>2. Known' = [Known EXCEPT ![t] = FirstMatch(disk, searchPaths, mounted, Asked[t])]
    BY <1>1, <1>3, <2>1
  <2> QED
    BY <1>1, <2>1, <2>2, AnswerStep DEF Abstract
<1> QED
  BY <1>2, <1>3

LEMMA FindSeen ==
  ASSUME SInv, NEW t \in Threads, FindStepOf(t), Seen(t)'
  PROVE  \A u \in Threads : Seen(u)'
BY SeenUntouched DEF FindStepOf, SInv

LEMMA SearchPathsAre ==
  ASSUME IInv
  PROVE  searchPaths \in Seq(Paths) /\ Len(searchPaths) \in Nat
<1>1. Pushed \subseteq Paths
  BY FullPathPath, CallsAssumption DEF Pushed
<1>2. searchPaths \in Seq(Pushed)
  BY DEF IInv, Types
<1> QED
  BY <1>1, <1>2, SeqMonotonic, LenProperties

(* The end of the disk's part of Find.                                     *)
LEMMA ToArchivesKnown ==
  ASSUME IInv, NEW t \in Threads, FindStepOf(t), ToArchives(t)
  PROVE  /\ Known'[t] = InArchive(mounted, Goal(t))
         /\ pc'[t] \in {"found", "lockArchives"}
<1>1. Goal(t)' = Goal(t) /\ mounted' = mounted
  BY FindAsks DEF FindStepOf
<1>2. pc \in [Threads -> Labels] /\ found \in [Threads -> Answers]
  BY DEF IInv, Types
<1>3. CASE InArchives(Goal(t))
  <2>1. pc'[t] = "lockArchives"
    BY <1>2, <1>3 DEF ToArchives, Go
  <2> QED
    BY <1>1, <2>1 DEF Known
<1>4. CASE ~InArchives(Goal(t))
  <2>1. pc'[t] = "found" /\ found'[t] = Missing
    BY <1>2, <1>4 DEF ToArchives, FindReturns, Go
  <2>2. InArchive(mounted, Goal(t)) = Missing
    BY <1>4 DEF InArchive
  <2> QED
    BY <2>1, <2>2 DEF Known
<1> QED
  BY <1>3, <1>4

LEMMA FindReturnsKnown ==
  ASSUME IInv, NEW t \in Threads, NEW f, FindReturns(t, f)
  PROVE  Known'[t] = f /\ pc'[t] = "found"
<1>1. pc'[t] = "found" /\ found'[t] = f
  BY DEF FindReturns, Go, IInv, Types
<1> QED
  BY <1>1 DEF Known

LEMMA FirstCheckLookup ==
  ASSUME SInv, NEW t \in Threads, FirstCheck(t)
  PROVE  Abstract /\ \A u \in Threads : Seen(u)'
<1> DEFINE l == Goal(t)
<1>1. IInv /\ pc[t] = "first" /\ pc \in [Threads -> Labels] /\ found \in [Threads -> Answers]
      /\ UNCHANGED <<disk, sharedVars, callVars, place, result, steady>>
  BY DEF SInv, FirstCheck, At, IInv, Types
<1>2. /\ \/ Misplaced(l) /\ FindReturns(t, Missing)
         \/ /\ ~Misplaced(l) /\ l.to # "archives" /\ Matches(disk, FullPath(l), l)
            /\ FindReturns(t, FoundOnDisk(disk, FullPath(l)))
         \/ /\ ~Misplaced(l) /\ ~(l.to # "archives" /\ Matches(disk, FullPath(l), l))
            /\ \/ InSearchPaths(l) /\ Go(t, "lockPaths") /\ UNCHANGED found
               \/ ~InSearchPaths(l) /\ ToArchives(t)
  BY DEF FirstCheck
<1>3. FindStepOf(t)
  BY <1>1, <1>2, FindFrame DEF sharedVars
<1>4. Goal(t)' = l /\ IsLocation(l) /\ searchPaths \in Seq(Paths)
  BY <1>1, <1>3, FindAsks, GoalIsLocation, SearchPathsAre
<1> HIDE DEF l
<1>5. ASSUME pc'[t] \in {"found", "lockArchives"} PROVE \A u \in Threads : Seen(u)'
  <2>1. Seen(t)'
    BY <1>5 DEF Seen
  <2> QED
    BY <1>3, <2>1, FindSeen
<1>6. CASE Misplaced(l) /\ FindReturns(t, Missing)
  <2>1. FirstMatch(disk, searchPaths, mounted, l) = Missing
    BY <1>6 DEF FirstMatch
  <2> QED
    BY <1>1, <1>3, <1>5, <1>6, <2>1, FindReturnsKnown, FindRefines DEF l
<1>7. CASE /\ ~Misplaced(l) /\ l.to # "archives" /\ Matches(disk, FullPath(l), l)
           /\ FindReturns(t, FoundOnDisk(disk, FullPath(l)))
  <2>1. FirstMatch(disk, searchPaths, mounted, l) = FoundOnDisk(disk, FullPath(l))
    BY <1>4, <1>7, MatchHere
  <2> QED
    BY <1>1, <1>3, <1>5, <1>7, <2>1, FindReturnsKnown, FindRefines DEF l
<1>8. CASE /\ ~(l.to # "archives" /\ Matches(disk, FullPath(l), l))
           /\ InSearchPaths(l) /\ Go(t, "lockPaths") /\ UNCHANGED found
  <2>1. pc'[t] = "lockPaths" /\ disk' = disk
    BY <1>1, <1>3, <1>8 DEF Go, FindStepOf
  <2>2. Known'[t] = Known[t]
    BY <1>1, <2>1 DEF Known
  <2>3. Seen(t)'
    <3>1. ~Matches(disk', FullPath(l), l)
      BY <1>8, <2>1 DEF InSearchPaths
    <3> QED
      BY <1>4, <2>1, <3>1 DEF Seen
  <2> QED
    BY <1>1, <1>3, <2>2, <2>3, FindRefines, FindSeen
<1>9. CASE /\ ~Misplaced(l) /\ ~(l.to # "archives" /\ Matches(disk, FullPath(l), l))
           /\ ~InSearchPaths(l) /\ ToArchives(t)
  <2>1. FirstMatch(disk, searchPaths, mounted, l) = InArchive(mounted, l)
    BY <1>4, <1>9, NoMatch
  <2>2. Known'[t] = InArchive(mounted, l) /\ pc'[t] \in {"found", "lockArchives"}
    BY <1>1, <1>3, <1>9, ToArchivesKnown DEF l
  <2> QED
    BY <1>1, <1>3, <1>5, <2>1, <2>2, FindRefines DEF l
<1> QED
  BY <1>2, <1>6, <1>7, <1>8, <1>9

LEMMA LockLookup ==
  ASSUME SInv, NEW t \in Threads, LockAny(t)
  PROVE  Abstract /\ \A u \in Threads : Seen(u)'
<1>1. PICK to \in {"second", "third"} :
        /\ pc[t] = IF to = "second" THEN "lockPaths" ELSE "lockArchives"
        /\ place' = [place EXCEPT ![t] = 1] /\ pc' = [pc EXCEPT ![t] = to]
        /\ UNCHANGED <<disk, searchPaths, mounted, callVars, found, result, steady>>
  BY DEF LockAny, Lock, At, Go
<1>2. IInv /\ Seen(t) /\ pc \in [Threads -> Labels] /\ place \in [Threads -> Nat]
  BY DEF SInv, IInv, Types
<1>3. pc'[t] = to /\ place'[t] = 1
  BY <1>1, <1>2
<1>4. FindStepOf(t)
  <2>1. \A u \in Threads \ {t} : Untouched(u)
    BY <1>1 DEF Untouched, callVars
  <2> QED
    BY <1>1, <1>3, <2>1 DEF FindStepOf, callVars
<1>5. Goal(t)' = Goal(t)
  BY <1>2, <1>4, FindAsks
<1>6. Known'[t] = Known[t]
  BY <1>1, <1>3, <1>5 DEF Known
<1>7. Seen(t)'
  BY <1>1, <1>2, <1>3, <1>5 DEF Seen
<1> QED
  BY <1>2, <1>4, <1>6, <1>7, FindRefines, FindSeen

LEMMA SecondCheckLookup ==
  ASSUME SInv, NEW t \in Threads, SecondCheck(t)
  PROVE  Abstract /\ \A u \in Threads : Seen(u)'
<1> DEFINE l == Goal(t)
           k == place[t]
           p == Join(searchPaths[k], l.path)
<1>1. /\ IInv /\ pc[t] = "second" /\ pc \in [Threads -> Labels] /\ found \in [Threads -> Answers]
      /\ place \in [Threads -> Nat]
      /\ UNCHANGED <<disk, searchPaths, mounted, callVars, result, steady>>
  BY DEF SInv, SecondCheck, At, IInv, Types
<1>2. /\ searchPaths \in Seq(Paths) /\ Len(searchPaths) \in Nat
      /\ IsLocation(l) /\ ~Misplaced(l) /\ InSearchPaths(l) /\ l.to # "archives"
      /\ k \in 1 .. Len(searchPaths) + 1
      /\ ~Matches(disk, FullPath(l), l)
      /\ \A j \in 1 .. k - 1 : ~Matches(disk, Join(searchPaths[j], l.path), l)
  <2>1. Local(t) /\ Seen(t)
    BY DEF SInv, IInv
  <2> QED
    BY <1>1, <2>1, SearchPathsAre, GoalIsLocation DEF Local, Scanning, Passed, Seen, InSearchPaths
<1>3. \/ k > Len(searchPaths) /\ ToArchives(t) /\ UNCHANGED place
      \/ /\ k <= Len(searchPaths) /\ Matches(disk, p, l)
         /\ FindReturns(t, FoundOnDisk(disk, p)) /\ UNCHANGED place
      \/ /\ k <= Len(searchPaths) /\ ~Matches(disk, p, l)
         /\ place' = [place EXCEPT ![t] = k + 1] /\ UNCHANGED <<pc, found>>
  BY <1>2 DEF SecondCheck
<1>4. FindStepOf(t)
  BY <1>1, <1>3, FindFrame DEF sharedVars
<1>5. Goal(t)' = l
  BY <1>1, <1>4, FindAsks
<1> HIDE DEF l
<1>6. ASSUME pc'[t] \in {"found", "lockArchives"} PROVE \A u \in Threads : Seen(u)'
  <2>1. Seen(t)'
    BY <1>6 DEF Seen
  <2> QED
    BY <1>4, <2>1, FindSeen
<1>7. CASE k > Len(searchPaths) /\ ToArchives(t)
  <2>1. \A j \in 1 .. Len(searchPaths) : ~Matches(disk, Join(searchPaths[j], l.path), l)
    BY <1>2, <1>7
  <2>2. FirstMatch(disk, searchPaths, mounted, l) = InArchive(mounted, l)
    BY <1>2, <2>1, NoMatch
  <2>3. Known'[t] = InArchive(mounted, l) /\ pc'[t] \in {"found", "lockArchives"}
    BY <1>1, <1>4, <1>7, ToArchivesKnown DEF l
  <2> QED
    BY <1>1, <1>4, <1>6, <2>2, <2>3, FindRefines DEF l
<1>8. CASE k <= Len(searchPaths) /\ Matches(disk, p, l) /\ FindReturns(t, FoundOnDisk(disk, p))
  <2>1. k \in 1 .. Len(searchPaths)
    BY <1>2, <1>8
  <2>2. FirstMatch(disk, searchPaths, mounted, l) = FoundOnDisk(disk, p)
    BY <1>2, <1>8, <2>1, MatchInPath
  <2> HIDE DEF p
  <2> QED
    BY <1>1, <1>4, <1>6, <1>8, <2>2, FindReturnsKnown, FindRefines DEF l
<1>9. CASE /\ k <= Len(searchPaths) /\ ~Matches(disk, p, l)
           /\ place' = [place EXCEPT ![t] = k + 1] /\ UNCHANGED <<pc, found>>
  <2>1. Known'[t] = Known[t]
    BY <1>1, <1>9 DEF Known
  <2>2. pc'[t] = "second" /\ place'[t] = k + 1
    BY <1>1, <1>9
  <2>3. \A j \in 1 .. (k + 1) - 1 : ~Matches(disk, Join(searchPaths[j], l.path), l)
    <3>1. ASSUME NEW j \in 1 .. (k + 1) - 1 PROVE ~Matches(disk, Join(searchPaths[j], l.path), l)
      <4>1. j \in 1 .. k - 1 \/ j = k
        BY <1>2
      <4> QED
        BY <1>2, <1>9, <4>1
    <3> QED
      BY <3>1
  <2>4. Seen(t)'
    BY <1>1, <1>2, <1>5, <2>2, <2>3 DEF Seen
  <2> QED
    BY <1>1, <1>4, <2>1, <2>4, FindRefines, FindSeen
<1> QED
  BY <1>3, <1>7, <1>8, <1>9

LEMMA ThirdCheckLookup ==
  ASSUME SInv, NEW t \in Threads, ThirdCheck(t)
  PROVE  Abstract /\ \A u \in Threads : Seen(u)'
<1> DEFINE l == Goal(t)
           k == place[t]
<1>1. /\ IInv /\ pc[t] = "third" /\ pc \in [Threads -> Labels] /\ found \in [Threads -> Answers]
      /\ place \in [Threads -> Nat] /\ mounted \in Seq(Archives) /\ Len(mounted) \in Nat
      /\ UNCHANGED <<disk, searchPaths, mounted, callVars, result, steady>>
  BY LenProperties DEF SInv, ThirdCheck, At, IInv, Types
<1>2. /\ InArchives(l) /\ k \in 1 .. Len(mounted) + 1
      /\ \A j \in 1 .. k - 1 : ~HasEntry(mounted[j], l.path, l.type)
  <2>1. Local(t) /\ Seen(t)
    BY DEF SInv, IInv
  <2> QED
    BY <1>1, <2>1 DEF Local, Scanning, Passed, Seen
<1>3. \/ k > Len(mounted) /\ FindReturns(t, Missing) /\ UNCHANGED place
      \/ /\ k <= Len(mounted) /\ HasEntry(mounted[k], l.path, l.type)
         /\ FindReturns(t, Found(l.path, l.type, mounted[k])) /\ UNCHANGED place
      \/ /\ k <= Len(mounted) /\ ~HasEntry(mounted[k], l.path, l.type)
         /\ place' = [place EXCEPT ![t] = k + 1] /\ UNCHANGED <<pc, found>>
  BY <1>1, <1>2 DEF ThirdCheck
<1>4. FindStepOf(t)
  BY <1>1, <1>3, FindFrame DEF sharedVars
<1>5. Goal(t)' = l
  BY <1>1, <1>4, FindAsks
<1>6. Known[t] = InArchive(mounted, l)
  BY <1>1 DEF Known
<1> HIDE DEF l
<1>7. ASSUME NEW f, FindReturns(t, f), InArchive(mounted, l) = f PROVE Abstract /\ \A u \in Threads : Seen(u)'
  <2>1. Known'[t] = f /\ pc'[t] = "found"
    BY <1>1, <1>7, FindReturnsKnown
  <2>2. Seen(t)'
    BY <2>1 DEF Seen
  <2> QED
    BY <1>1, <1>4, <1>6, <1>7, <2>1, <2>2, FindRefines, FindSeen
<1>8. CASE k > Len(mounted) /\ FindReturns(t, Missing)
  <2>1. \A j \in 1 .. Len(mounted) : ~HasEntry(mounted[j], l.path, l.type)
    BY <1>1, <1>2, <1>8
  <2> QED
    BY <1>7, <1>8, <2>1, NoEntry
<1>9. CASE /\ k <= Len(mounted) /\ HasEntry(mounted[k], l.path, l.type)
           /\ FindReturns(t, Found(l.path, l.type, mounted[k]))
  <2>1. k \in 1 .. Len(mounted)
    BY <1>1, <1>2, <1>9
  <2>2. InArchive(mounted, l) = Found(l.path, l.type, mounted[k])
    BY <1>1, <1>2, <1>9, <2>1, FirstEntry
  <2> QED
    BY <1>7, <1>9, <2>2
<1>10. CASE /\ k <= Len(mounted) /\ ~HasEntry(mounted[k], l.path, l.type)
            /\ place' = [place EXCEPT ![t] = k + 1] /\ UNCHANGED <<pc, found>>
  <2>1. Known'[t] = Known[t]
    BY <1>1, <1>5, <1>6, <1>10 DEF Known
  <2>2. pc'[t] = "third" /\ place'[t] = k + 1
    BY <1>1, <1>10
  <2>3. ASSUME NEW j \in 1 .. (k + 1) - 1 PROVE ~HasEntry(mounted[j], l.path, l.type)
    <3>1. j \in 1 .. k - 1 \/ j = k
      BY <1>1, <1>2
    <3> QED
      BY <1>2, <1>10, <3>1
  <2>4. Seen(t)'
    BY <1>1, <1>5, <2>2, <2>3 DEF Seen
  <2> QED
    BY <1>1, <1>4, <2>1, <2>4, FindRefines, FindSeen
<1> QED
  BY <1>3, <1>8, <1>9, <1>10

LEMMA ThirdCheckTornLookup ==
  ASSUME SInv, NEW t \in Threads, ThirdCheckTorn(t)
  PROVE  Abstract /\ \A u \in Threads : Seen(u)'
<1>1. /\ IInv /\ pc[t] = "torn" /\ pc' = [pc EXCEPT ![t] = "found"] /\ pc \in [Threads -> Labels]
      /\ UNCHANGED <<disk, searchPaths, mounted, callVars, place, found>>
  BY DEF SInv, ThirdCheckTorn, At, Go, IInv, Types, findVars
<1>2. pc'[t] = "found"
  BY <1>1
<1>3. FindStepOf(t)
  <2>1. \A u \in Threads \ {t} : Untouched(u)
    BY <1>1 DEF Untouched, callVars
  <2> QED
    BY <1>1, <1>2, <2>1 DEF FindStepOf, callVars
<1>4. Known'[t] = Known[t]
  BY <1>1, <1>2 DEF Known
<1>5. Seen(t)'
  BY <1>2 DEF Seen
<1> QED
  BY <1>1, <1>3, <1>4, <1>5, FindRefines, FindSeen

LEMMA PathsBecomeLookup ==
  ASSUME SInv, NEW paths, PathsBecome(paths),
         \/ \E p \in Pushed : paths = Append(searchPaths, p)
         \/ searchPaths # <<>> /\ paths = SubSeq(searchPaths, 1, Len(searchPaths) - 1)
         \/ paths = <<>>
  PROVE  Abstract /\ \A u \in Threads : Seen(u)'
<1>1. /\ searchPaths' = paths /\ mutex = NoThread
      /\ UNCHANGED <<disk, mounted, pc, call, goal, place, found, source>>
  BY DEF PathsBecome, callVars, findVars
<1>2. \A u : Goal(u)' = Goal(u)
  BY <1>1 DEF Goal
<1>3. UNCHANGED <<Asked, Known>>
  BY <1>1, <1>2 DEF Asked, Known
<1>4. ASSUME NEW u \in Threads PROVE Seen(u)'
  <2>1. pc[u] # "second" /\ pc'[u] = pc[u] /\ Seen(u) /\ disk' = disk /\ mounted' = mounted /\ place' = place
    BY <1>1, CallsAssumption DEF SInv, IInv, Local, Scanning
  <2> QED
    BY <1>2, <2>1 DEF Seen
<1> QED
  BY <1>1, <1>3, <1>4, PathsStep DEF Abstract

LEMMA MountLookup ==
  ASSUME SInv, NEW t \in Threads, NEW a \in Archives, MountArchive(t, a)
  PROVE  Abstract /\ \A u \in Threads : Seen(u)'
<1>1. /\ mounted' = Append(mounted, a)
      /\ pc' = [u \in Threads |-> IF pc[u] = "third" THEN "torn" ELSE pc[u]]
      /\ UNCHANGED <<disk, searchPaths, call, goal, source, place>>
      /\ \A u \in Threads : pc[u] \notin {"third", "torn"} => found'[u] = found[u]
  BY DEF MountArchive, callVars
<1>2. \A u : Goal(u)' = Goal(u)
  BY <1>1 DEF Goal
<1>3. UNCHANGED Asked
  BY <1>1, <1>2 DEF Asked
<1>4. ASSUME NEW u \in Threads PROVE InArchives(Asked[u]) \/ Known'[u] = Known[u]
  <2>1. Local(u) /\ IInv
    BY DEF SInv, IInv
  <2>2. CASE pc[u] \in {"lockArchives", "third", "torn"}
    BY <2>1, <2>2, StandsFor DEF Local, Passed
  <2>3. CASE pc[u] \notin {"lockArchives", "third", "torn"}
    <3>1. pc'[u] = pc[u] /\ found'[u] = found[u]
      BY <1>1, <2>3
    <3> QED
      BY <2>3, <3>1 DEF Known
  <2> QED
    BY <2>2, <2>3
<1>5. ASSUME NEW u \in Threads PROVE Seen(u)'
  <2>1. Seen(u) /\ pc'[u] = IF pc[u] = "third" THEN "torn" ELSE pc[u]
    BY <1>1 DEF SInv
  <2> QED
    BY <1>1, <1>2, <2>1 DEF Seen
<1> QED
  BY <1>1, <1>3, <1>4, <1>5, MountStep DEF Abstract

LEMMA ConfigureLookup ==
  ASSUME SInv, NEW t \in Threads, Configure(t)
  PROVE  Abstract /\ \A u \in Threads : Seen(u)'
<1>1. ASSUME NEW l \in PushPlaces, PushSearchPath(t, l) PROVE Abstract /\ \A u \in Threads : Seen(u)'
  <2>1. FullPath(l) \in Pushed /\ PathsBecome(Append(searchPaths, FullPath(l)))
    BY <1>1 DEF PushSearchPath, Pushed
  <2> QED
    BY <2>1, PathsBecomeLookup
<1>2. ASSUME PopSearchPath(t) PROVE Abstract /\ \A u \in Threads : Seen(u)'
  BY <1>2, PathsBecomeLookup DEF PopSearchPath
<1>3. ASSUME ClearSearchPaths(t) PROVE Abstract /\ \A u \in Threads : Seen(u)'
  BY <1>3, PathsBecomeLookup DEF ClearSearchPaths
<1> QED
  BY <1>1, <1>2, <1>3, MountLookup DEF Configure

LEMMA BeginLookup ==
  ASSUME SInv, NEW t \in Threads, NEW c \in Requests, Begin(t, c)
  PROVE  Abstract /\ \A u \in Threads : Seen(u)'
<1>1. /\ IInv /\ pc[t] = "idle" /\ pc \in [Threads -> Labels]
      /\ call \in [Threads -> Requests \cup {NoCall}] /\ goal \in [Threads -> {"target", "parent"}]
      /\ UNCHANGED <<disk, searchPaths, mounted, mutex, place, found, source>>
  BY DEF SInv, IInv, Types, Begin, sharedVars, findVars
<1>2. CASE UNCHANGED <<pc, call, goal>>
  <2>1. \A u : Goal(u)' = Goal(u)
    BY <1>2 DEF Goal
  <2>2. UNCHANGED <<Asked, Known>>
    BY <1>1, <1>2, <2>1 DEF Asked, Known
  <2>3. \A u \in Threads : Seen(u)'
    BY <1>1, <1>2, SeenUntouched DEF SInv, Untouched
  <2> QED
    BY <1>1, <2>2, <2>3, StutterStep DEF Abstract
<1>3. CASE /\ call' = [call EXCEPT ![t] = c] /\ goal' = [goal EXCEPT ![t] = "target"]
           /\ Go(t, "first")
  <2>1. /\ call'[t] = c /\ goal'[t] = "target" /\ pc'[t] = "first"
        /\ \A u \in Threads \ {t} : Untouched(u)
    BY <1>1, <1>3 DEF Untouched, Go
  <2>2. Asked'[t] = c.loc /\ Known'[t] = Unknown
    BY <2>1 DEF Asked, Known, Goal
  <2>3. Asked' = [Asked EXCEPT ![t] = c.loc] /\ Known' = [Known EXCEPT ![t] = Unknown]
    BY <1>1, <2>1, <2>2, OneAsks
  <2>4. Asked[t] = NoLocation /\ c.loc \in Locations
    BY <1>1, StandsFor DEF Locations
  <2>5. ASSUME NEW u \in Threads PROVE Seen(u)'
    <3>1. CASE u = t
      BY <2>1, <3>1 DEF Seen
    <3>2. CASE u # t
      BY <1>1, <2>1, <3>2, SeenUntouched DEF SInv
    <3> QED
      BY <3>1, <3>2
  <2> QED
    BY <1>1, <2>3, <2>4, <2>5, AskStep DEF Abstract
<1> QED
  BY <1>2, <1>3 DEF Begin

LEMMA FindParentLookup ==
  ASSUME SInv, NEW t \in Threads, FindParent(t)
  PROVE  Abstract /\ \A u \in Threads : Seen(u)'
<1>1. /\ IInv /\ pc[t] = "found"
      /\ pc \in [Threads -> Labels] /\ found \in [Threads -> Answers] /\ source \in [Threads -> Answers]
      /\ goal \in [Threads -> {"target", "parent"}]
      /\ goal' = [goal EXCEPT ![t] = "parent"]
      /\ source' = [source EXCEPT ![t] = found[t]]
      /\ found' = [found EXCEPT ![t] = Missing]
      /\ pc' = [pc EXCEPT ![t] = "first"]
      /\ UNCHANGED <<disk, searchPaths, mounted, mutex, call, place>>
  BY DEF SInv, IInv, Types, FindParent, Doing, At, Go, sharedVars
<1>2. /\ goal'[t] = "parent" /\ pc'[t] = "first" /\ call'[t] = call[t]
      /\ \A u \in Threads \ {t} : Untouched(u)
  BY <1>1 DEF Untouched
<1> DEFINE l == ParentLocation(call[t].dst)
<1>3. Asked'[t] = l /\ Known'[t] = Unknown
  BY <1>2 DEF Asked, Known, Goal
<1>4. l \in Locations
  BY <1>1 DEF Locations, IInv, Local, Engaged
<1> HIDE DEF l
<1>5. Asked' = [Asked EXCEPT ![t] = l] /\ Known' = [Known EXCEPT ![t] = Unknown]
  BY <1>1, <1>2, <1>3, OneAsks
<1>6. Known[t] # Unknown
  BY <1>1, StandsFor
<1>7. ASSUME NEW u \in Threads PROVE Seen(u)'
  <2>1. CASE u = t
    BY <1>2, <2>1 DEF Seen
  <2>2. CASE u # t
    BY <1>1, <1>2, <2>2, SeenUntouched DEF SInv
  <2> QED
    BY <2>1, <2>2
<1> QED
  BY <1>1, <1>4, <1>5, <1>6, <1>7, AskStep DEF Abstract

(***************************************************************************)
(* The setting: the thread that changes the disk is the only one that      *)
(* looks anything up, or there is none that does.  Any number of threads   *)
(* may look things up, push, pop, clear and mount.                         *)
(***************************************************************************)
ChangesDisk == {"write", "rename", "remove", "createDirectory"}

QuietDisk ==
  \A t, u \in Threads :
    t # u /\ Ops[t] \cap ChangesDisk # {} => Ops[u] \cap (LookingOnly \cup ChangesDisk) = {}

LEMMA QuietFinish ==
  ASSUME IInv, QuietDisk, NEW t \in Threads, Finish(t), NEW u \in Threads \ {t}, pc[u] # "idle"
  PROVE  disk' = disk
<1>1. PICK did : /\ pc[t] = "found" /\ Return(t, did)
                 /\ call[t].op \in LookingOnly => did.disk = disk
  BY FinishReturns
<1>2. \A v \in Threads : pc[v] # "idle" =>
        call[v] \in Requests /\ call[v].op \in Ops[v] /\ call[v].op \in LookingOnly \cup ChangesDisk
  BY CallsAssumption DEF IInv, Local, Engaged, LookingOnly, ChangesDisk
<1>3. call[t].op \in Ops[t] /\ call[u].op \in Ops[u] \cap (LookingOnly \cup ChangesDisk)
  BY <1>1, <1>2
<1>4. call[t].op \notin ChangesDisk
  BY <1>3 DEF QuietDisk
<1>5. call[t].op \in LookingOnly
  BY <1>1, <1>2, <1>4
<1> QED
  BY <1>1, <1>5 DEF Return

LEMMA FinishLookup ==
  ASSUME SInv, QuietDisk, NEW t \in Threads, Finish(t)
  PROVE  Abstract /\ \A u \in Threads : Seen(u)'
<1>1. PICK did : /\ IInv /\ pc[t] = "found" /\ Return(t, did) /\ Sound(disk, did, ActsOn(t))
                 /\ call[t].op \in LookingOnly => did.disk = disk
  BY FinishReturns DEF SInv
<1>2. /\ disk' = did.disk /\ disk' \in [Tree -> Kinds]
      /\ call' = [call EXCEPT ![t] = NoCall]
      /\ goal' = [goal EXCEPT ![t] = "target"]
      /\ found' = [found EXCEPT ![t] = Missing]
      /\ source' = [source EXCEPT ![t] = Missing]
      /\ place' = [place EXCEPT ![t] = 1]
      /\ pc' = [pc EXCEPT ![t] = "idle"]
      /\ UNCHANGED <<searchPaths, mounted, mutex>>
  BY <1>1 DEF Return, Sound, Go, sharedVars
<1>3. pc'[t] = "idle" /\ \A u \in Threads \ {t} : Untouched(u)
  BY <1>1, <1>2 DEF Untouched, IInv, Types
<1>4. ASSUME NEW u \in Threads \ {t}, pc[u] # "idle" PROVE disk' = disk
  BY <1>1, <1>4, QuietFinish
<1>5. Asked'[t] = NoLocation /\ Known'[t] = Unknown
  BY <1>3 DEF Asked, Known
<1>6. Asked' = [Asked EXCEPT ![t] = NoLocation] /\ Known' = [Known EXCEPT ![t] = Unknown]
  BY <1>2, <1>3, <1>5, OneAsks
<1>7. Asked[t] # NoLocation /\ Known[t] # Unknown
  BY <1>1, StandsFor
<1>8. \A u \in Threads \ {t} : Asked[u] # NoLocation => disk' = disk
  BY <1>1, <1>4, StandsFor
<1>9. ASSUME NEW u \in Threads PROVE Seen(u)'
  <2>1. CASE u = t
    BY <1>3, <2>1 DEF Seen
  <2>2. CASE u # t
    BY <1>2, <1>3, <1>4, <2>2, SeenUntouched DEF SInv
  <2> QED
    BY <2>1, <2>2
<1> QED
  BY <1>2, <1>6, <1>7, <1>8, <1>9, FinishStep DEF Abstract

LEMMA StepLookup ==
  ASSUME QuietDisk, SInv, [Next]_vars
  PROVE  SInv' /\ Abstract
<1>1. IInv'
  BY StepIInv DEF SInv
<1>2. Abstract /\ \A u \in Threads : Seen(u)'
  <2>1. ASSUME NEW t \in Threads, Find(t) PROVE Abstract /\ \A u \in Threads : Seen(u)'
    BY <2>1, FirstCheckLookup, SecondCheckLookup, ThirdCheckLookup, ThirdCheckTornLookup DEF Find
  <2>2. CASE UNCHANGED vars
    <3>1. UNCHANGED <<disk, searchPaths, mounted, mutex, pc, call, goal, place, found, source>>
      BY <2>2 DEF vars, sharedVars, callVars, findVars
    <3>2. \A u : Goal(u)' = Goal(u)
      BY <3>1 DEF Goal
    <3>3. UNCHANGED <<Asked, Known>>
      BY <3>1, <3>2 DEF Asked, Known
    <3>4. \A u \in Threads : Seen(u)'
      BY <3>1, SeenUntouched DEF SInv, Untouched
    <3> QED
      BY <3>1, <3>3, <3>4, StutterStep DEF Abstract
  <2> QED
    BY <2>1, <2>2, ConfigureLookup, BeginLookup, LockLookup, FindParentLookup, FinishLookup
    DEF Next, Continue
<1> QED
  BY <1>1, <1>2 DEF SInv

LEMMA InitSInv == Init => SInv
<1> SUFFICES ASSUME Init PROVE SInv
  OBVIOUS
<1>1. IInv
  BY InitIInv
<1>2. ASSUME NEW u \in Threads PROVE Seen(u)
  BY DEF Init, Seen
<1> QED
  BY <1>1, <1>2 DEF SInv

(***************************************************************************)
(* A lookup answers where the location was at one instant of the call,     *)
(* whoever pushes and pops search paths and mounts archives meanwhile:     *)
(* Find is one atomic lookup (FileSystem.cpp:89-161; README.md:9).         *)
(***************************************************************************)
THEOREM FindIsAtomic ==
  ASSUME QuietDisk
  PROVE  Spec => LookupSpec
<1>1. Init => SInv /\ Lookup!Init
  BY InitSInv, InitLookup
<1>2. SInv /\ [Next]_vars => SInv' /\ [Lookup!Next]_(Lookup!vars)
  BY StepLookup DEF Abstract
<1>3. Spec => Lookup!Init /\ [][Lookup!Next]_(Lookup!vars)
  BY <1>1, <1>2, PTL DEF Spec
<1> QED
  BY <1>3 DEF LookupSpec, Lookup!Spec
=============================================================================

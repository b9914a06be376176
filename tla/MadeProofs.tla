----------------------------- MODULE MadeProofs -----------------------------
(***************************************************************************)
(* What a call makes is what its location finds.                           *)
(***************************************************************************)
EXTENDS LookupProofs

(***************************************************************************)
(* Paths.                                                                  *)
(***************************************************************************)
LEMMA BelowMeans ==
  ASSUME NEW p \in Paths, NEW q \in Paths
  PROVE  Below(p, q) <=> Len(p) < Len(q) /\ \A k \in 1 .. Len(p) : q[k] = p[k]
<1> DEFINE front == SubSeq(q, 1, Len(p))
<1>1. Len(p) \in Nat /\ Len(q) \in Nat
  BY LenProperties DEF Paths
<1>2. ASSUME Len(p) < Len(q)
      PROVE  front = p <=> \A k \in 1 .. Len(p) : q[k] = p[k]
  <2>1. \A k \in 1 .. Len(p) : q[k] \in STRING
    BY <1>1, <1>2, ElementOfSeq DEF Paths
  <2>2. /\ front \in Seq(STRING)
        /\ Len(front) = IF 1 <= Len(p) THEN Len(p) - 1 + 1 ELSE 0
        /\ \A k \in 1 .. Len(p) - 1 + 1 : front[k] = q[1 + k - 1]
    <3> HIDE DEF front
    <3> QED
      BY <1>1, <2>1, SubSeqProperties DEF front
  <2> HIDE DEF front
  <2>3. Len(front) = Len(p) /\ \A k \in 1 .. Len(p) : front[k] = q[k]
    BY <1>1, <2>2
  <2>4. ASSUME \A k \in 1 .. Len(p) : q[k] = p[k] PROVE front = p
    BY <2>2, <2>3, <2>4, SeqEqual DEF Paths
  <2> QED
    BY <2>3, <2>4
<1> QED
  BY <1>2 DEF Below

LEMMA JoinedMeans ==
  ASSUME NEW p \in Paths, NEW w \in Paths
  PROVE  /\ p \o w \in Paths
         /\ Len(p) \in Nat /\ Len(w) \in Nat /\ Len(p \o w) = Len(p) + Len(w)
         /\ \A k \in 1 .. Len(p) : (p \o w)[k] = p[k]
         /\ \A k \in 1 .. Len(w) : (p \o w)[Len(p) + k] = w[k]
<1>1. Len(p) \in Nat /\ Len(w) \in Nat
  BY LenProperties DEF Paths
<1>2. /\ p \o w \in Paths /\ Len(p \o w) = Len(p) + Len(w)
      /\ \A i \in 1 .. Len(p) + Len(w) : (p \o w)[i] = IF i <= Len(p) THEN p[i] ELSE w[i - Len(p)]
  BY ConcatProperties DEF Paths
<1> DEFINE j == p \o w
<1> HIDE DEF j
<1>3. \A i \in 1 .. Len(p) + Len(w) : j[i] = IF i <= Len(p) THEN p[i] ELSE w[i - Len(p)]
  BY <1>2 DEF j
<1>4. \A k \in 1 .. Len(p) : j[k] = p[k]
  BY <1>1, <1>3
<1>5. ASSUME NEW k \in 1 .. Len(w) PROVE j[Len(p) + k] = w[k]
  BY <1>1, <1>3
<1> QED
  BY <1>1, <1>2, <1>4, <1>5 DEF j

LEMMA NotEmpty ==
  ASSUME NEW p \in Paths
  PROVE  /\ Len(p) \in Nat
         /\ p = <<>> <=> Len(p) = 0
BY EmptySeq, LenProperties DEF Paths

LEMMA BelowJoined ==
  ASSUME NEW p \in Paths, NEW w \in Paths, w # <<>>
  PROVE  Below(p, p \o w)
<1> DEFINE j == p \o w
<1>1. j \in Paths /\ Len(j) = Len(p) + Len(w) /\ \A k \in 1 .. Len(p) : j[k] = p[k]
  BY JoinedMeans
<1> HIDE DEF j
<1>2. Len(p) < Len(j)
  BY <1>1, NotEmpty
<1> QED
  BY <1>1, <1>2, BelowMeans DEF j

(* The names of a path below another, behind those of the other.           *)
Rest(p, s) == SubSeq(s, Len(p) + 1, Len(s))

LEMMA RestOf ==
  ASSUME NEW p \in Paths, NEW s \in Paths, s = p \/ Below(p, s)
  PROVE  /\ Rest(p, s) \in Paths /\ s = p \o Rest(p, s)
         /\ s = p => Rest(p, s) = <<>>
         /\ Below(p, s) => Rest(p, s) # <<>>
<1> DEFINE w == Rest(p, s)
<1>1. Len(p) \in Nat /\ Len(s) \in Nat /\ Len(p) <= Len(s)
  BY LenProperties DEF Paths, Below
<1>2. \A k \in 1 .. Len(p) : s[k] = p[k]
  BY BelowMeans
<1>3. /\ w \in Paths
      /\ Len(w) = Len(s) - Len(p)
      /\ \A k \in 1 .. Len(s) - Len(p) : w[k] = s[Len(p) + k]
  <2>1. \A k \in Len(p) + 1 .. Len(s) : s[k] \in STRING
    BY <1>1, ElementOfSeq DEF Paths
  <2>2. /\ w \in Seq(STRING)
        /\ Len(w) = IF Len(p) + 1 <= Len(s) THEN Len(s) - (Len(p) + 1) + 1 ELSE 0
        /\ \A k \in 1 .. Len(s) - (Len(p) + 1) + 1 : w[k] = s[(Len(p) + 1) + k - 1]
    <3> HIDE DEF w
    <3> QED
      BY <1>1, <2>1, SubSeqProperties DEF w, Rest
  <2> HIDE DEF w
  <2>3. ASSUME NEW k \in 1 .. Len(s) - Len(p) PROVE w[k] = s[Len(p) + k]
    <3>1. k \in 1 .. Len(s) - (Len(p) + 1) + 1 /\ (Len(p) + 1) + k - 1 = Len(p) + k
      BY <1>1
    <3> QED
      BY <2>2, <3>1
  <2> QED
    BY <1>1, <2>2, <2>3 DEF Paths
<1> HIDE DEF w
<1>4. s = p \o w
  <2> DEFINE j == p \o w
  <2>1. /\ j \in Paths /\ Len(j) = Len(p) + Len(w)
        /\ \A k \in 1 .. Len(p) : j[k] = p[k]
        /\ \A k \in 1 .. Len(w) : j[Len(p) + k] = w[k]
    BY <1>3, JoinedMeans
  <2> HIDE DEF j
  <2>2. ASSUME NEW k \in 1 .. Len(s) PROVE s[k] = j[k]
    <3>1. CASE k <= Len(p)
      BY <1>1, <1>2, <2>1, <3>1
    <3>2. CASE k > Len(p)
      <4>1. k - Len(p) \in 1 .. Len(w) /\ Len(p) + (k - Len(p)) = k
        BY <1>1, <1>3, <3>2
      <4>2. j[k] = w[k - Len(p)] /\ w[k - Len(p)] = s[k]
        BY <1>3, <2>1, <4>1
      <4> QED
        BY <4>2
    <3> QED
      BY <1>1, <3>1, <3>2
  <2>3. Len(s) = Len(j)
    BY <1>1, <1>3, <2>1
  <2>4. s = j
    BY <2>1, <2>2, <2>3, SeqEqual DEF Paths
  <2> QED
    BY <2>4 DEF j
<1>5. s = p => w = <<>>
  BY <1>1, <1>3, NotEmpty
<1>6. Below(p, s) => w # <<>>
  BY <1>1, <1>3, NotEmpty DEF Below
<1> QED
  BY <1>3, <1>4, <1>5, <1>6 DEF w

LEMMA SamePath ==
  ASSUME NEW p \in Paths, NEW w \in Paths, NEW v \in Paths, p \o w = p \o v
  PROVE  w = v
BY ConcatSimplifications DEF Paths

LEMMA BelowItself ==
  ASSUME NEW p \in Paths, NEW q \in Paths, Below(p, q)
  PROVE  p # q /\ ~Below(q, p)
BY LenProperties DEF Paths, Below

LEMMA BelowBelow ==
  ASSUME NEW p \in Paths, NEW q \in Paths, NEW r \in Paths, Below(p, q), Below(q, r)
  PROVE  Below(p, r)
<1>1. /\ Len(p) \in Nat /\ Len(q) \in Nat /\ Len(r) \in Nat
      /\ Len(p) < Len(q) /\ Len(q) < Len(r)
      /\ \A k \in 1 .. Len(p) : q[k] = p[k]
      /\ \A k \in 1 .. Len(q) : r[k] = q[k]
  BY BelowMeans, NotEmpty
<1>2. Len(p) < Len(r) /\ \A k \in 1 .. Len(p) : r[k] = p[k]
  BY <1>1
<1> QED
  BY <1>2, BelowMeans

(* What is below a path is its parent's, or the parent is below too.       *)
LEMMA BelowParent ==
  ASSUME NEW p \in Paths, NEW r \in Paths
  PROVE  /\ r # <<>> => Below(ParentPath(r), r)
         /\ Below(p, r) <=> r # <<>> /\ (ParentPath(r) = p \/ Below(p, ParentPath(r)))
<1> DEFINE f == ParentPath(r)
<1>1. Len(p) \in Nat /\ Len(r) \in Nat /\ (r = <<>> <=> Len(r) = 0)
  BY NotEmpty
<1>2. CASE r = <<>>
  BY <1>1, <1>2 DEF Below
<1>3. CASE r # <<>>
  <2>1. /\ f \in Paths /\ Len(f) = Len(r) - 1 /\ \A k \in 1 .. Len(r) - 1 : f[k] = r[k]
    BY <1>3, ParentPathPath
  <2> HIDE DEF f
  <2>2. Below(f, r)
    BY <1>1, <1>3, <2>1, BelowMeans
  <2>3. ASSUME Below(p, r) PROVE f = p \/ Below(p, f)
    <3>1. Len(p) < Len(r) /\ \A k \in 1 .. Len(p) : r[k] = p[k]
      BY <2>3, BelowMeans
    <3>2. \A k \in 1 .. Len(p) : f[k] = p[k]
      BY <1>1, <2>1, <3>1
    <3>3. CASE Len(p) = Len(f)
      BY <2>1, <3>2, <3>3, SeqEqual DEF Paths
    <3>4. CASE Len(p) < Len(f)
      BY <2>1, <3>2, <3>4, BelowMeans
    <3> QED
      BY <1>1, <2>1, <3>1, <3>3, <3>4
  <2>4. f = p \/ Below(p, f) => Below(p, r)
    BY <2>1, <2>2, BelowBelow
  <2> QED
    BY <1>3, <2>2, <2>3, <2>4 DEF f
<1> QED
  BY <1>2, <1>3

LEMMA ParentJoined ==
  ASSUME NEW p \in Paths, NEW w \in Paths, w # <<>>
  PROVE  ParentPath(p \o w) = p \o ParentPath(w)
<1> DEFINE j == p \o w
           f == ParentPath(w)
           g == p \o f
           h == ParentPath(j)
<1>1. /\ Len(p) \in Nat /\ Len(w) \in Nat \ {0} /\ f \in Paths /\ Len(f) = Len(w) - 1
      /\ \A k \in 1 .. Len(w) - 1 : f[k] = w[k]
  BY ParentPathPath, NotEmpty
<1>2. /\ j \in Paths /\ Len(j) = Len(p) + Len(w)
      /\ \A k \in 1 .. Len(p) : j[k] = p[k]
      /\ \A k \in 1 .. Len(w) : j[Len(p) + k] = w[k]
  BY JoinedMeans
<1> HIDE DEF f
<1>3. /\ g \in Paths /\ Len(g) = Len(p) + Len(f)
      /\ \A k \in 1 .. Len(p) : g[k] = p[k]
      /\ \A k \in 1 .. Len(f) : g[Len(p) + k] = f[k]
  BY <1>1, JoinedMeans
<1> HIDE DEF g, j
<1>4. j # <<>>
  BY <1>1, <1>2, NotEmpty
<1>5. /\ h \in Paths /\ Len(h) = Len(j) - 1
      /\ \A k \in 1 .. Len(j) - 1 : h[k] = j[k]
  BY <1>2, <1>4, ParentPathPath
<1> HIDE DEF h
<1>6. ASSUME NEW k \in 1 .. Len(h) PROVE h[k] = g[k]
  <2>1. CASE k <= Len(p)
    BY <1>1, <1>2, <1>3, <1>5, <2>1
  <2>2. CASE k > Len(p)
    <3>1. k - Len(p) \in 1 .. Len(f) /\ k - Len(p) \in 1 .. Len(w) - 1 /\ k - Len(p) \in 1 .. Len(w)
          /\ Len(p) + (k - Len(p)) = k /\ k \in 1 .. Len(j) - 1
      BY <1>1, <1>2, <1>5, <2>2
    <3>2. h[k] = j[k] /\ j[k] = w[k - Len(p)]
      BY <1>2, <1>5, <3>1
    <3>3. g[k] = f[k - Len(p)] /\ f[k - Len(p)] = w[k - Len(p)]
      BY <1>1, <1>3, <3>1
    <3> QED
      BY <3>2, <3>3
  <2> QED
    BY <1>1, <1>2, <1>5, <2>1, <2>2
<1>7. Len(h) = Len(g)
  BY <1>1, <1>2, <1>3, <1>5
<1>8. h = g
  BY <1>3, <1>5, <1>6, <1>7, SeqEqual DEF Paths
<1> QED
  BY <1>8 DEF g, h, j, f

(***************************************************************************)
(* A disk stays a tree.                                                    *)
(***************************************************************************)
LEMMA TreePath ==
  ASSUME NEW p \in Tree
  PROVE  p \in Paths /\ p # <<>> /\ IsAbsolute(p) /\ Len(p) \in Nat \ {0}
<1>1. p \in Paths /\ p # <<>> /\ IsAbsolute(p)
  BY PlacesAssumption DEF Paths, IsAbsolute
<1> QED
  BY <1>1, NotEmpty

(* What is below something that is there is in a directory of the tree.    *)
LEMMA InDirectory ==
  ASSUME NEW d \in [Tree -> Kinds], Rooted(d), NEW p \in Tree, d[p] # "none", Len(p) > 1
  PROVE  /\ ParentPath(p) \in Tree /\ IsDirectory(d[ParentPath(p)]) /\ d[ParentPath(p)] # "none"
         /\ Below(ParentPath(p), p) /\ ~Below(p, ParentPath(p)) /\ ParentPath(p) # p
<1>1. IsDirectory(Kind(d, ParentPath(p)))
  BY DEF Rooted
<1>2. ParentPath(p) \in Tree /\ IsDirectory(d[ParentPath(p)]) /\ d[ParentPath(p)] # "none"
  BY <1>1 DEF Kind, IsDirectory
<1>3. Below(ParentPath(p), p)
  BY TreePath, BelowParent
<1> QED
  BY <1>2, <1>3, TreePath, BelowItself

LEMMA MakeDirectoryRooted ==
  ASSUME NEW d \in [Tree -> Kinds], Rooted(d), NEW p
  PROVE  Rooted(MakeDirectory(d, p).disk)
<1> DEFINE e == [d EXCEPT ![p] = "directory"]
<1>1. CASE /\ MakeDirectory(d, p) = Did(e, TRUE, FALSE)
           /\ p \in Tree /\ IsDirectory(Kind(d, ParentPath(p)))
  <2>1. \A q \in Tree : e[q] = IF q = p THEN "directory" ELSE d[q]
    BY <1>1
  <2> HIDE DEF e
  <2>2. ASSUME NEW q \in Tree, e[q] # "none", Len(q) > 1
        PROVE  IsDirectory(Kind(e, ParentPath(q)))
    <3>1. IsDirectory(Kind(d, ParentPath(q)))
      BY <1>1, <2>1, <2>2 DEF Rooted
    <3> QED
      BY <2>1, <3>1 DEF Kind, IsDirectory
  <2> QED
    BY <1>1, <2>2 DEF Rooted, Did
<1>2. CASE MakeDirectory(d, p).disk = d
  BY <1>2
<1> QED
  BY <1>1, <1>2 DEF MakeDirectory, Did

LEMMA OpenedFileRooted ==
  ASSUME NEW d \in [Tree -> Kinds], Rooted(d), NEW p, NEW creates
  PROVE  Rooted(OpenedFile(d, p, creates).disk)
<1> DEFINE e == [d EXCEPT ![p] = "file"]
<1>1. CASE /\ OpenedFile(d, p, creates) = Did(e, TRUE, FALSE)
           /\ p \in Tree /\ Kind(d, p) = "none" /\ IsDirectory(Kind(d, ParentPath(p)))
  <2>1. \A q \in Tree : e[q] = IF q = p THEN "file" ELSE d[q]
    BY <1>1
  <2> HIDE DEF e
  <2>2. ASSUME NEW q \in Tree, e[q] # "none", Len(q) > 1
        PROVE  IsDirectory(Kind(e, ParentPath(q)))
    <3>1. IsDirectory(Kind(d, ParentPath(q)))
      BY <1>1, <2>1, <2>2 DEF Rooted
    <3>2. ParentPath(q) # p
      BY <1>1, <3>1 DEF IsDirectory
    <3> QED
      BY <2>1, <3>1, <3>2 DEF Kind, IsDirectory
  <2> QED
    BY <1>1, <2>2 DEF Rooted, Did
<1>2. CASE OpenedFile(d, p, creates).disk = d
  BY <1>2
<1> QED
  BY <1>1, <1>2 DEF OpenedFile, Did

LEMMA RemoveOneRooted ==
  ASSUME NEW d \in [Tree -> Kinds], Rooted(d), NEW p
  PROVE  Rooted(RemoveOne(d, p).disk)
<1> DEFINE e == [d EXCEPT ![p] = "none"]
<1>1. CASE RemoveOne(d, p) = Did(e, TRUE, FALSE) /\ IsEmpty(d, p)
  <2>1. \A q \in Tree : e[q] = IF q = p THEN "none" ELSE d[q]
    BY <1>1
  <2> HIDE DEF e
  <2>2. ASSUME NEW q \in Tree, e[q] # "none", Len(q) > 1
        PROVE  IsDirectory(Kind(e, ParentPath(q)))
    <3>1. /\ ParentPath(q) \in Tree /\ IsDirectory(d[ParentPath(q)])
          /\ Below(ParentPath(q), q) /\ d[q] # "none"
      BY <2>1, <2>2, InDirectory
    <3>2. ParentPath(q) # p
      BY <1>1, <3>1 DEF IsEmpty
    <3> QED
      BY <2>1, <3>1, <3>2 DEF Kind
  <2> QED
    BY <1>1, <2>2 DEF Rooted, Did
<1>2. CASE RemoveOne(d, p).disk = d
  BY <1>2
<1> QED
  BY <1>1, <1>2 DEF RemoveOne, Did

LEMMA RemoveAllRooted ==
  ASSUME NEW d \in [Tree -> Kinds], Rooted(d), NEW p
  PROVE  Rooted(RemoveAll(d, p).disk)
<1> DEFINE e == [q \in Tree |-> IF q = p \/ Below(p, q) THEN "none" ELSE d[q]]
<1>1. CASE RemoveAll(d, p) = Did(e, TRUE, FALSE) /\ p \in Tree
  <2>1. \A q \in Tree : e[q] = IF q = p \/ Below(p, q) THEN "none" ELSE d[q]
    OBVIOUS
  <2> HIDE DEF e
  <2>2. ASSUME NEW q \in Tree, e[q] # "none", Len(q) > 1
        PROVE  IsDirectory(Kind(e, ParentPath(q)))
    <3>1. d[q] # "none" /\ q # p /\ ~Below(p, q)
      BY <2>1, <2>2
    <3>2. ParentPath(q) \in Tree /\ IsDirectory(d[ParentPath(q)])
      BY <2>2, <3>1, InDirectory
    <3>3. ParentPath(q) # p /\ ~Below(p, ParentPath(q))
      BY <1>1, <3>1, TreePath, BelowParent
    <3> QED
      BY <2>1, <3>2, <3>3 DEF Kind
  <2> QED
    BY <1>1, <2>2 DEF Rooted, Did
<1>2. CASE RemoveAll(d, p).disk = d
  BY <1>2
<1> QED
  BY <1>1, <1>2 DEF RemoveAll, Did, Kind

(* What a rename moves, and where to.                                      *)
Moving(d, p) == {p} \cup {r \in Tree : Below(p, r) /\ d[r] # "none"}
Moved(p, q, s) == q \o Rest(p, s)

(* The disk after it.                                                      *)
Carried(d, p, q, e) ==
  /\ p \in Tree /\ q \in Tree /\ p # q /\ ~Below(p, q)
  /\ d[p] # "none" /\ IsDirectory(Kind(d, ParentPath(q)))
  /\ e \in [Tree -> Kinds]
  /\ \A s \in Moving(d, p) : Moved(p, q, s) \in Tree /\ e[Moved(p, q, s)] = d[s]
  /\ \A r \in Tree : (\A s \in Moving(d, p) : Moved(p, q, s) # r) =>
       e[r] = IF r = p \/ Below(p, r) \/ Below(q, r) THEN "none" ELSE d[r]

LEMMA MovingPaths ==
  ASSUME NEW d, NEW p \in Tree, NEW s \in Moving(d, p)
  PROVE  s \in Tree /\ s \in Paths /\ (s = p \/ Below(p, s))
BY TreePath DEF Moving

(* Different things go to different places.                                *)
LEMMA MovedApart ==
  ASSUME NEW d, NEW p \in Tree, NEW q \in Tree, NEW s \in Moving(d, p), NEW r \in Moving(d, p),
         Moved(p, q, s) = Moved(p, q, r)
  PROVE  s = r
<1>1. /\ Rest(p, s) \in Paths /\ s = p \o Rest(p, s)
      /\ Rest(p, r) \in Paths /\ r = p \o Rest(p, r)
  BY MovingPaths, TreePath, RestOf
<1>2. Rest(p, s) = Rest(p, r)
  BY <1>1, TreePath, SamePath DEF Moved
<1> QED
  BY <1>1, <1>2

LEMMA RenamedCarries ==
  ASSUME NEW d \in [Tree -> Kinds], NEW p, NEW q
  PROVE  Renamed(d, p, q).disk = d \/ Carried(d, p, q, Renamed(d, p, q).disk)
<1> DEFINE below == {r \in Tree : Below(p, r) /\ d[r] # "none"}
           moved(r) == q \o SubSeq(r, Len(p) + 1, Len(r))
           into(r) == {s \in {p} \cup below : moved(s) = r}
           kind(r) == IF into(r) # {} THEN d[CHOOSE s \in into(r) : TRUE]
                      ELSE IF r = p \/ Below(p, r) \/ Below(q, r) THEN "none" ELSE d[r]
           e == [r \in Tree |-> kind(r)]
<1>1. CASE /\ Renamed(d, p, q) = Did(e, TRUE, FALSE)
           /\ Kind(d, p) # "none" /\ q \in Tree /\ p # q /\ ~Below(p, q)
           /\ IsDirectory(Kind(d, ParentPath(q)))
           /\ \A r \in below : moved(r) \in Tree
  <2>1. p \in Tree /\ d[p] # "none"
    BY <1>1 DEF Kind
  <2>2. \A s : moved(s) = Moved(p, q, s)
    BY DEF Moved, Rest
  <2>3. {p} \cup below = Moving(d, p)
    BY DEF Moving
  <2>4. \A r : into(r) = {s \in Moving(d, p) : Moved(p, q, s) = r}
    BY <2>2, <2>3
  <2>5. Moved(p, q, p) = q
    <3>1. Rest(p, p) = <<>> /\ q \in Paths
      BY <1>1, <2>1, TreePath, RestOf
    <3> QED
      BY <3>1, ConcatEmptySeq DEF Moved, Paths
  <2>6. \A s \in Moving(d, p) : Moved(p, q, s) \in Tree
    BY <1>1, <2>2, <2>5 DEF Moving
  <2> DEFINE came(r) == {s \in Moving(d, p) : Moved(p, q, s) = r}
             what(r) == IF came(r) # {} THEN d[CHOOSE s \in came(r) : TRUE]
                        ELSE IF r = p \/ Below(p, r) \/ Below(q, r) THEN "none" ELSE d[r]
  <2>7. e = [r \in Tree |-> what(r)]
    <3>1. ASSUME NEW r \in Tree PROVE kind(r) = what(r)
      <4>1. into(r) = came(r)
        BY <2>4
      <4> HIDE DEF into, came
      <4> QED
        BY <4>1
    <3> HIDE DEF kind, what
    <3> QED
      BY <3>1
  <2> HIDE DEF e, kind, into, moved, below
  <2>8. ASSUME NEW s \in Moving(d, p) PROVE what(Moved(p, q, s)) = d[s]
    <3>1. s \in came(Moved(p, q, s))
      OBVIOUS
    <3>2. \A r \in came(Moved(p, q, s)) : r = s
      BY <1>1, <2>1, MovedApart
    <3>3. (CHOOSE r \in came(Moved(p, q, s)) : TRUE) = s
      BY <3>1, <3>2
    <3> QED
      BY <3>1, <3>3
  <2>9. ASSUME NEW r \in Tree, \A s \in Moving(d, p) : Moved(p, q, s) # r
        PROVE  what(r) = IF r = p \/ Below(p, r) \/ Below(q, r) THEN "none" ELSE d[r]
    <3>1. came(r) = {}
      BY <2>9
    <3> QED
      BY <3>1
  <2>10. ASSUME NEW r \in Tree PROVE what(r) \in Kinds
    <3>1. CASE \A s \in Moving(d, p) : Moved(p, q, s) # r
      <4>1. what(r) \in {"none", d[r]}
        BY <2>9, <3>1
      <4> HIDE DEF what
      <4> QED
        BY <4>1 DEF Kinds
    <3>2. ASSUME NEW s \in Moving(d, p), Moved(p, q, s) = r PROVE what(r) \in Kinds
      <4>1. what(r) = d[s] /\ s \in Tree
        BY <2>1, <2>8, <3>2, MovingPaths
      <4> HIDE DEF what
      <4> QED
        BY <4>1
    <3> QED
      BY <3>1, <3>2
  <2> HIDE DEF what
  <2>11. e \in [Tree -> Kinds] /\ \A r \in Tree : e[r] = what(r)
    BY <2>7, <2>10
  <2>12. Carried(d, p, q, e)
    BY <1>1, <2>1, <2>6, <2>8, <2>9, <2>11 DEF Carried
  <2> QED
    BY <1>1, <2>12 DEF Did
<1>2. CASE \E ok : Renamed(d, p, q) = Did(d, ok, FALSE)
  BY <1>2 DEF Did
<1>3. \/ /\ Renamed(d, p, q) = Did(e, TRUE, FALSE)
         /\ Kind(d, p) # "none" /\ q \in Tree /\ p # q /\ ~Below(p, q)
         /\ IsDirectory(Kind(d, ParentPath(q)))
         /\ \A r \in below : moved(r) \in Tree
      \/ \E ok : Renamed(d, p, q) = Did(d, ok, FALSE)
  BY DEF Renamed
<1> HIDE DEF e
<1> QED
  BY <1>1, <1>2, <1>3

LEMMA RenamedRooted ==
  ASSUME NEW d \in [Tree -> Kinds], Rooted(d), NEW p, NEW q
  PROVE  Rooted(Renamed(d, p, q).disk)
<1> DEFINE e == Renamed(d, p, q).disk
<1>1. CASE Carried(d, p, q, e)
  <2>1. /\ p \in Tree /\ q \in Tree /\ p # q /\ ~Below(p, q)
        /\ d[p] # "none" /\ IsDirectory(Kind(d, ParentPath(q)))
        /\ \A s \in Moving(d, p) : Moved(p, q, s) \in Tree /\ e[Moved(p, q, s)] = d[s]
        /\ \A r \in Tree : (\A s \in Moving(d, p) : Moved(p, q, s) # r) =>
             e[r] = IF r = p \/ Below(p, r) \/ Below(q, r) THEN "none" ELSE d[r]
    BY <1>1 DEF Carried
  <2>2. p \in Paths /\ q \in Paths /\ q # <<>> /\ p # <<>> /\ p \in Moving(d, p)
    BY <2>1, TreePath DEF Moving
  <2> HIDE DEF e
  <2>3. ASSUME NEW s \in Moving(d, p)
        PROVE  /\ Rest(p, s) \in Paths /\ s = p \o Rest(p, s)
               /\ s = p => Moved(p, q, s) = q
               /\ s # p => Rest(p, s) # <<>> /\ Below(q, Moved(p, q, s))
    <3>1. s \in Paths /\ (s = p \/ Below(p, s))
      BY <2>1, MovingPaths
    <3>2. /\ Rest(p, s) \in Paths /\ s = p \o Rest(p, s)
          /\ s = p => Rest(p, s) = <<>>
          /\ s # p => Rest(p, s) # <<>>
      BY <2>2, <3>1, RestOf
    <3>3. s = p => Moved(p, q, s) = q
      BY <2>2, <3>2, ConcatEmptySeq DEF Moved, Paths
    <3>4. s # p => Below(q, Moved(p, q, s))
      BY <2>2, <3>2, BelowJoined DEF Moved
    <3> QED
      BY <3>2, <3>3, <3>4
  (* What stayed is where it was.                                          *)
  <2>4. ASSUME NEW f \in Tree, f # q, ~Below(q, f), f # p, ~Below(p, f)
        PROVE  e[f] = d[f]
    <3>1. \A s \in Moving(d, p) : Moved(p, q, s) # f
      BY <2>3, <2>4
    <3> QED
      BY <2>1, <2>4, <3>1
  <2>5. ASSUME NEW r \in Tree, e[r] # "none", Len(r) > 1
        PROVE  IsDirectory(Kind(e, ParentPath(r)))
    <3> DEFINE f == ParentPath(r)
    <3>0. r \in Paths /\ r # <<>> /\ f \in Paths /\ Below(f, r)
      BY TreePath, BelowParent, ParentPathPath
    <3> HIDE DEF f
    <3>1. CASE r = q
      <4>1. f \in Tree /\ IsDirectory(d[f])
        BY <2>1, <3>1 DEF Kind, IsDirectory, f
      <4>2. f # q /\ ~Below(q, f)
        BY <2>2, <3>0, <3>1, BelowItself
      <4>3. f # p /\ ~Below(p, f)
        BY <2>1, <2>2, <3>1, BelowParent DEF f
      <4> QED
        BY <2>4, <4>1, <4>2, <4>3 DEF Kind, f
    <3>2. ASSUME NEW s \in Moving(d, p), Moved(p, q, s) = r, s # p
          PROVE  IsDirectory(Kind(e, f))
      <4> DEFINE g == ParentPath(s)
                 w == Rest(p, s)
      <4>1. /\ s \in Tree /\ d[s] # "none" /\ Below(p, s) /\ s \in Paths /\ s # <<>>
        BY <2>1, <3>2, TreePath DEF Moving
      <4>2. Len(s) > 1
        <5>1. Len(p) < Len(s) /\ Len(p) \in Nat \ {0} /\ Len(s) \in Nat
          BY <2>1, <4>1, TreePath DEF Below
        <5> QED
          BY <5>1
      <4>3. g \in Tree /\ IsDirectory(d[g]) /\ d[g] # "none"
        BY <4>1, <4>2, InDirectory
      <4>4. g = p \/ Below(p, g)
        BY <2>2, <4>1, BelowParent
      <4>5. g \in Moving(d, p)
        BY <4>3, <4>4 DEF Moving
      <4>6. w \in Paths /\ w # <<>> /\ s = p \o w
        BY <2>3, <3>2
      <4>7. g = p \o ParentPath(w) /\ ParentPath(w) \in Paths
        BY <2>2, <4>6, ParentJoined, ParentPathPath
      <4>8. f = q \o ParentPath(w)
        BY <2>2, <3>2, <4>6, ParentJoined DEF f, Moved
      <4>9. Rest(p, g) \in Paths /\ g = p \o Rest(p, g)
        BY <2>3, <4>5
      <4>10. Rest(p, g) = ParentPath(w)
        BY <2>2, <4>7, <4>9, SamePath
      <4>11. Moved(p, q, g) = f
        BY <4>8, <4>10 DEF Moved
      <4>12. f \in Tree /\ e[f] = d[g]
        BY <2>1, <4>5, <4>11
      <4> QED
        BY <4>3, <4>12 DEF Kind
    <3>3. CASE r # q /\ \A s \in Moving(d, p) : Moved(p, q, s) # r
      <4>1. e[r] = IF r = p \/ Below(p, r) \/ Below(q, r) THEN "none" ELSE d[r]
        BY <2>1, <3>3
      <4>2. r # p /\ ~Below(p, r) /\ ~Below(q, r) /\ d[r] # "none"
        BY <2>5, <4>1
      <4>3. f \in Tree /\ IsDirectory(d[f])
        BY <2>5, <4>2, InDirectory DEF f
      <4>4. f # p /\ ~Below(p, f) /\ f # q /\ ~Below(q, f)
        BY <2>2, <3>0, <4>2, BelowParent DEF f
      <4> QED
        BY <2>4, <4>3, <4>4 DEF Kind, f
    <3>4. \A s \in Moving(d, p) : Moved(p, q, s) = r /\ s = p => r = q
      BY <2>3
    <3> QED
      BY <3>1, <3>2, <3>3, <3>4 DEF f
  <2> QED
    BY <2>5 DEF Rooted, e
<1>2. CASE e = d
  BY <1>2
<1> QED
  BY <1>1, <1>2, RenamedCarries

(* A directory that is new came with the rename, to its destination.       *)
LEMMA NewDirectories ==
  ASSUME NEW d \in [Tree -> Kinds], NEW p, NEW q, NEW f,
         IsDirectory(Kind(Renamed(d, p, q).disk, f)), ~IsDirectory(Kind(d, f))
  PROVE  f \in Tree /\ q \in Tree /\ (f = q \/ Below(q, f))
<1> DEFINE e == Renamed(d, p, q).disk
<1>1. Carried(d, p, q, e)
  BY RenamedCarries
<1>2. f \in Tree /\ IsDirectory(e[f]) /\ ~IsDirectory(d[f])
  BY DEF Kind, IsDirectory
<1> HIDE DEF e
<1>3. PICK s \in Moving(d, p) : Moved(p, q, s) = f
  <2>1. ASSUME \A s \in Moving(d, p) : Moved(p, q, s) # f PROVE FALSE
    <3>1. e[f] \in {"none", d[f]}
      BY <1>1, <1>2, <2>1 DEF Carried
    <3> QED
      BY <1>2, <3>1 DEF IsDirectory
  <2> QED
    BY <2>1
<1>4. p \in Tree /\ q \in Tree
  BY <1>1 DEF Carried
<1>5. p \in Paths /\ q \in Paths /\ s \in Paths /\ (s = p \/ Below(p, s))
  BY <1>4, TreePath, MovingPaths
<1>6. Rest(p, s) \in Paths /\ f = q \o Rest(p, s)
  BY <1>3, <1>5, RestOf DEF Moved
<1>7. CASE Rest(p, s) = <<>>
  BY <1>2, <1>4, <1>5, <1>6, <1>7, ConcatEmptySeq DEF Paths
<1>8. CASE Rest(p, s) # <<>>
  BY <1>2, <1>4, <1>5, <1>6, <1>8, BelowJoined
<1> QED
  BY <1>2, <1>4, <1>7, <1>8

(***************************************************************************)
(* What Find has returned is, while the search paths stay as they are, the *)
(* first of the location's places that matches, now.                       *)
(***************************************************************************)
IsFirst(d, paths, l, p) ==
  /\ l.to # "archives" /\ ~Misplaced(l) /\ Matches(d, p, l)
  /\ \/ p = FullPath(l)
     \/ /\ InSearchPaths(l) /\ ~Matches(d, FullPath(l), l)
        /\ \E k \in 1 .. Len(paths) :
             /\ p = Join(paths[k], l.path)
             /\ \A j \in 1 .. k - 1 : ~Matches(d, Join(paths[j], l.path), l)

Traced(t) ==
  pc[t] \in {"torn", "found"} /\ found[t].ok /\ OnDisk(found[t]) =>
    /\ pc[t] = "found"
    /\ steady[t] => IsFirst(disk, searchPaths, Goal(t), found[t].path)

MInv == SInv /\ Rooted(disk) /\ \A t \in Threads : Traced(t)

LEMMA TracedUntouched ==
  ASSUME NEW u, Traced(u), Untouched(u), pc[u] # "idle" => disk' = disk,
         pc[u] # "idle" /\ steady'[u] => steady[u] /\ searchPaths' = searchPaths
  PROVE  Traced(u)'
BY GoalUntouched DEF Traced, Untouched, OnDisk

LEMMA TracedElsewhere ==
  ASSUME NEW u, pc'[u] \notin {"torn", "found"}
  PROVE  Traced(u)'
BY DEF Traced

LEMMA TracedNotOnDisk ==
  ASSUME NEW u, ~(found'[u].ok /\ OnDisk(found'[u]))
  PROVE  Traced(u)'
BY DEF Traced, OnDisk

LEMMA PathsBecomeTraced ==
  ASSUME MInv, NEW paths, PathsBecome(paths)
  PROVE  \A u \in Threads : Traced(u)'
<1>1. /\ searchPaths' = paths /\ UNCHANGED <<disk, pc, callVars, findVars>>
      /\ steady' = [u \in Threads |-> pc[u] = "idle" \/ (paths = searchPaths /\ steady[u])]
  BY DEF PathsBecome
<1>2. ASSUME NEW u \in Threads PROVE Traced(u)'
  <2>1. Traced(u) /\ Untouched(u)
    BY <1>1 DEF MInv, Untouched, callVars, findVars
  <2>2. pc[u] # "idle" /\ steady'[u] => steady[u] /\ searchPaths' = searchPaths
    BY <1>1
  <2> QED
    BY <1>1, <2>1, <2>2, TracedUntouched
<1> QED
  BY <1>2

LEMMA MountTraced ==
  ASSUME MInv, NEW t \in Threads, NEW a \in Archives, MountArchive(t, a)
  PROVE  \A u \in Threads : Traced(u)'
<1>1. /\ pc' = [u \in Threads |-> IF pc[u] = "third" THEN "torn" ELSE pc[u]]
      /\ UNCHANGED <<disk, searchPaths, call, goal, source, place, steady>>
      /\ \A u \in Threads : IF pc[u] \in {"third", "torn"}
                            THEN found'[u] \in TornScan(Goal(u)) ELSE found'[u] = found[u]
  BY DEF MountArchive, callVars
<1>2. ASSUME NEW u \in Threads PROVE Traced(u)'
  <2>1. CASE pc[u] \in {"third", "torn"}
    <3>1. found'[u] \in TornScan(Goal(u))
      BY <1>1, <2>1
    <3>2. ~(found'[u].ok /\ OnDisk(found'[u]))
      BY <3>1, PlacesAssumption DEF TornScan, Missing, Found, OnDisk
    <3> QED
      BY <3>2, TracedNotOnDisk
  <2>2. CASE pc[u] \notin {"third", "torn"}
    <3>1. Untouched(u) /\ Traced(u) /\ steady'[u] = steady[u]
      BY <1>1, <2>2 DEF Untouched, MInv
    <3> QED
      BY <1>1, <3>1, TracedUntouched
  <2> QED
    BY <2>1, <2>2
<1> QED
  BY <1>2

(* A step of one thread that leaves the disk and the search paths alone.   *)
LEMMA OneTraced ==
  ASSUME MInv, NEW t \in Threads, UNCHANGED <<disk, searchPaths, steady>>,
         \A u \in Threads \ {t} : Untouched(u), Traced(t)'
  PROVE  \A u \in Threads : Traced(u)'
<1>1. ASSUME NEW u \in Threads \ {t} PROVE Traced(u)'
  BY TracedUntouched DEF MInv
<1> QED
  BY <1>1

LEMMA BeginTraced ==
  ASSUME MInv, NEW t \in Threads, NEW c \in Requests, Begin(t, c)
  PROVE  \A u \in Threads : Traced(u)'
<1>1. /\ pc \in [Threads -> Labels]
      /\ UNCHANGED <<disk, searchPaths, place, found, source, steady>>
      /\ \/ UNCHANGED <<pc, call, goal>>
         \/ /\ call' = [call EXCEPT ![t] = c] /\ goal' = [goal EXCEPT ![t] = "target"]
            /\ pc' = [pc EXCEPT ![t] = "first"]
  BY DEF Begin, sharedVars, findVars, Go, MInv, SInv, IInv, Types
<1>2. \A u \in Threads \ {t} : Untouched(u)
  BY <1>1 DEF Untouched, MInv, SInv, IInv, Types
<1>3. CASE UNCHANGED <<pc, call, goal>>
  BY <1>1, <1>2, <1>3, TracedUntouched, OneTraced DEF MInv, Untouched
<1>4. CASE pc' = [pc EXCEPT ![t] = "first"]
  BY <1>1, <1>2, <1>4, TracedElsewhere, OneTraced
<1> QED
  BY <1>1, <1>3, <1>4

LEMMA LockTraced ==
  ASSUME MInv, NEW t \in Threads, LockAny(t)
  PROVE  \A u \in Threads : Traced(u)'
<1>1. PICK to \in {"second", "third"} :
        /\ place' = [place EXCEPT ![t] = 1] /\ pc' = [pc EXCEPT ![t] = to]
        /\ UNCHANGED <<disk, searchPaths, mounted, callVars, found, result, steady>>
  BY DEF LockAny, Lock, At, Go
<1>2. pc \in [Threads -> Labels] /\ place \in [Threads -> Nat]
  BY DEF MInv, SInv, IInv, Types
<1>3. pc'[t] = to /\ \A u \in Threads \ {t} : Untouched(u)
  BY <1>1, <1>2 DEF Untouched, callVars
<1> QED
  BY <1>1, <1>3, TracedElsewhere, OneTraced

LEMMA FindParentTraced ==
  ASSUME MInv, NEW t \in Threads, FindParent(t)
  PROVE  \A u \in Threads : Traced(u)'
<1>1. /\ pc \in [Threads -> Labels] /\ pc' = [pc EXCEPT ![t] = "first"]
      /\ goal' = [goal EXCEPT ![t] = "parent"]
      /\ source' = [source EXCEPT ![t] = found[t]]
      /\ found' = [found EXCEPT ![t] = Missing]
      /\ UNCHANGED <<disk, searchPaths, call, place, steady>>
  BY DEF FindParent, Go, sharedVars, MInv, SInv, IInv, Types
<1>2. pc'[t] = "first" /\ \A u \in Threads \ {t} : Untouched(u)
  BY <1>1 DEF Untouched, MInv, SInv, IInv, Types
<1> QED
  BY <1>1, <1>2, TracedElsewhere, OneTraced

(* Find returns a place, or none.                                          *)
LEMMA FindTraced ==
  ASSUME MInv, NEW t \in Threads, FindStepOf(t), steady' = steady,
         \/ pc'[t] \notin {"torn", "found"}
         \/ ~(found'[t].ok /\ OnDisk(found'[t]))
         \/ /\ pc'[t] = "found"
            /\ IsFirst(disk, searchPaths, Goal(t), found'[t].path)
  PROVE  \A u \in Threads : Traced(u)'
<1>1. Goal(t)' = Goal(t) /\ UNCHANGED <<disk, searchPaths>> /\ \A u \in Threads \ {t} : Untouched(u)
  BY FindAsks DEF FindStepOf, MInv, SInv
<1>2. Traced(t)'
  <2>1. CASE pc'[t] = "found" /\ IsFirst(disk, searchPaths, Goal(t), found'[t].path)
    BY <1>1, <2>1 DEF Traced
  <2> QED
    BY <2>1, TracedElsewhere, TracedNotOnDisk
<1> QED
  BY <1>1, <1>2, OneTraced

LEMMA FindReturnsWhat ==
  ASSUME MInv, NEW t \in Threads, NEW f, FindReturns(t, f)
  PROVE  pc'[t] = "found" /\ found'[t] = f
BY DEF FindReturns, Go, MInv, SInv, IInv, Types

LEMMA ToArchivesTraced ==
  ASSUME MInv, NEW t \in Threads, ToArchives(t)
  PROVE  pc'[t] \notin {"torn", "found"} \/ ~(found'[t].ok /\ OnDisk(found'[t]))
<1>1. CASE InArchives(Goal(t))
  BY <1>1 DEF ToArchives, Go, MInv, SInv, IInv, Types
<1>2. CASE ~InArchives(Goal(t))
  BY <1>2, FindReturnsWhat, MissingType DEF ToArchives
<1> QED
  BY <1>1, <1>2

LEMMA FirstCheckTraced ==
  ASSUME MInv, NEW t \in Threads, FirstCheck(t)
  PROVE  \A u \in Threads : Traced(u)'
<1> DEFINE l == Goal(t)
<1>1. /\ IInv /\ pc[t] = "first" /\ pc \in [Threads -> Labels]
      /\ UNCHANGED <<disk, sharedVars, callVars, place, result, steady>>
  BY DEF MInv, SInv, FirstCheck, At, IInv, Types
<1>2. \/ FindReturns(t, Missing)
      \/ /\ l.to # "archives" /\ ~Misplaced(l) /\ Matches(disk, FullPath(l), l)
         /\ FindReturns(t, FoundOnDisk(disk, FullPath(l)))
      \/ Go(t, "lockPaths") /\ UNCHANGED found
      \/ ToArchives(t)
  BY DEF FirstCheck
<1>3. FindStepOf(t)
  BY <1>1, <1>2, FindFrame DEF sharedVars
<1>4. IsLocation(l)
  BY <1>1, GoalIsLocation
<1> HIDE DEF l
<1>5. CASE FindReturns(t, Missing)
  BY <1>1, <1>3, <1>5, FindReturnsWhat, FindTraced, MissingType
<1>6. CASE /\ l.to # "archives" /\ ~Misplaced(l) /\ Matches(disk, FullPath(l), l)
           /\ FindReturns(t, FoundOnDisk(disk, FullPath(l)))
  <2>1. pc'[t] = "found" /\ found'[t] = FoundOnDisk(disk, FullPath(l))
    BY <1>6, FindReturnsWhat
  <2>2. found'[t].path = FullPath(l)
    BY <1>4, <2>1, FullPathPath, FoundOnDiskType
  <2>3. IsFirst(disk, searchPaths, l, found'[t].path)
    BY <1>6, <2>2 DEF IsFirst
  <2> QED
    BY <1>1, <1>3, <2>1, <2>3, FindTraced DEF l
<1>7. CASE Go(t, "lockPaths")
  <2>1. pc'[t] = "lockPaths"
    BY <1>1, <1>7 DEF Go
  <2> QED
    BY <1>1, <1>3, <2>1, FindTraced
<1>8. CASE ToArchives(t)
  BY <1>1, <1>3, <1>8, ToArchivesTraced, FindTraced
<1> QED
  BY <1>2, <1>5, <1>6, <1>7, <1>8

LEMMA SecondCheckTraced ==
  ASSUME MInv, NEW t \in Threads, SecondCheck(t)
  PROVE  \A u \in Threads : Traced(u)'
<1> DEFINE l == Goal(t)
           k == place[t]
           p == Join(searchPaths[k], l.path)
<1>1. /\ IInv /\ pc[t] = "second" /\ pc \in [Threads -> Labels]
      /\ UNCHANGED <<disk, searchPaths, mounted, callVars, result, steady>>
  BY DEF MInv, SInv, SecondCheck, At, IInv, Types
<1>2. /\ searchPaths \in Seq(Paths) /\ Len(searchPaths) \in Nat
      /\ IsLocation(l) /\ InSearchPaths(l) /\ l.to # "archives" /\ ~Misplaced(l)
      /\ k \in 1 .. Len(searchPaths) + 1
      /\ ~Matches(disk, FullPath(l), l)
      /\ \A j \in 1 .. k - 1 : ~Matches(disk, Join(searchPaths[j], l.path), l)
  <2>1. Local(t) /\ Seen(t)
    BY DEF MInv, SInv, IInv
  <2> QED
    BY <1>1, <2>1, SearchPathsAre, GoalIsLocation DEF Local, Scanning, Passed, Seen, InSearchPaths
<1>3. \/ ToArchives(t) /\ UNCHANGED place
      \/ /\ k <= Len(searchPaths) /\ Matches(disk, p, l)
         /\ FindReturns(t, FoundOnDisk(disk, p)) /\ UNCHANGED place
      \/ place' = [place EXCEPT ![t] = k + 1] /\ UNCHANGED <<pc, found>>
  BY <1>2 DEF SecondCheck
<1>4. FindStepOf(t)
  BY <1>1, <1>3, FindFrame DEF sharedVars
<1> HIDE DEF l
<1>5. CASE ToArchives(t)
  BY <1>1, <1>4, <1>5, ToArchivesTraced, FindTraced
<1>6. CASE /\ k <= Len(searchPaths) /\ Matches(disk, p, l)
           /\ FindReturns(t, FoundOnDisk(disk, p))
  <2>1. k \in 1 .. Len(searchPaths)
    BY <1>2, <1>6
  <2>2. p \in Paths
    <3>1. searchPaths[k] \in Paths
      BY <1>2, <2>1, ElementOfSeq
    <3> QED
      BY <1>2, <3>1, JoinPath DEF IsLocation, Paths
  <2> HIDE DEF p
  <2>3. pc'[t] = "found" /\ found'[t].path = p
    BY <1>6, <2>2, FindReturnsWhat, FoundOnDiskType
  <2>4. IsFirst(disk, searchPaths, l, p)
    BY <1>2, <1>6, <2>1 DEF IsFirst, p
  <2> QED
    BY <1>1, <1>4, <2>3, <2>4, FindTraced DEF l
<1>7. CASE UNCHANGED <<pc, found>>
  <2>1. pc'[t] = "second"
    BY <1>1, <1>7
  <2> QED
    BY <1>1, <1>4, <2>1, FindTraced
<1> QED
  BY <1>3, <1>5, <1>6, <1>7

LEMMA ThirdCheckTraced ==
  ASSUME MInv, NEW t \in Threads, ThirdCheck(t)
  PROVE  \A u \in Threads : Traced(u)'
<1>1. /\ IInv /\ pc[t] = "third" /\ pc \in [Threads -> Labels] /\ place[t] \in Nat
      /\ mounted \in Seq(Archives) /\ Len(mounted) \in Nat /\ place[t] \in 1 .. Len(mounted) + 1
      /\ UNCHANGED <<disk, searchPaths, mounted, callVars, result, steady>>
  BY LenProperties DEF MInv, SInv, ThirdCheck, At, IInv, Types, Local, Scanning
<1>2. \/ FindReturns(t, Missing) /\ UNCHANGED place
      \/ /\ place[t] <= Len(mounted)
         /\ FindReturns(t, Found(Goal(t).path, Goal(t).type, mounted[place[t]])) /\ UNCHANGED place
      \/ place' = [place EXCEPT ![t] = @ + 1] /\ UNCHANGED <<pc, found>>
  BY <1>1 DEF ThirdCheck
<1>3. FindStepOf(t)
  BY <1>1, <1>2, FindFrame DEF sharedVars
<1>4. CASE FindReturns(t, Missing)
  BY <1>1, <1>3, <1>4, FindReturnsWhat, FindTraced, MissingType
<1>5. CASE /\ place[t] <= Len(mounted)
           /\ FindReturns(t, Found(Goal(t).path, Goal(t).type, mounted[place[t]]))
  <2>1. mounted[place[t]] \in Archives
    BY <1>1, <1>5, ElementOfSeq
  <2>2. ~OnDisk(found'[t])
    BY <1>5, <2>1, FindReturnsWhat, PlacesAssumption DEF Found, OnDisk
  <2> QED
    BY <1>1, <1>3, <2>2, FindTraced
<1>6. CASE UNCHANGED <<pc, found>>
  BY <1>1, <1>3, <1>6, FindTraced
<1> QED
  BY <1>2, <1>4, <1>5, <1>6

LEMMA ThirdCheckTornTraced ==
  ASSUME MInv, NEW t \in Threads, ThirdCheckTorn(t)
  PROVE  \A u \in Threads : Traced(u)'
<1>1. /\ pc[t] = "torn" /\ pc' = [pc EXCEPT ![t] = "found"] /\ pc \in [Threads -> Labels]
      /\ UNCHANGED <<disk, searchPaths, callVars, place, found, steady>>
  BY DEF MInv, SInv, ThirdCheckTorn, At, Go, IInv, Types, findVars
<1>2. ~(found'[t].ok /\ OnDisk(found'[t]))
  BY <1>1 DEF MInv, Traced, OnDisk
<1>3. \A u \in Threads \ {t} : Untouched(u)
  BY <1>1 DEF Untouched, callVars
<1> QED
  BY <1>1, <1>2, <1>3, TracedNotOnDisk, OneTraced

(* A call that ends.                                                       *)
LEMMA FinishTraced ==
  ASSUME MInv, QuietDisk, NEW t \in Threads, Finish(t)
  PROVE  \A u \in Threads : Traced(u)'
<1>1. PICK did : pc[t] = "found" /\ Return(t, did)
  BY FinishReturns DEF MInv, SInv
<1>2. /\ call' = [call EXCEPT ![t] = NoCall]
      /\ goal' = [goal EXCEPT ![t] = "target"]
      /\ found' = [found EXCEPT ![t] = Missing]
      /\ source' = [source EXCEPT ![t] = Missing]
      /\ place' = [place EXCEPT ![t] = 1]
      /\ pc' = [pc EXCEPT ![t] = "idle"]
      /\ steady' = [steady EXCEPT ![t] = TRUE]
      /\ searchPaths' = searchPaths
  BY <1>1 DEF Return, Go, sharedVars
<1>3. pc'[t] = "idle" /\ \A u \in Threads \ {t} : Untouched(u) /\ steady'[u] = steady[u]
  BY <1>2 DEF Untouched, MInv, SInv, IInv, Types
<1>4. ASSUME NEW u \in Threads \ {t} PROVE Traced(u)'
  <2>1. pc[u] # "idle" => disk' = disk
    BY QuietFinish DEF MInv, SInv
  <2> QED
    BY <1>2, <1>3, <2>1, TracedUntouched DEF MInv
<1>5. Traced(t)'
  BY <1>3, TracedElsewhere
<1> QED
  BY <1>4, <1>5

LEMMA FinishRooted ==
  ASSUME MInv, NEW t \in Threads, Finish(t)
  PROVE  Rooted(disk')
<1>1. disk \in [Tree -> Kinds] /\ Rooted(disk)
  BY DEF MInv, SInv, IInv, Types
<1>2. ASSUME NEW ok, NEW threw, Return(t, Did(disk, ok, threw)) PROVE Rooted(disk')
  BY <1>1, <1>2 DEF Return, Did
<1>3. CASE Refuse(t)
  BY <1>2, <1>3 DEF Refuse
<1>4. CASE Exists(t)
  BY <1>2, <1>4 DEF Exists
<1>5. CASE Open(t)
  <2>1. \/ Refuse(t)
        \/ \E p, creates : Return(t, OpenedFile(disk, p, creates))
        \/ \E ok : Return(t, Did(disk, ok, FALSE))
    BY <1>5 DEF Open
  <2>2. ASSUME NEW p, NEW creates, Return(t, OpenedFile(disk, p, creates)) PROVE Rooted(disk')
    BY <1>1, <2>2, OpenedFileRooted DEF Return
  <2> QED
    BY <1>2, <1>3, <2>1, <2>2
<1>6. CASE Rename(t)
  <2>1. Refuse(t) \/ \E p, q : Return(t, Renamed(disk, p, q))
    BY <1>6 DEF Rename
  <2>2. ASSUME NEW p, NEW q, Return(t, Renamed(disk, p, q)) PROVE Rooted(disk')
    BY <1>1, <2>2, RenamedRooted DEF Return
  <2> QED
    BY <1>3, <2>1, <2>2
<1>7. CASE Remove(t)
  <2>1. Refuse(t) \/ \E p : Return(t, RemoveAll(disk, p)) \/ Return(t, RemoveOne(disk, p))
    BY <1>7 DEF Remove
  <2>2. ASSUME NEW p, Return(t, RemoveAll(disk, p)) PROVE Rooted(disk')
    BY <1>1, <2>2, RemoveAllRooted DEF Return
  <2>3. ASSUME NEW p, Return(t, RemoveOne(disk, p)) PROVE Rooted(disk')
    BY <1>1, <2>3, RemoveOneRooted DEF Return
  <2> QED
    BY <1>3, <2>1, <2>2, <2>3
<1>8. CASE CreateDirectory(t)
  <2>1. Refuse(t) \/ \E p : Return(t, MakeDirectory(disk, p))
    BY <1>8 DEF CreateDirectory
  <2>2. ASSUME NEW p, Return(t, MakeDirectory(disk, p)) PROVE Rooted(disk')
    BY <1>1, <2>2, MakeDirectoryRooted DEF Return
  <2> QED
    BY <1>3, <2>1, <2>2
<1> QED
  BY <1>4, <1>5, <1>6, <1>7, <1>8 DEF Finish

LEMMA InitMInv == Init => MInv
<1> SUFFICES ASSUME Init PROVE MInv
  OBVIOUS
<1>1. Rooted(disk)
  BY CallsAssumption DEF Init
<1>2. ASSUME NEW u \in Threads PROVE Traced(u)
  BY <1>2 DEF Init, Traced
<1> QED
  BY <1>1, <1>2, InitSInv DEF MInv

LEMMA StepMInv ==
  ASSUME QuietDisk, MInv, [Next]_vars
  PROVE  MInv'
<1>1. SInv'
  BY StepLookup DEF MInv
<1>2. Rooted(disk')
  <2>1. CASE disk' = disk
    BY <2>1 DEF MInv
  <2>2. CASE disk' # disk
    BY <2>2, OnlyFinishChanges, FinishRooted
  <2> QED
    BY <2>1, <2>2
<1>3. \A u \in Threads : Traced(u)'
  <2>1. ASSUME NEW t \in Threads, Find(t) PROVE \A u \in Threads : Traced(u)'
    BY <2>1, FirstCheckTraced, SecondCheckTraced, ThirdCheckTraced, ThirdCheckTornTraced DEF Find
  <2>2. ASSUME NEW t \in Threads, Configure(t) PROVE \A u \in Threads : Traced(u)'
    BY <2>2, PathsBecomeTraced, MountTraced
    DEF Configure, PushSearchPath, PopSearchPath, ClearSearchPaths
  <2>3. CASE UNCHANGED vars
    <3>1. \A u \in Threads : Traced(u) /\ Untouched(u)
      BY <2>3 DEF vars, sharedVars, callVars, findVars, MInv, Untouched
    <3> QED
      BY <2>3, <3>1, TracedUntouched DEF vars, sharedVars
  <2> QED
    BY <2>1, <2>2, <2>3, BeginTraced, LockTraced, FindParentTraced, FinishTraced DEF Next, Continue
<1>4. Rooted(disk)'
  BY <1>2 DEF Rooted, Kind
<1> QED
  BY <1>1, <1>3, <1>4 DEF MInv

(***************************************************************************)
(* How something is made.                                                  *)
(***************************************************************************)
LEMMA OnlyFinishEnds ==
  ASSUME IInv, [Next]_vars, NEW t \in Threads, pc[t] = "found", pc'[t] = "idle"
  PROVE  Finish(t)
<1>0. pc \in [Threads -> Labels]
  BY DEF IInv, Types
<1>1. ASSUME NEW u \in Threads, Configure(u) PROVE FALSE
  BY <1>1 DEF Configure, PushSearchPath, PopSearchPath, ClearSearchPaths, PathsBecome, MountArchive
<1>2. ASSUME NEW u \in Threads, NEW c \in Requests, Begin(u, c) PROVE FALSE
  BY <1>0, <1>2 DEF Begin, Go
<1>3. ASSUME NEW u \in Threads, LockAny(u) PROVE FALSE
  BY <1>0, <1>3 DEF LockAny, Lock, Go
<1>4. ASSUME NEW u \in Threads, Find(u) PROVE FALSE
  BY <1>0, <1>4 DEF Find, FirstCheck, SecondCheck, ThirdCheck, ThirdCheckTorn, ToArchives, FindReturns, Go
<1>5. ASSUME NEW u \in Threads, FindParent(u) PROVE FALSE
  BY <1>0, <1>5 DEF FindParent, Go
<1>6. ASSUME NEW u \in Threads, Finish(u) PROVE u = t
  <2>1. PICK did : Return(u, did)
    BY <1>6, FinishReturns
  <2> QED
    BY <1>0, <2>1 DEF Return, Go
<1>7. ~UNCHANGED vars
  BY DEF vars
<1> QED
  BY <1>1, <1>2, <1>3, <1>4, <1>5, <1>6, <1>7 DEF Next, Continue

(* A disk after something was made at a place.                             *)
MadeAt(d, e, m, t) ==
  \/ e = MakeDirectory(d, m).disk
  \/ e = OpenedFile(d, m, TRUE).disk
  \/ "rename" \in Ops[t] /\ \E p : e = Renamed(d, p, m).disk

LEMMA MadeHow ==
  ASSUME IInv, NEW t \in Threads, Finish(t), goal[t] = "parent", disk' # disk
  PROVE  /\ found[t].ok /\ OnDisk(found[t])
         /\ MadeAt(disk, disk', Absolute(InFolder(t)), t)
<1>1. pc[t] = "found" /\ call[t].op \in {"write", "createDirectory", "rename"} /\ call[t].op \in Ops[t]
  BY FinishReturns DEF IInv, Local, Engaged
<1>2. ~Refuse(t) /\ \A ok, threw : ~Return(t, Did(disk, ok, threw))
  BY DEF Refuse, Return, Did
<1>3. CASE Open(t)
  <2>1. /\ call[t].op = "write" /\ found[t].ok /\ OnDisk(found[t])
        /\ Return(t, OpenedFile(disk, Absolute(InFolder(t)), call[t].op = "write"))
    BY <1>1, <1>2, <1>3 DEF Open, Doing
  <2>2. Return(t, OpenedFile(disk, Absolute(InFolder(t)), TRUE))
    BY <2>1
  <2>3. disk' = OpenedFile(disk, Absolute(InFolder(t)), TRUE).disk
    BY <2>2 DEF Return
  <2> QED
    BY <2>1, <2>3 DEF MadeAt
<1>4. CASE Rename(t)
  <2>1. /\ found[t].ok /\ OnDisk(found[t]) /\ call[t].op = "rename"
        /\ Return(t, Renamed(disk, Absolute(source[t].path), Absolute(InFolder(t))))
    BY <1>2, <1>4 DEF Rename, Doing
  <2>2. disk' = Renamed(disk, Absolute(source[t].path), Absolute(InFolder(t))).disk
    BY <2>1 DEF Return
  <2> QED
    BY <1>1, <2>1, <2>2 DEF MadeAt
<1>5. CASE CreateDirectory(t)
  <2>1. /\ found[t].ok /\ OnDisk(found[t])
        /\ Return(t, MakeDirectory(disk, Absolute(InFolder(t))))
    BY <1>2, <1>5 DEF CreateDirectory
  <2>2. disk' = MakeDirectory(disk, Absolute(InFolder(t))).disk
    BY <2>1 DEF Return
  <2> QED
    BY <2>1, <2>2 DEF MadeAt
<1> QED
  BY <1>1, <1>3, <1>4, <1>5 DEF Finish, Exists, Remove, Doing

(* What is there now and was not, or is in a directory that was none, is   *)
(* what was made or below it.                                              *)
LEMMA MadeWithin ==
  ASSUME NEW d \in [Tree -> Kinds], Rooted(d), NEW e, Rooted(e), e \in [Tree -> Kinds],
         NEW m \in Tree, d[m] = "none",
         NEW t, MadeAt(d, e, m, t), NEW c \in Tree, e[c] # "none", Len(c) > 1,
         ~IsDirectory(Kind(d, ParentPath(c)))
  PROVE  c = m \/ ("rename" \in Ops[t] /\ Below(m, c))
<1> DEFINE f == ParentPath(c)
<1>1. f \in Tree /\ IsDirectory(e[f]) /\ Below(f, c) /\ f \in Paths /\ c \in Paths /\ m \in Paths /\ c # <<>>
  BY InDirectory, TreePath
<1>2. ~IsDirectory(d[f])
  BY <1>1 DEF Kind
<1>3. d[c] = "none"
  <2>1. d[c] # "none" => IsDirectory(Kind(d, f))
    BY DEF Rooted
  <2> QED
    BY <2>1
<1> HIDE DEF f
<1>4. ASSUME NEW k, \A q \in Tree : e[q] = IF q = m THEN k ELSE d[q] PROVE c = m
  BY <1>1, <1>2, <1>3, <1>4
<1>5. CASE e = MakeDirectory(d, m).disk
  <2>1. e = [d EXCEPT ![m] = "directory"] \/ e = d
    BY <1>5 DEF MakeDirectory, Did
  <2> QED
    BY <1>3, <1>4, <2>1
<1>6. CASE e = OpenedFile(d, m, TRUE).disk
  <2>1. e = [d EXCEPT ![m] = "file"] \/ e = d
    BY <1>6 DEF OpenedFile, Did
  <2> QED
    BY <1>3, <1>4, <2>1
<1>7. ASSUME NEW p, e = Renamed(d, p, m).disk PROVE Below(m, c)
  <2>1. IsDirectory(Kind(e, f)) /\ ~IsDirectory(Kind(d, f))
    BY <1>1, <1>2 DEF Kind
  <2>2. f = m \/ Below(m, f)
    BY <1>7, <2>1, NewDirectories
  <2> QED
    BY <1>1, <2>2, BelowBelow
<1> QED
  BY <1>5, <1>6, <1>7 DEF MadeAt

(***************************************************************************)
(* The places of a location and those of its folder.                       *)
(***************************************************************************)
(* What is made where a location is relative to a base, and what is there  *)
(* relative to another.                                                    *)
LEMMA OtherBase ==
  ASSUME NEW d \in [Tree -> Kinds], Rooted(d), NEW e, Rooted(e), e \in [Tree -> Kinds],
         NEW x \in Paths, NEW y \in Paths, NEW l, IsLocation(l),
         NEW t, MadeAt(d, e, Join(y, l.path), t),
         Join(y, l.path) \in Tree, Kind(d, Join(y, l.path)) = "none", l.path # <<>>,
         Kind(e, Join(x, l.path)) # "none",
         ~IsDirectory(Kind(d, Join(x, ParentPath(l.path)))),
         "rename" \in Ops[t] => ~Below(y, x)
  PROVE  Join(x, l.path) = Join(y, l.path)
<1> DEFINE r == l.path
           c == x \o r
           m == y \o r
<1>1. CASE IsAbsolute(r)
  BY <1>1 DEF Join
<1>2. CASE ~IsAbsolute(r)
  <2>0. r \in Paths /\ Join(x, r) = c /\ Join(y, r) = m /\ r # <<>> /\ Len(r) \in Nat \ {0}
    BY <1>2, NotEmpty DEF Join, IsLocation, Paths
  <2>1. c \in Tree /\ e[c] # "none" /\ m \in Tree /\ d[m] = "none"
    BY <2>0 DEF Kind
  <2>2. /\ Len(x) \in Nat /\ Len(c) = Len(x) + Len(r) /\ \A k \in 1 .. Len(x) : c[k] = x[k]
        /\ Len(y) \in Nat /\ Len(m) = Len(y) + Len(r) /\ \A k \in 1 .. Len(y) : m[k] = y[k]
    <3> HIDE DEF r
    <3> QED
      BY <2>0, JoinedMeans DEF c, m
  <2>3. x # <<>>
    <3>1. x = <<>> => c = r
      BY <2>0, ConcatEmptySeq DEF Paths
    <3> QED
      BY <1>2, <2>1, <3>1, TreePath
  <2>4. ParentPath(c) = x \o ParentPath(r)
    BY <2>0, ParentJoined
  <2>5. ~IsAbsolute(ParentPath(r))
    <3>1. CASE ParentPath(r) = <<>>
      BY <3>1 DEF IsAbsolute
    <3>2. CASE ParentPath(r) # <<>>
      <4> DEFINE f == ParentPath(r)
      <4>1. f \in Paths /\ Len(f) = Len(r) - 1 /\ Len(f) # 0 /\ \A k \in 1 .. Len(r) - 1 : f[k] = r[k]
        BY <2>0, <3>2, ParentPathPath, NotEmpty
      <4> HIDE DEF f, r
      <4>2. f[1] = r[1]
        BY <2>0, <4>1
      <4> QED
        BY <1>2, <2>0, <4>2 DEF IsAbsolute, f
    <3> QED
      BY <3>1, <3>2
  <2>6. ~IsDirectory(Kind(d, ParentPath(c)))
    BY <2>4, <2>5 DEF Join
  <2> HIDE DEF c, m, r
  <2>7. Len(c) > 1
    BY <2>0, <2>2, <2>3, NotEmpty
  <2>8. MadeAt(d, e, m, t)
    BY <2>0 DEF r
  <2>9. c = m \/ ("rename" \in Ops[t] /\ Below(m, c))
    BY <2>1, <2>6, <2>7, <2>8, MadeWithin
  <2>10. ASSUME Below(m, c) PROVE Below(y, x)
    <3>1. Len(m) < Len(c) /\ \A k \in 1 .. Len(m) : c[k] = m[k]
      BY <2>1, <2>10, TreePath, BelowMeans
    <3>2. Len(y) < Len(x) /\ \A k \in 1 .. Len(y) : x[k] = y[k]
      BY <2>0, <2>2, <3>1
    <3> QED
      BY <3>2, BelowMeans
  <2> QED
    BY <2>0, <2>9, <2>10 DEF r
<1> QED
  BY <1>1, <1>2

(* No search path lies below another, where things are renamed: a          *)
(* directory that is moved to a place above a search path brings things    *)
(* along that are found there first.                                       *)
Apart ==
  (\E t \in Threads : "rename" \in Ops[t]) => \A x, y \in Pushed : ~Below(y, x)

(* The folder's places in the search paths and those of what is in it.     *)
LEMMA InSearchPath ==
  ASSUME NEW l, IsLocation(l), InSearchPaths(l)
  PROVE  /\ IsLocation(ParentLocation(l)) /\ InSearchPaths(ParentLocation(l))
         /\ ParentLocation(l).path = ParentPath(l.path)
         /\ FullPath(l) = Join(<<Cwd>>, l.path)
         /\ FullPath(ParentLocation(l)) = Join(<<Cwd>>, ParentPath(l.path))
         /\ ~Misplaced(l) /\ l.to # "archives"
<1>1. /\ ParentLocation(l).path = ParentPath(l.path) /\ ParentLocation(l).to = l.to
  BY DEF ParentLocation, Location
<1> QED
  BY <1>1, ParentIsLocation DEF InSearchPaths, FullPath, Misplaced

LEMMA FolderMatches ==
  ASSUME NEW d, NEW p, NEW l
  PROVE  Matches(d, p, ParentLocation(l)) <=> IsDirectory(Kind(d, p))
BY DEF Matches, ParentLocation, Location, AnyLink, IsDirectory, IsFile, IsLink

LEMMA MadeStep ==
  ASSUME Apart, MInv, Rooted(disk'), disk' \in [Tree -> Kinds], [Next]_vars, NEW t \in Threads,
         pc[t] = "found", goal[t] = "parent", pc'[t] = "idle", steady[t],
         Kind(disk, Absolute(InFolder(t))) = "none",
         Matches(disk', Absolute(InFolder(t)), call[t].dst)
  PROVE  FirstMatch(disk', searchPaths, mounted, call[t].dst)
           = FoundOnDisk(disk', Absolute(InFolder(t)))
<1> DEFINE dst  == call[t].dst
           l    == ParentLocation(dst)
           r    == dst.path
           F    == found[t].path
           made == Absolute(InFolder(t))
<1>1. /\ IInv /\ Rooted(disk) /\ disk \in [Tree -> Kinds] /\ Traced(t) /\ found[t].path \in Paths
      /\ searchPaths \in Seq(Paths) /\ searchPaths \in Seq(Pushed) /\ Len(searchPaths) \in Nat
  BY SearchPathsAre DEF MInv, SInv, IInv, Types, Answers
<1>2. Finish(t) /\ Goal(t) = l /\ IsLocation(dst) /\ IsLocation(l) /\ r \in Paths
  <2>1. call[t] \in Requests
    BY <1>1 DEF IInv, Local, Engaged
  <2>2. IsLocation(dst)
    BY <2>1, CallsAssumption
  <2> QED
    BY <1>1, <2>2, OnlyFinishEnds, ParentIsLocation DEF Goal, IsLocation, Paths
<1>3. Kind(disk', made) # "none" /\ disk' # disk /\ made \in Tree /\ disk'[made] # "none"
  BY DEF Matches, Kind
<1>4. found[t].ok /\ OnDisk(found[t]) /\ MadeAt(disk, disk', made, t)
  BY <1>1, <1>2, <1>3, MadeHow
<1>5. IsFirst(disk, searchPaths, l, F)
  BY <1>1, <1>2, <1>4 DEF Traced
<1>6. F \in Tree /\ IsAbsolute(F) /\ Kind(disk, F) # "none"
  <2>1. Kind(disk, F) # "none" /\ F \in Tree
    BY <1>5 DEF IsFirst, Matches, Kind
  <2> QED
    BY <2>1, TreePath
<1>7. InFolder(t) = Join(F, FileName(r)) /\ made = InFolder(t)
  <2>1. InFolder(t) = Join(F, FileName(r))
    BY DEF InFolder
  <2>2. IsAbsolute(Join(F, FileName(r)))
    <3> DEFINE n == FileName(r)
               j == F \o n
    <3>1. n \in Paths /\ F \in Paths /\ Len(F) \in Nat \ {0}
      BY <1>2, <1>6, FileNamePath, TreePath
    <3> HIDE DEF n
    <3>2. CASE IsAbsolute(n)
      BY <3>2 DEF Join, n
    <3>3. CASE ~IsAbsolute(n)
      <4>1. j \in Paths /\ Len(j) = Len(F) + Len(n) /\ Len(n) \in Nat /\ \A k \in 1 .. Len(F) : j[k] = F[k]
        BY <3>1, JoinedMeans
      <4> HIDE DEF j, F
      <4>2. j[1] = F[1] /\ j # <<>>
        BY <3>1, <4>1, NotEmpty
      <4> QED
        BY <1>6, <3>3, <4>2 DEF Join, IsAbsolute, n, j
    <3> QED
      BY <3>2, <3>3
  <2> QED
    BY <2>1, <2>2 DEF Absolute, Join
<1>8. r # <<>>
  <2>1. ASSUME r = <<>> PROVE made = F
    <3>1. FileName(r) = <<>> /\ F \o <<>> = F
      BY <1>1, <2>1, ConcatEmptySeq DEF FileName, Paths
    <3> QED
      BY <1>7, <3>1 DEF Join, IsAbsolute
  <2> QED
    BY <1>6, <2>1
<1> HIDE DEF made, F, r, l, dst
<1>9. CASE F = FullPath(l)
  <2>1. made = FullPath(dst)
    BY <1>2, <1>7, <1>9, FullPathFileName DEF l, r
  <2>2. ~Misplaced(dst)
    <3>1. ASSUME dst.to = "absolute" PROVE IsAbsolute(dst.path)
      <4>1. l.to = "absolute" /\ l.path = ParentPath(r) /\ ~Misplaced(l)
        BY <1>5, <3>1 DEF IsFirst, l, r, ParentLocation, Location
      <4>2. IsAbsolute(ParentPath(r))
        BY <4>1 DEF Misplaced
      <4>3. ParentPath(r)[1] = r[1]
        <5>1. /\ Len(r) \in Nat \ {0} /\ Len(ParentPath(r)) = Len(r) - 1 /\ ParentPath(r) \in Paths
              /\ \A k \in 1 .. Len(r) - 1 : ParentPath(r)[k] = r[k]
          BY <1>2, <1>8, ParentPathPath
        <5>2. ParentPath(r) # <<>>
          BY <4>2 DEF IsAbsolute
        <5> HIDE DEF r
        <5>3. Len(ParentPath(r)) # 0
          BY <5>1, <5>2, EmptySeq DEF Paths
        <5> QED
          BY <5>1, <5>3
      <4> QED
        BY <1>8, <4>2, <4>3 DEF IsAbsolute, r
    <3> QED
      BY <3>1 DEF Misplaced
  <2>3. dst.to # "archives"
    BY <1>5 DEF IsFirst, l, ParentLocation, Location
  <2>4. Matches(disk', FullPath(dst), dst)
    BY <2>1 DEF made, dst
  <2>5. FirstMatch(disk', searchPaths, mounted, dst) = FoundOnDisk(disk', FullPath(dst))
    BY <1>1, <1>2, <2>2, <2>3, <2>4, MatchHere
  <2> QED
    BY <2>1, <2>5 DEF made, dst
<1>10. ASSUME InSearchPaths(l), ~Matches(disk, FullPath(l), l),
              NEW k \in 1 .. Len(searchPaths), F = Join(searchPaths[k], l.path),
              \A j \in 1 .. k - 1 : ~Matches(disk, Join(searchPaths[j], l.path), l)
       PROVE  FirstMatch(disk', searchPaths, mounted, dst) = FoundOnDisk(disk', made)
  <2> DEFINE y == searchPaths[k]
             S == {j \in 1 .. k : Matches(disk', Join(searchPaths[j], r), dst)}
  <2>1. InSearchPaths(dst)
    BY <1>10 DEF InSearchPaths, l, ParentLocation, Location
  <2>2. /\ l.path = ParentPath(r) /\ FullPath(dst) = Join(<<Cwd>>, r)
        /\ FullPath(l) = Join(<<Cwd>>, ParentPath(r)) /\ ~Misplaced(dst) /\ dst.to # "archives"
    BY <1>2, <2>1, InSearchPath DEF l, r
  <2>3. \A j \in 1 .. Len(searchPaths) : searchPaths[j] \in Pushed /\ searchPaths[j] \in Paths
    BY <1>1, ElementOfSeq
  <2>4. made = Join(y, r)
    BY <1>2, <1>7, <1>10, <2>2, <2>3, JoinFileName DEF r
  <2> HIDE DEF y
  <2>5. y \in Pushed /\ y \in Paths
    BY <2>3 DEF y
  <2>6. Matches(disk', made, dst)
    BY DEF made, dst
  (* Whatever else matches now is what was made.                           *)
  <2>7. ASSUME NEW x \in Paths, "rename" \in Ops[t] => ~Below(y, x),
               Matches(disk', Join(x, r), dst), ~Matches(disk, Join(x, ParentPath(r)), l)
        PROVE  Join(x, r) = made
    <3>1. Kind(disk', Join(x, r)) # "none"
      BY <2>7 DEF Matches
    <3>2. ~IsDirectory(Kind(disk, Join(x, ParentPath(r))))
      BY <2>7, FolderMatches DEF l
    <3>3. Kind(disk, made) = "none"
      BY DEF made
    <3> QED
      BY <1>1, <1>2, <1>3, <1>4, <1>8, <2>4, <2>5, <2>7, <3>1, <3>2, <3>3, OtherBase DEF r
  <2>8. CASE Matches(disk', FullPath(dst), dst)
    <3>1. <<Cwd>> \in Paths /\ Len(<<Cwd>>) = 1
      BY RootPath, PlacesAssumption
    <3>2. FullPath(dst) = made
      <4>1. ASSUME Below(y, <<Cwd>>) PROVE FullPath(dst) = made
        <5>1. y = <<>>
          BY <2>5, <3>1, <4>1, NotEmpty DEF Below
        <5>2. made = r
          BY <1>2, <2>4, <5>1, ConcatEmptySeq DEF Join, Paths
        <5>3. IsAbsolute(r)
          BY <1>3, <5>2, TreePath
        <5> QED
          BY <2>2, <5>2, <5>3 DEF Join
      <4>2. ASSUME ~Below(y, <<Cwd>>) PROVE FullPath(dst) = made
        BY <1>10, <2>2, <2>7, <2>8, <3>1, <4>2
      <4> QED
        BY <4>1, <4>2
    <3>3. FirstMatch(disk', searchPaths, mounted, dst) = FoundOnDisk(disk', FullPath(dst))
      BY <1>1, <1>2, <2>2, <2>8, MatchHere
    <3> QED
      BY <3>2, <3>3
  <2>9. CASE ~Matches(disk', FullPath(dst), dst)
    <3>1. S \in SUBSET Nat /\ k \in S
      BY <1>1, <2>4, <2>6 DEF y
    <3>2. PICK i \in S : \A j \in S : i <= j
      <4> HIDE DEF S
      <4> QED
        BY <3>1, LeastExists
    <3>3. /\ i \in 1 .. k /\ i \in 1 .. Len(searchPaths)
          /\ Matches(disk', Join(searchPaths[i], r), dst)
      BY <1>1
    <3>4. ASSUME NEW j \in 1 .. i - 1 PROVE ~Matches(disk', Join(searchPaths[j], r), dst)
      <4>1. j \in 1 .. k /\ ~(i <= j)
        BY <1>1, <3>3
      <4> QED
        BY <3>2, <4>1
    <3>5. Join(searchPaths[i], r) = made
      <4>1. CASE i = k
        BY <2>4, <4>1 DEF y
      <4>2. CASE i # k
        <5>1. i \in 1 .. k - 1
          BY <1>1, <3>3, <4>2
        <5>2. ~Matches(disk, Join(searchPaths[i], ParentPath(r)), l)
          BY <1>10, <2>2, <5>1
        <5>3. searchPaths[i] \in Pushed /\ searchPaths[i] \in Paths
          BY <2>3, <3>3
        <5>4. "rename" \in Ops[t] => ~Below(y, searchPaths[i])
          BY <2>5, <5>3 DEF Apart
        <5> QED
          BY <2>7, <3>3, <5>2, <5>3, <5>4
      <4> QED
        BY <4>1, <4>2
    <3>6. FirstMatch(disk', searchPaths, mounted, dst) = FoundOnDisk(disk', Join(searchPaths[i], r))
      BY <1>1, <1>2, <2>1, <2>2, <2>9, <3>3, <3>4, MatchInPath DEF r
    <3> QED
      BY <3>5, <3>6
  <2> QED
    BY <2>8, <2>9
<1> QED
  BY <1>5, <1>9, <1>10 DEF IsFirst, dst, made

(***************************************************************************)
(* What Open, Rename or CreateDirectory puts where nothing was is what its *)
(* location then finds, whoever pushes, pops and mounts meanwhile, unless  *)
(* the search paths changed on the way: the folder is looked for in the    *)
(* same order as the thing itself                                          *)
(* (FileSystem.cpp:175-181, 255-257, 314-316).                             *)
(***************************************************************************)
THEOREM WhatIsMadeIsFound ==
  ASSUME QuietDisk, Apart
  PROVE  Spec => MadeIsFound
<1> DEFINE Finds ==
      \A t \in Threads :
        pc[t] = "found" /\ goal[t] = "parent" /\ pc'[t] = "idle" /\ steady[t] =>
          LET made == Absolute(InFolder(t))
              dst  == call[t].dst
          IN  Kind(disk, made) = "none" /\ Matches(disk', made, dst) =>
                FirstMatch(disk', searchPaths, mounted, dst) = FoundOnDisk(disk', made)
<1>1. MInv /\ [Next]_vars => MInv'
  BY StepMInv
<1>2. MInv /\ [Next]_vars => Finds
  <2> SUFFICES ASSUME MInv, [Next]_vars PROVE Finds
    OBVIOUS
  <2>1. Rooted(disk') /\ disk' \in [Tree -> Kinds]
    <3>1. Rooted(disk)' /\ IInv'
      BY <1>1 DEF MInv, SInv
    <3> QED
      BY <3>1 DEF Rooted, Kind, IInv, Types
  <2> QED
    BY <2>1, MadeStep
<1>3. MInv /\ [Next]_vars => [Finds]_vars
  BY <1>2
<1> HIDE DEF Finds
<1>4. Spec => [][Finds]_vars
  BY <1>1, <1>3, InitMInv, PTL DEF Spec
<1> QED
  BY <1>4 DEF MadeIsFound, Finds
=============================================================================

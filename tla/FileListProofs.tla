--------------------------- MODULE FileListProofs ---------------------------
(***************************************************************************)
(* For every archive in which each depth has an entry, of any size and     *)
(* with any paths: the table says where each depth begins, the search      *)
(* skips nothing it should compare, a lookup finds exactly the entries     *)
(* the archive has, and a listing yields exactly those of its directory.   *)
(***************************************************************************)
EXTENDS FileList, FiniteSetTheorems, WellFoundedInduction, TLAPS

(* The setting of the theorems.                                            *)
Setting == \A s \in Archives : GapFree(s)

Strings == Seq(Nat \ {0})

(* The first s characters of two strings are the same.                     *)
Agree(a, b, s) == \A j \in 1 .. s : At(a, j) = At(b, j)

(***************************************************************************)
(* Strings and depths.                                                     *)
(***************************************************************************)
LEMMA AtType ==
  ASSUME NEW p \in Strings, NEW k \in Nat \ {0}
  PROVE  /\ At(p, k) \in Nat
         /\ At(p, k) = 0 <=> k > Len(p)
  BY DEF At, Strings

LEMMA DepthType == ASSUME NEW p \in Strings PROVE Depth(p) \in Nat
<1> DEFINE S == {k \in 1 .. Len(p) - 1 : p[k] = Slash}
<1>1. Len(p) \in Nat
  BY DEF Strings
<1>2. IsFiniteSet(1 .. Len(p) - 1)
  BY <1>1, FS_Interval
<1>3. IsFiniteSet(S)
  BY <1>2, FS_Subset
<1> QED
  BY <1>3, FS_CardinalityType DEF Depth

(* Numbers are well ordered.                                               *)
LEMMA LeastNumber ==
  ASSUME NEW T \in SUBSET Nat, T # {}
  PROVE  \E x \in T : \A y \in T : x <= y
<1>1. PICK x \in T : \A y \in T : ~ (<<y, x>> \in OpToRel(<, Nat))
  BY NatLessThanWellFounded, WFMin
<1>2. \A y \in T : ~ (y < x)
  BY <1>1 DEF OpToRel
<1> QED
  BY <1>2

(* Strings that agree up to the end of one of them are the same.           *)
LEMMA AgreeToTheEnd ==
  ASSUME NEW a \in Strings, NEW b \in Strings, Agree(a, b, Len(a) + 1)
  PROVE  a = b
<1>1. Len(a) \in Nat /\ Len(b) \in Nat
  BY DEF Strings
<1>2. At(b, Len(a) + 1) = 0
  BY <1>1, AtType DEF Agree
<1>3. Len(b) <= Len(a)
  BY <1>1, <1>2, AtType
<1>4. \A j \in 1 .. Len(a) : j <= Len(b) /\ a[j] = b[j]
  <2> SUFFICES ASSUME NEW j \in 1 .. Len(a) PROVE j <= Len(b) /\ a[j] = b[j]
    OBVIOUS
  <2>1. At(a, j) = a[j] /\ At(a, j) # 0 /\ At(a, j) = At(b, j)
    BY <1>1, AtType DEF Agree, At
  <2> QED
    BY <1>1, <2>1 DEF At
<1>5. Len(a) = Len(b)
  BY <1>1, <1>3, <1>4
<1> QED
  BY <1>1, <1>4, <1>5 DEF Strings

(* A string between two that agree with the key on s characters agrees     *)
(* with it too: this is what lets the search skip them.                    *)
LEMMA Sandwich ==
  ASSUME NEW a \in Strings, NEW e \in Strings, NEW b \in Strings, NEW k \in Strings,
         NEW s \in Nat, Agree(a, k, s), Agree(b, k, s),
         ~LessString(e, a), ~LessString(b, e)
  PROVE  Agree(e, k, s)
<1> SUFFICES ASSUME ~Agree(e, k, s) PROVE FALSE
  OBVIOUS
<1> DEFINE T == {j \in 1 .. s : At(e, j) # At(k, j)}
<1>1. PICK t \in T : \A y \in T : t <= y
  <2>1. T # {} /\ T \in SUBSET Nat
    BY DEF Agree
  <2> QED
    BY <2>1, LeastNumber
<1>2. \A j \in 1 .. t - 1 : At(e, j) = At(k, j)
  BY <1>1
<1>3. /\ At(a, t) = At(k, t) /\ At(b, t) = At(k, t)
      /\ \A j \in 1 .. t - 1 : At(a, j) = At(k, j) /\ At(b, j) = At(k, j)
  BY <1>1 DEF Agree
<1>4. At(e, t) \in Nat /\ At(k, t) \in Nat /\ At(e, t) # At(k, t) /\ t \in Nat \ {0}
  BY <1>1, AtType
<1>5. CASE At(e, t) < At(k, t)
  <2>1. t \in 1 .. Len(a)
    BY <1>3, <1>4, <1>5, AtType DEF Strings
  <2> QED
    BY <1>2, <1>3, <1>5, <1>4, <2>1 DEF LessString, DifferFirstAt
<1>6. CASE At(k, t) < At(e, t)
  <2>1. t \in 1 .. Len(e)
    BY <1>4, <1>6, AtType DEF Strings
  <2> QED
    BY <1>2, <1>3, <1>6, <1>4, <2>1 DEF LessString, DifferFirstAt
<1> QED
  BY <1>4, <1>5, <1>6

(***************************************************************************)
(* The inductive invariant.                                                *)
(***************************************************************************)
(* Halfway through the table: depths up to the last one seen are right.    *)
Filled ==
  /\ i \in 0 .. Len(list)
  /\ Len(table) = depth + 1
  /\ i = 0 => depth = 0
  /\ i > 0 => depth = Depth(list[i])
  /\ \A d \in 1 .. depth + 1 :
       /\ table[d] \in 0 .. i
       /\ \A k \in 1 .. Len(list) : k <= table[d] <=> Depth(list[k]) + 1 < d

(* The table ends after the deepest entry.                                 *)
Deepest == \E k \in 1 .. Len(list) : Depth(list[k]) + 2 = Len(table)

Prepared ==
  /\ pc \in {"sort", "fill", "bounds"} => startL = 0 /\ startR = 0
  /\ pc \in {"open", "sort"} =>
       /\ ~sorted /\ table = <<>>
       /\ Closed(Entries(list) \cup Entries(rest))
       /\ pc = "sort" => rest = <<>>
  /\ pc = "fill" => ~sorted /\ IsSorted(list) /\ Closed(Entries(list)) /\ Filled
  /\ pc \in {"bounds", "probe", "list", "done"} => sorted
  /\ sorted => IsSorted(list) /\ Closed(Entries(list)) /\ TableRight /\ Deepest

(* The interval of the search: between two ends that are below and above   *)
(* the key and share their first characters with it; the key is nowhere    *)
(* else.                                                                   *)
First == table[Depth(key) + 1]
Limit == table[Depth(key) + 2]

LeftEnd ==
  IF left = First THEN startL = 0
  ELSE LessString(list[left], key) /\ Agree(list[left], key, startL)

RightEnd ==
  IF left + count = Limit THEN startR = 0
  ELSE LessString(key, list[left + count + 1]) /\ Agree(list[left + count + 1], key, startR)

Searching ==
  pc = "probe" =>
    /\ Depth(key) + 1 < Len(table)
    /\ First <= left /\ left + count <= Limit /\ right = Limit
    /\ startL <= Len(key) /\ startR <= Len(key)
    /\ LeftEnd /\ RightEnd
    /\ \A k \in First + 1 .. left : list[k] # key
    /\ \A k \in left + count + 1 .. Limit : list[k] # key

(* A listing reads entries that exist.                                     *)
Listing ==
  pc = "list" =>
    /\ kind = "list"
    /\ index[1] = -1 \/ (index[1] \in Nat /\ index[2] <= Len(list))

(* LookupRight, for every key.                                             *)
Answer ==
  pc = "done" /\ kind = "find" =>
    IF index[1] = -1 THEN key \notin Entries(list)
    ELSE index[1] + 1 \in 1 .. Len(list) /\ list[index[1] + 1] = key

IInv ==
  /\ TypeOK
  /\ Prepared
  /\ Searching
  /\ SkipSound
  /\ Listing
  /\ Answer

(***************************************************************************)
(* What sorting and the table give.                                        *)
(***************************************************************************)
LEMMA EntryType ==
  ASSUME TypeOK, NEW k \in 1 .. Len(list)
  PROVE  list[k] \in Strings /\ Depth(list[k]) \in Nat /\ list[k] \in Entries(list)
<1>1. list[k] \in Strings /\ list[k] \in Entries(list)
  BY PathsAssumption DEF TypeOK, Strings, Entries
<1> QED
  BY <1>1, DepthType

LEMMA SortedByDepth ==
  ASSUME TypeOK, IsSorted(list), NEW j \in 1 .. Len(list), NEW k \in 1 .. Len(list), j <= k
  PROVE  /\ Depth(list[j]) <= Depth(list[k])
         /\ j < k /\ Depth(list[j]) = Depth(list[k]) => ~LessString(list[k], list[j])
<1>1. Depth(list[j]) \in Nat /\ Depth(list[k]) \in Nat
  BY EntryType
<1>2. CASE j = k
  BY <1>1, <1>2
<1>3. CASE j < k
  BY <1>1, <1>3 DEF IsSorted, LessEntry
<1> QED
  BY <1>2, <1>3 DEF TypeOK

(* The entries between the two places in the table have the key's depth.   *)
LEMMA SameDepth ==
  ASSUME TypeOK, sorted, TableRight, NEW d \in Nat, d + 1 < Len(table)
  PROVE  /\ table[d + 1] \in 0 .. Len(list) /\ table[d + 2] \in 0 .. Len(list)
         /\ table[d + 1] <= table[d + 2]
         /\ \A k \in 1 .. Len(list) :
              k \in table[d + 1] + 1 .. table[d + 2] <=> Depth(list[k]) = d
<1>0. Len(list) \in Nat
  BY DEF TypeOK
<1>1. /\ d + 1 \in 1 .. Len(table) /\ d + 2 \in 1 .. Len(table)
  BY DEF TypeOK
<1>2. /\ table[d + 1] \in 0 .. Len(list) /\ table[d + 2] \in 0 .. Len(list)
      /\ \A k \in 1 .. Len(list) : k <= table[d + 1] <=> Depth(list[k]) + 1 < d + 1
      /\ \A k \in 1 .. Len(list) : k <= table[d + 2] <=> Depth(list[k]) + 1 < d + 2
  BY <1>1 DEF TableRight
<1>3. \A k \in 1 .. Len(list) : k \in table[d + 1] + 1 .. table[d + 2] <=> Depth(list[k]) = d
  <2> SUFFICES ASSUME NEW k \in 1 .. Len(list)
               PROVE  k \in table[d + 1] + 1 .. table[d + 2] <=> Depth(list[k]) = d
    OBVIOUS
  <2>1. Depth(list[k]) \in Nat /\ k \in Nat
    BY EntryType DEF TypeOK
  <2>2. (k <= table[d + 1] <=> Depth(list[k]) < d) /\ (k <= table[d + 2] <=> Depth(list[k]) < d + 1)
    BY <1>2, <2>1
  <2>3. table[d + 1] \in Nat /\ table[d + 2] \in Nat
    BY <1>2, <1>0
  <2> QED
    BY <2>1, <2>2, <2>3
<1>4. ASSUME table[d + 2] < table[d + 1]
      PROVE  FALSE
  <2> DEFINE k == table[d + 1]
  <2>1. k \in 1 .. Len(list) /\ table[d + 2] \in Nat /\ k \in Nat
    BY <1>0, <1>2, <1>4
  <2>2. Depth(list[k]) \in Nat
    BY <2>1, EntryType
  <2> HIDE DEF k
  <2>3. k <= table[d + 1] /\ ~ (k <= table[d + 2])
    BY <1>4, <2>1 DEF k
  <2>4. Depth(list[k]) + 1 < d + 1 /\ ~ (Depth(list[k]) + 1 < d + 2)
    BY <1>2, <2>1, <2>3
  <2> QED
    BY <2>2, <2>4
<1> QED
  BY <1>2, <1>3, <1>4

(***************************************************************************)
(* OpenArchive keeps the invariant.                                        *)
(***************************************************************************)
LEMMA InitIInv == ASSUME Setting, Init PROVE IInv
<1>1. TypeOK
  <2>1. rest \in Seq(Paths)
    BY PathsAssumption DEF Init
  <2>2. /\ list \in Seq(Paths) /\ names \in Seq(Paths) /\ table \in Seq(Nat)
        /\ key \in Seq(Nat \ {0}) /\ dir \in Seq(Nat \ {0})
    BY DEF Init
  <2>3. index \in Int \X Int
    BY DEF Init
  <2> QED
    BY <2>1, <2>2, <2>3 DEF Init, TypeOK, States
<1>2. Closed(Entries(list) \cup Entries(rest))
  <2>1. Entries(list) = {}
    BY DEF Init, Entries
  <2>2. Closed(Entries(rest))
    BY DEF Init, Setting, GapFree
  <2> QED
    BY <2>1, <2>2
<1>3. Prepared
  BY <1>2 DEF Init, Prepared
<1> QED
  BY <1>1, <1>3 DEF Init, IInv, Searching, SkipSound, Listing, Answer

LEMMA AddIInv == ASSUME Setting, IInv, Add PROVE IInv'
<1> USE DEF IInv, Add, fillVars, callVars, searchVars
<1>1. /\ list \in Seq(Paths) /\ rest \in Seq(Paths) /\ rest # <<>>
      /\ Head(rest) \in Paths /\ Tail(rest) \in Seq(Paths)
  BY DEF TypeOK
<1>2. TypeOK'
  <2>1. list' \in Seq(Paths) /\ rest' \in Seq(Paths) /\ sorted' \in BOOLEAN
    <3>1. list' = Append(list, Head(rest)) /\ rest' = Tail(rest) /\ sorted' = FALSE
      OBVIOUS
    <3> HIDE DEF IInv, Add
    <3>2. ASSUME NEW p \in Paths PROVE Append(list, p) \in Seq(Paths)
      BY <1>1
    <3> QED
      BY <1>1, <3>1, <3>2
  <2>2. UNCHANGED <<table, pc, i, depth, kind, key, dir, left, count, right, startL, startR,
                    index, names>>
    OBVIOUS
  <2>3. TypeOK
    OBVIOUS
  <2> HIDE DEF IInv, Add
  <2>4. /\ (table \in Seq(Nat) /\ names \in Seq(Paths) /\ index \in Int \X Int)'
        /\ (key \in Seq(Nat \ {0}) /\ dir \in Seq(Nat \ {0}) /\ kind \in {"find", "list"})'
    BY <2>2, <2>3 DEF TypeOK
  <2>5. (pc \in States)'
    BY <2>2, <2>3 DEF TypeOK
  <2>6. /\ (i \in Nat /\ depth \in Nat /\ left \in Nat /\ right \in Nat)'
        /\ (count \in Nat /\ startL \in Nat /\ startR \in Nat)'
    BY <2>2, <2>3 DEF TypeOK
  <2> QED
    BY <2>1, <2>4, <2>5, <2>6 DEF TypeOK
<1>3. Closed(Entries(list) \cup Entries(rest))'
  <2>1. Entries(list') = Entries(list) \cup {Head(rest)}
    <3>1. /\ Len(list') = Len(list) + 1
          /\ \A k \in 1 .. Len(list) : list'[k] = list[k]
          /\ list'[Len(list) + 1] = Head(rest)
      BY <1>1
    <3> QED
      BY <1>1, <3>1 DEF Entries
  <2>2. Entries(rest) = {Head(rest)} \cup Entries(rest')
    <3>1. /\ Len(rest) \in Nat /\ Len(rest) > 0
          /\ Len(rest') = Len(rest) - 1
          /\ Head(rest) = rest[1]
          /\ \A k \in 1 .. Len(rest') : rest'[k] = rest[k + 1]
      BY <1>1
    <3>2. ASSUME NEW p \in Entries(rest)
          PROVE  p \in {Head(rest)} \cup Entries(rest')
      <4>1. PICK k \in 1 .. Len(rest) : p = rest[k]
        BY DEF Entries
      <4>2. CASE k = 1
        BY <3>1, <4>1, <4>2
      <4>3. CASE k # 1
        <5>1. k - 1 \in 1 .. Len(rest') /\ rest'[k - 1] = p
          BY <3>1, <4>1, <4>3
        <5> QED
          BY <5>1 DEF Entries
      <4> QED
        BY <4>2, <4>3
    <3>3. ASSUME NEW p \in Entries(rest')
          PROVE  p \in Entries(rest)
      <4>1. PICK k \in 1 .. Len(rest') : p = rest'[k]
        BY DEF Entries
      <4>2. k + 1 \in 1 .. Len(rest) /\ rest[k + 1] = p
        BY <3>1, <4>1
      <4> QED
        BY <4>2 DEF Entries
    <3>4. Head(rest) \in Entries(rest)
      BY <3>1 DEF Entries
    <3> QED
      BY <3>2, <3>3, <3>4
  <2>3. Entries(list') \cup Entries(rest') = Entries(list) \cup Entries(rest)
    BY <2>1, <2>2
  <2>4. Closed(Entries(list) \cup Entries(rest))
    BY DEF Prepared
  <2> QED
    BY <2>3, <2>4
<1>4. Prepared'
  BY <1>3 DEF Prepared
<1> QED
  BY <1>2, <1>4 DEF Searching, SkipSound, Listing, Answer

LEMMA CallIInv ==
  ASSUME Setting, IInv, NEW k \in {"find", "list"}, NEW p \in Strings, NEW d \in Strings,
         Call(k, p, d), pc = "done" \/ (pc = "open" /\ rest = <<>>)
  PROVE  IInv'
<1> USE DEF IInv, Call, tableVars
<1>1. TypeOK'
  BY DEF TypeOK, States, Strings
<1>2. Prepared'
  BY DEF Prepared, TableRight, Deepest
<1> QED
  BY <1>1, <1>2 DEF Searching, SkipSound, Listing, Answer

(* What is looked up and listed are strings.                               *)
LEMMA KeyTypes ==
  /\ <<>> \in Strings /\ Keys \subseteq Strings
  /\ \A d \in Dirs : d \in Strings /\ WithSpace(d) \in Strings
<1> SUFFICES ASSUME NEW d \in Dirs PROVE d \in Strings /\ WithSpace(d) \in Strings
  BY PathsAssumption DEF Strings
<1>1. d \in Strings
  BY PathsAssumption DEF Strings
<1>2. <<Space>> \in Strings /\ <<Slash, Space>> \in Strings
  BY PathsAssumption DEF Strings
<1>3. Append(d, Space) \in Strings /\ d \o <<Slash, Space>> \in Strings
  BY <1>1, <1>2, PathsAssumption DEF Strings
<1> QED
  BY <1>1, <1>2, <1>3 DEF WithSpace

(***************************************************************************)
(* Sorting and filling the table.                                          *)
(***************************************************************************)
LEMMA SortIInv == ASSUME Setting, IInv, Sort PROVE IInv'
<1> USE DEF IInv, Sort, callVars, searchVars
<1>1. /\ list \in Seq(Paths) /\ Len(list) \in Nat
      /\ ~sorted /\ table = <<>> /\ rest = <<>>
      /\ Closed(Entries(list) \cup Entries(rest))
  BY DEF TypeOK, Prepared
<1>2. list' \in [1 .. Len(list) -> Entries(list)] /\ IsSorted(list')
  BY DEF Sortings
<1>3. Entries(list) \subseteq Paths
  BY <1>1 DEF Entries
<1>4. list' \in Seq(Paths) /\ Len(list') = Len(list)
  <2> HIDE DEF IInv, Sort
  <2> QED
    BY <1>1, <1>2, <1>3
<1>5. Entries(list') = Entries(list)
  <2>1. ASSUME NEW p \in Entries(list') PROVE p \in Entries(list)
    BY <1>2, <1>4 DEF Entries
  <2>2. ASSUME NEW p \in Entries(list) PROVE p \in Entries(list')
    <3> DEFINE old == {k \in 1 .. Len(list) : list[k] = p}
               new == {k \in 1 .. Len(list) : list'[k] = p}
    <3>1. Cardinality(new) = Cardinality(old)
      BY DEF Sortings
    <3>2. old # {}
      BY DEF Entries
    <3>3. IsFiniteSet(old) /\ IsFiniteSet(new)
      <4>1. IsFiniteSet(1 .. Len(list))
        BY <1>1, FS_Interval
      <4>2. old \subseteq 1 .. Len(list) /\ new \subseteq 1 .. Len(list)
        OBVIOUS
      <4> HIDE DEF IInv, Sort, old, new
      <4> QED
        BY <4>1, <4>2, FS_Subset
    <3>4. new # {}
      BY <3>1, <3>2, <3>3, FS_EmptySet
    <3> QED
      BY <1>4, <3>4 DEF Entries
  <2> QED
    BY <2>1, <2>2
<1>6. Closed(Entries(list'))
  <2>1. Entries(rest) = {}
    BY <1>1 DEF Entries
  <2> QED
    BY <1>1, <1>5, <2>1
<1>7. table' = <<0>>
  BY <1>1
<1>8. TypeOK'
  <2>1. table' \in Seq(Nat)
    <3> HIDE DEF IInv, Sort
    <3>1. <<0>> \in Seq(Nat)
      OBVIOUS
    <3> QED
      BY <1>7, <3>1
  <2>2. /\ TypeOK
        /\ UNCHANGED <<sorted, rest, kind, key, dir, left, count, right, startL, startR,
                       index, names>>
        /\ i' = 0 /\ depth' = 0 /\ pc' = "fill"
    OBVIOUS
  <2> HIDE DEF IInv, Sort
  <2> QED
    BY <1>4, <2>1, <2>2 DEF TypeOK, States
<1>9. Filled'
  <2> SUFFICES /\ 0 \in 0 .. Len(list') /\ Len(table') = 1
               /\ \A k \in 1 .. Len(list') : ~(k <= 0) /\ ~(Depth(list'[k]) + 1 < 1)
    BY <1>7 DEF Filled
  <2>1. \A k \in 1 .. Len(list') : Depth(list'[k]) \in Nat
    BY <1>4, DepthType, PathsAssumption DEF Strings
  <2> QED
    BY <1>1, <1>4, <1>7, <2>1
<1>10. Prepared'
  BY <1>1, <1>2, <1>6, <1>9 DEF Prepared
<1> QED
  BY <1>8, <1>10 DEF Searching, SkipSound, Listing, Answer

(* In a closed, sorted list a new depth is the next one: no depth is       *)
(* jumped over.                                                            *)
LEMMA NextDepth ==
  ASSUME IInv, pc = "fill", i < Len(list), Depth(list[i + 1]) # depth
  PROVE  Depth(list[i + 1]) = depth + 1 /\ i > 0
<1> DEFINE d == Depth(list[i + 1])
<1>1. /\ i + 1 \in 1 .. Len(list) /\ i \in Nat /\ Len(list) \in Nat /\ depth \in Nat
      /\ IsSorted(list) /\ Closed(Entries(list)) /\ Filled
  BY DEF IInv, TypeOK, Prepared
<1>2. d \in Nat /\ list[i + 1] \in Entries(list)
  BY <1>1, EntryType DEF IInv
<1>3. \A n \in 0 .. d : \E k \in 1 .. Len(list) : Depth(list[k]) = n
  BY <1>1, <1>2 DEF Closed, Entries
<1>4. depth < d /\ i > 0
  <2>1. CASE i = 0
    <3>1. PICK k \in 1 .. Len(list) : Depth(list[k]) = 0
      BY <1>2, <1>3
    <3>2. d <= 0
      BY <1>1, <2>1, <3>1, SortedByDepth DEF IInv
    <3> QED
      BY <1>1, <1>2, <2>1, <3>2 DEF Filled
  <2>2. CASE i > 0
    <3>1. depth = Depth(list[i]) /\ i \in 1 .. Len(list)
      BY <1>1, <2>2 DEF Filled
    <3>2. depth <= d
      BY <1>1, <3>1, SortedByDepth DEF IInv
    <3> QED
      BY <1>1, <1>2, <2>2, <3>2
  <2> QED
    BY <1>1, <2>1, <2>2
<1>5. ASSUME d > depth + 1
      PROVE  FALSE
  <2>1. PICK k \in 1 .. Len(list) : Depth(list[k]) = depth + 1
    <3>1. depth + 1 \in 0 .. d
      BY <1>1, <1>2, <1>5
    <3> QED
      BY <1>3, <3>1
  <2>2. i \in 1 .. Len(list) /\ depth = Depth(list[i])
    BY <1>1, <1>4 DEF Filled
  <2>3. CASE k <= i
    <3>1. Depth(list[k]) <= Depth(list[i])
      BY <1>1, <2>2, <2>3, SortedByDepth DEF IInv
    <3> QED
      BY <1>1, <2>1, <2>2, <3>1
  <2>4. CASE i + 1 <= k
    <3>1. d <= Depth(list[k])
      BY <1>1, <2>4, SortedByDepth DEF IInv
    <3> QED
      BY <1>1, <1>2, <1>5, <2>1, <3>1
  <2> QED
    BY <1>1, <2>3, <2>4
<1> QED
  BY <1>1, <1>2, <1>4, <1>5

LEMMA FillDepthIInv == ASSUME Setting, IInv, FillDepth PROVE IInv'
<1> DEFINE d == Depth(list[i + 1])
<1>1. /\ i + 1 \in 1 .. Len(list) /\ i \in Nat /\ Len(list) \in Nat /\ depth \in Nat
      /\ table \in Seq(Nat) /\ i < Len(list) /\ pc = "fill"
      /\ IsSorted(list) /\ Filled /\ TypeOK
  BY DEF IInv, TypeOK, Prepared, FillDepth
<1>2. /\ i' = i + 1
      /\ UNCHANGED <<list, sorted, rest, pc, kind, key, dir, left, count, right,
                     startL, startR, index, names>>
  BY DEF FillDepth, callVars, searchVars
<1>3. d \in Nat
  BY <1>1, EntryType
<1>4. /\ Len(table') = depth' + 1 /\ depth' = d
      /\ table' \in Seq(Nat)
      /\ \A n \in 1 .. d + 1 :
           /\ table'[n] \in 0 .. i + 1
           /\ \A k \in 1 .. Len(list) : k <= table'[n] <=> Depth(list[k]) + 1 < n
  <2>1. CASE d = depth
    <3>1. UNCHANGED <<table, depth>>
      BY <2>1 DEF FillDepth
    <3> QED
      BY <1>1, <2>1, <3>1 DEF Filled
  <2>2. CASE d # depth
    <3>1. d = depth + 1
      BY <1>1, <2>2, NextDepth
    <3>2. /\ table' = [Resize(table, d + 1, table[depth + 1]) EXCEPT ![d + 1] = i]
          /\ depth' = d
      BY <2>2 DEF FillDepth
    <3>3. Len(table) = depth + 1
      BY <1>1 DEF Filled
    <3>4. table' = [n \in 1 .. depth + 2 |-> IF n = depth + 2 THEN i ELSE table[n]]
      <4> DEFINE v == table[depth + 1]
                 grown == Resize(table, depth + 2, v)
      <4>1. d + 1 = depth + 2
        BY <1>1, <3>1
      <4>2. grown = [n \in 1 .. depth + 2 |-> IF n <= depth + 1 THEN table[n] ELSE v]
        BY <3>3 DEF Resize
      <4>3. table' = [grown EXCEPT ![depth + 2] = i]
        BY <3>2, <4>1
      <4>4. \A n \in 1 .. depth + 2 : n # depth + 2 => n <= depth + 1
        BY <1>1
      <4> HIDE DEF grown, v, d
      <4>5. DOMAIN grown = 1 .. depth + 2
        BY <4>2
      <4>6. table' = [n \in 1 .. depth + 2 |-> IF n = depth + 2 THEN i ELSE grown[n]]
        BY <4>3, <4>5
      <4>7. \A n \in 1 .. depth + 2 : n # depth + 2 => grown[n] = table[n]
        BY <4>2, <4>4
      <4> QED
        BY <4>6, <4>7
    <3>5. \A n \in 1 .. depth + 2 : (IF n = depth + 2 THEN i ELSE table[n]) \in Nat
      BY <1>1, <3>3 DEF Filled
    <3>6. table' \in Seq(Nat) /\ Len(table') = depth + 2
      <4> HIDE DEF d
      <4> QED
        BY <1>1, <3>4, <3>5
    <3>7. \A k \in 1 .. Len(list) : k <= i <=> Depth(list[k]) + 1 < depth + 2
      <4> SUFFICES ASSUME NEW k \in 1 .. Len(list)
                   PROVE  k <= i <=> Depth(list[k]) + 1 < depth + 2
        OBVIOUS
      <4>1. Depth(list[k]) \in Nat
        BY <1>1, EntryType
      <4>2. CASE k <= i
        <5>1. i \in 1 .. Len(list) /\ i > 0 /\ depth = Depth(list[i])
          BY <1>1, <4>2 DEF Filled
        <5>2. Depth(list[k]) <= depth
          BY <1>1, <4>2, <5>1, SortedByDepth
        <5> QED
          BY <1>1, <4>1, <4>2, <5>2
      <4>3. CASE i + 1 <= k
        <5>1. d <= Depth(list[k])
          BY <1>1, <4>3, SortedByDepth
        <5> QED
          BY <1>1, <3>1, <4>1, <4>3, <5>1
      <4> QED
        BY <1>1, <4>2, <4>3
    <3>8. ASSUME NEW n \in 1 .. d + 1
          PROVE  /\ table'[n] \in 0 .. i + 1
                 /\ \A k \in 1 .. Len(list) : k <= table'[n] <=> Depth(list[k]) + 1 < n
      <4>1. CASE n = depth + 2
        BY <1>1, <3>1, <3>4, <3>7, <4>1
      <4>2. CASE n # depth + 2
        <5>1. n \in 1 .. depth + 1 /\ table'[n] = table[n]
          BY <1>1, <3>1, <3>4, <4>2
        <5> QED
          BY <1>1, <5>1 DEF Filled
      <4> QED
        BY <4>1, <4>2
    <3> QED
      BY <1>1, <3>1, <3>2, <3>6, <3>8
  <2> QED
    BY <2>1, <2>2
<1>5. TypeOK'
  <2> HIDE DEF d
  <2> QED
    BY <1>1, <1>2, <1>3, <1>4 DEF TypeOK
<1>6. Filled'
  BY <1>1, <1>2, <1>3, <1>4 DEF Filled
<1>7. Prepared'
  BY <1>1, <1>2, <1>6 DEF IInv, Prepared
<1> QED
  BY <1>1, <1>2, <1>5, <1>7 DEF IInv, Searching, SkipSound, Listing, Answer

LEMMA FillEndIInv == ASSUME Setting, IInv, FillEnd PROVE IInv'
<1>1. /\ i = Len(list) /\ Len(list) \in Nat /\ depth \in Nat /\ table \in Seq(Nat)
      /\ IsSorted(list) /\ Closed(Entries(list)) /\ Filled /\ TypeOK
      /\ pc = "fill" /\ startL = 0 /\ startR = 0
  BY DEF IInv, TypeOK, Prepared, FillEnd
<1>2. /\ table' = Append(table, Len(list)) /\ sorted' = TRUE /\ pc' = "bounds"
      /\ UNCHANGED <<list, rest, i, depth, kind, key, dir, left, count, right,
                     startL, startR, index, names>>
  BY DEF FillEnd, fillVars, callVars, searchVars
<1>3. Len(list) \in 1 .. Len(list) /\ depth = Depth(list[Len(list)])
  <2>1. Len(list) # 0
    BY <1>1 DEF Closed, Entries
  <2> QED
    BY <1>1, <2>1 DEF Filled
<1>4. /\ table' \in Seq(Nat) /\ Len(table') = depth + 2
      /\ table'[depth + 2] = Len(list)
      /\ \A n \in 1 .. depth + 1 : table'[n] = table[n]
  <2>1. Len(table) = depth + 1
    BY <1>1 DEF Filled
  <2> QED
    BY <1>1, <1>2, <2>1
<1>5. ASSUME NEW k \in 1 .. Len(list)
      PROVE  Depth(list[k]) \in Nat /\ Depth(list[k]) <= depth
  <2>1. Depth(list[k]) <= Depth(list[Len(list)])
    BY <1>1, <1>3, SortedByDepth
  <2> QED
    BY <1>1, <1>3, <2>1, EntryType
<1>6. TypeOK'
  BY <1>1, <1>2, <1>4 DEF TypeOK, States
<1>7. TableRight'
  <2>1. ASSUME NEW n \in 1 .. Len(table')
        PROVE  /\ table'[n] \in 0 .. Len(list)
               /\ \A k \in 1 .. Len(list) : k <= table'[n] <=> Depth(list[k]) + 1 < n
    <3>1. CASE n = depth + 2
      BY <1>1, <1>4, <1>5, <3>1
    <3>2. CASE n # depth + 2
      <4>1. n \in 1 .. depth + 1 /\ table'[n] = table[n]
        BY <1>1, <1>4, <3>2
      <4> QED
        BY <1>1, <4>1 DEF Filled
    <3> QED
      BY <3>1, <3>2
  <2>2. \A k \in 1 .. Len(list) : Depth(list[k]) + 2 <= Len(table')
    BY <1>1, <1>4, <1>5
  <2> QED
    BY <1>2, <2>1, <2>2 DEF TableRight
<1>8. Deepest'
  BY <1>2, <1>3, <1>4 DEF Deepest
<1>9. Prepared'
  BY <1>1, <1>2, <1>7, <1>8 DEF Prepared
<1> QED
  BY <1>1, <1>2, <1>6, <1>9 DEF IInv, Searching, SkipSound, Listing, Answer

(***************************************************************************)
(* The search.                                                             *)
(***************************************************************************)
LEMMA TooDeepIInv == ASSUME Setting, IInv, TooDeep PROVE IInv'
<1>1. /\ TypeOK /\ Prepared /\ sorted /\ TableRight /\ pc = "bounds"
      /\ Depth(key) + 1 >= Len(table)
      /\ index' = <<-1, -1>> /\ pc' = IF kind = "list" THEN "list" ELSE "done"
      /\ UNCHANGED <<list, table, sorted, rest, i, depth, kind, key, dir, left,
                     count, right, startL, startR, names>>
  BY DEF IInv, Prepared, TooDeep, Return, tableVars, fillVars, callVars, searchVars
<1>2. TypeOK'
  BY <1>1 DEF TypeOK, States
<1>3. Prepared'
  BY <1>1 DEF Prepared, TableRight, Deepest
<1>4. key \notin Entries(list)
  <2> SUFFICES ASSUME NEW k \in 1 .. Len(list), list[k] = key PROVE FALSE
    BY DEF Entries
  <2>1. Len(table) \in Nat
    BY <1>1 DEF TypeOK
  <2>2. Depth(list[k]) + 2 <= Len(table)
    BY <1>1 DEF TableRight
  <2>3. Depth(list[k]) \in Nat
    BY <1>1, EntryType
  <2> QED
    BY <1>1, <2>1, <2>2, <2>3
<1> QED
  BY <1>1, <1>2, <1>3, <1>4 DEF IInv, Searching, SkipSound, Listing, Answer

(* A depth up to the deepest has entries, so the search is not over before *)
(* it begins.                                                              *)
LEMMA DepthHasEntries == ASSUME IInv, Bounds PROVE count' # 0 /\ pc' = "probe" /\ index' = index
<1>1. /\ TypeOK /\ Prepared /\ sorted /\ TableRight /\ Deepest /\ pc = "bounds"
      /\ Closed(Entries(list))
      /\ Depth(key) + 1 < Len(table)
      /\ left' = First /\ right' = Limit /\ count' = Limit - First
      /\ UNCHANGED <<list, table, sorted, rest, i, depth, kind, key, dir,
                     startL, startR, names>>
  BY DEF IInv, Prepared, Bounds, First, Limit, tableVars, fillVars, callVars
<1>2. Depth(key) \in Nat /\ Len(table) \in Nat /\ Len(list) \in Nat /\ key \in Strings
  BY <1>1, DepthType DEF TypeOK, Strings
<1>3. /\ First \in 0 .. Len(list) /\ Limit \in 0 .. Len(list) /\ First <= Limit
      /\ \A k \in 1 .. Len(list) : k \in First + 1 .. Limit <=> Depth(list[k]) = Depth(key)
  BY <1>1, <1>2, SameDepth DEF First, Limit
<1>4. count' # 0
  <2>1. PICK k \in 1 .. Len(list) : Depth(list[k]) + 2 = Len(table)
    BY <1>1 DEF Deepest
  <2>2. list[k] \in Entries(list) /\ Depth(list[k]) \in Nat
    BY <1>1, EntryType
  <2>3. Depth(key) \in 0 .. Depth(list[k])
    BY <1>1, <1>2, <2>1, <2>2
  <2>4. PICK q \in 1 .. Len(list) : Depth(list[q]) = Depth(key)
    BY <1>1, <2>2, <2>3 DEF Closed, Entries
  <2>5. q \in First + 1 .. Limit
    BY <1>3, <2>4
  <2> QED
    BY <1>1, <1>3, <2>5
<1> QED
  BY <1>4 DEF Bounds

LEMMA BoundsIInv == ASSUME Setting, IInv, Bounds PROVE IInv'
<1>1. /\ TypeOK /\ Prepared /\ sorted /\ TableRight /\ Deepest /\ pc = "bounds"
      /\ Closed(Entries(list))
      /\ Depth(key) + 1 < Len(table)
      /\ left' = First /\ right' = Limit /\ count' = Limit - First
      /\ UNCHANGED <<list, table, sorted, rest, i, depth, kind, key, dir,
                     startL, startR, names>>
  BY DEF IInv, Prepared, Bounds, First, Limit, tableVars, fillVars, callVars
<1>2. Depth(key) \in Nat /\ Len(table) \in Nat /\ Len(list) \in Nat /\ key \in Strings
  BY <1>1, DepthType DEF TypeOK, Strings
<1>3. /\ First \in 0 .. Len(list) /\ Limit \in 0 .. Len(list) /\ First <= Limit
      /\ \A k \in 1 .. Len(list) : k \in First + 1 .. Limit <=> Depth(list[k]) = Depth(key)
  BY <1>1, <1>2, SameDepth DEF First, Limit
<1>5. pc' = "probe" /\ index' = index
  BY DepthHasEntries
<1>6. TypeOK'
  BY <1>1, <1>3, <1>5 DEF TypeOK, States
<1>7. Prepared'
  BY <1>1, <1>5 DEF Prepared, TableRight, Deepest
<1>8. startL' = 0 /\ startR' = 0
  BY <1>1 DEF Prepared
<1>9. SkipSound'
  <2>1. Start' = 0
    BY <1>8 DEF Start, Smaller
  <2> QED
    BY <2>1 DEF SkipSound
<1>10. Searching'
  <2>1. First' = First /\ Limit' = Limit
    BY <1>1 DEF First, Limit
  <2>2. left' + count' = Limit
    BY <1>1, <1>3
  <2>3. LeftEnd' /\ RightEnd'
    BY <1>1, <1>8, <2>1, <2>2 DEF LeftEnd, RightEnd
  <2> QED
    BY <1>1, <1>2, <1>3, <1>8, <2>1, <2>2, <2>3 DEF Searching, Strings
<1> QED
  BY <1>5, <1>6, <1>7, <1>9, <1>10 DEF IInv, Listing, Answer

(* The entry that is probed, and the order around it.                      *)
LEMMA Probing ==
  ASSUME IInv, pc = "probe"
  PROVE  /\ key \in Strings /\ Depth(key) \in Nat
         /\ First \in 0 .. Len(list) /\ Limit \in 0 .. Len(list)
         /\ \A k \in 1 .. Len(list) : k \in First + 1 .. Limit <=> Depth(list[k]) = Depth(key)
         /\ \A k \in First + 1 .. Limit : k \in 1 .. Len(list) /\ list[k] \in Strings
         /\ \A j, k \in First + 1 .. Limit : j < k => ~LessString(list[k], list[j])
         /\ Start \in Nat /\ Start <= startL /\ Start <= startR /\ Start <= Len(key)
         /\ count > 0 =>
              /\ count \div 2 \in Nat /\ count \div 2 < count
              /\ Middle \in Nat /\ Middle + 1 \in First + 1 .. Limit
              /\ Middle + 1 \in left + 1 .. left + count
              /\ Agree(list[Middle + 1], key, Start)
<1>1. /\ TypeOK /\ sorted /\ TableRight /\ IsSorted(list) /\ SkipSound
      /\ Depth(key) + 1 < Len(table)
      /\ First <= left /\ left + count <= Limit
      /\ startL <= Len(key) /\ startR <= Len(key)
  BY DEF IInv, Prepared, Searching
<1>2. key \in Strings /\ Depth(key) \in Nat
  BY <1>1, DepthType DEF TypeOK, Strings
<1>3. /\ First \in 0 .. Len(list) /\ Limit \in 0 .. Len(list)
      /\ \A k \in 1 .. Len(list) : k \in First + 1 .. Limit <=> Depth(list[k]) = Depth(key)
  BY <1>1, <1>2, SameDepth DEF First, Limit
<1>4. /\ left \in Nat /\ count \in Nat /\ startL \in Nat /\ startR \in Nat
      /\ Len(list) \in Nat /\ Len(key) \in Nat
  BY <1>1 DEF TypeOK
<1>5. ASSUME NEW k \in First + 1 .. Limit
      PROVE  k \in 1 .. Len(list) /\ list[k] \in Strings
  <2>1. k \in 1 .. Len(list)
    BY <1>3, <1>4
  <2> QED
    BY <1>1, <2>1, EntryType
<1>6. ASSUME NEW j \in First + 1 .. Limit, NEW k \in First + 1 .. Limit, j < k
      PROVE  ~LessString(list[k], list[j])
  <2>1. j \in 1 .. Len(list) /\ k \in 1 .. Len(list) /\ Depth(list[j]) = Depth(list[k])
    BY <1>3, <1>5
  <2> QED
    BY <1>1, <1>6, <2>1, SortedByDepth
<1>7. Start \in Nat /\ Start <= startL /\ Start <= startR /\ Start <= Len(key)
  BY <1>1, <1>4 DEF Start, Smaller
<1>8. ASSUME count > 0
      PROVE  /\ count \div 2 \in Nat /\ count \div 2 < count
             /\ Middle \in Nat /\ Middle + 1 \in First + 1 .. Limit
             /\ Middle + 1 \in left + 1 .. left + count
             /\ Agree(list[Middle + 1], key, Start)
  <2>1. count \div 2 \in Nat /\ count \div 2 < count
    BY <1>4, <1>8
  <2>2. /\ Middle \in Nat /\ Middle + 1 \in left + 1 .. left + count
        /\ Middle + 1 \in First + 1 .. Limit
    BY <1>1, <1>3, <1>4, <2>1 DEF Middle
  <2>3. Agree(list[Middle + 1], key, Start)
    BY <1>1, <2>2 DEF SkipSound, Agree
  <2> QED
    BY <2>1, <2>2, <2>3
<1> QED
  BY <1>2, <1>3, <1>5, <1>6, <1>7, <1>8

(* No difference beyond the characters that were skipped, and none among   *)
(* them: the entry is the key.                                             *)
LEMMA HitTheKey ==
  ASSUME IInv, Hit
  PROVE  Middle \in Nat /\ Middle + 1 \in 1 .. Len(list) /\ list[Middle + 1] = key
<1> DEFINE e == list[Middle + 1]
<1>1. /\ TypeOK /\ Prepared /\ pc = "probe" /\ count > 0
      /\ index' = <<Middle, Middle>> /\ pc' = IF kind = "list" THEN "list" ELSE "done"
      /\ \A k \in Start + 1 .. Len(e) + 1 : At(e, k) = At(key, k)
      /\ UNCHANGED <<list, table, sorted, rest, i, depth, kind, key, dir, left,
                     count, right, startL, startR, names>>
  BY DEF IInv, Hit, Return, tableVars, fillVars, callVars, searchVars
<1>2. /\ Middle \in Nat /\ Middle + 1 \in 1 .. Len(list)
      /\ e \in Strings /\ key \in Strings /\ Start \in Nat /\ Agree(e, key, Start)
  BY <1>1, Probing
<1>3. e = key
  <2>1. Len(e) \in Nat
    BY <1>2 DEF Strings
  <2>2. \A k \in 1 .. Len(e) + 1 : k \in 1 .. Start \/ k \in Start + 1 .. Len(e) + 1
    BY <1>2, <2>1
  <2>3. Agree(e, key, Len(e) + 1)
    BY <1>1, <1>2, <2>2 DEF Agree
  <2> QED
    BY <1>2, <2>3, AgreeToTheEnd
<1> QED
  BY <1>2, <1>3

LEMMA HitIInv == ASSUME Setting, IInv, Hit PROVE IInv'
<1>1. /\ TypeOK /\ Prepared /\ pc = "probe" /\ count > 0
      /\ index' = <<Middle, Middle>> /\ pc' = IF kind = "list" THEN "list" ELSE "done"
      /\ UNCHANGED <<list, table, sorted, rest, i, depth, kind, key, dir, left,
                     count, right, startL, startR, names>>
  BY DEF IInv, Hit, Return, tableVars, fillVars, callVars, searchVars
<1>2. Middle \in Nat /\ Middle + 1 \in 1 .. Len(list) /\ list[Middle + 1] = key
  BY HitTheKey
<1>4. TypeOK'
  BY <1>1, <1>2 DEF TypeOK, States
<1>5. Prepared'
  BY <1>1 DEF Prepared, TableRight, Deepest
<1>6. Listing' /\ Answer'
  BY <1>1, <1>2 DEF Listing, Answer, TypeOK
<1> QED
  BY <1>1, <1>4, <1>5, <1>6 DEF IInv, Searching, SkipSound

(* The probed entry is below the key, so the key is not among the entries  *)
(* up to it; the others are between it and the right end.                  *)
LEMMA AboveIInv == ASSUME Setting, IInv, Above PROVE IInv'
<1> DEFINE e == list[Middle + 1]
<1>1. PICK k \in Start + 1 .. Len(e) + 1 :
        DifferFirstAt(e, key, Start, k) /\ At(e, k) < At(key, k) /\ startL' = k - 1
  BY DEF Above
<1>2. /\ TypeOK /\ Prepared /\ Searching /\ SkipSound /\ pc = "probe" /\ count > 0
      /\ left' = Middle + 1 /\ count' = count - (count \div 2 + 1)
      /\ UNCHANGED <<list, table, sorted, rest, pc, i, depth, kind, key, dir,
                     right, startR, index, names>>
  BY DEF IInv, Above, tableVars, fillVars, callVars
<1>3. /\ left \in Nat /\ count \in Nat /\ startL \in Nat /\ startR \in Nat
      /\ Len(list) \in Nat /\ Len(key) \in Nat /\ Len(e) \in Nat
      /\ First \in 0 .. Len(list) /\ Limit \in 0 .. Len(list)
      /\ count \div 2 \in Nat /\ count \div 2 < count
      /\ Middle \in Nat /\ Middle = left + count \div 2
      /\ Middle + 1 \in First + 1 .. Limit /\ Middle + 1 \in left + 1 .. left + count
      /\ e \in Strings /\ key \in Strings /\ Agree(e, key, Start)
      /\ Start \in Nat /\ Start <= startR
  <2>1. /\ left \in Nat /\ count \in Nat /\ startL \in Nat /\ startR \in Nat
        /\ Len(list) \in Nat /\ Len(key) \in Nat
    BY <1>2 DEF TypeOK
  <2>2. /\ First \in 0 .. Len(list) /\ Limit \in 0 .. Len(list)
        /\ count \div 2 \in Nat /\ count \div 2 < count
        /\ Middle \in Nat
        /\ Middle + 1 \in First + 1 .. Limit /\ Middle + 1 \in left + 1 .. left + count
        /\ key \in Strings /\ Agree(e, key, Start)
        /\ Start \in Nat /\ Start <= startR
    BY <1>2, Probing
  <2>3. e \in Strings
    BY <1>2, <2>2, Probing
  <2>4. Len(e) \in Nat
    BY <2>3 DEF Strings
  <2>5. Middle = left + count \div 2
    BY DEF Middle
  <2> QED
    BY <2>1, <2>2, <2>3, <2>4, <2>5
<1>4. /\ left' \in Nat /\ count' \in Nat /\ left' + count' = left + count
      /\ First' = First /\ Limit' = Limit
  BY <1>2, <1>3 DEF First, Limit
<1>5. /\ k \in Nat \ {0} /\ k \in 1 .. Len(key)
      /\ Agree(e, key, k - 1)
      /\ DifferFirstAt(e, key, 0, k)
  <2>1. k \in Nat \ {0} /\ At(e, k) \in Nat /\ At(key, k) \in Nat
    <3>1. Start \in Nat /\ Len(e) \in Nat /\ e \in Strings /\ key \in Strings
      BY <1>3
    <3>2. k \in Nat \ {0}
      BY <3>1
    <3> QED
      BY <3>1, <3>2, AtType
  <2>2. k <= Len(key)
    BY <1>1, <1>3, <2>1, AtType
  <2>3. \A j \in 1 .. k - 1 : At(e, j) = At(key, j)
    <3>1. \A j \in 1 .. k - 1 : j \in 1 .. Start \/ j \in Start + 1 .. k - 1
      BY <1>1, <1>3, <2>1
    <3> QED
      BY <1>1, <1>3, <3>1 DEF Agree, DifferFirstAt
  <2> QED
    BY <1>1, <1>3, <2>1, <2>2, <2>3 DEF Agree, DifferFirstAt
<1>6. LessString(e, key)
  BY <1>1, <1>5 DEF LessString
<1>7. TypeOK'
  BY <1>1, <1>2, <1>4, <1>5 DEF TypeOK
<1>8. Prepared'
  BY <1>2 DEF Prepared, TableRight, Deepest
<1>9. LeftEnd' /\ RightEnd'
  <2>1. left' # First'
    BY <1>2, <1>3, <1>4
  <2>2. LeftEnd'
    BY <1>1, <1>2, <1>5, <1>6, <2>1 DEF LeftEnd
  <2>3. RightEnd
    BY <1>2 DEF Searching
  <2>4. RightEnd'
    BY <1>2, <1>4, <2>3 DEF RightEnd
  <2> QED
    BY <2>2, <2>4
<1>10. \A n \in First + 1 .. left' : list[n] # key
  <2> SUFFICES ASSUME NEW n \in First + 1 .. Middle + 1, list[n] = key PROVE FALSE
    BY <1>2
  <2>1. CASE n = Middle + 1
    BY <1>1, <1>3, <2>1 DEF DifferFirstAt
  <2>2. CASE n < Middle + 1
    <3>1. n \in First + 1 .. Limit
      BY <1>3, <2>2
    <3>2. ~LessString(e, list[n])
      BY <1>2, <1>3, <2>2, <3>1, Probing
    <3> QED
      BY <1>6, <3>2
  <2> QED
    BY <1>3, <2>1, <2>2
<1>11. Searching'
  <2>1. /\ \A n \in left + count + 1 .. Limit : list[n] # key
        /\ Depth(key) + 1 < Len(table) /\ left + count <= Limit /\ right = Limit
        /\ startR <= Len(key)
    BY <1>2 DEF Searching
  <2>2. startL' <= Len(key) /\ First <= left'
    BY <1>1, <1>2, <1>3, <1>5
  <2> QED
    BY <1>2, <1>4, <1>9, <1>10, <2>1, <2>2 DEF Searching
<1>12. SkipSound'
  <2>1. Start' \in Nat /\ Start' <= k - 1 /\ Start' <= startR
    BY <1>1, <1>2, <1>3, <1>5 DEF Start, Smaller
  <2> SUFFICES ASSUME NEW n \in left' + 1 .. left' + count' PROVE Agree(list[n], key, Start')
    BY <1>2 DEF SkipSound, Agree
  <2>2. /\ n \in First + 1 .. Limit /\ Middle + 1 < n /\ n <= left + count
        /\ list[n] \in Strings /\ ~LessString(list[n], e)
    <3>1. left + count <= Limit
      BY <1>2 DEF Searching
    <3>2. n \in First + 1 .. Limit /\ Middle + 1 < n /\ n <= left + count
      BY <1>2, <1>3, <1>4, <3>1
    <3> QED
      BY <1>2, <1>3, <3>2, Probing
  <2>3. CASE left + count = Limit
    <3>1. Start' = 0
      BY <1>2, <1>3, <2>1, <2>3 DEF Searching, RightEnd
    <3> QED
      BY <3>1 DEF Agree
  <2>4. CASE left + count # Limit
    <3> DEFINE b == list[left + count + 1]
    <3>1. /\ left + count + 1 \in First + 1 .. Limit /\ n < left + count + 1
          /\ Agree(b, key, startR)
      BY <1>2, <1>3, <2>2, <2>4 DEF Searching, RightEnd
    <3>2. b \in Strings /\ ~LessString(b, list[n])
      BY <1>2, <2>2, <3>1, Probing
    <3>3. Agree(e, key, Start') /\ Agree(b, key, Start')
      BY <1>3, <1>5, <2>1, <3>1 DEF Agree
    <3> HIDE DEF e, b
    <3> QED
      BY <1>3, <2>1, <2>2, <3>2, <3>3, Sandwich
  <2> QED
    BY <2>3, <2>4
<1> QED
  BY <1>2, <1>7, <1>8, <1>11, <1>12 DEF IInv, Listing, Answer

(* The probed entry is above the key: what is left is between the left end *)
(* and it.                                                                 *)
LEMMA BelowIInv == ASSUME Setting, IInv, Below PROVE IInv'
<1> DEFINE e == list[Middle + 1]
<1>1. PICK k \in Start + 1 .. Len(e) + 1 :
        DifferFirstAt(e, key, Start, k) /\ At(e, k) > At(key, k) /\ startR' = k - 1
  BY DEF Below
<1>2. /\ TypeOK /\ Prepared /\ Searching /\ SkipSound /\ pc = "probe" /\ count > 0
      /\ count' = count \div 2
      /\ UNCHANGED <<list, table, sorted, rest, pc, i, depth, kind, key, dir,
                     left, right, startL, index, names>>
  BY DEF IInv, Below, tableVars, fillVars, callVars
<1>3. /\ left \in Nat /\ count \in Nat /\ startL \in Nat /\ startR \in Nat
      /\ Len(list) \in Nat /\ Len(key) \in Nat /\ Len(e) \in Nat
      /\ First \in 0 .. Len(list) /\ Limit \in 0 .. Len(list)
      /\ count \div 2 \in Nat /\ count \div 2 < count
      /\ Middle \in Nat /\ Middle = left + count \div 2
      /\ Middle + 1 \in First + 1 .. Limit /\ Middle + 1 \in left + 1 .. left + count
      /\ e \in Strings /\ key \in Strings /\ Agree(e, key, Start)
      /\ Start \in Nat /\ Start <= startL
  <2>1. /\ left \in Nat /\ count \in Nat /\ startL \in Nat /\ startR \in Nat
        /\ Len(list) \in Nat /\ Len(key) \in Nat
    BY <1>2 DEF TypeOK
  <2>2. /\ First \in 0 .. Len(list) /\ Limit \in 0 .. Len(list)
        /\ count \div 2 \in Nat /\ count \div 2 < count
        /\ Middle \in Nat
        /\ Middle + 1 \in First + 1 .. Limit /\ Middle + 1 \in left + 1 .. left + count
        /\ key \in Strings /\ Agree(e, key, Start)
        /\ Start \in Nat /\ Start <= startL
    BY <1>2, Probing
  <2>3. e \in Strings
    BY <1>2, <2>2, Probing
  <2>4. Len(e) \in Nat
    BY <2>3 DEF Strings
  <2>5. Middle = left + count \div 2
    BY DEF Middle
  <2> QED
    BY <2>1, <2>2, <2>3, <2>4, <2>5
<1>4. /\ count' \in Nat /\ left' + count' = Middle /\ left' = left
      /\ First' = First /\ Limit' = Limit
  BY <1>2, <1>3 DEF First, Limit
<1>5. /\ k \in Nat \ {0} /\ k \in 1 .. Len(e) /\ k - 1 <= Len(key)
      /\ Agree(e, key, k - 1)
      /\ DifferFirstAt(key, e, 0, k)
  <2>1. k \in Nat \ {0} /\ At(e, k) \in Nat /\ At(key, k) \in Nat
    <3>1. Start \in Nat /\ Len(e) \in Nat /\ e \in Strings /\ key \in Strings
      BY <1>3
    <3>2. k \in Nat \ {0}
      BY <3>1
    <3> QED
      BY <3>1, <3>2, AtType
  <2>2. k <= Len(e)
    BY <1>1, <1>3, <2>1, AtType
  <2>3. \A j \in 1 .. k - 1 : At(e, j) = At(key, j)
    <3>1. \A j \in 1 .. k - 1 : j \in 1 .. Start \/ j \in Start + 1 .. k - 1
      BY <1>1, <1>3, <2>1
    <3> QED
      BY <1>1, <1>3, <3>1 DEF Agree, DifferFirstAt
  <2>4. k - 1 <= Len(key)
    <3>1. CASE k = 1
      BY <1>3, <3>1
    <3>2. CASE k # 1
      <4>1. k - 1 \in Nat \ {0} /\ k - 1 \in 1 .. k - 1
        BY <2>1, <3>2
      <4>2. At(e, k - 1) # 0
        BY <1>3, <2>2, <4>1, AtType
      <4>3. At(key, k - 1) # 0
        BY <2>3, <4>1, <4>2
      <4> QED
        BY <1>3, <4>1, <4>3, AtType
    <3> QED
      BY <3>1, <3>2
  <2> QED
    BY <1>1, <1>3, <2>1, <2>2, <2>3, <2>4 DEF Agree, DifferFirstAt
<1>6. LessString(key, e)
  BY <1>1, <1>5 DEF LessString
<1>7. TypeOK'
  BY <1>1, <1>2, <1>4, <1>5 DEF TypeOK
<1>8. Prepared'
  BY <1>2 DEF Prepared, TableRight, Deepest
<1>9. LeftEnd' /\ RightEnd'
  <2>1. left' + count' # Limit'
    <3>1. Middle \in Nat /\ Limit \in Nat /\ Middle + 1 <= Limit
      BY <1>3
    <3> HIDE DEF e
    <3>2. Middle # Limit
      BY <3>1
    <3> QED
      BY <1>4, <3>2
  <2>2. RightEnd'
    BY <1>1, <1>2, <1>4, <1>5, <1>6, <2>1 DEF RightEnd
  <2>3. LeftEnd
    BY <1>2 DEF Searching
  <2>4. LeftEnd'
    BY <1>2, <1>4, <2>3 DEF LeftEnd
  <2> QED
    BY <2>2, <2>4
<1>10. \A n \in left' + count' + 1 .. Limit : list[n] # key
  <2> SUFFICES ASSUME NEW n \in Middle + 1 .. Limit, list[n] = key PROVE FALSE
    BY <1>4
  <2>1. CASE n = Middle + 1
    BY <1>5, <2>1 DEF DifferFirstAt
  <2>2. CASE Middle + 1 < n
    <3>1. n \in First + 1 .. Limit
      BY <1>3, <2>2
    <3>2. ~LessString(list[n], e)
      BY <1>2, <1>3, <2>2, <3>1, Probing
    <3> QED
      BY <1>6, <3>2
  <2> QED
    BY <1>3, <2>1, <2>2
<1>11. Searching'
  <2>1. /\ \A n \in First + 1 .. left : list[n] # key
        /\ Depth(key) + 1 < Len(table) /\ First <= left /\ right = Limit
        /\ startL <= Len(key)
    BY <1>2 DEF Searching
  <2>2. startR' <= Len(key)
    BY <1>1, <1>5
  <2>3. left' + count' <= Limit
    <3>1. Middle \in Nat /\ Limit \in Nat /\ Middle + 1 <= Limit
      BY <1>3
    <3>2. Middle <= Limit
      BY <3>1
    <3> QED
      BY <1>4, <3>2
  <2> QED
    BY <1>2, <1>4, <1>9, <1>10, <2>1, <2>2, <2>3 DEF Searching
<1>12. SkipSound'
  <2>1. Start' \in Nat /\ Start' <= k - 1 /\ Start' <= startL
    BY <1>1, <1>2, <1>3, <1>5 DEF Start, Smaller
  <2> SUFFICES ASSUME NEW n \in left' + 1 .. left' + count' PROVE Agree(list[n], key, Start')
    BY <1>2 DEF SkipSound, Agree
  <2>2. /\ n \in First + 1 .. Limit /\ n < Middle + 1 /\ left < n
        /\ list[n] \in Strings /\ ~LessString(e, list[n])
    <3>1. First <= left
      BY <1>2 DEF Searching
    <3>2. n \in First + 1 .. Limit /\ n < Middle + 1 /\ left < n
      BY <1>2, <1>3, <1>4, <3>1
    <3> QED
      BY <1>2, <1>3, <3>2, Probing
  <2>3. CASE left = First
    <3>1. Start' = 0
      BY <1>2, <1>3, <2>1, <2>3 DEF Searching, LeftEnd
    <3> QED
      BY <3>1 DEF Agree
  <2>4. CASE left # First
    <3> DEFINE a == list[left]
    <3>1. left \in First + 1 .. Limit /\ Agree(a, key, startL)
      BY <1>2, <1>3, <2>2, <2>4 DEF Searching, LeftEnd
    <3>2. a \in Strings /\ ~LessString(list[n], a)
      BY <1>2, <2>2, <3>1, Probing
    <3>3. Agree(e, key, Start') /\ Agree(a, key, Start')
      BY <1>3, <1>5, <2>1, <3>1 DEF Agree
    <3> HIDE DEF e, a
    <3> QED
      BY <1>3, <2>1, <2>2, <3>2, <3>3, Sandwich
  <2> QED
    BY <2>3, <2>4
<1> QED
  BY <1>2, <1>7, <1>8, <1>11, <1>12 DEF IInv, Listing, Answer

(* Nothing is left to probe: every entry of the key's depth was ruled out. *)
LEMMA MissIInv == ASSUME Setting, IInv, Miss PROVE IInv'
<1>1. /\ TypeOK /\ Prepared /\ Searching /\ pc = "probe" /\ count = 0
      /\ pc' = IF kind = "list" THEN "list" ELSE "done"
      /\ index' = IF kind = "list" THEN <<left, right>> ELSE <<-1, -1>>
      /\ UNCHANGED <<list, table, sorted, rest, i, depth, kind, key, dir, left,
                     count, right, startL, startR, names>>
  BY DEF IInv, Miss, Return, tableVars, fillVars, callVars, searchVars
<1>2. TypeOK'
  BY <1>1 DEF TypeOK, States
<1>3. Prepared'
  BY <1>1 DEF Prepared, TableRight, Deepest
<1>4. key \notin Entries(list)
  <2> SUFFICES ASSUME NEW k \in 1 .. Len(list), list[k] = key PROVE FALSE
    BY DEF Entries
  <2>1. left \in Nat /\ Len(list) \in Nat
    BY <1>1 DEF TypeOK
  <2>2. /\ First \in 0 .. Len(list) /\ Limit \in 0 .. Len(list)
        /\ k \in First + 1 .. Limit <=> Depth(list[k]) = Depth(key)
    BY <1>1, Probing
  <2>3. First \in Nat /\ Limit \in Nat /\ k \in First + 1 .. Limit
    BY <2>1, <2>2
  <2> QED
    BY <1>1, <2>1, <2>3 DEF Searching
<1>5. left \in Nat /\ right <= Len(list)
  BY <1>1, Probing DEF TypeOK, Searching
<1> QED
  BY <1>1, <1>2, <1>3, <1>4, <1>5 DEF IInv, Searching, SkipSound, Listing, Answer

LEMMA CollectIInv == ASSUME Setting, IInv, Collect PROVE IInv'
<1>1. /\ TypeOK /\ Prepared /\ Listing /\ pc = "list"
      /\ index[1] # -1 /\ index[1] < index[2]
      /\ names' = Append(names, list[index[1] + 1])
      /\ index' = <<index[1] + 1, index[2]>>
      /\ UNCHANGED <<list, table, sorted, rest, pc, i, depth, kind, key, dir, left,
                     count, right, startL, startR>>
  BY DEF IInv, Collect, InListing, tableVars, fillVars, callVars, searchVars
<1>2. index[1] \in Nat /\ index[2] \in Int /\ index[2] <= Len(list)
  BY <1>1 DEF TypeOK, Listing
<1>3. list[index[1] + 1] \in Paths
  BY <1>1, <1>2 DEF TypeOK
<1>4. TypeOK'
  BY <1>1, <1>2, <1>3 DEF TypeOK
<1>5. Prepared'
  BY <1>1 DEF Prepared, TableRight, Deepest
<1>6. Listing'
  BY <1>1, <1>2 DEF Listing
<1> QED
  BY <1>1, <1>4, <1>5, <1>6 DEF IInv, Searching, SkipSound, Answer

LEMMA ListedIInv == ASSUME Setting, IInv, Listed PROVE IInv'
<1>1. /\ TypeOK /\ Prepared /\ Listing /\ pc = "list" /\ pc' = "done"
      /\ UNCHANGED <<list, table, sorted, rest, i, depth, kind, key, dir, left,
                     count, right, startL, startR, index, names>>
  BY DEF IInv, Listed, tableVars, fillVars, callVars, searchVars
<1>2. TypeOK' /\ Prepared'
  BY <1>1 DEF TypeOK, States, Prepared, TableRight, Deepest
<1> QED
  BY <1>1, <1>2 DEF IInv, Searching, SkipSound, Listing, Answer

(***************************************************************************)
(* Every step keeps the invariant.                                         *)
(***************************************************************************)
LEMMA NextIInv == ASSUME Setting, IInv, [Next]_vars PROVE IInv'
<1>1. CASE UNCHANGED vars
  <2>1. UNCHANGED <<list, table, sorted, rest, pc, i, depth, kind, key, dir, left,
                    count, right, startL, startR, index, names>>
    BY <1>1 DEF vars, tableVars, fillVars, callVars, searchVars
  <2>2. TypeOK' /\ Prepared'
    BY <2>1 DEF IInv, TypeOK, Prepared, Filled, TableRight, Deepest
  <2>3. Searching'
    BY <2>1 DEF IInv, Searching, LeftEnd, RightEnd, First, Limit
  <2>4. SkipSound' /\ Listing' /\ Answer'
    BY <2>1 DEF IInv, SkipSound, Start, Listing, Answer
  <2> QED
    BY <2>2, <2>3, <2>4 DEF IInv
<1>2. CASE Add
  BY <1>2, AddIInv
<1>3. CASE EndOfOpen
  <2>1. Call("find", <<>>, <<>>) /\ pc = "open" /\ rest = <<>>
    BY <1>3 DEF EndOfOpen
  <2> QED
    BY <2>1, CallIInv, KeyTypes
<1>5. ASSUME NEW p \in Keys, Find(p)
      PROVE  IInv'
  <2>1. Call("find", p, <<>>) /\ pc = "done" /\ p \in Strings
    BY <1>5, KeyTypes DEF Find
  <2> QED
    BY <2>1, CallIInv, KeyTypes
<1>6. ASSUME NEW d \in Dirs, List(d)
      PROVE  IInv'
  <2>1. /\ Call("list", WithSpace(d), d) /\ pc = "done"
        /\ d \in Strings /\ WithSpace(d) \in Strings
    BY <1>6, KeyTypes DEF List
  <2> QED
    BY <2>1, CallIInv
<1>7. CASE Search
  BY <1>7, TooDeepIInv, BoundsIInv, HitIInv, AboveIInv, BelowIInv, MissIInv DEF Search
<1>8. CASE Sort \/ FillDepth \/ FillEnd \/ Collect \/ Listed
  BY <1>8, SortIInv, FillDepthIInv, FillEndIInv, CollectIInv, ListedIInv
<1> QED
  BY <1>1, <1>2, <1>3, <1>5, <1>6, <1>7, <1>8 DEF Next, Caller, Step

LEMMA Invariant == ASSUME Setting PROVE Spec => []IInv
<1>1. Init => IInv
  BY InitIInv
<1>2. IInv /\ [Next]_vars => IInv'
  BY NextIInv
<1> QED
  BY <1>1, <1>2, PTL DEF Spec

(***************************************************************************)
(* The theorems.                                                           *)
(***************************************************************************)
(* The variables keep their types: the search never computes a negative    *)
(* place in the list or a negative length.                                 *)
THEOREM Typing == ASSUME Setting PROVE Spec => []TypeOK
<1>1. IInv => TypeOK
  BY DEF IInv
<1> QED
  BY <1>1, Invariant, PTL

(* Once it is filled, the table says where each depth begins (lines        *)
(* 79-103), however many depths and entries there are.                     *)
THEOREM Table == ASSUME Setting PROVE Spec => []TableRight
<1>1. IInv => TableRight
  BY DEF IInv, Prepared, TableRight
<1> QED
  BY <1>1, Invariant, PTL

(* The binary search never skips a character it had to compare (lines      *)
(* 124-142).                                                               *)
THEOREM Skipping == ASSUME Setting PROVE Spec => []SkipSound
<1>1. IInv => SkipSound
  BY DEF IInv
<1> QED
  BY <1>1, Invariant, PTL

(* Looking up a path finds an entry with that path if the archive has one, *)
(* and says there is none otherwise (FindEntry and Exists, lines 62-157).  *)
THEOREM Lookup == ASSUME Setting PROVE Spec => []LookupRight
<1>1. IInv => LookupRight
  BY DEF IInv, Answer, LookupRight
<1> QED
  BY <1>1, Invariant, PTL

(***************************************************************************)
(* Listings.                                                               *)
(***************************************************************************)
(* Directories are given with the slash at the end: given without, the     *)
(* listing also has what merely begins with the name.  No name has a       *)
(* character below a space, and none is just a space: the code takes " "   *)
(* for the first name there may be (line 170).                             *)
Named ==
  /\ \A p \in Paths : \A k \in 1 .. Len(p) : p[k] >= Space
  /\ \A d \in Dirs : (d = <<>> \/ d[Len(d)] = Slash) /\ WithSpace(d) \notin Paths

(* What ListDirectory looks for is below the entries of its directory, and *)
(* nothing has been listed before the search is over.                      *)
Asked ==
  /\ kind = "list" => dir \in Dirs /\ key = WithSpace(dir)
  /\ pc \in {"sort", "fill", "bounds", "probe"} => names = <<>>

(* What has been listed so far are the entries of the directory between    *)
(* the first one and index[1]; the others, if there are any, follow up to  *)
(* index[2].                                                               *)
ListedSo(first) ==
  /\ index[1] = first + Len(names) /\ index[1] <= index[2] /\ index[2] <= Len(list)
  /\ \A n \in 1 .. Len(names) : names[n] = list[first + n]
  /\ \A k \in 1 .. Len(list) :
       /\ k <= first \/ k > index[2] => ~IsChild(list[k], dir)
       /\ first < k /\ k <= index[1] => IsChild(list[k], dir)
       /\ index[1] < k /\ k <= index[2] =>
            Depth(list[k]) = Depth(key) /\ ~LessString(list[k], key)

Collected ==
  pc = "list" =>
    IF index[1] = -1
    THEN names = <<>> /\ \A k \in 1 .. Len(list) : ~IsChild(list[k], dir)
    ELSE \E first \in 0 .. Len(list) : ListedSo(first)

LInv == IInv /\ Asked /\ Collected /\ ListingRight

LEMMA LessNotBoth ==
  ASSUME NEW a \in Strings, NEW b \in Strings, LessString(a, b), LessString(b, a)
  PROVE  FALSE
<1>1. PICK t \in 1 .. Len(b) : DifferFirstAt(a, b, 0, t) /\ At(a, t) < At(b, t)
  BY DEF LessString
<1>2. PICK u \in 1 .. Len(a) : DifferFirstAt(b, a, 0, u) /\ At(b, u) < At(a, u)
  BY DEF LessString
<1>3. t \in Nat \ {0} /\ u \in Nat \ {0}
  BY DEF Strings
<1>4. At(a, t) \in Nat /\ At(b, t) \in Nat /\ At(a, u) \in Nat /\ At(b, u) \in Nat
  BY <1>3, AtType
<1>5. ~ (t < u) /\ ~ (u < t)
  BY <1>1, <1>2, <1>3 DEF DifferFirstAt
<1>6. t = u
  BY <1>3, <1>5
<1> QED
  BY <1>1, <1>2, <1>4, <1>6

(* What is not above something below a is below a.                         *)
LEMMA LessThrough ==
  ASSUME NEW a \in Strings, NEW b \in Strings, NEW e \in Strings,
         LessString(b, a), ~LessString(b, e)
  PROVE  LessString(e, a)
<1>1. PICK t \in 1 .. Len(a) : DifferFirstAt(b, a, 0, t) /\ At(b, t) < At(a, t)
  BY DEF LessString
<1>2. t \in Nat \ {0} /\ Len(a) \in Nat /\ Len(e) \in Nat
  BY DEF Strings
<1>3. \A j \in 1 .. t - 1 : At(b, j) = At(a, j)
  BY <1>1 DEF DifferFirstAt
<1>4. CASE Agree(e, b, t)
  <2>1. At(e, t) = At(b, t) /\ \A j \in 1 .. t - 1 : At(e, j) = At(b, j)
    BY <1>2, <1>4 DEF Agree
  <2> QED
    BY <1>1, <1>3, <2>1 DEF LessString, DifferFirstAt
<1>5. CASE ~Agree(e, b, t)
  <2> DEFINE T == {j \in 1 .. t : At(e, j) # At(b, j)}
  <2>1. T # {} /\ T \in SUBSET Nat
    BY <1>2, <1>5 DEF Agree
  <2>2. PICK u \in T : \A y \in T : u <= y
    BY <2>1, LeastNumber
  <2>3. u \in 1 .. t /\ u \in Nat \ {0} /\ At(e, u) # At(b, u)
    BY <1>2, <2>2
  <2>4. \A j \in 1 .. u - 1 : At(e, j) = At(b, j)
    BY <1>2, <2>2, <2>3
  <2>5. At(e, u) \in Nat /\ At(b, u) \in Nat /\ At(a, u) \in Nat
    BY <2>3, AtType
  <2>6. At(e, u) < At(b, u)
    <3> SUFFICES ASSUME At(b, u) < At(e, u) PROVE FALSE
      BY <2>3, <2>5
    <3>1. u \in 1 .. Len(e)
      BY <1>2, <2>3, <2>5, AtType
    <3> QED
      BY <2>3, <2>4, <3>1 DEF LessString, DifferFirstAt
  <2>7. At(b, u) <= At(a, u) /\ \A j \in 1 .. u - 1 : At(b, j) = At(a, j)
    BY <1>1, <1>2, <1>3, <2>3, <2>5
  <2>8. At(e, u) < At(a, u) /\ \A j \in 0 + 1 .. u - 1 : At(e, j) = At(a, j)
    BY <2>4, <2>5, <2>6, <2>7
  <2>9. u \in 1 .. Len(a)
    BY <1>2, <2>3
  <2>10. At(e, u) # At(a, u)
    BY <2>5, <2>8
  <2> QED
    BY <2>8, <2>9, <2>10 DEF LessString, DifferFirstAt
<1> QED
  BY <1>4, <1>5

LEMMA PrefixMeans ==
  ASSUME NEW p \in Strings, NEW d \in Strings
  PROVE  HasPrefix(p, d) <=> Agree(p, d, Len(d))
<1>1. Len(p) \in Nat /\ Len(d) \in Nat
  BY DEF Strings
<1>2. ASSUME HasPrefix(p, d), NEW j \in 1 .. Len(d) PROVE At(p, j) = At(d, j)
  <2>1. j <= Len(p) /\ SubSeq(p, 1, Len(d))[j] = p[j]
    BY <1>1, <1>2 DEF HasPrefix, Strings
  <2> QED
    BY <1>1, <1>2, <2>1 DEF HasPrefix, At
<1>3. ASSUME Agree(p, d, Len(d)) PROVE HasPrefix(p, d)
  <2>1. ASSUME NEW j \in 1 .. Len(d) PROVE j <= Len(p) /\ p[j] = d[j]
    <3>1. At(d, j) = d[j] /\ At(d, j) # 0 /\ At(p, j) = At(d, j) /\ j \in Nat \ {0}
      BY <1>1, <1>3, AtType DEF Agree, At
    <3>2. j <= Len(p)
      BY <1>1, <3>1, AtType
    <3> QED
      BY <3>1, <3>2 DEF At
  <2>2. Len(d) <= Len(p)
    BY <1>1, <2>1
  <2>3. SubSeq(p, 1, Len(d)) = d
    BY <1>1, <2>1, <2>2 DEF Strings
  <2> QED
    BY <2>2, <2>3 DEF HasPrefix
<1> QED
  BY <1>2, <1>3 DEF Agree

(* The directory that is listed, and the key it is looked up with.         *)
LEMMA DirectoryKey ==
  ASSUME Named, NEW d \in Dirs
  PROVE  /\ d \in Strings /\ WithSpace(d) \in Strings /\ Len(d) \in Nat
         /\ Len(WithSpace(d)) = Len(d) + 1 /\ At(WithSpace(d), Len(d) + 1) = Space
         /\ Agree(WithSpace(d), d, Len(d))
         /\ \A p : IsChild(p, d) <=> Depth(p) = Depth(WithSpace(d)) /\ p # d /\ HasPrefix(p, d)
<1>1. d \in Strings /\ Len(d) \in Nat /\ Space \in Nat \ {0}
  BY PathsAssumption DEF Strings
<1>2. d = <<>> \/ (d # <<>> /\ d[Len(d)] = Slash)
  BY DEF Named
<1>3. WithSpace(d) = Append(d, Space)
  BY <1>1, <1>2 DEF WithSpace, Strings
<1>4. /\ Append(d, Space) \in Strings /\ Len(Append(d, Space)) = Len(d) + 1
      /\ Append(d, Space)[Len(d) + 1] = Space
      /\ \A j \in 1 .. Len(d) : Append(d, Space)[j] = d[j]
  BY <1>1 DEF Strings
<1>5. At(WithSpace(d), Len(d) + 1) = Space /\ Agree(WithSpace(d), d, Len(d))
  BY <1>1, <1>3, <1>4 DEF At, Agree
<1>6. ASSUME NEW p
      PROVE  IsChild(p, d) <=> Depth(p) = Depth(WithSpace(d)) /\ p # d /\ HasPrefix(p, d)
  BY <1>2, <1>3 DEF IsChild
<1> QED
  BY <1>1, <1>3, <1>4, <1>5, <1>6

(* Of what begins with the directory's path only the path itself is below  *)
(* the key.                                                                *)
LEMMA BelowTheKey ==
  ASSUME Named, NEW d \in Dirs, NEW p \in Paths, HasPrefix(p, d)
  PROVE  p = d <=> LessString(p, WithSpace(d))
<1> DEFINE w == WithSpace(d)
<1>1. /\ d \in Strings /\ w \in Strings /\ Len(d) \in Nat /\ Len(w) = Len(d) + 1
      /\ At(w, Len(d) + 1) = Space /\ Agree(w, d, Len(d))
      /\ p \in Strings /\ Len(p) \in Nat /\ Space \in Nat \ {0}
  BY DirectoryKey, PathsAssumption DEF Strings
<1>2. Agree(p, d, Len(d))
  BY <1>1, PrefixMeans
<1> HIDE DEF w
<1>3. \A j \in 1 .. Len(d) : At(p, j) = At(w, j)
  BY <1>1, <1>2 DEF Agree
<1>4. ASSUME p = d PROVE LessString(p, w)
  <2>1. At(p, Len(d) + 1) = 0
    BY <1>1, <1>4 DEF At
  <2> QED
    BY <1>1, <1>3, <2>1 DEF LessString, DifferFirstAt
<1>5. ASSUME LessString(p, w) PROVE p = d
  <2>1. PICK t \in 1 .. Len(w) : DifferFirstAt(p, w, 0, t) /\ At(p, t) < At(w, t)
    BY <1>5 DEF LessString
  <2>2. t = Len(d) + 1
    BY <1>1, <1>3, <2>1 DEF DifferFirstAt
  <2>3. At(p, Len(d) + 1) < Space
    BY <1>1, <2>1, <2>2
  <2>4. ~ (Len(d) + 1 <= Len(p))
    <3> SUFFICES ASSUME Len(d) + 1 <= Len(p) PROVE FALSE
      OBVIOUS
    <3>1. At(p, Len(d) + 1) = p[Len(d) + 1] /\ Len(d) + 1 \in 1 .. Len(p)
      BY <1>1 DEF At
    <3>2. p[Len(d) + 1] >= Space /\ p[Len(d) + 1] \in Nat
      BY <1>1, <3>1 DEF Named, Strings
    <3> QED
      BY <1>1, <2>3, <3>1, <3>2
  <2>5. At(p, Len(d) + 1) = 0 /\ At(d, Len(d) + 1) = 0
    BY <1>1, <2>4 DEF At
  <2>6. Agree(d, p, Len(d) + 1)
    BY <1>1, <1>2, <2>5 DEF Agree
  <2> QED
    BY <1>1, <2>6, AgreeToTheEnd
<1> QED
  BY <1>4, <1>5 DEF w

(* So an entry of the key's depth that is not below the key is listed just *)
(* when it begins with the directory's path, and one that is below is not. *)
LEMMA ChildrenFromKey ==
  ASSUME Named, NEW d \in Dirs, NEW p \in Paths
  PROVE  /\ LessString(p, WithSpace(d)) => ~IsChild(p, d)
         /\ Depth(p) = Depth(WithSpace(d)) /\ ~LessString(p, WithSpace(d)) =>
              (IsChild(p, d) <=> HasPrefix(p, d))
         /\ Depth(p) # Depth(WithSpace(d)) => ~IsChild(p, d)
BY DirectoryKey, BelowTheKey

(* Calls, sorting and probing list nothing.                                *)
LEMMA AskedLInv ==
  ASSUME LInv, IInv', UNCHANGED <<kind, key, dir, names>>, pc' \notin {"list", "done"},
         pc \in {"sort", "fill", "bounds", "probe"} \/ pc' = "open"
  PROVE  LInv'
BY DEF LInv, Asked, Collected, ListingRight

LEMMA CallLInv ==
  ASSUME Setting, LInv, NEW k \in {"find", "list"}, NEW p \in Strings, NEW d \in Strings,
         k = "list" => d \in Dirs /\ p = WithSpace(d),
         Call(k, p, d), pc = "done" \/ (pc = "open" /\ rest = <<>>)
  PROVE  LInv'
<1>1. IInv'
  BY CallIInv DEF LInv
<1>2. kind' = k /\ key' = p /\ dir' = d /\ names' = <<>> /\ pc' \in {"bounds", "sort"}
  BY DEF Call
<1> QED
  BY <1>1, <1>2 DEF LInv, Asked, Collected, ListingRight

(* The key is deeper than every entry.                                     *)
LEMMA TooDeepLInv == ASSUME Setting, Named, LInv, TooDeep PROVE LInv'
<1>1. /\ IInv /\ Asked /\ TypeOK /\ sorted /\ TableRight /\ pc = "bounds"
      /\ Depth(key) + 1 >= Len(table)
      /\ index' = <<-1, -1>> /\ pc' = IF kind = "list" THEN "list" ELSE "done"
      /\ UNCHANGED <<list, table, kind, key, dir, names>>
  BY DEF LInv, IInv, Prepared, TooDeep, Return, tableVars, callVars
<1>2. IInv' /\ Asked' /\ ListingRight'
  BY <1>1, TooDeepIInv DEF Asked, ListingRight
<1>3. ASSUME kind = "list", NEW k \in 1 .. Len(list)
      PROVE  ~IsChild(list[k], dir)
  <2>1. dir \in Dirs /\ key = WithSpace(dir) /\ list[k] \in Paths
    BY <1>1, <1>3 DEF Asked, TypeOK
  <2>2. Depth(list[k]) + 2 <= Len(table) /\ Depth(list[k]) \in Nat
    BY <1>1, EntryType DEF TableRight
  <2>3. Depth(key) \in Nat /\ Len(table) \in Nat
    BY <1>1, DepthType DEF TypeOK, Strings
  <2>4. Depth(list[k]) # Depth(key)
    BY <1>1, <2>2, <2>3
  <2> QED
    BY <2>1, <2>4, ChildrenFromKey
<1>4. Collected'
  BY <1>1, <1>3 DEF Collected, Asked
<1> QED
  BY <1>2, <1>4 DEF LInv

(* No entry has the key of a listing for its path.                         *)
LEMMA HitLInv == ASSUME Setting, Named, LInv, Hit PROVE LInv'
<1>1. /\ IInv /\ Asked /\ TypeOK /\ pc = "probe"
      /\ pc' = IF kind = "list" THEN "list" ELSE "done"
      /\ UNCHANGED <<list, kind, key, dir, names>>
  BY DEF LInv, IInv, Hit, Return, tableVars, callVars
<1>2. kind = "find"
  <2> SUFFICES ASSUME kind = "list" PROVE FALSE
    BY <1>1 DEF TypeOK
  <2>1. key = WithSpace(dir) /\ dir \in Dirs
    BY <1>1 DEF Asked
  <2>2. key \in Paths
    BY <1>1, HitTheKey DEF TypeOK
  <2> QED
    BY <2>1, <2>2 DEF Named
<1>3. IInv'
  BY <1>1, HitIInv
<1> QED
  BY <1>1, <1>2, <1>3 DEF LInv, Asked, Collected, ListingRight

(* The search ends at the first entry that is not below the key.           *)
LEMMA MissLInv == ASSUME Setting, Named, LInv, Miss PROVE LInv'
<1>1. /\ IInv /\ Asked /\ TypeOK /\ Searching /\ pc = "probe" /\ count = 0
      /\ pc' = IF kind = "list" THEN "list" ELSE "done"
      /\ index' = IF kind = "list" THEN <<left, right>> ELSE <<-1, -1>>
      /\ UNCHANGED <<list, table, kind, key, dir, left, count, right, names>>
  BY DEF LInv, IInv, Miss, Return, tableVars, callVars, searchVars
<1>2. IInv' /\ Asked' /\ ListingRight'
  BY <1>1, MissIInv DEF Asked, ListingRight
<1>3. CASE kind # "list"
  BY <1>1, <1>2, <1>3 DEF LInv, TypeOK, Collected
<1>4. CASE kind = "list"
  <2>1. dir \in Dirs /\ key = WithSpace(dir) /\ key \in Strings /\ names = <<>>
    BY <1>1, <1>4, Probing DEF Asked
  <2>2. /\ left \in Nat /\ right \in Nat /\ Len(list) \in Nat
        /\ First \in 0 .. Len(list) /\ Limit \in 0 .. Len(list)
        /\ First <= left /\ left <= right /\ right = Limit
        /\ \A k \in 1 .. Len(list) : k \in First + 1 .. Limit <=> Depth(list[k]) = Depth(key)
        /\ \A k \in 1 .. Len(list) : list[k] \in Paths /\ list[k] \in Strings
        /\ \A j, k \in First + 1 .. Limit : j < k => ~LessString(list[k], list[j])
    <3>1. /\ left \in Nat /\ right \in Nat /\ Len(list) \in Nat
          /\ \A k \in 1 .. Len(list) : list[k] \in Paths
      BY <1>1 DEF TypeOK
    <3>2. \A k \in 1 .. Len(list) : list[k] \in Strings
      BY <1>1, EntryType
    <3>3. First <= left /\ left + count <= Limit /\ right = Limit
      BY <1>1 DEF Searching
    <3>4. /\ First \in 0 .. Len(list) /\ Limit \in 0 .. Len(list)
          /\ \A k \in 1 .. Len(list) : k \in First + 1 .. Limit <=> Depth(list[k]) = Depth(key)
          /\ \A j, k \in First + 1 .. Limit : j < k => ~LessString(list[k], list[j])
      BY <1>1, Probing
    <3> QED
      BY <1>1, <3>1, <3>2, <3>3, <3>4
  <2>3. ASSUME NEW k \in 1 .. Len(list), First < k, k <= left
        PROVE  LessString(list[k], key)
    <3>1. left # First /\ left \in First + 1 .. Limit /\ left \in 1 .. Len(list)
      BY <2>2, <2>3
    <3>2. LessString(list[left], key) /\ list[left] \in Strings
      BY <1>1, <2>2, <3>1 DEF Searching, LeftEnd
    <3>3. CASE k = left
      BY <3>2, <3>3
    <3>4. CASE k # left
      <4>1. k \in First + 1 .. Limit /\ k < left
        BY <2>2, <2>3, <3>4
      <4>2. ~LessString(list[left], list[k])
        BY <2>2, <3>1, <4>1
      <4> QED
        BY <2>1, <2>2, <3>2, <4>2, LessThrough
    <3> QED
      BY <3>3, <3>4
  <2>4. ASSUME NEW k \in 1 .. Len(list), left < k, k <= Limit
        PROVE  ~LessString(list[k], key)
    <3>1. left # Limit /\ left + 1 \in First + 1 .. Limit /\ left + 1 \in 1 .. Len(list)
      BY <2>2, <2>4
    <3>2. LessString(key, list[left + 1]) /\ list[left + 1] \in Strings
      <4>1. left + count = left /\ left + count + 1 = left + 1
        BY <1>1, <2>2
      <4> QED
        BY <1>1, <2>2, <3>1, <4>1 DEF Searching, RightEnd
    <3>3. ~LessString(list[left + 1], key)
      BY <2>1, <3>2, LessNotBoth
    <3>4. CASE k = left + 1
      BY <3>3, <3>4
    <3>5. CASE k # left + 1
      <4>1. k \in First + 1 .. Limit /\ left + 1 < k
        BY <2>2, <2>4, <3>5
      <4>2. ~LessString(list[k], list[left + 1])
        BY <2>2, <3>1, <4>1
      <4> QED
        BY <2>1, <2>2, <3>2, <3>3, <4>2, LessThrough
    <3> QED
      BY <3>4, <3>5
  <2>5. ASSUME NEW k \in 1 .. Len(list)
        PROVE  /\ k <= left \/ k > right => ~IsChild(list[k], dir)
               /\ left < k /\ k <= right =>
                    Depth(list[k]) = Depth(key) /\ ~LessString(list[k], key)
    <3>1. list[k] \in Paths
      BY <2>2
    <3>2. ASSUME k <= left PROVE ~IsChild(list[k], dir)
      <4>1. CASE First < k
        BY <2>1, <2>3, <3>1, <3>2, <4>1, ChildrenFromKey
      <4>2. CASE ~ (First < k)
        BY <2>1, <2>2, <3>1, <4>2, ChildrenFromKey
      <4> QED
        BY <4>1, <4>2
    <3>3. ASSUME k > right PROVE ~IsChild(list[k], dir)
      BY <2>1, <2>2, <3>1, <3>3, ChildrenFromKey
    <3>4. ASSUME left < k, k <= right
          PROVE  Depth(list[k]) = Depth(key) /\ ~LessString(list[k], key)
      BY <2>2, <2>4, <3>4
    <3> QED
      BY <3>2, <3>3, <3>4
  <2>6. index'[1] = left /\ index'[2] = right /\ names' = <<>> /\ Len(names') = 0
    BY <1>1, <1>4, <2>1
  <2>7. ASSUME NEW k \in 1 .. Len(list) PROVE ~ (left < k /\ k <= left)
    BY <2>2
  <2>8. ListedSo(left)'
    <3>1. left' = left /\ list' = list /\ dir' = dir /\ key' = key
      BY <1>1
    <3>2. right <= Len(list) /\ left = left + 0
      BY <2>2
    <3>3. \A n \in 1 .. Len(names') : names'[n] = list'[left + n]
      BY <2>6
    <3> QED
      BY <2>2, <2>5, <2>6, <2>7, <3>1, <3>2, <3>3 DEF ListedSo
  <2>9. left' \in 0 .. Len(list')
    BY <1>1, <2>2
  <2>10. index'[1] # -1
    BY <2>2, <2>6
  <2> QED
    BY <1>2, <2>8, <2>9, <2>10 DEF LInv, Collected
<1> QED
  BY <1>3, <1>4

(* What is listed next is an entry of the directory.                       *)
LEMMA CollectLInv == ASSUME Setting, Named, LInv, Collect PROVE LInv'
<1>1. /\ IInv /\ Asked /\ TypeOK /\ pc = "list" /\ kind = "list" /\ pc' = "list"
      /\ index[1] # -1 /\ index[1] < index[2] /\ HasPrefix(list[index[1] + 1], dir)
      /\ names' = Append(names, list[index[1] + 1])
      /\ index' = <<index[1] + 1, index[2]>>
      /\ UNCHANGED <<list, kind, key, dir>>
  BY DEF LInv, IInv, Listing, Collect, InListing, tableVars, callVars
<1>2. PICK first \in 0 .. Len(list) : ListedSo(first)
  BY <1>1 DEF LInv, Collected
<1>3. /\ index[1] = first + Len(names) /\ index[1] <= index[2] /\ index[2] <= Len(list)
      /\ \A n \in 1 .. Len(names) : names[n] = list[first + n]
      /\ \A k \in 1 .. Len(list) :
           /\ k <= first \/ k > index[2] => ~IsChild(list[k], dir)
           /\ first < k /\ k <= index[1] => IsChild(list[k], dir)
           /\ index[1] < k /\ k <= index[2] =>
                Depth(list[k]) = Depth(key) /\ ~LessString(list[k], key)
  BY <1>2 DEF ListedSo
<1>4. /\ Len(names) \in Nat /\ Len(list) \in Nat /\ first \in Nat
      /\ index[1] \in Nat /\ index[2] \in Nat /\ index[1] + 1 \in 1 .. Len(list)
      /\ list[index[1] + 1] \in Paths /\ names \in Seq(Paths)
  <2>1. Len(names) \in Nat /\ Len(list) \in Nat /\ first \in Nat /\ index[2] \in Int
    BY <1>1, <1>2 DEF TypeOK
  <2>2. index[1] \in Nat
    BY <1>3, <2>1
  <2> QED
    BY <1>1, <1>3, <2>1, <2>2 DEF TypeOK
<1>5. IsChild(list[index[1] + 1], dir)
  <2>1. Depth(list[index[1] + 1]) = Depth(key) /\ ~LessString(list[index[1] + 1], key)
    BY <1>1, <1>3, <1>4
  <2>2. dir \in Dirs /\ key = WithSpace(dir)
    BY <1>1 DEF Asked
  <2> QED
    BY <1>1, <1>4, <2>1, <2>2, ChildrenFromKey
<1>6. /\ Len(names') = Len(names) + 1 /\ names'[Len(names) + 1] = list[index[1] + 1]
      /\ \A n \in 1 .. Len(names) : names'[n] = names[n]
  BY <1>1, <1>4
<1>7. index'[1] = index[1] + 1 /\ index'[2] = index[2]
  BY <1>1
<1>8. ASSUME NEW n \in 1 .. Len(names') PROVE names'[n] = list[first + n]
  <2>1. CASE n \in 1 .. Len(names)
    BY <1>3, <1>6, <2>1
  <2>2. CASE n = Len(names) + 1
    <3>1. first + n = index[1] + 1
      BY <1>3, <1>4, <2>2
    <3> QED
      BY <1>6, <2>2, <3>1
  <2> QED
    BY <1>4, <1>6, <2>1, <2>2
<1>9. ASSUME NEW k \in 1 .. Len(list)
      PROVE  /\ k <= first \/ k > index'[2] => ~IsChild(list[k], dir)
             /\ first < k /\ k <= index'[1] => IsChild(list[k], dir)
             /\ index'[1] < k /\ k <= index'[2] =>
                  Depth(list[k]) = Depth(key) /\ ~LessString(list[k], key)
  <2>1. k <= index[1] + 1 => k <= index[1] \/ k = index[1] + 1
    BY <1>4
  <2>2. index[1] + 1 < k => index[1] < k
    BY <1>4
  <2> QED
    BY <1>3, <1>5, <1>7, <2>1, <2>2
<1>10. ListedSo(first)'
  <2>1. first' = first /\ list' = list /\ dir' = dir /\ key' = key
    BY <1>1
  <2>2. index'[1] = first + Len(names') /\ index'[1] <= index'[2] /\ index'[2] <= Len(list)
    BY <1>1, <1>3, <1>4, <1>6, <1>7
  <2> QED
    BY <1>8, <1>9, <2>1, <2>2 DEF ListedSo
<1>11. Collected'
  <2>1. first \in 0 .. Len(list') /\ index'[1] # -1
    BY <1>1, <1>2, <1>4, <1>7
  <2> QED
    BY <1>10, <2>1 DEF Collected
<1> QED
  BY <1>1, <1>11, CollectIInv DEF LInv, Asked, ListingRight

(* The listing ends behind the last entry of the directory: what begins    *)
(* with the directory's path lies side by side.                            *)
LEMMA ListedLInv == ASSUME Setting, Named, LInv, Listed PROVE LInv'
<1>1. /\ IInv /\ Asked /\ TypeOK /\ IsSorted(list) /\ pc = "list" /\ kind = "list"
      /\ pc' = "done" /\ ~InListing
      /\ UNCHANGED <<list, kind, key, dir, index, names>>
  BY DEF LInv, IInv, Prepared, Listing, Listed, tableVars, callVars
<1>2. Len(list) \in Nat /\ Len(names) \in Nat
  BY <1>1 DEF TypeOK
<1>3. ListingRight'
  <2>1. CASE index[1] = -1
    <3>1. names = <<>> /\ \A k \in 1 .. Len(list) : ~IsChild(list[k], dir)
      BY <1>1, <2>1 DEF LInv, Collected
    <3>2. Len(names) = 0 /\ 0 \in 0 .. Len(list) - Len(names)
      BY <1>2, <3>1
    <3>3. \A k \in 1 .. Len(list) : k \notin 0 + 1 .. 0 + Len(names)
      BY <1>2, <3>2
    <3>4. \A n \in 1 .. Len(names) : names[n] = list[0 + n]
      BY <3>2
    <3> QED
      BY <1>1, <3>1, <3>2, <3>3, <3>4 DEF ListingRight
  <2>2. CASE index[1] # -1
    <3>1. PICK first \in 0 .. Len(list) : ListedSo(first)
      BY <1>1, <2>2 DEF LInv, Collected
    <3>2. /\ index[1] = first + Len(names) /\ index[1] <= index[2] /\ index[2] <= Len(list)
          /\ \A n \in 1 .. Len(names) : names[n] = list[first + n]
          /\ \A k \in 1 .. Len(list) :
               /\ k <= first \/ k > index[2] => ~IsChild(list[k], dir)
               /\ first < k /\ k <= index[1] => IsChild(list[k], dir)
               /\ index[1] < k /\ k <= index[2] =>
                    Depth(list[k]) = Depth(key) /\ ~LessString(list[k], key)
      BY <3>1 DEF ListedSo
    <3>3. first \in Nat /\ index[1] \in Nat /\ index[2] \in Int
      BY <1>1, <1>2, <3>1, <3>2 DEF TypeOK
    <3>4. ASSUME NEW k \in 1 .. Len(list), index[1] < k, k <= index[2]
          PROVE  ~IsChild(list[k], dir)
      <4> DEFINE n == index[1] + 1
                 e == list[n]
                 b == list[k]
      <4>1. n \in 1 .. Len(list) /\ index[1] < n /\ n <= index[2] /\ n <= k
        BY <1>2, <3>2, <3>3, <3>4
      <4>2. ~HasPrefix(e, dir)
        BY <1>1, <2>2, <3>3, <4>1 DEF InListing
      <4>3. /\ e \in Strings /\ b \in Strings /\ b \in Paths
            /\ Depth(e) = Depth(key) /\ Depth(b) = Depth(key)
            /\ ~LessString(e, key) /\ ~LessString(b, key)
        <5>1. e \in Strings /\ b \in Strings
          BY <1>1, <4>1, EntryType
        <5>2. b \in Paths
          BY <1>1 DEF TypeOK
        <5>3. Depth(e) = Depth(key) /\ ~LessString(e, key)
          BY <3>2, <4>1
        <5>4. Depth(b) = Depth(key) /\ ~LessString(b, key)
          BY <3>2, <3>4
        <5> QED
          BY <5>1, <5>2, <5>3, <5>4
      <4>4. /\ dir \in Dirs /\ key = WithSpace(dir) /\ key \in Strings /\ dir \in Strings
            /\ Agree(key, dir, Len(dir)) /\ Len(dir) \in Nat
        BY <1>1, DirectoryKey DEF Asked
      <4>5. ASSUME HasPrefix(b, dir) PROVE FALSE
        <5>1. n # k
          BY <4>2, <4>5
        <5>2. ~LessString(b, e)
          BY <1>1, <4>1, <4>3, <5>1, SortedByDepth
        <5>3. Agree(b, dir, Len(dir))
          BY <4>3, <4>4, <4>5, PrefixMeans
        <5> HIDE DEF e, b, n
        <5>4. Agree(e, dir, Len(dir))
          BY <4>3, <4>4, <5>2, <5>3, Sandwich
        <5> QED
          BY <4>2, <4>3, <4>4, <5>4, PrefixMeans
      <4> QED
        BY <4>3, <4>4, <4>5, DirectoryKey
    <3>5. first \in 0 .. Len(list) - Len(names)
      BY <1>2, <3>2, <3>3
    <3>6. ASSUME NEW k \in 1 .. Len(list)
          PROVE  IsChild(list[k], dir) <=> k \in first + 1 .. first + Len(names)
      <4>1. k <= first \/ (first < k /\ k <= index[1]) \/ (index[1] < k /\ k <= index[2]) \/ k > index[2]
        BY <3>3
      <4>2. k \in first + 1 .. first + Len(names) <=> first < k /\ k <= index[1]
        BY <1>2, <3>2, <3>3
      <4>3. index[1] < k => first < k /\ ~ (k <= index[1])
        BY <1>2, <3>2, <3>3
      <4>4. k > index[2] => ~ (k <= index[1])
        BY <3>2, <3>3
      <4>5. k <= first => ~ (first < k)
        BY <3>3
      <4> QED
        BY <3>2, <3>4, <4>1, <4>2, <4>3, <4>4, <4>5
    <3> QED
      BY <1>1, <3>2, <3>5, <3>6 DEF ListingRight
  <2> QED
    BY <2>1, <2>2
<1> QED
  BY <1>1, <1>3, ListedIInv DEF LInv, Asked, Collected

LEMMA NextLInv == ASSUME Setting, Named, LInv, [Next]_vars PROVE LInv'
<1>0. IInv'
  BY NextIInv DEF LInv
<1>1. CASE UNCHANGED vars
  <2>1. UNCHANGED <<list, pc, kind, key, dir, index, names>>
    BY <1>1 DEF vars, tableVars, callVars
  <2> QED
    BY <1>0, <2>1 DEF LInv, Asked, Collected, ListedSo, ListingRight
<1>2. CASE Add
  <2>1. pc' = "open" /\ UNCHANGED <<kind, key, dir, names>>
    BY <1>2 DEF Add, callVars
  <2> QED
    BY <1>0, <2>1, AskedLInv
<1>3. CASE EndOfOpen
  BY <1>3, CallLInv, KeyTypes DEF EndOfOpen
<1>4. ASSUME NEW p \in Keys, Find(p)
      PROVE  LInv'
  BY <1>4, CallLInv, KeyTypes DEF Find
<1>5. ASSUME NEW d \in Dirs, List(d)
      PROVE  LInv'
  BY <1>5, CallLInv, KeyTypes DEF List
<1>6. CASE Sort \/ FillDepth \/ FillEnd
  <2>1. /\ UNCHANGED <<kind, key, dir, names>> /\ pc' \notin {"list", "done"}
        /\ pc \in {"sort", "fill"}
    BY <1>6 DEF Sort, FillDepth, FillEnd, callVars
  <2> QED
    BY <1>0, <2>1, AskedLInv
<1>7. CASE Bounds
  <2>1. pc' = "probe" /\ pc = "bounds" /\ UNCHANGED <<kind, key, dir, names>>
    BY <1>7, DepthHasEntries DEF LInv, Bounds, callVars
  <2> QED
    BY <1>0, <2>1, AskedLInv
<1>8. CASE Above \/ Below
  <2>1. pc' = "probe" /\ pc = "probe" /\ UNCHANGED <<kind, key, dir, names>>
    BY <1>8 DEF Above, Below, callVars
  <2> QED
    BY <1>0, <2>1, AskedLInv
<1>9. CASE TooDeep \/ Hit \/ Miss \/ Collect \/ Listed
  BY <1>9, TooDeepLInv, HitLInv, MissLInv, CollectLInv, ListedLInv
<1> QED
  BY <1>1, <1>2, <1>3, <1>4, <1>5, <1>6, <1>7, <1>8, <1>9 DEF Next, Caller, Step, Search

(* ListDirectory returns the entries of its directory, each once, in the   *)
(* order of the list (lines 166-188), in archives of any size.             *)
THEOREM Listings == ASSUME Setting, Named PROVE Spec => []ListingRight
<1>1. Init => LInv
  BY InitIInv DEF Init, LInv, Asked, Collected, ListingRight
<1>2. LInv /\ [Next]_vars => LInv'
  BY NextLInv
<1>3. LInv => ListingRight
  BY DEF LInv
<1> QED
  BY <1>1, <1>2, <1>3, PTL DEF Spec
=============================================================================

------------------------------ MODULE FileList ------------------------------
(***************************************************************************)
(* The directory of an archive: FileList of FileListBinarySearch.h.        *)
(* OpenArchive adds the entries and looks up "" once; that first lookup    *)
(* sorts them by depth and path and fills a table that says where each     *)
(* depth begins.  Every later lookup is a binary search that does not      *)
(* compare the characters both ends of its interval are known to share     *)
(* with the key.                                                           *)
(*                                                                         *)
(* A path is a sequence of characters (positive integers), already         *)
(* normalised.  Indices count from 0 as in the code: entry i is list[i+1], *)
(* depthTable[d] is table[d+1].                                            *)
(***************************************************************************)
EXTENDS Integers, Sequences, FiniteSets

CONSTANTS
  Paths,       \* what an archive may contain
  Keys,        \* what is looked up
  Dirs,        \* what is listed
  Slash, Space,\* the two characters the code itself writes
  Archives     \* the archives considered: entries in the order of the central directory

ASSUME PathsAssumption ==
  /\ Slash \in Nat \ {0} /\ Space \in Nat \ {0}
  /\ Paths \subseteq Seq(Nat \ {0})
  /\ Keys \subseteq Seq(Nat \ {0})
  /\ Dirs \subseteq Seq(Nat \ {0})
  /\ Archives \subseteq Seq(Paths)

VARIABLES
  list,        \* m_fileList
  table,       \* depthTable
  sorted,
  rest,        \* entries OpenArchive has not read yet
  pc,
  i, depth,    \* the loop that fills the table
  kind, key,   \* the call: "find" (also Exists) or "list", and what it looks up
  dir,         \* the path ListDirectory was given
  left, count, \* the interval that may still hold the key
  right,
  startL, startR,  \* characters of the key the ends are known to share
  index,       \* what GetIndex returned
  names        \* what ListDirectory returned

tableVars  == <<list, table, sorted>>
fillVars   == <<i, depth>>
callVars   == <<kind, key, dir>>
searchVars == <<left, count, right, startL, startR>>
vars == <<tableVars, rest, pc, fillVars, callVars, searchVars, index, names>>

(***************************************************************************)
(* Paths.                                                                  *)
(***************************************************************************)
(* A path as a C string: it ends with a 0.                                 *)
At(p, k) == IF k <= Len(p) THEN p[k] ELSE 0

(* Directories end with a slash, which does not count.                     *)
Depth(p) == Cardinality({k \in 1 .. Len(p) - 1 : p[k] = Slash})

(* The first place, after the first s characters, where l and r differ.    *)
DifferFirstAt(l, r, s, k) ==
  /\ At(l, k) # At(r, k)
  /\ \A j \in s + 1 .. k - 1 : At(l, j) = At(r, j)

LessString(a, b) == \E k \in 1 .. Len(b) : DifferFirstAt(a, b, 0, k) /\ At(a, k) < At(b, k)

LessEntry(a, b) ==
  IF Depth(a) = Depth(b) THEN LessString(a, b) ELSE Depth(a) < Depth(b)

IsSorted(s) == \A j, k \in 1 .. Len(s) : j < k => ~LessEntry(s[k], s[j])

Entries(s) == {s[k] : k \in 1 .. Len(s)}

(* What std::sort may leave.                                               *)
Sortings(s) ==
  {r \in [1 .. Len(s) -> Entries(s)] :
     /\ IsSorted(r)
     /\ \A p \in Entries(s) : Cardinality({k \in 1 .. Len(s) : r[k] = p})
                            = Cardinality({k \in 1 .. Len(s) : s[k] = p})}

(* std::vector::resize.                                                    *)
Resize(t, n, v) == [k \in 1 .. n |-> IF k <= Len(t) THEN t[k] ELSE v]

Smaller(a, b) == IF a <= b THEN a ELSE b

(***************************************************************************)
(* OpenArchive.                                                            *)
(***************************************************************************)
Init ==
  /\ list = <<>> /\ table = <<>> /\ sorted = FALSE
  /\ rest \in Archives
  /\ pc = "open"
  /\ i = 0 /\ depth = 0
  /\ kind = "find" /\ key = <<>> /\ dir = <<>>
  /\ left = 0 /\ count = 0 /\ right = 0 /\ startL = 0 /\ startR = 0
  /\ index = <<-1, -1>> /\ names = <<>>

Add ==
  /\ pc = "open" /\ rest # <<>>
  /\ list' = Append(list, Head(rest))
  /\ rest' = Tail(rest)
  /\ sorted' = FALSE
  /\ UNCHANGED <<table, pc, fillVars, callVars, searchVars, index, names>>

(* FindEntry, Exists and ListDirectory call GetIndex.                      *)
Call(k, p, d) ==
  /\ kind' = k /\ key' = p /\ dir' = d
  /\ left' = 0 /\ count' = 0 /\ right' = 0 /\ startL' = 0 /\ startR' = 0
  /\ index' = <<-1, -1>> /\ names' = <<>>
  /\ i' = 0 /\ depth' = 0
  /\ pc' = IF sorted THEN "bounds" ELSE "sort"
  /\ UNCHANGED <<tableVars, rest>>

EndOfOpen ==
  /\ pc = "open" /\ rest = <<>>
  /\ Call("find", <<>>, <<>>)

Find(p) == pc = "done" /\ Call("find", p, <<>>)

(* path / " ": a separator is added unless the path ends with one.         *)
WithSpace(d) ==
  IF d = <<>> THEN <<Space>>
  ELSE IF d[Len(d)] = Slash THEN Append(d, Space) ELSE d \o <<Slash, Space>>

List(d) == pc = "done" /\ Call("list", WithSpace(d), d)

(***************************************************************************)
(* GetIndex: sort and fill the table ...                                   *)
(***************************************************************************)
Sort ==
  /\ pc = "sort"
  /\ list' \in Sortings(list)
  /\ table' = Append(table, 0)
  /\ i' = 0 /\ depth' = 0
  /\ pc' = "fill"
  /\ UNCHANGED <<sorted, rest, callVars, searchVars, index, names>>

(* A new depth begins at entry i; depths that were jumped over begin where *)
(* the one before began.                                                   *)
\* Mutant: the depth is said to begin after its first entry.
FillDepthLate ==
  /\ pc = "fill" /\ i < Len(list)
  /\ LET d == Depth(list[i + 1])
     IN  IF d # depth
         THEN /\ table' = [Resize(table, d + 1, table[depth + 1]) EXCEPT ![d + 1] = i + 1]
              /\ depth' = d
         ELSE UNCHANGED <<table, depth>>
  /\ i' = i + 1
  /\ UNCHANGED <<list, sorted, rest, pc, callVars, searchVars, index, names>>

FillDepth ==
  /\ pc = "fill" /\ i < Len(list)
  /\ LET d == Depth(list[i + 1])
     IN  IF d # depth
         THEN /\ table' = [Resize(table, d + 1, table[depth + 1]) EXCEPT ![d + 1] = i]
              /\ depth' = d
         ELSE UNCHANGED <<table, depth>>
  /\ i' = i + 1
  /\ UNCHANGED <<list, sorted, rest, pc, callVars, searchVars, index, names>>

FillEnd ==
  /\ pc = "fill" /\ i = Len(list)
  /\ table' = Append(table, Len(list))
  /\ sorted' = TRUE
  /\ pc' = "bounds"
  /\ UNCHANGED <<list, rest, fillVars, callVars, searchVars, index, names>>

(***************************************************************************)
(* ... then search among the entries of the key's depth.                   *)
(***************************************************************************)
Return(a, b) ==
  /\ index' = <<a, b>>
  /\ pc' = IF kind = "list" THEN "list" ELSE "done"

TooDeep ==
  /\ pc = "bounds"
  /\ Depth(key) + 1 >= Len(table)
  /\ Return(-1, -1)
  /\ UNCHANGED <<tableVars, rest, fillVars, callVars, searchVars, names>>

Bounds ==
  /\ pc = "bounds"
  /\ Depth(key) + 1 < Len(table)
  /\ left' = table[Depth(key) + 1]
  /\ right' = table[Depth(key) + 2]
  /\ count' = right' - left'
  /\ IF count' = 0
     THEN Return(left', right')
     ELSE pc' = "probe" /\ UNCHANGED index
  /\ UNCHANGED <<tableVars, rest, fillVars, callVars, startL, startR, names>>

(* The characters strcmpl need not look at.                                *)
\* Mutant: what the last probe matched is skipped, whatever the other end.
StartEither == IF startL >= startR THEN startL ELSE startR

Start == Smaller(startL, startR)

Middle == left + count \div 2

(* The comparison meets no difference up to the end of the entry.          *)
Hit ==
  /\ pc = "probe" /\ count > 0
  /\ \A k \in Start + 1 .. Len(list[Middle + 1]) + 1 : At(list[Middle + 1], k) = At(key, k)
  /\ Return(Middle, Middle)
  /\ UNCHANGED <<tableVars, rest, fillVars, callVars, searchVars, names>>

\* Mutant: the probed entry stays in the interval.
AboveKeepsMiddle ==
  /\ pc = "probe" /\ count > 0
  /\ \E k \in Start + 1 .. Len(list[Middle + 1]) + 1 :
       /\ DifferFirstAt(list[Middle + 1], key, Start, k)
       /\ At(list[Middle + 1], k) < At(key, k)
       /\ startL' = k - 1
  /\ left' = Middle
  /\ count' = count - count \div 2
  /\ UNCHANGED <<tableVars, rest, pc, fillVars, callVars, right, startR, index, names>>

Above ==
  /\ pc = "probe" /\ count > 0
  /\ \E k \in Start + 1 .. Len(list[Middle + 1]) + 1 :
       /\ DifferFirstAt(list[Middle + 1], key, Start, k)
       /\ At(list[Middle + 1], k) < At(key, k)
       /\ startL' = k - 1
  /\ left' = Middle + 1
  /\ count' = count - (count \div 2 + 1)
  /\ UNCHANGED <<tableVars, rest, pc, fillVars, callVars, right, startR, index, names>>

\* Mutant: one entry too many is cut off.
BelowCutsMore ==
  /\ pc = "probe" /\ count > 0
  /\ \E k \in Start + 1 .. Len(list[Middle + 1]) + 1 :
       /\ DifferFirstAt(list[Middle + 1], key, Start, k)
       /\ At(list[Middle + 1], k) > At(key, k)
       /\ startR' = k - 1
  /\ count' = count \div 2 - 1
  /\ UNCHANGED <<tableVars, rest, pc, fillVars, callVars, left, right, startL, index, names>>

Below ==
  /\ pc = "probe" /\ count > 0
  /\ \E k \in Start + 1 .. Len(list[Middle + 1]) + 1 :
       /\ DifferFirstAt(list[Middle + 1], key, Start, k)
       /\ At(list[Middle + 1], k) > At(key, k)
       /\ startR' = k - 1
  /\ count' = count \div 2
  /\ UNCHANGED <<tableVars, rest, pc, fillVars, callVars, left, right, startL, index, names>>

\* Mutant: an exact lookup returns the lower bound too.
MissLowerBound ==
  /\ pc = "probe" /\ count = 0
  /\ Return(left, right)
  /\ UNCHANGED <<tableVars, rest, fillVars, callVars, searchVars, names>>

Miss ==
  /\ pc = "probe" /\ count = 0
  /\ IF kind = "list" THEN Return(left, right) ELSE Return(-1, -1)
  /\ UNCHANGED <<tableVars, rest, fillVars, callVars, searchVars, names>>

(***************************************************************************)
(* ListDirectory: from the lower bound on, as long as the path that was    *)
(* given is a prefix.                                                      *)
(***************************************************************************)
HasPrefix(p, d) == Len(d) <= Len(p) /\ SubSeq(p, 1, Len(d)) = d

\* Mutant: the listing goes on to the end of the depth.
InListingAll == index[1] # -1 /\ index[1] < index[2]

InListing ==
  index[1] # -1 /\ index[1] < index[2] /\ HasPrefix(list[index[1] + 1], dir)

Collect ==
  /\ pc = "list" /\ InListing
  /\ names' = Append(names, list[index[1] + 1])
  /\ index' = <<index[1] + 1, index[2]>>
  /\ UNCHANGED <<tableVars, rest, pc, fillVars, callVars, searchVars>>

Listed ==
  /\ pc = "list" /\ ~InListing
  /\ pc' = "done"
  /\ UNCHANGED <<tableVars, rest, fillVars, callVars, searchVars, index, names>>

(***************************************************************************)
(* The specification.                                                      *)
(***************************************************************************)
Caller ==
  \/ Add
  \/ EndOfOpen
  \/ \E p \in Keys : Find(p)
  \/ \E d \in Dirs : List(d)

Search == TooDeep \/ Bounds \/ Hit \/ Above \/ Below \/ Miss

Step == Sort \/ FillDepth \/ FillEnd \/ Search \/ Collect \/ Listed

Next == Caller \/ Step

Spec == Init /\ [][Next]_vars

(* A call runs to its end.                                                 *)
FairSpec == Spec /\ WF_vars(Step)

(***************************************************************************)
(* Properties.                                                             *)
(***************************************************************************)
(* Every depth up to the deepest has an entry (archives with entries for   *)
(* their directories have: the parent of an entry is less deep by one).    *)
Closed(S) ==
  /\ S # {}
  /\ \A p \in S : \A d \in 0 .. Depth(p) : \E q \in S : Depth(q) = d

GapFree(s) == Closed(Entries(s))

States == {"open", "sort", "fill", "bounds", "probe", "list", "done"}

(* The types of the variables.                                             *)
TypeOK ==
  /\ list \in Seq(Paths)
  /\ table \in Seq(Nat)
  /\ sorted \in BOOLEAN
  /\ rest \in Seq(Paths)
  /\ pc \in States
  /\ i \in Nat /\ depth \in Nat
  /\ kind \in {"find", "list"}
  /\ key \in Seq(Nat \ {0}) /\ dir \in Seq(Nat \ {0})
  /\ left \in Nat /\ right \in Nat /\ count \in Nat
  /\ startL \in Nat /\ startR \in Nat
  /\ index \in Int \X Int
  /\ names \in Seq(Paths)

(* Once filled, the table says where each depth begins, and the search     *)
(* never leaves the list (lines 79-103).                                   *)
TableRight ==
  sorted =>
    /\ \A d \in 1 .. Len(table) :
         /\ table[d] \in 0 .. Len(list)
         /\ \A k \in 1 .. Len(list) : k <= table[d] <=> Depth(list[k]) + 1 < d
    /\ \A k \in 1 .. Len(list) : Depth(list[k]) + 2 <= Len(table)

(* The comparison skips only what every entry that is still in question    *)
(* shares with the key (lines 124, 135, 140, 142).                         *)
SkipSound ==
  pc = "probe" =>
    \A k \in left + 1 .. left + count : \A j \in 1 .. Start : At(list[k], j) = At(key, j)

(* A lookup finds an entry with exactly the path it was given if there is  *)
(* one, and says so if there is none (README.md:12: archives are           *)
(* accessible as if they were unpacked).                                   *)
LookupRight ==
  pc = "done" /\ kind = "find" /\ key \in Keys =>
    IF index[1] = -1 THEN key \notin Entries(list)
    ELSE index[1] + 1 \in 1 .. Len(list) /\ list[index[1] + 1] = key

(* Listing a directory yields its entries, each of them once per entry, in *)
(* order: names is the part of the list in which they are, and they are    *)
(* nowhere else (README.md:12: as if the archive was unpacked).            *)
IsChild(p, d) ==
  LET prefix == IF d = <<>> \/ d[Len(d)] = Slash THEN d ELSE Append(d, Slash)
  IN  /\ Depth(p) = Depth(Append(prefix, Space))
      /\ p # prefix
      /\ HasPrefix(p, prefix)

ListingRight ==
  pc = "done" /\ kind = "list" =>
    \E first \in 0 .. Len(list) - Len(names) :
      /\ \A k \in 1 .. Len(list) :
           IsChild(list[k], dir) <=> k \in first + 1 .. first + Len(names)
      /\ \A n \in 1 .. Len(names) : names[n] = list[first + n]

(* Every call returns: the interval of the search shrinks.                 *)
Answered == pc \notin {"open", "done"} ~> pc = "done"
=============================================================================
